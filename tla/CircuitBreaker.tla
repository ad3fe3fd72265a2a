---------------------------- MODULE CircuitBreaker ----------------------------
(***************************************************************************)
(* The circuit breaker around the calls to another service                   *)
(* (utils/resilience.go).  Each client of pkg/ has one; the calls run outside *)
(* its lock, so results of calls that it admitted in an older state come in    *)
(* whenever they come.                                                        *)
(*                                                                         *)
(* The time since the last failure is an age that stops where it no longer     *)
(* matters.  A call that its caller cancels counts as a failure of the          *)
(* service, as in the code.                                                    *)
(***************************************************************************)
EXTENDS Integers, FiniteSets

CONSTANTS
    Calls,         \* the calls that may run at the same time
    Threshold,
    ResetTimeout

ASSUME BreakerAssumption == IsFiniteSet(Calls) /\ Threshold \in Nat \ {0} /\ ResetTimeout \in Nat

VARIABLES
    state, failures,
    age,    \* since the last failure
    call,   \* whether each call is running, and whether it can still succeed
    well,   \* whether calls that begin succeed: the service answers, callers wait for it
    tries,  \* history: calls admitted to a service that is not well, since the breaker last opened
    late    \* history: calls that succeeded in that time, having begun before

breakerVars == <<state, failures, age, call, well, tries, late>>

BreakerAges == 0 .. ResetTimeout + 1

\* The types; a closed breaker has counted fewer failures than its threshold, so that the one that
\* reaches it always opens it, whatever calls end in between.
BreakerTypeOK ==
    /\ state \in {"closed", "half-open", "open"}
    /\ failures \in 0 .. Threshold + 1
    /\ age \in BreakerAges
    /\ call \in [Calls -> {"idle", "good", "bad"}]
    /\ well \in BOOLEAN
    /\ tries \in Nat /\ late \in Nat
    /\ state = "closed" => failures < Threshold

BreakerInit ==
    /\ state = "closed" /\ failures = 0
    /\ age = ResetTimeout + 1
    /\ call = [c \in Calls |-> "idle"]
    /\ well = TRUE
    /\ tries = 0 /\ late = 0

-----------------------------------------------------------------------------
(* Execute *)

Admitted == state # "open" \/ age > ResetTimeout

\* An open breaker that waited long enough turns half-open, and then admits everyone.
Admit(c) ==
    /\ call[c] = "idle"
    /\ Admitted
    /\ state' = IF state = "open" THEN "half-open" ELSE state
    /\ call' = [call EXCEPT ![c] = IF well THEN "good" ELSE "bad"]
    /\ tries' = IF well THEN 0 ELSE tries + 1
    /\ UNCHANGED <<failures, age, well, late>>

\* Mutant of Refused: a refused call counts as a failure.
Refused_StartsOver == age' = 0

\* A refused call changes nothing.
Refused == age' = age

Refuse(c) ==
    /\ call[c] = "idle"
    /\ ~Admitted
    /\ Refused
    /\ UNCHANGED <<state, failures, call, well, tries, late>>

\* Mutant of Opens: only the failure that reaches the threshold opens the breaker.
Opens_Exactly(n) == n = Threshold

Opens(n) == n >= Threshold

\* Past the threshold the count no longer matters; it is kept small.
Counted(n) == IF n < Threshold + 1 THEN n ELSE Threshold + 1

\* The failure counts in whatever state the breaker is by now.
Fail(c) ==
    /\ call[c] = "bad"
    /\ failures' = Counted(failures + 1)
    /\ age' = 0
    /\ state' = IF Opens(failures + 1) THEN "open" ELSE state
    /\ tries' = IF Opens(failures + 1) THEN 0 ELSE tries
    /\ late' = IF Opens(failures + 1) THEN 0 ELSE late
    /\ call' = [call EXCEPT ![c] = "idle"]
    /\ UNCHANGED well

\* Mutant of AfterSuccess: a success closes the breaker in every state but leaves the count.
AfterSuccess_KeepsCount == [state |-> "closed", failures |-> failures]

\* A success closes a half-open breaker and starts the count again; an open one stays open.
AfterSuccess == [state |-> IF state = "half-open" THEN "closed" ELSE state, failures |-> 0]

Succeed(c) ==
    /\ call[c] = "good"
    /\ state' = AfterSuccess.state
    /\ failures' = AfterSuccess.failures
    /\ late' = IF well THEN 0 ELSE late + 1
    /\ call' = [call EXCEPT ![c] = "idle"]
    /\ UNCHANGED <<age, well, tries>>

-----------------------------------------------------------------------------
(* The service and the clock *)

\* Calls that run when the service breaks may fail; calls that run when it recovers still fail.
Break ==
    /\ well
    /\ well' = FALSE
    /\ \E hit \in SUBSET {c \in Calls : call[c] = "good"} :
         call' = [c \in Calls |-> IF c \in hit THEN "bad" ELSE call[c]]
    /\ tries' = 0 /\ late' = 0
    /\ UNCHANGED <<state, failures, age>>

Recover ==
    /\ ~well
    /\ well' = TRUE
    /\ tries' = 0 /\ late' = 0
    /\ UNCHANGED <<state, failures, age, call>>

BreakerTick ==
    /\ age' = IF age > ResetTimeout THEN age ELSE age + 1
    /\ UNCHANGED <<state, failures, call, well, tries, late>>

End(c) == Fail(c) \/ Succeed(c)
Arrive(c) == Admit(c) \/ Refuse(c)

BreakerNext ==
    \/ Break \/ Recover \/ BreakerTick
    \/ \E c \in Calls : Arrive(c) \/ End(c)

BreakerSpec == BreakerInit /\ [][BreakerNext]_breakerVars

\* Time passes, a call ends because it has a time limit, and somebody calls again and again: each
\* signup and each mail does.
BreakerFairness ==
    /\ WF_breakerVars(BreakerTick)
    /\ \A c \in Calls : WF_breakerVars(End(c)) /\ WF_breakerVars(Arrive(c))

BreakerFairSpec == BreakerSpec /\ BreakerFairness

-----------------------------------------------------------------------------
(* Properties *)

\* Between two openings a service that does not answer gets no more calls than it takes to reach the
\* threshold, once more for each older call that still succeeds, and those that run meanwhile: also
\* a half-open breaker, which admits everyone, does not let them through for longer.
LoadOnABrokenService ==
    tries <= (late + 1) * (Threshold - 1) + Cardinality(Calls)

\* A breaker whose service is well again closes and stays closed, whatever late failures and
\* successes of older calls come in on the way.
ClosesInTheEnd == <>[]well => <>[](state = "closed")

=============================================================================
