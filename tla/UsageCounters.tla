---------------------------- MODULE UsageCounters ----------------------------
(***************************************************************************)
(* The usage counters of one user (services/entitlement.go: Consume and      *)
(* Release; repositories/entitlement.go: ConsumeUsage and ReleaseUsage).      *)
(* Other services consume before they act and release what they did not use;  *)
(* when the answer to a release is lost they repeat it.                       *)
(*                                                                         *)
(* One database write is one step.  The limits do not change here: how long    *)
(* an old limit is still read is a question of Entitlements.                   *)
(***************************************************************************)
EXTENDS Integers

CONSTANTS
    Counters,
    Monthly,    \* the counters that have one value per month
    Limits,     \* the limit of each counter that has one
    Uses,       \* what a call consumes: an amount for every counter of one feature
    Requests,   \* the calls in flight and the consumptions that may still be released
    MaxMonth,   \* bound on the months that pass
    MaxStray    \* bound on the units released from the wrong counter

ASSUME UsageAssumption ==
    /\ Monthly \subseteq Counters
    /\ DOMAIN Limits \subseteq Counters
    /\ \A c \in DOMAIN Limits : Limits[c] \in Nat
    /\ \A use \in Uses : DOMAIN use \subseteq Counters /\ \A c \in DOMAIN use : use[c] \in Nat
    /\ MaxMonth \in Nat /\ MaxStray \in Nat

VARIABLES
    month,
    exists,   \* whether the usage document exists
    counter,  \* the stored value of each key, or Absent
    req,
    used,     \* history: consumed under each key and not released
    stray     \* history: released from each key although it was consumed under another one, or twice

vars == <<month, exists, counter, req, used, stray>>

Months == 0 .. MaxMonth
Keys == Counters \X Months

\* Only a monthly counter has the month in its key.
CounterKey(c, m) == <<c, IF c \in Monthly THEN m ELSE 0>>

Absent == -1
Value(k) == IF counter[k] = Absent THEN 0 ELSE counter[k]

NoUse == [c \in {} |-> 0]
Idle == [pc |-> "idle", month |-> 0, use |-> NoUse, repeated |-> FALSE]

\* month is the time that Consume read first, repeated says that a release was done once already.
Request == [pc : {"idle", "ensure", "zero", "update", "denied", "granted"}, month : Months,
            use : Uses \cup {NoUse}, repeated : BOOLEAN]

\* What a user is shown of a counter: its value in the current month, zero when there is none.
Usage(c) == Value(CounterKey(c, month))

\* A counter is never below zero, and what a user is shown of one never above its limit.
UsageTypeOK ==
    /\ month \in Months
    /\ exists \in BOOLEAN
    /\ counter \in [Keys -> Nat \cup {Absent}]
    /\ req \in [Requests -> Request]
    /\ used \in [Keys -> Int]
    /\ stray \in [Keys -> Nat]
    /\ \A c \in DOMAIN Limits : Usage(c) <= Limits[c]

Init ==
    /\ month = 0
    /\ exists = FALSE
    /\ counter = [k \in Keys |-> Absent]
    /\ req = [q \in Requests |-> Idle]
    /\ used = [k \in Keys |-> 0]
    /\ stray = [k \in Keys |-> 0]

At(q, pc) == req[q].pc = pc
Goto(q, pc) == req' = [req EXCEPT ![q].pc = pc]

\* The amount that a use has for a key under month m, zero for every other key.
Amount(use, m, k) == IF k[1] \in DOMAIN use /\ k = CounterKey(k[1], m) THEN use[k[1]] ELSE 0

Named(use, m, k) == k[1] \in DOMAIN use /\ k = CounterKey(k[1], m)

-----------------------------------------------------------------------------
(* Consume *)

\* The month is read once, before the entitlements are resolved; the keys of both maps carry it.
Consume(q, use) ==
    /\ At(q, "idle")
    /\ req' = [req EXCEPT ![q] = [Idle EXCEPT !.pc = "ensure", !.month = month, !.use = use]]
    /\ UNCHANGED <<month, exists, counter, used, stray>>

\* The upsert writes its zeros only when it inserts the document.
EnsureDocument(q) ==
    /\ At(q, "ensure")
    /\ exists' = TRUE
    /\ counter' = [k \in Keys |-> IF ~exists /\ Named(req[q].use, req[q].month, k) THEN 0 ELSE counter[k]]
    /\ Goto(q, "zero")
    /\ UNCHANGED <<month, used, stray>>

\* Mutant of Zeroed: a counter that is not there stays away.
Zeroed_Nothing(use, m) == counter

\* $ifNull: a counter that is there keeps its value.
Zeroed(use, m) == [k \in Keys |-> IF Named(use, m, k) /\ counter[k] = Absent THEN 0 ELSE counter[k]]

ZeroMissing(q) ==
    /\ At(q, "zero")
    /\ counter' = Zeroed(req[q].use, req[q].month)
    /\ Goto(q, "update")
    /\ UNCHANGED <<month, exists, used, stray>>

\* Mutant of Matches: the counters are checked before the deltas are added.
Matches_BeforeTheDeltas(use, m) ==
    \A c \in DOMAIN use \cap DOMAIN Limits :
      LET k == CounterKey(c, m) IN counter[k] # Absent /\ counter[k] <= Limits[c]

\* The filter of the conditional update; a counter that is not there matches nothing.
Matches(use, m) ==
    \A c \in DOMAIN use \cap DOMAIN Limits :
      LET k == CounterKey(c, m) IN counter[k] # Absent /\ counter[k] <= Limits[c] - use[c]

\* All counters of the feature are increased together, or none.
Grant(q) ==
    LET use == req[q].use
        m == req[q].month
    IN  /\ At(q, "update")
        /\ exists /\ Matches(use, m)
        /\ counter' = [k \in Keys |-> IF Named(use, m, k) THEN Value(k) + Amount(use, m, k) ELSE counter[k]]
        /\ used' = [k \in Keys |-> used[k] + Amount(use, m, k)]
        /\ Goto(q, "granted")
        /\ UNCHANGED <<month, exists, stray>>

Deny(q) ==
    /\ At(q, "update")
    /\ ~(exists /\ Matches(req[q].use, req[q].month))
    /\ Goto(q, "denied")
    /\ UNCHANGED <<month, exists, counter, used, stray>>

\* quotaDenial reads the counters again, only to word the answer.
AnswerDenial(q) ==
    /\ At(q, "denied")
    /\ req' = [req EXCEPT ![q] = Idle]
    /\ UNCHANGED <<month, exists, counter, used, stray>>

-----------------------------------------------------------------------------
(* Release *)

Least(m, n) == IF m < n THEN m ELSE n

\* Mutant of Lowered: the counter is lowered without a floor.
Lowered_NoFloor(k, n) == Value(k) - n

\* Nothing is taken below zero.
Lowered(k, n) == IF Value(k) < n THEN 0 ELSE Value(k) - n

\* The release uses the counters of the current month, whatever month the consumption counted in,
\* and does not insert a document.
ReleaseWrite(q) ==
    LET use == req[q].use
    IN  /\ counter' = [k \in Keys |-> IF exists /\ Named(use, month, k) THEN Lowered(k, Amount(use, month, k))
                                                                         ELSE counter[k]]
        /\ used' = [k \in Keys |-> used[k] - (IF req[q].repeated THEN 0 ELSE Amount(use, req[q].month, k))]
        /\ stray' = [k \in Keys |-> stray[k] +
                       (IF req[q].repeated \/ k # CounterKey(k[1], req[q].month) THEN Amount(use, month, k) ELSE 0)]
        /\ \A k \in Keys : stray'[k] <= MaxStray
        /\ UNCHANGED <<month, exists>>

Release(q) ==
    /\ At(q, "granted")
    /\ ReleaseWrite(q)
    /\ req' = [req EXCEPT ![q] = Idle]

\* The answer is lost and the caller will repeat the release.
ReleaseUnanswered(q) ==
    /\ At(q, "granted")
    /\ ~req[q].repeated
    /\ ReleaseWrite(q)
    /\ req' = [req EXCEPT ![q].repeated = TRUE]

\* The caller used what it consumed, or gives up releasing it.
Finish(q) ==
    /\ At(q, "granted")
    /\ req' = [req EXCEPT ![q] = Idle]
    /\ UNCHANGED <<month, exists, counter, used, stray>>

\* A database error or a crash between the writes of Consume.
Abort(q) ==
    /\ req[q].pc \in {"ensure", "zero", "update"}
    /\ req' = [req EXCEPT ![q] = Idle]
    /\ UNCHANGED <<month, exists, counter, used, stray>>

NextMonth ==
    /\ month < MaxMonth
    /\ month' = month + 1
    /\ UNCHANGED <<exists, counter, req, used, stray>>

-----------------------------------------------------------------------------

Call(q) ==
    \/ \E use \in Uses : Consume(q, use)
    \/ EnsureDocument(q) \/ ZeroMissing(q) \/ Grant(q) \/ Deny(q) \/ AnswerDenial(q) \/ Abort(q)
    \/ Release(q) \/ ReleaseUnanswered(q) \/ Finish(q)

Next == NextMonth \/ \E q \in Requests : Call(q)

Spec == Init /\ [][Next]_vars

-----------------------------------------------------------------------------
(* Properties *)

LimitedKeys == {k \in Keys : k[1] \in DOMAIN Limits}

Q == INSTANCE Quota WITH Bound <- [k \in LimitedKeys |-> Limits[k[1]]]

\* However calls, months and releases interleave, the three writes of Consume take a quota: all the
\* counters of a use or none, and no further than the limit, except for what was released from a
\* counter without belonging to it, by a release after the end of the month (storageKeys uses the
\* current month) or a repeated one.
ImplementsQuota == Q!Spec

\* What was consumed under a key and not given back exceeds the limit by no more than that.
LimitHolds == Q!Holds

\* The three writes of ConsumeUsage refuse nothing that fits: a refused call would have passed a
\* limit, it does not fail for a counter of a new month or of a document made for another feature.
NoFalseDenial ==
    [][\A q \in Requests :
         At(q, "update") /\ req'[q].pc = "denied"
           => \E c \in DOMAIN req[q].use \cap DOMAIN Limits :
                Value(CounterKey(c, req[q].month)) + req[q].use[c] > Limits[c]]_vars

=============================================================================
