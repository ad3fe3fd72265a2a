------------------------- MODULE UsageCountersProofs -------------------------
(***************************************************************************)
(* The usage counters implement a quota, whatever the counters, the limits,  *)
(* the uses and the calls in flight.                                         *)
(***************************************************************************)
EXTENDS UsageCounters, TLAPS

TypeInv ==
    /\ month \in Months
    /\ exists \in BOOLEAN
    /\ counter \in [Keys -> Nat \cup {Absent}]
    /\ req \in [Requests -> Request]
    /\ used \in [Keys -> Int]
    /\ stray \in [Keys -> Nat]

\* No stored value exceeds its limit, and each accounts for what is used but for what strayed.
Bounded == \A k \in LimitedKeys : Value(k) <= Limits[k[1]]
Accounted == \A k \in Keys : used[k] <= Value(k) + stray[k]


\* Nothing is counted without a document.
Empty == ~exists => \A k \in Keys : Value(k) = 0

IInv == TypeInv /\ Bounded /\ Accounted /\ Empty

-----------------------------------------------------------------------------

\* A use names counters and amounts, and its amount for a key is that of the counter, or zero.
LEMMA Amounts ==
    ASSUME NEW use \in Uses \cup {NoUse}, NEW m \in Months, NEW k \in Keys
    PROVE  /\ Amount(use, m, k) \in Nat
           /\ Named(use, m, k) => Amount(use, m, k) = use[k[1]] /\ use[k[1]] \in Nat /\ k[1] \in DOMAIN use
           /\ ~Named(use, m, k) => Amount(use, m, k) = 0
  BY UsageAssumption DEF Amount, Named, NoUse

\* A stored value is a natural number.
LEMMA Values ==
    ASSUME TypeInv, NEW k \in Keys
    PROVE  Value(k) \in Nat
  BY DEF TypeInv, Value, Absent

\* The key of a counter.
LEMMA KeyOf ==
    ASSUME NEW c \in Counters, NEW m \in Months
    PROVE  CounterKey(c, m) \in Keys /\ CounterKey(c, m)[1] = c
  BY UsageAssumption DEF CounterKey, Keys, Months

\* Limits are natural numbers.
LEMMA LimitOf ==
    ASSUME NEW k \in LimitedKeys
    PROVE  k \in Keys /\ k[1] \in DOMAIN Limits /\ Limits[k[1]] \in Nat
  BY UsageAssumption DEF LimitedKeys

\* A request in flight has a use and a month.
LEMMA RequestOf ==
    ASSUME TypeInv, NEW q \in Requests
    PROVE  req[q].use \in Uses \cup {NoUse} /\ req[q].month \in Months /\ req[q].repeated \in BOOLEAN
  BY DEF TypeInv, Request

-----------------------------------------------------------------------------
(* What the writes do to one key *)

\* A granted use adds its amounts, and where it adds something it stays within the limit.
LEMMA GrantAdds ==
    ASSUME IInv, NEW q \in Requests, Grant(q), NEW k \in Keys
    PROVE  /\ Value(k)' = Value(k) + Amount(req[q].use, req[q].month, k)
           /\ counter'[k] \in Nat \cup {Absent}
           /\ used'[k] = used[k] + Amount(req[q].use, req[q].month, k)
           /\ k \in LimitedKeys /\ Named(req[q].use, req[q].month, k)
                => Value(k)' <= Limits[k[1]]
<1> DEFINE use == req[q].use
           m == req[q].month
<1>0. use \in Uses \cup {NoUse} /\ m \in Months
  BY RequestOf DEF IInv
<1>1. Amount(use, m, k) \in Nat /\ Value(k) \in Nat
  BY <1>0, Amounts, Values DEF IInv
<1>2. counter' = [j \in Keys |-> IF Named(use, m, j) THEN Value(j) + Amount(use, m, j) ELSE counter[j]]
  BY DEF Grant
<1>3. counter'[k] = IF Named(use, m, k) THEN Value(k) + Amount(use, m, k) ELSE counter[k]
  BY <1>2
<1>4. Value(k)' = Value(k) + Amount(use, m, k)
  <2>1. CASE Named(use, m, k)
    BY <2>1, <1>1, <1>3 DEF Value, Absent
  <2>2. CASE ~Named(use, m, k)
    <3>1. Amount(use, m, k) = 0
      BY <2>2, <1>0, Amounts
    <3> QED BY <2>2, <3>1, <1>1, <1>3 DEF Value
  <2> QED BY <2>1, <2>2
<1>5. counter'[k] \in Nat \cup {Absent}
  BY <1>1, <1>3 DEF IInv, TypeInv
<1>6. used'[k] = used[k] + Amount(use, m, k)
  BY DEF Grant
<1>7. ASSUME k \in LimitedKeys, Named(use, m, k)
      PROVE  Value(k)' <= Limits[k[1]]
  <2>1. k[1] \in DOMAIN use \cap DOMAIN Limits /\ k = CounterKey(k[1], m)
    BY <1>7, LimitOf DEF Named
  <2>2. Matches(use, m)
    BY DEF Grant
  <2>3. counter[k] # Absent /\ counter[k] <= Limits[k[1]] - use[k[1]]
    BY <2>1, <2>2 DEF Matches
  <2>4. Value(k) = counter[k]
    BY <2>3 DEF Value
  <2>5. Amount(use, m, k) = use[k[1]] /\ use[k[1]] \in Nat
    BY <1>7, <1>0, Amounts
  <2> QED BY <2>3, <2>4, <2>5, <1>1, <1>4, <1>7, LimitOf
<1> QED BY <1>4, <1>5, <1>6, <1>7

\* A release lowers a value by no more than it gives back or strays.
LEMMA ReleaseLowers ==
    ASSUME IInv, NEW q \in Requests, ReleaseWrite(q), NEW k \in Keys
    PROVE  /\ counter'[k] \in Nat \cup {Absent}
           /\ used'[k] \in Int /\ used'[k] <= used[k]
           /\ stray'[k] \in Nat /\ stray[k] <= stray'[k]
           /\ Value(k)' <= Value(k)
           /\ used'[k] <= Value(k)' + stray'[k]
<1> DEFINE use == req[q].use
           m == req[q].month
           here == Amount(use, month, k)
           there == Amount(use, m, k)
<1>0. use \in Uses \cup {NoUse} /\ m \in Months /\ month \in Months /\ req[q].repeated \in BOOLEAN
  BY RequestOf DEF IInv, TypeInv
<1>1. here \in Nat /\ there \in Nat /\ Value(k) \in Nat
  BY <1>0, Amounts, Values DEF IInv
<1>2. used[k] \in Int /\ stray[k] \in Nat /\ used[k] <= Value(k) + stray[k]
  BY DEF IInv, TypeInv, Accounted
<1>3. used'[k] = used[k] - (IF req[q].repeated THEN 0 ELSE there)
  BY DEF ReleaseWrite
<1>4. stray'[k] = stray[k] + (IF req[q].repeated \/ k # CounterKey(k[1], m) THEN here ELSE 0)
  BY DEF ReleaseWrite
<1>5. counter'[k] = IF exists /\ Named(use, month, k) THEN Lowered(k, here) ELSE counter[k]
  BY DEF ReleaseWrite
<1>6. CASE exists /\ Named(use, month, k)
  <2>1. counter'[k] = (IF Value(k) < here THEN 0 ELSE Value(k) - here)
    BY <1>5, <1>6 DEF Lowered
  <2>2. counter'[k] \in Nat
    BY <2>1, <1>1
  <2>3. Value(k)' = counter'[k]
    BY <2>2 DEF Value, Absent
  <2>4. CASE req[q].repeated \/ k # CounterKey(k[1], m)
    BY <2>1, <2>2, <2>3, <2>4, <1>1, <1>2, <1>3, <1>4
  <2>5. CASE ~req[q].repeated /\ k = CounterKey(k[1], m)
    <3>1. there = here
      BY <2>5, <1>6 DEF Amount, Named
    <3> QED BY <3>1, <2>1, <2>2, <2>3, <2>5, <1>1, <1>2, <1>3, <1>4
  <2> QED BY <2>4, <2>5
<1>7. CASE ~(exists /\ Named(use, month, k))
  <2>1. counter'[k] = counter[k] /\ counter[k] \in Nat \cup {Absent}
    BY <1>5, <1>7 DEF IInv, TypeInv
  <2>2. Value(k)' = Value(k)
    BY <2>1 DEF Value
  <2> QED BY <2>1, <2>2, <1>1, <1>2, <1>3, <1>4
<1> QED BY <1>6, <1>7

\* Writing zeros where nothing is stored changes no value.
LEMMA ZerosKeep ==
    ASSUME IInv, NEW k \in Keys,
           counter'[k] = counter[k] \/ (counter[k] = Absent /\ counter'[k] = 0)
    PROVE  Value(k)' = Value(k) /\ counter'[k] \in Nat \cup {Absent}
  BY DEF IInv, TypeInv, Value, Absent

\* A request whose call moves on is still a request.
LEMMA StepOfRequest ==
    ASSUME TypeInv, NEW q \in Requests, NEW r \in Request, req' = [req EXCEPT ![q] = r]
    PROVE  req' \in [Requests -> Request]
  BY DEF TypeInv

\* So is one that only changes its place in the call.
LEMMA GotoIsAStep ==
    ASSUME TypeInv, NEW q \in Requests, Goto(q, "zero") \/ Goto(q, "update") \/ Goto(q, "denied") \/ Goto(q, "granted")
    PROVE  req' \in [Requests -> Request]
  BY DEF TypeInv, Goto, Request

\* An idle request, too.
LEMMA IdleIsARequest == Idle \in Request
  BY UsageAssumption DEF Idle, Request, Months

-----------------------------------------------------------------------------
(* The inductive invariant *)

LEMMA InitIInv == Init => IInv
<1> SUFFICES ASSUME Init PROVE IInv
  OBVIOUS
<1>1. TypeInv
  <2>1. month \in Months
    BY UsageAssumption DEF Init, Months
  <2>2. counter \in [Keys -> Nat \cup {Absent}] /\ used \in [Keys -> Int] /\ stray \in [Keys -> Nat]
    BY DEF Init
  <2>3. req \in [Requests -> Request]
    BY IdleIsARequest DEF Init
  <2> QED BY <2>1, <2>2, <2>3 DEF Init, TypeInv
<1>2. \A k \in Keys : Value(k) = 0
  BY DEF Init, Value
<1>3. Bounded
  BY <1>2, LimitOf DEF Bounded
<1>4. Accounted
  BY <1>2 DEF Init, Accounted
<1> QED BY <1>1, <1>2, <1>3, <1>4 DEF IInv, Empty

\* A step that leaves the stored values and the history alone keeps what is said of them.
LEMMA ValuesKept ==
    ASSUME IInv, TypeInv', \A k \in Keys : Value(k)' = Value(k), used' = used, stray' = stray,
           exists => exists'
    PROVE  IInv'
<1>1. Bounded'
  BY LimitOf DEF IInv, Bounded, LimitedKeys
<1>2. Accounted'
  BY DEF IInv, Accounted
<1>3. Empty'
  BY DEF IInv, Empty
<1> QED BY <1>1, <1>2, <1>3 DEF IInv

\* A step that writes no counter.
LEMMA CountersKept ==
    ASSUME IInv, UNCHANGED <<exists, counter, used, stray>>, month' \in Months, req' \in [Requests -> Request]
    PROVE  IInv'
<1>1. TypeInv'
  BY DEF IInv, TypeInv
<1>2. \A k \in Keys : Value(k)' = Value(k)
  BY DEF Value
<1> QED BY <1>1, <1>2, ValuesKept

\* A step that writes zeros where nothing is stored.
LEMMA ZerosWritten ==
    ASSUME IInv, UNCHANGED <<month, used, stray>>, req' \in [Requests -> Request],
           exists' \in BOOLEAN, exists => exists', DOMAIN counter' = Keys, counter' = [k \in Keys |-> counter'[k]],
           \A k \in Keys : counter'[k] = counter[k] \/ (counter[k] = Absent /\ counter'[k] = 0)
    PROVE  IInv'
<1>1. \A k \in Keys : Value(k)' = Value(k) /\ counter'[k] \in Nat \cup {Absent}
  BY ZerosKeep
<1>2. TypeInv'
  BY <1>1 DEF IInv, TypeInv
<1> QED BY <1>1, <1>2, ValuesKept

LEMMA ConsumeKeeps ==
    ASSUME IInv, NEW q \in Requests, NEW use \in Uses, Consume(q, use)
    PROVE  IInv'
<1>1. [Idle EXCEPT !.pc = "ensure", !.month = month, !.use = use] \in Request
  BY DEF IInv, TypeInv, Idle, Request
<1>2. req' \in [Requests -> Request]
  BY <1>1, StepOfRequest DEF Consume, IInv
<1> QED BY <1>2, CountersKept DEF Consume, IInv, TypeInv

LEMMA EnsureDocumentKeeps ==
    ASSUME IInv, NEW q \in Requests, EnsureDocument(q)
    PROVE  IInv'
<1>1. ASSUME NEW k \in Keys PROVE counter'[k] = counter[k] \/ (counter[k] = Absent /\ counter'[k] = 0)
  <2>1. counter'[k] = IF ~exists /\ Named(req[q].use, req[q].month, k) THEN 0 ELSE counter[k]
    BY DEF EnsureDocument
  <2>2. ~exists => counter[k] = 0 \/ counter[k] = Absent
    BY DEF IInv, Empty, Value
  <2> QED BY <2>1, <2>2
<1>2. req' \in [Requests -> Request]
  BY GotoIsAStep DEF EnsureDocument, IInv
<1>3. DOMAIN counter' = Keys /\ counter' = [k \in Keys |-> counter'[k]]
  BY DEF EnsureDocument
<1> QED BY <1>1, <1>2, <1>3, ZerosWritten DEF EnsureDocument

LEMMA ZeroMissingKeeps ==
    ASSUME IInv, NEW q \in Requests, ZeroMissing(q)
    PROVE  IInv'
<1>1. ASSUME NEW k \in Keys PROVE counter'[k] = counter[k] \/ (counter[k] = Absent /\ counter'[k] = 0)
  <2>1. counter'[k] = IF Named(req[q].use, req[q].month, k) /\ counter[k] = Absent THEN 0 ELSE counter[k]
    BY DEF ZeroMissing, Zeroed
  <2> QED BY <2>1
<1>2. req' \in [Requests -> Request]
  BY GotoIsAStep DEF ZeroMissing, IInv
<1>3. DOMAIN counter' = Keys /\ counter' = [k \in Keys |-> counter'[k]]
  BY DEF ZeroMissing, Zeroed
<1> QED BY <1>1, <1>2, <1>3, ZerosWritten DEF ZeroMissing, IInv, TypeInv

LEMMA GrantKeeps ==
    ASSUME IInv, NEW q \in Requests, Grant(q)
    PROVE  IInv'
<1> DEFINE use == req[q].use
           m == req[q].month
<1>0. use \in Uses \cup {NoUse} /\ m \in Months
  BY RequestOf DEF IInv
<1>1. \A k \in Keys : Amount(use, m, k) \in Nat /\ Value(k) \in Nat
  BY <1>0, Amounts, Values DEF IInv
<1>2. \A k \in Keys : counter'[k] \in Nat \cup {Absent}
  BY GrantAdds
<1>3. TypeInv'
  <2>1. req' \in [Requests -> Request]
    BY GotoIsAStep DEF Grant, IInv
  <2>2. counter' \in [Keys -> Nat \cup {Absent}]
    BY <1>2 DEF Grant
  <2>3. used' \in [Keys -> Int]
    BY <1>1 DEF Grant, IInv, TypeInv
  <2> QED BY <2>1, <2>2, <2>3 DEF Grant, IInv, TypeInv
<1>4. Bounded'
  <2> SUFFICES ASSUME NEW k \in LimitedKeys PROVE Value(k)' <= Limits[k[1]]
    BY DEF Bounded, LimitedKeys
  <2>0. k \in Keys
    BY LimitOf
  <2>1. CASE Named(use, m, k)
    BY <2>0, <2>1, GrantAdds
  <2>2. CASE ~Named(use, m, k)
    <3>1. Amount(use, m, k) = 0
      BY <2>0, <2>2, <1>0, Amounts
    <3>2. Value(k)' = Value(k)
      BY <3>1, <2>0, <1>1, GrantAdds
    <3> QED BY <3>2 DEF IInv, Bounded
  <2> QED BY <2>1, <2>2
<1>5. Accounted'
  <2> SUFFICES ASSUME NEW k \in Keys PROVE used'[k] <= Value(k)' + stray'[k]
    BY DEF Accounted
  <2>1. used[k] <= Value(k) + stray[k] /\ used[k] \in Int /\ stray[k] \in Nat /\ stray'[k] = stray[k]
    BY DEF IInv, Accounted, TypeInv, Grant
  <2> QED BY <2>1, <1>1, GrantAdds
<1>6. Empty'
  BY DEF Grant, Empty
<1> QED BY <1>3, <1>4, <1>5, <1>6 DEF IInv

\* A release, whatever becomes of the request.
LEMMA ReleaseWriteKeeps ==
    ASSUME IInv, NEW q \in Requests, ReleaseWrite(q), req' \in [Requests -> Request]
    PROVE  IInv'
<1>1. \A k \in Keys : /\ counter'[k] \in Nat \cup {Absent}
                      /\ used'[k] \in Int
                      /\ stray'[k] \in Nat
                      /\ Value(k)' <= Value(k)
                      /\ used'[k] <= Value(k)' + stray'[k]
  BY ReleaseLowers
<1>2. TypeInv'
  <2>1. counter' \in [Keys -> Nat \cup {Absent}] /\ used' \in [Keys -> Int] /\ stray' \in [Keys -> Nat]
    BY <1>1 DEF ReleaseWrite
  <2> QED BY <2>1 DEF ReleaseWrite, IInv, TypeInv
<1>3. \A k \in Keys : Value(k) \in Nat /\ Value(k)' \in Nat
  <2>1. \A k \in Keys : Value(k) \in Nat
    BY Values DEF IInv
  <2>2. \A k \in Keys : Value(k)' \in Nat
    BY <1>1 DEF Value, Absent
  <2> QED BY <2>1, <2>2
<1>4. Bounded'
  <2> SUFFICES ASSUME NEW k \in LimitedKeys PROVE Value(k)' <= Limits[k[1]]
    BY DEF Bounded, LimitedKeys
  <2>1. k \in Keys /\ Limits[k[1]] \in Nat /\ Value(k) <= Limits[k[1]]
    BY LimitOf DEF IInv, Bounded
  <2> QED BY <2>1, <1>1, <1>3
<1>5. Accounted'
  BY <1>1 DEF Accounted
<1>6. Empty'
  <2> SUFFICES ASSUME ~exists', NEW k \in Keys PROVE Value(k)' = 0
    BY DEF Empty
  <2>1. Value(k) = 0
    BY DEF ReleaseWrite, IInv, Empty
  <2> QED BY <2>1, <1>1, <1>3
<1> QED BY <1>2, <1>4, <1>5, <1>6 DEF IInv

LEMMA ReleaseKeeps ==
    ASSUME IInv, NEW q \in Requests, Release(q) \/ ReleaseUnanswered(q)
    PROVE  IInv'
<1>1. CASE Release(q)
  BY <1>1, IdleIsARequest, StepOfRequest, ReleaseWriteKeeps DEF Release, IInv
<1>2. CASE ReleaseUnanswered(q)
  <2>1. req' \in [Requests -> Request]
    BY <1>2 DEF ReleaseUnanswered, IInv, TypeInv, Request
  <2> QED BY <1>2, <2>1, ReleaseWriteKeeps DEF ReleaseUnanswered
<1> QED BY <1>1, <1>2

\* Every step keeps the invariant.
LEMMA StepIInv == IInv /\ [Next]_vars => IInv'
<1> SUFFICES ASSUME IInv, [Next]_vars PROVE IInv'
  OBVIOUS
<1>0. month \in Months /\ req \in [Requests -> Request]
  BY DEF IInv, TypeInv
<1>1. CASE NextMonth
  <2>1. month' \in Months
    BY <1>0, <1>1, UsageAssumption DEF NextMonth, Months
  <2> QED BY <1>0, <1>1, <2>1, CountersKept DEF NextMonth
<1>2. ASSUME NEW q \in Requests, Call(q) PROVE IInv'
  <2>1. ASSUME NEW use \in Uses, Consume(q, use) PROVE IInv'
    BY <2>1, ConsumeKeeps
  <2>2. CASE EnsureDocument(q)
    BY <2>2, EnsureDocumentKeeps
  <2>3. CASE ZeroMissing(q)
    BY <2>3, ZeroMissingKeeps
  <2>4. CASE Grant(q)
    BY <2>4, GrantKeeps
  <2>5. CASE Deny(q)
    <3>1. req' \in [Requests -> Request]
      BY <2>5, GotoIsAStep DEF Deny, IInv
    <3> QED BY <1>0, <2>5, <3>1, CountersKept DEF Deny
  <2>6. CASE AnswerDenial(q) \/ Abort(q) \/ Finish(q)
    <3>1. req' = [req EXCEPT ![q] = Idle] /\ UNCHANGED <<month, exists, counter, used, stray>>
      BY <2>6 DEF AnswerDenial, Abort, Finish
    <3>2. req' \in [Requests -> Request]
      BY <3>1, IdleIsARequest, StepOfRequest DEF IInv
    <3> QED BY <1>0, <3>1, <3>2, CountersKept
  <2>7. CASE Release(q) \/ ReleaseUnanswered(q)
    BY <2>7, ReleaseKeeps
  <2> QED BY <1>2, <2>1, <2>2, <2>3, <2>4, <2>5, <2>6, <2>7 DEF Call
<1>3. CASE UNCHANGED vars
  BY <1>0, <1>3, CountersKept DEF vars
<1> QED BY <1>1, <1>2, <1>3 DEF Next

\* The inductive invariant holds: values stay within their limits and account for what is used.
THEOREM Spec_IInv == Spec => []IInv
<1>1. Init => IInv
  BY InitIInv
<1>2. IInv /\ [Next]_vars => IInv'
  BY StepIInv
<1> QED BY <1>1, <1>2, PTL DEF Spec

-----------------------------------------------------------------------------
(* What it gives *)

\* No counter is ever below zero, and no user is shown more than a limit (ConsumeUsage, ReleaseUsage).
THEOREM Spec_UsageTypeOK == Spec => []UsageTypeOK
<1>1. IInv => UsageTypeOK
  <2> SUFFICES ASSUME IInv PROVE UsageTypeOK
    OBVIOUS
  <2>1. ASSUME NEW c \in DOMAIN Limits PROVE Usage(c) <= Limits[c]
    <3>1. CounterKey(c, month) \in Keys /\ CounterKey(c, month)[1] = c
      BY KeyOf, UsageAssumption DEF IInv, TypeInv
    <3>2. CounterKey(c, month) \in LimitedKeys
      BY <3>1 DEF LimitedKeys
    <3> QED BY <3>1, <3>2 DEF IInv, Bounded, Usage
  <2> QED BY <2>1 DEF IInv, TypeInv, UsageTypeOK
<1> QED BY <1>1, Spec_IInv, PTL

\* What was consumed and not given back never exceeds a limit by more than what strayed.
THEOREM Spec_LimitHolds == Spec => []LimitHolds
<1>1. IInv => LimitHolds
  <2> SUFFICES ASSUME IInv, NEW k \in LimitedKeys PROVE used[k] <= Limits[k[1]] + stray[k]
    BY DEF LimitHolds, Q!Holds
  <2>1. k \in Keys /\ Limits[k[1]] \in Nat
    BY LimitOf
  <2>2. used[k] <= Value(k) + stray[k] /\ Value(k) <= Limits[k[1]] /\ used[k] \in Int /\ stray[k] \in Nat
    BY <2>1 DEF IInv, Accounted, Bounded, TypeInv
  <2>3. Value(k) \in Nat
    BY <2>1, Values DEF IInv
  <2> QED BY <2>1, <2>2, <2>3
<1> QED BY <1>1, Spec_IInv, PTL

-----------------------------------------------------------------------------
(* The refinement *)

LEMMA GrantTakes ==
    ASSUME IInv, IInv', NEW q \in Requests, Grant(q)
    PROVE  Q!Take
<1> DEFINE use == req[q].use
           m == req[q].month
<1>0. use \in Uses \cup {NoUse} /\ m \in Months
  BY RequestOf DEF IInv
<1>1. used' \in [Keys -> Int] /\ UNCHANGED stray
  BY DEF Grant, IInv, TypeInv
<1>2. ASSUME NEW k \in Keys PROVE used[k] <= used'[k]
  <2>1. Amount(use, m, k) \in Nat /\ used[k] \in Int
    BY <1>0, Amounts DEF IInv, TypeInv
  <2> QED BY <2>1, GrantAdds
<1>3. ASSUME NEW k \in LimitedKeys, used[k] < used'[k]
      PROVE  used'[k] <= Limits[k[1]] + stray[k]
  <2>1. k \in Keys /\ Limits[k[1]] \in Nat
    BY LimitOf
  <2>2. used'[k] <= Value(k)' + stray'[k] /\ Value(k)' <= Limits[k[1]] /\ used'[k] \in Int /\ stray'[k] \in Nat
    BY <2>1 DEF IInv, Accounted, Bounded, TypeInv, LimitedKeys
  <2>3. Value(k)' \in Nat
    BY <2>1 DEF IInv, TypeInv, Value, Absent
  <2> QED BY <1>1, <2>1, <2>2, <2>3
<1> QED BY <1>1, <1>2, <1>3 DEF Q!Take

LEMMA ReleaseGivesBack ==
    ASSUME IInv, NEW q \in Requests, ReleaseWrite(q)
    PROVE  Q!GiveBack
<1>1. \A k \in Keys : used'[k] \in Int /\ used'[k] <= used[k] /\ stray'[k] \in Int /\ stray[k] <= stray'[k]
  BY ReleaseLowers
<1>2. used' \in [Keys -> Int] /\ stray' \in [Keys -> Int]
  BY <1>1 DEF ReleaseWrite
<1> QED BY <1>1, <1>2 DEF Q!GiveBack

LEMMA StepImplements == IInv /\ IInv' /\ [Next]_vars => [Q!Next]_(Q!vars)
<1> SUFFICES ASSUME IInv, IInv', [Next]_vars PROVE [Q!Next]_(Q!vars)
  OBVIOUS
<1>1. CASE NextMonth
  BY <1>1 DEF NextMonth, Q!vars
<1>2. ASSUME NEW q \in Requests, Call(q) PROVE [Q!Next]_(Q!vars)
  <2>1. CASE Grant(q)
    BY <2>1, GrantTakes DEF Q!Next
  <2>2. CASE Release(q) \/ ReleaseUnanswered(q)
    BY <2>2, ReleaseGivesBack DEF Release, ReleaseUnanswered, Q!Next
  <2>3. CASE \/ \E use \in Uses : Consume(q, use)
             \/ EnsureDocument(q) \/ ZeroMissing(q) \/ Deny(q) \/ AnswerDenial(q) \/ Abort(q) \/ Finish(q)
    BY <2>3 DEF Consume, EnsureDocument, ZeroMissing, Deny, AnswerDenial, Abort, Finish, Q!vars
  <2> QED BY <1>2, <2>1, <2>2, <2>3 DEF Call
<1>3. CASE UNCHANGED vars
  BY <1>3 DEF vars, Q!vars
<1> QED BY <1>1, <1>2, <1>3 DEF Next

\* The writes of Consume and Release implement the quota, for any counters, limits, uses and calls.
THEOREM Spec_ImplementsQuota == Spec => ImplementsQuota
<1>1. Init => Q!Init
  BY DEF Init, Q!Init
<1>2. IInv /\ IInv' /\ [Next]_vars => [Q!Next]_(Q!vars)
  BY StepImplements
<1> QED BY <1>1, <1>2, Spec_IInv, PTL DEF Spec, ImplementsQuota, Q!Spec

-----------------------------------------------------------------------------
(* Nothing that fits is refused *)

\* A call that has ensured the document has it, and one about to update has its counters.
Ready ==
    \A q \in Requests :
      /\ At(q, "zero") \/ At(q, "update") => exists
      /\ At(q, "update") => \A k \in Keys : Named(req[q].use, req[q].month, k) => counter[k] # Absent

\* What is stored stays stored.
LEMMA StoredStays ==
    ASSUME IInv, [Next]_vars
    PROVE  (exists => exists') /\ \A k \in Keys : counter[k] # Absent => counter'[k] # Absent
<1>1. CASE NextMonth \/ UNCHANGED vars
  BY <1>1 DEF NextMonth, vars
<1>2. ASSUME NEW q \in Requests, Call(q)
      PROVE  (exists => exists') /\ \A k \in Keys : counter[k] # Absent => counter'[k] # Absent
  <2>1. CASE \/ \E use \in Uses : Consume(q, use)
             \/ Deny(q) \/ AnswerDenial(q) \/ Abort(q) \/ Finish(q)
    <3>1. UNCHANGED <<exists, counter>>
      BY <2>1, Zenon DEF Consume, Deny, AnswerDenial, Abort, Finish
    <3> QED BY <3>1
  <2>2. CASE EnsureDocument(q)
    BY <2>2 DEF EnsureDocument, Absent
  <2>3. CASE ZeroMissing(q)
    BY <2>3 DEF ZeroMissing, Zeroed
  <2>4. CASE Grant(q)
    <3>1. ASSUME NEW k \in Keys, counter[k] # Absent PROVE counter'[k] # Absent
      <4>1. Amount(req[q].use, req[q].month, k) \in Nat /\ Value(k) \in Nat
        BY RequestOf, Amounts, Values DEF IInv
      <4>2. counter'[k] = IF Named(req[q].use, req[q].month, k)
                          THEN Value(k) + Amount(req[q].use, req[q].month, k) ELSE counter[k]
        BY <2>4 DEF Grant
      <4> QED BY <3>1, <4>1, <4>2 DEF Absent
    <3> QED BY <2>4, <3>1 DEF Grant
  <2>5. CASE Release(q) \/ ReleaseUnanswered(q)
    <3>0. ReleaseWrite(q)
      BY <2>5 DEF Release, ReleaseUnanswered
    <3>1. ASSUME NEW k \in Keys, counter[k] # Absent PROVE counter'[k] # Absent
      <4>1. Amount(req[q].use, month, k) \in Nat /\ Value(k) \in Nat
        BY RequestOf, Amounts, Values DEF IInv, TypeInv
      <4>2. counter'[k] = IF exists /\ Named(req[q].use, month, k)
                          THEN Lowered(k, Amount(req[q].use, month, k)) ELSE counter[k]
        BY <3>0 DEF ReleaseWrite
      <4>3. Lowered(k, Amount(req[q].use, month, k)) \in Nat
        BY <4>1 DEF Lowered
      <4> QED BY <3>1, <4>2, <4>3 DEF Absent
    <3> QED BY <3>0, <3>1 DEF ReleaseWrite
  <2> QED BY <1>2, <2>1, <2>2, <2>3, <2>4, <2>5 DEF Call
<1> QED BY <1>1, <1>2 DEF Next

\* The steps that bring a call to its update, the others leave it where it is or elsewhere.
LEMMA WaysToUpdate ==
    ASSUME IInv, [Next]_vars, NEW q \in Requests, At(q, "zero")' \/ At(q, "update")'
    PROVE  \/ req'[q] = req[q]
           \/ EnsureDocument(q) /\ At(q, "zero")'
           \/ ZeroMissing(q) /\ At(q, "update")' /\ req'[q].use = req[q].use /\ req'[q].month = req[q].month
<1>0. req \in [Requests -> Request]
  BY DEF IInv, TypeInv
<1>1. CASE NextMonth \/ UNCHANGED vars
  BY <1>1 DEF NextMonth, vars
<1>2. ASSUME NEW p \in Requests, Call(p), p # q PROVE req'[q] = req[q]
  <2>1. \E r : req' = [req EXCEPT ![p] = r]
    BY <1>0, <1>2 DEF Call, Consume, EnsureDocument, ZeroMissing, Grant, Deny, AnswerDenial, Abort, Release,
                      ReleaseUnanswered, Finish, Goto, Request
  <2> QED BY <1>0, <1>2, <2>1
<1>3. CASE Call(q)
  <2>1. CASE EnsureDocument(q)
    BY <1>0, <2>1 DEF EnsureDocument, Goto, At, Request
  <2>2. CASE ZeroMissing(q)
    BY <1>0, <2>2 DEF ZeroMissing, Goto, At, Request
  <2>3. CASE Grant(q) \/ Deny(q)
    BY <1>0, <2>3 DEF Grant, Deny, Goto, At, Request
  <2>4. CASE AnswerDenial(q) \/ Abort(q) \/ Finish(q) \/ Release(q)
    BY <1>0, <2>4 DEF AnswerDenial, Abort, Finish, Release, At, Request, Idle
  <2>5. CASE ReleaseUnanswered(q)
    BY <1>0, <2>5 DEF ReleaseUnanswered, At, Request
  <2>6. CASE \E use \in Uses : Consume(q, use)
    BY <1>0, <2>6 DEF Consume, At, Request, Idle
  <2> QED BY <1>3, <2>1, <2>2, <2>3, <2>4, <2>5, <2>6 DEF Call
<1> QED BY <1>1, <1>2, <1>3 DEF Next

\* Every step keeps a call that is about to update ready for it.
LEMMA StepReady == IInv /\ Ready /\ [Next]_vars => Ready'
<1> SUFFICES ASSUME IInv, Ready, [Next]_vars, NEW q \in Requests, At(q, "zero")' \/ At(q, "update")'
             PROVE  /\ exists'
                    /\ At(q, "update")' =>
                         \A k \in Keys : Named(req'[q].use, req'[q].month, k) => counter'[k] # Absent
  BY DEF Ready, Named, CounterKey
<1>1. CASE req'[q] = req[q]
  <2>1. At(q, "zero") \/ At(q, "update")
    BY <1>1 DEF At
  <2>2. At(q, "update")' => At(q, "update")
    BY <1>1 DEF At
  <2> QED BY <1>1, <2>1, <2>2, StoredStays DEF Ready
<1>2. CASE EnsureDocument(q) /\ At(q, "zero")'
  BY <1>2 DEF EnsureDocument, At
<1>3. CASE ZeroMissing(q) /\ At(q, "update")' /\ req'[q].use = req[q].use /\ req'[q].month = req[q].month
  <2>1. exists'
    BY <1>3 DEF ZeroMissing, Ready, At
  <2>2. ASSUME NEW k \in Keys, Named(req[q].use, req[q].month, k) PROVE counter'[k] # Absent
    <3>1. counter'[k] = IF counter[k] = Absent THEN 0 ELSE counter[k]
      BY <1>3, <2>2 DEF ZeroMissing, Zeroed
    <3> QED BY <3>1 DEF Absent
  <2> QED BY <1>3, <2>1, <2>2
<1> QED BY <1>1, <1>2, <1>3, WaysToUpdate

\* A denial comes from the update, whose filter did not match.
LEMMA DeniedOnlyByUpdate ==
    ASSUME IInv, Ready, Next, NEW q \in Requests, At(q, "update"), req'[q].pc = "denied"
    PROVE  \E c \in DOMAIN req[q].use \cap DOMAIN Limits :
             Value(CounterKey(c, req[q].month)) + req[q].use[c] > Limits[c]
<1> DEFINE use == req[q].use
           m == req[q].month
<1>0. use \in Uses \cup {NoUse} /\ m \in Months /\ req \in [Requests -> Request]
  BY RequestOf DEF IInv, TypeInv
<1>1. Deny(q)
  <2>1. req'[q] # req[q]
    BY DEF At
  <2>2. ASSUME NEW p \in Requests, Call(p) PROVE p = q
    <3>1. \E r : req' = [req EXCEPT ![p] = r]
      BY <1>0, <2>2 DEF Call, Consume, EnsureDocument, ZeroMissing, Grant, Deny, AnswerDenial, Abort, Release,
                        ReleaseUnanswered, Finish, Goto, Request
    <3> QED BY <1>0, <2>1, <3>1
  <2>3. Call(q)
    BY <2>1, <2>2 DEF Next, NextMonth
  <2>4. ~Grant(q)
    BY <1>0 DEF Grant, Goto, Request
  <2>5. ~Abort(q)
    BY <1>0 DEF Abort, Idle
  <2> QED BY <2>3, <2>4, <2>5 DEF Call, Consume, EnsureDocument, ZeroMissing, AnswerDenial, Release,
                                 ReleaseUnanswered, Finish, At
<1>2. ~Matches(use, m)
  BY <1>1 DEF Deny, Ready
<1>3. PICK c \in DOMAIN use \cap DOMAIN Limits :
        ~(counter[CounterKey(c, m)] # Absent /\ counter[CounterKey(c, m)] <= Limits[c] - use[c])
  BY <1>2 DEF Matches
<1>4. c \in Counters /\ use[c] \in Nat /\ Limits[c] \in Nat
  BY <1>0, UsageAssumption DEF NoUse
<1> DEFINE k == CounterKey(c, m)
<1>5. k \in Keys /\ k[1] = c
  BY <1>0, <1>4, KeyOf
<1>6. Named(use, m, k)
  BY <1>5 DEF Named
<1>7. counter[k] # Absent
  BY <1>5, <1>6 DEF Ready
<1>8. Value(k) = counter[k] /\ Value(k) \in Nat
  BY <1>5, <1>7, Values DEF Value, IInv
<1>9. Value(k) + use[c] > Limits[c]
  BY <1>3, <1>4, <1>7, <1>8
<1> QED BY <1>9

\* Consume refuses only what would pass a limit, for any counters, limits, uses, calls and months.
THEOREM Spec_NoFalseDenial == Spec => NoFalseDenial
<1>1. Init => Ready
  BY DEF Init, Ready, At, Idle
<1>2. IInv /\ Ready /\ [Next]_vars => Ready'
  BY StepReady
<1>3. IInv /\ Ready /\ [Next]_vars =>
        [\A q \in Requests :
           At(q, "update") /\ req'[q].pc = "denied"
             => \E c \in DOMAIN req[q].use \cap DOMAIN Limits :
                  Value(CounterKey(c, req[q].month)) + req[q].use[c] > Limits[c]]_vars
  BY DeniedOnlyByUpdate
<1> QED BY <1>1, <1>2, <1>3, Spec_IInv, PTL DEF Spec, NoFalseDenial

=============================================================================
