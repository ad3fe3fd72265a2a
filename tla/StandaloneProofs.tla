--------------------------- MODULE StandaloneProofs ---------------------------
(***************************************************************************)
(* Proofs about the three components that share no state with another one:   *)
(* the tax registration, for any number of users, submissions and pages; the *)
(* status gate, for any number of users and requests and any capacity; and   *)
(* the circuit breaker, for any threshold and number of calls.               *)
(***************************************************************************)
EXTENDS TaxRegistration, StatusGate, CircuitBreaker,
        FiniteSetTheorems, SequenceTheorems, TLAPS

-----------------------------------------------------------------------------
(* The tax registration.  The numbers, whatever submissions, decisions and withdrawals meet *)

\* The part of the types that says nothing of the list.
NumbersTyped ==
    /\ users \subseteq Applicants
    /\ number \in [Applicants -> Numbers \cup {None}]
    /\ status \in [Applicants -> TaxStatuses]
    /\ submission \in [Submissions -> Submission]

\* A submission for a user who was approved meanwhile knows it.
ReadBefore ==
    \A q \in Submissions, u \in Applicants : submission[q].user = u /\ status[u] = "approved" => submission[q].overtaken

TaxInv == NumbersTyped /\ NumbersAreOwn /\ ReadBefore

LEMMA IdleIsNobody == NoSubmission \in Submission /\ NoSubmission.user \notin Applicants /\ NoSubmission.user = None
  BY TaxAssumption DEF NoSubmission, Submission

LEMMA InFlight ==
    ASSUME TaxInv, NEW q \in Submissions, submission[q] # NoSubmission
    PROVE  submission[q].user \in Applicants /\ submission[q].number \in Numbers
  BY DEF TaxInv, NumbersTyped, Submission

\* A step that leaves the submissions alone and approves nobody.
LEMMA SubmissionsStay ==
    ASSUME TaxInv, submission' = submission, \A u \in Applicants : status'[u] = "approved" => status[u] = "approved"
    PROVE  ReadBefore'
  BY DEF TaxInv, ReadBefore

\* A step that changes one submission only.
LEMMA OneSubmission ==
    ASSUME TaxInv, NEW q \in Submissions, NEW r \in Submission, submission' = [submission EXCEPT ![q] = r],
           UNCHANGED <<users, number, status>>,
           \A u \in Applicants : r.user = u /\ status[u] = "approved" => r.overtaken
    PROVE  TaxInv'
<1>1. \A j \in Submissions : submission'[j] = r \/ submission'[j] = submission[j]
  BY DEF TaxInv, NumbersTyped
<1>2. NumbersTyped'
  BY DEF TaxInv, NumbersTyped
<1>3. NumbersAreOwn'
  BY DEF TaxInv, NumbersAreOwn
<1>4. ReadBefore'
  BY <1>1 DEF TaxInv, ReadBefore
<1> QED BY <1>2, <1>3, <1>4 DEF TaxInv

LEMMA SubmitReadInv ==
    ASSUME TaxInv, NEW q \in Submissions, NEW u \in Applicants, NEW n \in Numbers, SubmitRead(q, u, n)
    PROVE  TaxInv'
<1> DEFINE r == [NoSubmission EXCEPT !.user = u, !.number = n]
<1>2. r \in Submission /\ r.user = u
  BY DEF NoSubmission, Submission
<1>3. submission' = [submission EXCEPT ![q] = r] /\ UNCHANGED <<users, number, status>> /\ status[u] # "approved"
  BY DEF SubmitRead, MaySubmit
<1> HIDE DEF r
<1> QED BY <1>2, <1>3, OneSubmission

LEMMA SubmitAbortInv ==
    ASSUME TaxInv, NEW q \in Submissions, SubmitAbort(q)
    PROVE  TaxInv'
  BY IdleIsNobody, OneSubmission DEF SubmitAbort

LEMMA SubmitWriteInv ==
    ASSUME TaxInv, NEW q \in Submissions, SubmitWrite(q)
    PROVE  TaxInv'
<1> DEFINE u == submission[q].user
           n == submission[q].number
<1>0. u \in Applicants /\ n \in Numbers /\ n # None
  BY InFlight, TaxAssumption DEF SubmitWrite
<1>1. CASE ~(u \in users /\ NumberIsFree(u, n))
  <2>1. UNCHANGED <<users, number, status>> /\ submission' = [submission EXCEPT ![q] = NoSubmission]
    BY <1>1 DEF SubmitWrite
  <2> QED BY <2>1, IdleIsNobody, OneSubmission
<1>2. CASE u \in users /\ NumberIsFree(u, n)
  <2>1. /\ number' = [number EXCEPT ![u] = n] /\ status' = [status EXCEPT ![u] = "pending"]
        /\ users' = users /\ submission' = [submission EXCEPT ![q] = NoSubmission]
    BY <1>2 DEF SubmitWrite
  <2>2. \A v \in users : v # u => number[v] # n
    BY <1>2 DEF NumberIsFree
  <2> HIDE DEF u, n
  <2>3. NumbersTyped'
    BY <1>0, <2>1, IdleIsNobody DEF TaxInv, NumbersTyped, TaxStatuses
  <2>4. \A v \in Applicants : /\ number'[v] = IF v = u THEN n ELSE number[v]
                         /\ status'[v] = IF v = u THEN "pending" ELSE status[v]
    BY <1>0, <2>1 DEF TaxInv, NumbersTyped
  <2>5. NumbersAreOwn'
    BY <1>0, <2>1, <2>2, <2>4 DEF TaxInv, NumbersTyped, NumbersAreOwn
  <2>6. \A j \in Submissions : submission'[j] = NoSubmission \/ submission'[j] = submission[j]
    BY <2>1 DEF TaxInv, NumbersTyped
  <2>7. ReadBefore'
    BY <2>4, <2>6, IdleIsNobody DEF TaxInv, ReadBefore
  <2> QED BY <2>3, <2>5, <2>7 DEF TaxInv
<1> QED BY <1>1, <1>2

LEMMA WithdrawInv ==
    ASSUME TaxInv, NEW u \in Applicants, Withdraw(u)
    PROVE  TaxInv'
<1>1. \A v \in Applicants : /\ number'[v] = IF v = u THEN None ELSE number[v]
                       /\ status'[v] = IF v = u THEN "none" ELSE status[v]
  BY DEF Withdraw, TaxInv, NumbersTyped
<1>2. NumbersTyped'
  BY DEF Withdraw, TaxInv, NumbersTyped, TaxStatuses
<1>3. NumbersAreOwn'
  BY <1>1 DEF Withdraw, TaxInv, NumbersTyped, NumbersAreOwn
<1>4. ReadBefore'
  BY <1>1, SubmissionsStay DEF Withdraw
<1> QED BY <1>2, <1>3, <1>4 DEF TaxInv

LEMMA DeleteUserInv ==
    ASSUME TaxInv, NEW u \in Applicants, DeleteUser(u)
    PROVE  TaxInv'
<1>1. NumbersTyped' /\ NumbersAreOwn'
  BY DEF DeleteUser, TaxInv, NumbersTyped, NumbersAreOwn
<1>2. ReadBefore'
  BY SubmissionsStay DEF DeleteUser
<1> QED BY <1>1, <1>2 DEF TaxInv

\* A decision marks the submissions of the user that are in flight.
LEMMA DecideInv ==
    ASSUME TaxInv, NEW u \in Applicants, NEW decision \in Decisions, Decide(u, decision)
    PROVE  TaxInv'
<1>1. \A v \in Applicants : status'[v] = IF v = u THEN decision ELSE status[v]
  BY DEF Decide, UpdateMatriculeFiscaleStatus, TaxInv, NumbersTyped
<1>2. status' \in [Applicants -> TaxStatuses]
  BY DEF Decide, UpdateMatriculeFiscaleStatus, TaxInv, NumbersTyped, TaxStatuses
<1>3. ASSUME NEW q \in Submissions
      PROVE  /\ submission'[q] \in Submission /\ submission'[q].user = submission[q].user
             /\ (submission'[q].overtaken <=> submission[q].overtaken \/ (decision = "approved" /\ submission[q].user = u))
  <2> DEFINE b == submission[q].overtaken \/ (decision = "approved" /\ submission[q].user = u)
  <2>1. submission'[q] = [submission[q] EXCEPT !.overtaken = b]
    BY DEF Decide
  <2>2. b \in BOOLEAN
    BY DEF TaxInv, NumbersTyped, Submission, NoSubmission
  <2>3. CASE submission[q] = NoSubmission
    <3>1. ~submission[q].overtaken /\ submission[q].user # u
      BY <2>3, IdleIsNobody DEF NoSubmission
    <3>2. submission'[q] = [NoSubmission EXCEPT !.overtaken = FALSE]
      BY <2>1, <2>3, <3>1
    <3>3. submission'[q] = NoSubmission
      BY <3>2 DEF NoSubmission
    <3>4. submission'[q] = submission[q] /\ ~submission'[q].overtaken
      BY <2>3, <3>1, <3>3
    <3>5. ~(submission[q].overtaken \/ (decision = "approved" /\ submission[q].user = u))
      BY <3>1
    <3> HIDE DEF b
    <3> QED BY <2>3, <3>4, <3>5, IdleIsNobody
  <2>4. CASE submission[q] # NoSubmission
    <3>1. submission[q] \in [user : Applicants, number : Numbers, overtaken : BOOLEAN]
      BY <2>4 DEF TaxInv, NumbersTyped, Submission
    <3> HIDE DEF b
    <3>2. submission'[q] \in Submission /\ submission'[q].user = submission[q].user /\ submission'[q].overtaken = b
      BY <2>1, <2>2, <3>1 DEF Submission
    <3> QED BY <3>2 DEF b
  <2> QED BY <2>3, <2>4
<1>4. submission' \in [Submissions -> Submission]
  BY <1>3 DEF Decide
<1>5. NumbersTyped'
  BY <1>2, <1>4 DEF Decide, TaxInv, NumbersTyped
<1>6. NumbersAreOwn'
  BY <1>1 DEF Decide, Decisions, TaxInv, NumbersTyped, NumbersAreOwn
<1>7. ReadBefore'
  BY <1>1, <1>3 DEF Decisions, TaxInv, ReadBefore
<1> QED BY <1>5, <1>6, <1>7 DEF TaxInv

\* The list, and steps that change nothing.
LEMMA NothingChanges ==
    ASSUME TaxInv, UNCHANGED <<users, number, status, submission>>
    PROVE  TaxInv'
  BY DEF TaxInv, NumbersTyped, NumbersAreOwn, ReadBefore

LEMMA StepTaxInv ==
    ASSUME TaxInv, [TaxNext]_taxVars
    PROVE  TaxInv'
<1>1. ASSUME NEW q \in Submissions, NEW u \in Applicants, NEW n \in Numbers, SubmitRead(q, u, n) PROVE TaxInv'
  BY <1>1, SubmitReadInv
<1>2. ASSUME NEW q \in Submissions, SubmitWrite(q) \/ SubmitAbort(q) PROVE TaxInv'
  BY <1>2, SubmitWriteInv, SubmitAbortInv
<1>3. ASSUME NEW u \in Applicants, Withdraw(u) \/ DeleteUser(u) PROVE TaxInv'
  BY <1>3, WithdrawInv, DeleteUserInv
<1>4. ASSUME NEW u \in Applicants, Approve(u) \/ Reject(u) PROVE TaxInv'
  BY <1>4, DecideInv DEF Approve, Reject, Decisions
<1>5. CASE ListBegin \/ ListPage \/ UNCHANGED taxVars
  BY <1>5, NothingChanges DEF ListBegin, ListPage, taxVars
<1> QED BY <1>1, <1>2, <1>3, <1>4, <1>5 DEF TaxNext

LEMMA InitTaxInv == TaxInit => TaxInv
  BY IdleIsNobody, TaxAssumption DEF TaxInit, TaxInv, NumbersTyped, NumbersAreOwn, ReadBefore, TaxStatuses

\* The inductive invariant: the numbers, and that a submission knows of an approval since its read.
THEOREM Spec_TaxInv == TaxSpec => []TaxInv
  BY InitTaxInv, StepTaxInv, PTL DEF TaxSpec

\* Whatever meets, nobody has a number of somebody else, or one without having submitted it.
THEOREM Spec_NumbersAreOwn == TaxSpec => []NumbersAreOwn
<1>1. TaxInv => NumbersAreOwn
  BY DEF TaxInv
<1> QED BY <1>1, Spec_TaxInv, PTL

LEMMA StepApprovalsStand ==
    ASSUME TaxInv, [TaxNext]_taxVars, NEW u \in users', status[u] = "approved", status'[u] \notin Decisions
    PROVE  \E q \in Submissions : submission[q].user = u /\ submission[q].overtaken
<1>0. u \in Applicants /\ status \in [Applicants -> TaxStatuses] /\ status'[u] # status[u]
  <2>1. TaxInv'
    BY StepTaxInv
  <2> QED BY <2>1 DEF TaxInv, NumbersTyped, Decisions
<1>1. ASSUME NEW v \in Applicants, Withdraw(v) PROVE FALSE
  BY <1>0, <1>1 DEF Withdraw, MayClear
<1>2. ASSUME NEW v \in Applicants, Approve(v) \/ Reject(v) PROVE FALSE
  BY <1>0, <1>2 DEF Approve, Reject, Decide, UpdateMatriculeFiscaleStatus, Decisions
<1>3. PICK q \in Submissions : SubmitWrite(q)
  BY <1>0, <1>1, <1>2 DEF TaxNext, SubmitRead, SubmitAbort, DeleteUser, ListBegin, ListPage, taxVars
<1>4. submission[q].user = u
  BY <1>0, <1>3 DEF SubmitWrite
<1> QED BY <1>0, <1>4 DEF TaxInv, ReadBefore

\* What a user begins after an approval cannot undo it, for any number of submissions in flight.
THEOREM Spec_ApprovalsStand == TaxSpec => ApprovalsStand
<1> DEFINE Stands == \A u \in users' : status[u] = "approved" /\ status'[u] \notin Decisions
                       => \E q \in Submissions : submission[q].user = u /\ submission[q].overtaken
<1>1. TaxInv /\ [TaxNext]_taxVars => [Stands]_taxVars
  BY StepApprovalsStand
<1> QED BY <1>1, Spec_TaxInv, PTL DEF TaxSpec, ApprovalsStand

-----------------------------------------------------------------------------
(* The admin's list.  The applications are ordered by their submission, so that each has a place of   *)
(* its own; a page that is full holds as many as it may.                                              *)

\* The applications shown before the one of u.
Shown(u) == {v \in Pending : <<v, u>> \in newer}

Ordered ==
    /\ newer \subseteq Pending \X Pending
    /\ \A u \in Pending : <<u, u>> \notin newer
    /\ \A u, v, w \in Pending : <<u, v>> \in newer /\ <<v, w>> \in newer => <<u, w>> \in newer
    /\ \A u, v \in Pending : u = v \/ <<u, v>> \in newer \/ <<v, u>> \in newer

ListTyped == users \subseteq Applicants /\ review \in Review

LEMMA PendingIsFinite ==
    ASSUME ListTyped
    PROVE  IsFiniteSet(Pending) /\ Pending \subseteq Applicants
<1>1. Pending \subseteq Applicants
  BY DEF ListTyped, Pending
<1> QED BY <1>1, TaxAssumption, FS_Subset

LEMMA ShownIsFinite ==
    ASSUME ListTyped, NEW u
    PROVE  IsFiniteSet(Shown(u)) /\ Before(u) = Cardinality(Shown(u)) /\ Before(u) \in Nat
<1>1. Shown(u) \in SUBSET Pending /\ Before(u) = Cardinality(Shown(u))
  BY DEF Shown, Before
<1>2. IsFiniteSet(Shown(u))
  BY <1>1, PendingIsFinite, FS_Subset
<1> QED BY <1>1, <1>2, FS_CardinalityType

\* Whoever comes earlier in the list has fewer before him.
LEMMA EarlierIsFewer ==
    ASSUME ListTyped, Ordered, NEW u \in Pending, NEW v \in Pending, <<u, v>> \in newer
    PROVE  Before(u) < Before(v)
<1>1. Shown(u) \in SUBSET Shown(v)
  BY DEF Ordered, Shown
<1>2. u \in Shown(v) /\ u \notin Shown(u)
  BY DEF Ordered, Shown
<1>3. /\ Cardinality(Shown(u)) <= Cardinality(Shown(v))
      /\ Cardinality(Shown(u)) # Cardinality(Shown(v))
  BY <1>1, <1>2, ShownIsFinite, FS_Subset
<1> QED BY <1>3, ShownIsFinite

LEMMA PlacesDiffer ==
    ASSUME ListTyped, Ordered, NEW u \in Pending, NEW v \in Pending, Before(u) = Before(v)
    PROVE  u = v
<1>1. ~(<<u, v>> \in newer) /\ ~(<<v, u>> \in newer)
  BY EarlierIsFewer, ShownIsFinite
<1> QED BY <1>1 DEF Ordered

\* Applications at places between a and b are no more than these places.
LEMMA AsManyAsPlaces ==
    ASSUME ListTyped, Ordered, NEW S \in SUBSET Pending, NEW a \in Int, NEW b \in Int, a <= b + 1,
           \A u \in S : a <= Before(u) /\ Before(u) <= b
    PROVE  IsFiniteSet(S) /\ Cardinality(S) \in Nat /\ Cardinality(S) <= b - a + 1
<1> DEFINE f == [u \in S |-> Before(u)]
<1>1. \A u \in S : Before(u) \in a .. b
  BY ShownIsFinite
<1>2. f \in [S -> a .. b]
  BY <1>1
<1>3. \A u, v \in S : f[u] = f[v] => u = v
  BY PlacesDiffer
<1>4. f \in Injection(S, a .. b)
  BY <1>2, <1>3 DEF Injection, IsInjective
<1>5. IsFiniteSet(a .. b) /\ Cardinality(a .. b) = IF a > b THEN 0 ELSE b - a + 1
  BY FS_Interval
<1> HIDE DEF f
<1>6. IsFiniteSet(S) /\ Cardinality(S) <= Cardinality(a .. b)
  BY <1>4, <1>5, FS_Injection
<1> QED BY <1>5, <1>6, FS_CardinalityType

LEMMA UnionIsNoMore ==
    ASSUME NEW S, NEW T, IsFiniteSet(S), IsFiniteSet(T)
    PROVE  /\ IsFiniteSet(S \cup T) /\ Cardinality(S \cup T) \in Nat
           /\ Cardinality(S \cup T) <= Cardinality(S) + Cardinality(T)
<1>1. IsFiniteSet(S \cap T) /\ IsFiniteSet(S \cup T)
  BY FS_Intersection, FS_Union
<1>2. Cardinality(S \cup T) = Cardinality(S) + Cardinality(T) - Cardinality(S \cap T)
  BY FS_Union
<1>3. /\ Cardinality(S) \in Nat /\ Cardinality(T) \in Nat
      /\ Cardinality(S \cap T) \in Nat /\ Cardinality(S \cup T) \in Nat
  BY <1>1, FS_CardinalityType
<1> QED BY <1>1, <1>2, <1>3

LEMMA SkippedIsNat ==
    ASSUME NEW page \in Nat, page # 0
    PROVE  Skipped(page) \in Nat /\ Skipped(page + 1) = Skipped(page) + PageSize
<1>1. page - 1 \in Nat /\ PageSize \in Nat
  BY TaxAssumption
<1>2. \A x, y \in Nat : x * y \in Nat /\ (x + 1) * y = x * y + y
  OBVIOUS
<1>3. (page + 1) - 1 = (page - 1) + 1
  BY <1>1
<1> QED BY <1>1, <1>2, <1>3 DEF Skipped

\* When an application is behind the page, the page is full.
LEMMA PageIsFull ==
    ASSUME ListTyped, Ordered, NEW page \in Nat, page # 0,
           NEW u \in Pending, Skipped(page) + PageSize <= Before(u)
    PROVE  Cardinality(Page(page)) = PageSize
<1> DEFINE s == Skipped(page)
           n == Before(u)
           low == {v \in Shown(u) : Before(v) < s}
           mid == {v \in Shown(u) : s <= Before(v) /\ Before(v) < s + PageSize}
           high == {v \in Shown(u) : s + PageSize <= Before(v)}
<1>0. s \in Nat /\ PageSize \in Nat \ {0} /\ n \in Nat
  BY SkippedIsNat, ShownIsFinite, TaxAssumption
<1>1. \A v \in Shown(u) : v \in Pending /\ Before(v) \in Nat /\ Before(v) < n
  BY EarlierIsFewer, ShownIsFinite DEF Shown
<1>2. s + PageSize <= n /\ Shown(u) = low \cup (mid \cup high) /\ Cardinality(Shown(u)) = n
  BY <1>0, <1>1, ShownIsFinite
<1>3. mid \in SUBSET Page(page) /\ Page(page) \in SUBSET Pending
  BY <1>1 DEF Page
<1>4. \A v \in Page(page) : s <= Before(v) /\ Before(v) <= s + PageSize - 1
  BY <1>0, ShownIsFinite DEF Page
<1> HIDE DEF s, n
<1>5. IsFiniteSet(low) /\ Cardinality(low) \in Nat /\ Cardinality(low) <= s
  <2>1. low \in SUBSET Pending /\ \A v \in low : 0 <= Before(v) /\ Before(v) <= s - 1
    BY <1>0, <1>1
  <2>2. s - 1 \in Int /\ 0 <= (s - 1) + 1 /\ (s - 1) - 0 + 1 = s
    BY <1>0
  <2> HIDE DEF low
  <2> QED BY <2>1, <2>2, AsManyAsPlaces
<1>6. IsFiniteSet(high) /\ Cardinality(high) \in Nat /\ Cardinality(high) <= n - (s + PageSize)
  <2>1. high \in SUBSET Pending /\ \A v \in high : s + PageSize <= Before(v) /\ Before(v) <= n - 1
    BY <1>0, <1>1
  <2>2. /\ s + PageSize \in Int /\ n - 1 \in Int /\ s + PageSize <= (n - 1) + 1
        /\ (n - 1) - (s + PageSize) + 1 = n - (s + PageSize)
    BY <1>0, <1>2
  <2> HIDE DEF high
  <2>3. IsFiniteSet(high) /\ Cardinality(high) \in Nat /\ Cardinality(high) <= (n - 1) - (s + PageSize) + 1
    BY <2>1, <2>2, AsManyAsPlaces
  <2> QED BY <2>2, <2>3
<1>7. /\ IsFiniteSet(Page(page)) /\ Cardinality(Page(page)) \in Nat
      /\ Cardinality(Page(page)) <= PageSize
  <2>1. /\ s \in Int /\ s + PageSize - 1 \in Int /\ s <= (s + PageSize - 1) + 1
        /\ (s + PageSize - 1) - s + 1 = PageSize
    BY <1>0
  <2> QED BY <1>3, <1>4, <2>1, AsManyAsPlaces
<1>8. IsFiniteSet(mid) /\ Cardinality(mid) \in Nat /\ Cardinality(mid) <= Cardinality(Page(page))
  BY <1>3, <1>7, FS_Subset, FS_CardinalityType
<1> HIDE DEF low, mid, high
<1>9. Cardinality(Shown(u)) <= Cardinality(low) + Cardinality(mid) + Cardinality(high)
  <2>1. /\ IsFiniteSet(mid \cup high) /\ Cardinality(mid \cup high) \in Nat
        /\ Cardinality(mid \cup high) <= Cardinality(mid) + Cardinality(high)
    BY <1>6, <1>8, UnionIsNoMore
  <2>2. Cardinality(low \cup (mid \cup high)) <= Cardinality(low) + Cardinality(mid \cup high)
    BY <1>5, <2>1, UnionIsNoMore
  <2>3. Cardinality(low \cup (mid \cup high)) \in Nat
    BY <1>5, <2>1, UnionIsNoMore
  <2> QED BY <1>2, <1>5, <1>6, <1>8, <2>1, <2>2, <2>3
<1> QED BY <1>0, <1>2, <1>5, <1>6, <1>7, <1>8, <1>9

-----------------------------------------------------------------------------
(* The reading of the list.  What waited and was not shown is either no longer pending or has slipped   *)
(* before the pages still to be read; each time that an application leaves its place, one more at most.  *)

Missed == {v \in review.waiting \ review.seen : v \notin Pending \/ Before(v) < Skipped(review.page)}

SlippedFew == review.page # 0 => Cardinality(Missed) <= review.left

ListInv == ListTyped /\ Ordered /\ SlippedFew /\ ReviewMissesFew

LEMMA ReviewFields ==
    ASSUME ListTyped
    PROVE  /\ review.page \in Nat /\ review.seen \subseteq Applicants /\ review.waiting \subseteq Applicants
           /\ review.left \in Nat /\ review.left <= Cardinality(Applicants)
           /\ Cardinality(Applicants) \in Nat
           /\ review = [page |-> review.page, seen |-> review.seen,
                        waiting |-> review.waiting, left |-> review.left]
<1>1. Cardinality(Applicants) \in Nat
  BY TaxAssumption, FS_CardinalityType
<1> QED BY <1>1 DEF ListTyped, Review

LEMMA MissedIsFinite ==
    ASSUME ListTyped
    PROVE  /\ IsFiniteSet(Missed) /\ Cardinality(Missed) \in Nat
           /\ Cardinality(Missed) <= Cardinality(Applicants)
<1>1. Missed \in SUBSET Applicants
  BY ReviewFields DEF Missed
<1> QED BY <1>1, TaxAssumption, FS_Subset, FS_CardinalityType

\* What Left(u) does to the reading.
LEMMA LeftFields ==
    ASSUME ListTyped, NEW u, review' = Left(u)
    PROVE  /\ review'.page = review.page /\ review'.seen = review.seen /\ review'.waiting = review.waiting
           /\ review'.left = IF review.page # 0 /\ u \in Pending /\ review.left < Cardinality(Applicants)
                               THEN review.left + 1 ELSE review.left
           /\ review' \in Review
<1> DEFINE l == IF review.page # 0 /\ u \in Pending /\ review.left < Cardinality(Applicants)
                  THEN review.left + 1 ELSE review.left
<1>1. review' = [review EXCEPT !.left = l]
  BY DEF Left
<1>2. l \in 0 .. Cardinality(Applicants)
  BY ReviewFields
<1> HIDE DEF l
<1>3. review' \in Review /\ review'.left = l
      /\ review'.page = review.page /\ review'.seen = review.seen /\ review'.waiting = review.waiting
  BY <1>1, <1>2 DEF ListTyped, Review
<1> QED BY <1>3 DEF l

\* A reading stays within its bound when one more at most has slipped, and only with an application
\* that left its place.
LEMMA OneMoreSlips ==
    ASSUME ListInv, ListTyped', NEW u, review' = Left(u), NEW x,
           review.page # 0 => Missed' \subseteq Missed \cup {x},
           review.page # 0 /\ u \notin Pending => Missed' \subseteq Missed
    PROVE  SlippedFew' /\ ReviewMissesFew'
<1>1. ReviewMissesFew'
  <2>1. review'.page = review.page /\ review'.seen = review.seen /\ review'.waiting = review.waiting
        /\ (review.page = 0 => review'.left = review.left)
    BY LeftFields DEF ListInv
  <2> QED BY <2>1 DEF ListInv, ReviewMissesFew
<1>2. CASE review.page = 0
  BY <1>1, <1>2, LeftFields DEF ListInv, SlippedFew
<1>3. CASE review.page # 0
  <2>1. IsFiniteSet(Missed) /\ Cardinality(Missed) \in Nat /\ Cardinality(Missed) <= review.left
    BY <1>3, MissedIsFinite DEF ListInv, SlippedFew
  <2>2. IsFiniteSet(Missed \cup {x}) /\ Cardinality(Missed \cup {x}) <= Cardinality(Missed) + 1
        /\ Cardinality(Missed \cup {x}) \in Nat
    BY <2>1, FS_AddElement
  <2>3. Cardinality(Missed') \in Nat /\ Cardinality(Missed') <= Cardinality(Applicants)
    <3>1. Missed' \in SUBSET Applicants
      BY DEF Missed, ListTyped, Review
    <3> QED BY <3>1, TaxAssumption, FS_Subset, FS_CardinalityType
  <2>4. review.left \in Nat /\ Cardinality(Applicants) \in Nat /\ review.left <= Cardinality(Applicants)
    BY ReviewFields DEF ListInv
  <2>5. Cardinality(Missed') <= Cardinality(Missed) + 1
    <3>1. Missed' \in SUBSET (Missed \cup {x})
      BY <1>3
    <3>2. Cardinality(Missed') <= Cardinality(Missed \cup {x})
      BY <2>2, <3>1, FS_Subset
    <3> QED BY <2>1, <2>2, <2>3, <3>2
  <2>6. u \notin Pending => Cardinality(Missed') <= Cardinality(Missed)
    BY <1>3, <2>1, FS_Subset
  <2>7. review'.left = IF u \in Pending /\ review.left < Cardinality(Applicants)
                         THEN review.left + 1 ELSE review.left
    BY <1>3, LeftFields DEF ListInv
  <2>8. Cardinality(Missed') <= review'.left
    BY <2>1, <2>3, <2>4, <2>5, <2>6, <2>7
  <2> QED BY <1>1, <2>8 DEF SlippedFew
<1> QED BY <1>1, <1>2, <1>3

\* An application leaves the list: one of those behind it can slip to the page before.
LEMMA LeavesTheList ==
    ASSUME ListInv, NEW u, users' \subseteq Applicants, Pending' = Pending \ {u}, Leaves(u)
    PROVE  ListInv'
<1>1. newer' = Without(u) /\ review' = Left(u)
  BY DEF Leaves
<1>2. ListTyped'
  BY <1>1, LeftFields DEF ListInv, ListTyped
<1>3. Ordered'
  BY <1>1 DEF ListInv, Ordered, Without
<1>4. \A v \in Pending' : Shown(v)' = Shown(v) \ {u}
  BY <1>1 DEF Shown, Without
<1>5. \A v \in Pending' : /\ Before(v)' \in Nat /\ Before(v) \in Nat
                          /\ Before(v)' = IF <<u, v>> \in newer /\ u \in Pending THEN Before(v) - 1 ELSE Before(v)
  <2> SUFFICES ASSUME NEW v \in Pending'
               PROVE  /\ Before(v)' \in Nat /\ Before(v) \in Nat
                      /\ Before(v)' = IF <<u, v>> \in newer /\ u \in Pending THEN Before(v) - 1 ELSE Before(v)
    OBVIOUS
  <2>1. IsFiniteSet(Shown(v)) /\ Before(v) = Cardinality(Shown(v)) /\ Before(v) \in Nat
    BY ShownIsFinite DEF ListInv
  <2>2. Cardinality(Shown(v) \ {u}) = IF u \in Shown(v) THEN Cardinality(Shown(v)) - 1 ELSE Cardinality(Shown(v))
    BY <2>1, FS_RemoveElement
  <2>3. Before(v)' = Cardinality(Shown(v)') /\ Before(v)' \in Nat
    <3>1. Before(v)' = Cardinality(Shown(v)')
      BY DEF Before, Shown
    <3>2. IsFiniteSet(Shown(v) \ {u})
      BY <2>1, FS_RemoveElement
    <3> QED BY <1>4, <3>1, <3>2, FS_CardinalityType
  <2>4. u \in Shown(v) <=> (<<u, v>> \in newer /\ u \in Pending)
    BY DEF Shown
  <2> QED BY <1>4, <2>1, <2>2, <2>3, <2>4
<1> DEFINE s == Skipped(review.page)
<1>6. /\ review'.page = review.page /\ review'.seen = review.seen /\ review'.waiting = review.waiting
  BY <1>1, LeftFields DEF ListInv
<1>7. review.page # 0 => s \in Nat
  BY SkippedIsNat, ReviewFields DEF ListInv
<1>8. \A v : v \in Missed' <=> /\ v \in review.waiting \ review.seen
                               /\ (v \notin Pending' \/ Before(v)' < s)
  BY <1>6 DEF Missed, Skipped
<1>9. \A v : v \in Missed <=> /\ v \in review.waiting \ review.seen
                              /\ (v \notin Pending \/ Before(v) < s)
  BY DEF Missed
<1> HIDE DEF s
<1>10. CASE u \notin Pending
  <2>1. Missed' \subseteq Missed
    BY <1>5, <1>8, <1>9, <1>10
  <2>2. SlippedFew' /\ ReviewMissesFew'
    BY <1>1, <1>2, <2>1, OneMoreSlips
  <2> QED BY <1>2, <1>3, <2>2 DEF ListInv
<1>11. CASE u \in Pending /\ review.page # 0 /\ Before(u) < s
  <2>1. u \in review.waiting \ review.seen => u \in Missed
    BY <1>9, <1>11
  <2>2. \A v \in Missed' \ Missed : v \in Pending /\ Before(v) = s
    <3> SUFFICES ASSUME NEW v \in Missed', v \notin Missed PROVE v \in Pending /\ Before(v) = s
      OBVIOUS
    <3>1. v # u /\ v \in Pending /\ ~(Before(v) < s)
      BY <1>8, <1>9, <2>1
    <3>2. v \in Pending' /\ Before(v)' < s
      BY <1>8, <3>1
    <3>3. Before(v) \in Nat /\ (Before(v)' = Before(v) - 1 \/ Before(v)' = Before(v))
      BY <1>5, <3>2
    <3> QED BY <1>7, <1>11, <3>1, <3>2, <3>3
  <2>3. \A v, w \in Missed' \ Missed : v = w
    BY <2>2, PlacesDiffer DEF ListInv
  <2>4. \E x : Missed' \subseteq Missed \cup {x}
    <3>1. CASE Missed' \subseteq Missed
      BY <3>1
    <3>2. CASE ~(Missed' \subseteq Missed)
      <4>1. PICK x \in Missed' : x \notin Missed
        BY <3>2
      <4>2. Missed' \subseteq Missed \cup {x}
        BY <2>3, <4>1
      <4> QED BY <4>2
    <3> QED BY <3>1, <3>2
  <2>5. PICK x : Missed' \subseteq Missed \cup {x}
    BY <2>4
  <2>6. SlippedFew' /\ ReviewMissesFew'
    BY <1>1, <1>2, <1>11, <2>5, OneMoreSlips
  <2> QED BY <1>2, <1>3, <2>6 DEF ListInv
<1>12. CASE u \in Pending /\ review.page # 0 /\ ~(Before(u) < s)
  <2>1. Before(u) \in Nat
    BY ShownIsFinite DEF ListInv
  <2>2. \A v \in Pending : <<u, v>> \in newer => Before(u) < Before(v)
    BY <1>12, EarlierIsFewer DEF ListInv
  <2>3. Missed' \subseteq Missed \cup {u}
    <3> SUFFICES ASSUME NEW v \in Missed', v # u PROVE v \in Missed
      OBVIOUS
    <3>1. CASE v \notin Pending
      BY <1>8, <1>9, <3>1
    <3>2. CASE v \in Pending
      <4>1. v \in Pending' /\ Before(v)' < s
        BY <1>8, <3>2
      <4>2. Before(v) < s
        <5>1. Before(v) \in Nat /\ (<<u, v>> \notin newer => Before(v)' = Before(v))
              /\ (<<u, v>> \in newer => Before(v)' = Before(v) - 1)
          BY <1>5, <1>12, <4>1
        <5>2. s \in Nat /\ ~(Before(u) < s) /\ (<<u, v>> \in newer => Before(u) < Before(v))
          BY <1>7, <1>12, <2>2, <3>2
        <5> QED BY <2>1, <4>1, <5>1, <5>2
      <4> QED BY <1>8, <1>9, <4>2
    <3> QED BY <3>1, <3>2
  <2>4. SlippedFew' /\ ReviewMissesFew'
    BY <1>1, <1>2, <1>12, <2>3, OneMoreSlips
  <2> QED BY <1>2, <1>3, <2>4 DEF ListInv
<1>13. CASE review.page = 0
  <2>1. SlippedFew' /\ ReviewMissesFew'
    BY <1>1, <1>2, <1>13, OneMoreSlips
  <2> QED BY <1>2, <1>3, <2>1 DEF ListInv
<1> QED BY <1>10, <1>11, <1>12, <1>13

\* A new application goes to the front: nobody else slips to an earlier page.
LEMMA EntersTheList ==
    ASSUME ListInv, NEW u \in Applicants, users' \subseteq Applicants, Pending' = Pending \cup {u},
           newer' = Without(u) \cup ({u} \X (Pending \ {u})), review' = Left(u)
    PROVE  ListInv'
<1>2. ListTyped'
  BY LeftFields DEF ListInv, ListTyped
<1>3. Ordered'
  <2>1. \A v, w : <<v, w>> \in newer' <=> \/ <<v, w>> \in newer /\ u # v /\ u # w
                                          \/ v = u /\ w \in Pending /\ w # u
    BY DEF Without
  <2>2. newer' \subseteq Pending' \X Pending'
    BY DEF Without, ListInv, Ordered
  <2> QED BY <2>1, <2>2 DEF ListInv, Ordered
<1>4. \A v \in Pending \ {u} : Shown(v) \subseteq Shown(v)'
  BY DEF Shown, Without
<1>5. \A v \in Pending \ {u} : /\ Before(v)' \in Nat /\ Before(v) \in Nat
                               /\ Before(v) <= Before(v)'
  <2> SUFFICES ASSUME NEW v \in Pending \ {u}
               PROVE  Before(v)' \in Nat /\ Before(v) \in Nat /\ Before(v) <= Before(v)'
    OBVIOUS
  <2>1. Before(v) = Cardinality(Shown(v)) /\ Before(v) \in Nat
    BY ShownIsFinite DEF ListInv
  <2>2. Before(v)' = Cardinality(Shown(v)')
    BY DEF Before, Shown
  <2>3. IsFiniteSet(Shown(v)')
    <3>1. Shown(v)' \in SUBSET Applicants
      BY <1>2 DEF Shown, Pending, ListTyped
    <3> QED BY <3>1, TaxAssumption, FS_Subset
  <2>4. Shown(v) \in SUBSET (Shown(v)')
    BY <1>4
  <2>5. Cardinality(Shown(v)) <= Cardinality(Shown(v)') /\ Cardinality(Shown(v)') \in Nat
    BY <2>3, <2>4, FS_Subset, FS_CardinalityType
  <2> QED BY <2>1, <2>2, <2>5
<1> DEFINE s == Skipped(review.page)
<1>6. /\ review'.page = review.page /\ review'.seen = review.seen /\ review'.waiting = review.waiting
  BY LeftFields DEF ListInv
<1>7. review.page # 0 => s \in Nat
  BY SkippedIsNat, ReviewFields DEF ListInv
<1>8. \A v : v \in Missed' <=> /\ v \in review.waiting \ review.seen
                               /\ (v \notin Pending' \/ Before(v)' < s)
  BY <1>6 DEF Missed, Skipped
<1>9. \A v : v \in Missed <=> /\ v \in review.waiting \ review.seen
                              /\ (v \notin Pending \/ Before(v) < s)
  BY DEF Missed
<1> HIDE DEF s
<1>10. ASSUME review.page # 0, NEW v \in Missed', v # u PROVE v \in Missed
  <2>1. CASE v \notin Pending
    BY <1>8, <1>9, <1>10, <2>1
  <2>2. CASE v \in Pending
    <3>1. Before(v)' < s
      BY <1>8, <1>10, <2>2
    <3>2. Before(v) \in Nat /\ Before(v)' \in Nat /\ Before(v) <= Before(v)' /\ s \in Nat
      BY <1>5, <1>7, <1>10, <2>2
    <3>3. Before(v) < s
      BY <3>1, <3>2
    <3> QED BY <1>8, <1>9, <1>10, <3>3
  <2> QED BY <2>1, <2>2
<1>11. review.page # 0 => Missed' \subseteq Missed \cup {u}
  BY <1>10
<1>12. review.page # 0 /\ u \notin Pending => Missed' \subseteq Missed
  BY <1>8, <1>9, <1>10
<1>13. SlippedFew' /\ ReviewMissesFew'
  BY <1>2, <1>11, <1>12, OneMoreSlips
<1> QED BY <1>2, <1>3, <1>13 DEF ListInv

LEMMA ListStays ==
    ASSUME ListInv, UNCHANGED <<users, status, newer, review>>
    PROVE  ListInv'
<1>1. Pending' = Pending /\ Missed' = Missed
  BY DEF Pending, Missed, Before, Skipped
<1> QED BY <1>1 DEF ListInv, ListTyped, Ordered, SlippedFew, ReviewMissesFew

LEMMA ListBegins ==
    ASSUME ListInv, ListBegin
    PROVE  ListInv'
<1>1. /\ review' = [page |-> 1, seen |-> {}, waiting |-> Pending, left |-> 0]
      /\ UNCHANGED <<users, status, newer>>
  BY DEF ListBegin, Start
<1>2. Pending' = Pending /\ \A v : Before(v)' = Before(v)
  BY <1>1 DEF Pending, Before
<1>3. ListTyped'
  BY <1>1, PendingIsFinite, ReviewFields DEF ListInv, ListTyped, Review
<1>4. Ordered'
  BY <1>1, <1>2 DEF ListInv, Ordered
<1>5. Missed' = {}
  <2>1. \A y \in Nat : 0 * y = 0
    OBVIOUS
  <2>2. review'.page - 1 = 0 /\ PageSize \in Nat
    BY <1>1, TaxAssumption
  <2>3. Skipped(review'.page) = 0
    BY <2>1, <2>2 DEF Skipped
  <2>4. \A v \in review'.waiting : v \in Pending /\ Before(v) \in Nat
    BY <1>1, ShownIsFinite DEF ListInv
  <2> QED BY <1>2, <2>3, <2>4 DEF Missed
<1>6. SlippedFew' /\ ReviewMissesFew'
  BY <1>1, <1>5, FS_EmptySet DEF SlippedFew, ReviewMissesFew
<1> QED BY <1>3, <1>4, <1>6 DEF ListInv

\* A full page shows everybody before the next one; after the last page nobody is left behind it.
LEMMA ListGoesOn ==
    ASSUME ListInv, ListPage
    PROVE  ListInv'
<1> DEFINE page == Page(review.page)
           s == Skipped(review.page)
<1>1. review.page # 0 /\ review.page \in Nat /\ UNCHANGED <<users, status, newer>>
  BY ReviewFields DEF ListPage, ListInv
<1>2. Pending' = Pending /\ \A v : Before(v)' = Before(v)
  BY <1>1 DEF Pending, Before
<1>3. Ordered'
  BY <1>1, <1>2 DEF ListInv, Ordered
<1>4. page \subseteq Pending /\ Pending \subseteq Applicants /\ PageSize \in Nat
  BY PendingIsFinite, TaxAssumption DEF Page, ListInv
<1>5. \A v \in Pending : v \in page <=> s <= Before(v) /\ Before(v) < s + PageSize
  BY DEF Page
<1>6. s \in Nat /\ Skipped(review.page + 1) = s + PageSize /\ \A v \in Pending : Before(v) \in Nat
  BY <1>1, SkippedIsNat, ShownIsFinite DEF ListInv
<1>7. \A v : v \in Missed <=> /\ v \in review.waiting \ review.seen
                              /\ (v \notin Pending \/ Before(v) < s)
  BY DEF Missed
<1>8. Cardinality(Missed) <= review.left /\ IsFiniteSet(Missed)
  BY <1>1, MissedIsFinite DEF ListInv, SlippedFew
<1>9. Cardinality(page) # PageSize => \A v \in Pending : ~(s + PageSize <= Before(v))
  BY <1>1, PageIsFull DEF ListInv
<1>10. review' = IF Cardinality(page) = PageSize
                   THEN [review EXCEPT !.page = @ + 1, !.seen = @ \cup page]
                   ELSE [review EXCEPT !.page = 0, !.seen = @ \cup page, !.waiting = @ \cap Pending]
  BY DEF ListPage
<1> HIDE DEF page, s
<1>11. CASE Cardinality(page) = PageSize
  <2>1. review' = [page |-> review.page + 1, seen |-> review.seen \cup page,
                   waiting |-> review.waiting, left |-> review.left]
    BY <1>10, <1>11, ReviewFields DEF ListInv
  <2>2. ListTyped'
    BY <1>1, <1>4, <2>1, ReviewFields DEF ListInv, ListTyped, Review
  <2>3. \A v : v \in Missed' => /\ v \in review.waiting \ review.seen /\ v \notin page
                                /\ (v \notin Pending \/ Before(v) < s + PageSize)
    BY <1>2, <1>6, <2>1 DEF Missed, Skipped
  <2>4. Missed' \in SUBSET Missed
    BY <1>4, <1>5, <1>6, <1>7, <2>3
  <2>5. Cardinality(Missed') <= review.left
    <3>1. Cardinality(Missed') <= Cardinality(Missed) /\ IsFiniteSet(Missed')
      BY <1>8, <2>4, FS_Subset
    <3>2. Cardinality(Missed') \in Nat /\ Cardinality(Missed) \in Nat /\ review.left \in Nat
      BY <1>8, <3>1, FS_CardinalityType, ReviewFields DEF ListInv
    <3> QED BY <1>8, <3>1, <3>2
  <2>6. SlippedFew' /\ ReviewMissesFew'
    BY <1>1, <2>1, <2>5 DEF SlippedFew, ReviewMissesFew
  <2> QED BY <1>3, <2>2, <2>6 DEF ListInv
<1>12. CASE Cardinality(page) # PageSize
  <2>1. review' = [page |-> 0, seen |-> review.seen \cup page,
                   waiting |-> review.waiting \cap Pending, left |-> review.left]
    BY <1>10, <1>12, ReviewFields DEF ListInv
  <2>2. ListTyped'
    BY <1>1, <1>4, <2>1, ReviewFields DEF ListInv, ListTyped, Review
  <2>3. \A v \in review'.waiting \ review'.seen : v \in Missed
    BY <1>4, <1>5, <1>6, <1>7, <1>9, <1>12, <2>1
  <2>4. Cardinality(review'.waiting \ review'.seen) <= review.left
    <3>1. /\ Cardinality(review'.waiting \ review'.seen) <= Cardinality(Missed)
          /\ IsFiniteSet(review'.waiting \ review'.seen)
      BY <1>8, <2>3, FS_Subset
    <3>2. /\ Cardinality(review'.waiting \ review'.seen) \in Nat
          /\ Cardinality(Missed) \in Nat /\ review.left \in Nat
      BY <1>8, <3>1, FS_CardinalityType, ReviewFields DEF ListInv
    <3> QED BY <1>8, <3>1, <3>2
  <2>5. SlippedFew' /\ ReviewMissesFew'
    BY <2>1, <2>4 DEF SlippedFew, ReviewMissesFew
  <2> QED BY <1>3, <2>2, <2>5 DEF ListInv
<1> QED BY <1>11, <1>12

LEMMA StepListInv ==
    ASSUME TaxInv, ListInv, [TaxNext]_taxVars
    PROVE  ListInv'
<1>0. status \in [Applicants -> TaxStatuses] /\ users \subseteq Applicants
  BY DEF TaxInv, NumbersTyped
<1>1. ASSUME NEW q \in Submissions, NEW u \in Applicants, NEW n \in Numbers, SubmitRead(q, u, n) PROVE ListInv'
  BY <1>1, ListStays DEF SubmitRead
<1>2. ASSUME NEW q \in Submissions, SubmitWrite(q) PROVE ListInv'
  <2> DEFINE u == submission[q].user
  <2>1. u \in Applicants
    BY <1>2, InFlight DEF SubmitWrite
  <2>2. CASE u \in users /\ NumberIsFree(u, submission[q].number)
    <3>1. /\ users' = users /\ status' = [status EXCEPT ![u] = "pending"]
          /\ newer' = Without(u) \cup ({u} \X (Pending \ {u})) /\ review' = Left(u)
      BY <1>2, <2>2 DEF SubmitWrite
    <3>2. Pending' = Pending \cup {u}
      BY <1>0, <2>1, <2>2, <3>1 DEF Pending
    <3> QED BY <1>0, <2>1, <3>1, <3>2, EntersTheList
  <2>3. CASE ~(u \in users /\ NumberIsFree(u, submission[q].number))
    BY <1>2, <2>3, ListStays DEF SubmitWrite
  <2> QED BY <2>2, <2>3
<1>3. ASSUME NEW q \in Submissions, SubmitAbort(q) PROVE ListInv'
  BY <1>3, ListStays DEF SubmitAbort
<1>4. ASSUME NEW u \in Applicants, Withdraw(u) PROVE ListInv'
  <2>1. users' = users /\ status' = [status EXCEPT ![u] = "none"] /\ Leaves(u)
    BY <1>4 DEF Withdraw
  <2>2. Pending' = Pending \ {u}
    BY <1>0, <2>1 DEF Pending
  <2> QED BY <1>0, <2>1, <2>2, LeavesTheList
<1>5. ASSUME NEW u \in Applicants, DeleteUser(u) PROVE ListInv'
  <2>1. users' = users \ {u} /\ status' = status /\ Leaves(u)
    BY <1>5 DEF DeleteUser
  <2>2. Pending' = Pending \ {u}
    BY <2>1 DEF Pending
  <2> QED BY <1>0, <2>1, <2>2, LeavesTheList
<1>6. ASSUME NEW u \in Applicants, NEW decision \in Decisions, Decide(u, decision) PROVE ListInv'
  <2>1. users' = users /\ status' = [status EXCEPT ![u] = decision] /\ Leaves(u) /\ decision # "pending"
    BY <1>6 DEF Decide, UpdateMatriculeFiscaleStatus, Decisions
  <2>2. Pending' = Pending \ {u}
    BY <1>0, <2>1 DEF Pending
  <2> QED BY <1>0, <2>1, <2>2, LeavesTheList
<1>7. ASSUME NEW u \in Applicants, Approve(u) \/ Reject(u) PROVE ListInv'
  BY <1>6, <1>7 DEF Approve, Reject, Decisions
<1>8. CASE UNCHANGED taxVars
  BY <1>8, ListStays DEF taxVars
<1> QED BY <1>1, <1>2, <1>3, <1>4, <1>5, <1>7, <1>8, ListBegins, ListGoesOn DEF TaxNext

LEMMA InitListInv == TaxInit => ListInv
<1> SUFFICES ASSUME TaxInit PROVE ListInv
  OBVIOUS
<1>1. Pending = {} /\ newer = {}
  BY DEF TaxInit, Pending
<1>2. Cardinality(Applicants) \in Nat
  BY TaxAssumption, FS_CardinalityType
<1>3. ListTyped
  <2>1. 0 \in 0 .. Cardinality(Applicants)
    BY <1>2
  <2>2. review \in Review
    BY <2>1 DEF TaxInit, Start, Review
  <2> QED BY <2>2 DEF TaxInit, ListTyped
<1>4. Ordered /\ SlippedFew
  BY <1>1 DEF TaxInit, Start, Ordered, SlippedFew
<1>5. review.waiting \ review.seen = {} /\ review.left = 0
  BY DEF TaxInit, Start
<1>6. ReviewMissesFew
  BY <1>5, FS_EmptySet DEF ReviewMissesFew
<1> QED BY <1>3, <1>4, <1>6 DEF ListInv

\* The inductive invariant of the list: it is ordered, and what an admin has not been shown is still
\* ahead of him, except for one application for each that left its place.
THEOREM Spec_ListInv == TaxSpec => []ListInv
  BY InitListInv, StepListInv, Spec_TaxInv, PTL DEF TaxSpec

\* For any number of users and any length of the pages, whatever arrives, is decided, withdrawn or
\* submitted again between two pages: the admin misses no more applications than left their place.
THEOREM Spec_ReviewMissesFew == TaxSpec => []ReviewMissesFew
<1>1. ListInv => ReviewMissesFew
  BY DEF ListInv
<1> QED BY <1>1, Spec_ListInv, PTL

\* The state is well formed for any number of users, of numbers and of submissions in flight, and
\* nobody has a number of somebody else.
THEOREM Spec_TaxTypeOK == TaxSpec => []TaxTypeOK
<1>1. TaxInv /\ ListInv => TaxTypeOK
  BY DEF TaxInv, NumbersTyped, ListInv, ListTyped, Ordered, TaxTypeOK
<1> QED BY <1>1, Spec_TaxInv, Spec_ListInv, PTL

-----------------------------------------------------------------------------
(* The circuit breaker.  Each call that was admitted to a service that is not well still runs, or has  *)
(* failed: then it counts in failures, or a late success has started the count again after fewer       *)
(* failures than the threshold.                                                                        *)

BadCalls == {c \in Calls : call[c] = "bad"}

\* The failures that did not open the breaker and that no success has cleared.
Pressing == IF failures < Threshold THEN failures ELSE 0

LoadCounted ==
    /\ well => tries = 0
    /\ tries <= late * (Threshold - 1) + Pressing + Cardinality(BadCalls)

BreakerInv == BreakerTypeOK /\ LoadCounted

LEMMA BreakerNumbers ==
    ASSUME BreakerTypeOK
    PROVE  /\ Threshold \in Nat \ {0} /\ ResetTimeout \in Nat /\ failures \in Nat /\ tries \in Nat /\ late \in Nat
           /\ late * (Threshold - 1) \in Nat /\ Pressing \in Nat /\ Pressing <= Threshold - 1
           /\ (late + 1) * (Threshold - 1) = late * (Threshold - 1) + (Threshold - 1)
           /\ IsFiniteSet(BadCalls) /\ Cardinality(BadCalls) \in Nat
           /\ Cardinality(BadCalls) <= Cardinality(Calls) /\ Cardinality(Calls) \in Nat
<1>1. Threshold \in Nat \ {0} /\ ResetTimeout \in Nat /\ failures \in Nat /\ tries \in Nat /\ late \in Nat
  BY BreakerAssumption DEF BreakerTypeOK
<1>2. \A x, y \in Nat : x * y \in Nat /\ (x + 1) * y = x * y + y
  OBVIOUS
<1>3. Threshold - 1 \in Nat /\ Pressing \in Nat /\ Pressing <= Threshold - 1
  BY <1>1 DEF Pressing
<1>4. BadCalls \in SUBSET Calls
  BY DEF BadCalls
<1> QED BY <1>1, <1>2, <1>3, <1>4, BreakerAssumption, FS_Subset, FS_CardinalityType

\* A call that begins against a broken service joins the bad ones; one that fails leaves them.
LEMMA OneBadCall ==
    ASSUME BreakerTypeOK, NEW c \in Calls, NEW s \in {"idle", "good", "bad"}, call' = [call EXCEPT ![c] = s]
    PROVE  /\ call' \in [Calls -> {"idle", "good", "bad"}]
           /\ Cardinality(BadCalls') = IF s = "bad"
                                         THEN IF call[c] = "bad" THEN Cardinality(BadCalls) ELSE Cardinality(BadCalls) + 1
                                         ELSE IF call[c] = "bad" THEN Cardinality(BadCalls) - 1 ELSE Cardinality(BadCalls)
<1>1. call' \in [Calls -> {"idle", "good", "bad"}] /\ \A d \in Calls : call'[d] = IF d = c THEN s ELSE call[d]
  BY DEF BreakerTypeOK
<1>2. BadCalls' = IF s = "bad" THEN BadCalls \cup {c} ELSE BadCalls \ {c}
  BY <1>1 DEF BadCalls
<1>3. c \in BadCalls <=> call[c] = "bad"
  BY DEF BadCalls
<1> QED BY <1>1, <1>2, <1>3, BreakerNumbers, FS_AddElement, FS_RemoveElement

LEMMA AdmitInv ==
    ASSUME BreakerInv, NEW c \in Calls, Admit(c)
    PROVE  BreakerInv'
<1> USE DEF BreakerInv
<1>1. CASE well
  <2>1. call' = [call EXCEPT ![c] = "good"] /\ tries' = 0
    BY <1>1 DEF Admit
  <2>2. BreakerTypeOK'
    BY <2>1, OneBadCall DEF Admit, BreakerTypeOK
  <2>3. tries' <= late' * (Threshold - 1) + Pressing' + Cardinality(BadCalls')
    <3>1. /\ late' * (Threshold - 1) \in Nat /\ Pressing' \in Nat /\ Cardinality(BadCalls') \in Nat
      BY <2>1, OneBadCall, BreakerNumbers DEF Admit, Pressing
    <3> QED BY <2>1, <3>1
  <2> QED BY <2>1, <2>2, <2>3 DEF LoadCounted
<1>2. CASE ~well
  <2>1. call' = [call EXCEPT ![c] = "bad"] /\ tries' = tries + 1 /\ call[c] = "idle" /\ well' = well
        /\ late' = late /\ failures' = failures
    BY <1>2 DEF Admit
  <2>2. Cardinality(BadCalls') = Cardinality(BadCalls) + 1 /\ call' \in [Calls -> {"idle", "good", "bad"}]
    BY <2>1, OneBadCall
  <2>3. BreakerTypeOK'
    BY <2>1, <2>2, BreakerNumbers DEF Admit, BreakerTypeOK
  <2>4. Pressing' = Pressing
    BY <2>1 DEF Pressing
  <2>5. tries' <= late' * (Threshold - 1) + Pressing' + Cardinality(BadCalls')
    BY <2>1, <2>2, <2>4, BreakerNumbers DEF LoadCounted
  <2> QED BY <1>2, <2>1, <2>3, <2>5 DEF LoadCounted
<1> QED BY <1>1, <1>2

\* A failure presses on the breaker, or opens it, and then the account begins again.
LEMMA FailInv ==
    ASSUME BreakerInv, NEW c \in Calls, Fail(c)
    PROVE  BreakerInv'
<1> USE DEF BreakerInv
<1>0. /\ call[c] = "bad" /\ call' = [call EXCEPT ![c] = "idle"] /\ well' = well
      /\ failures' = Counted(failures + 1) /\ age' = 0
  BY DEF Fail
<1>1. call' \in [Calls -> {"idle", "good", "bad"}] /\ Cardinality(BadCalls') = Cardinality(BadCalls) - 1
  BY <1>0, OneBadCall
<1>2. failures' \in 0 .. Threshold + 1 /\ age' \in BreakerAges
  BY <1>0, BreakerNumbers DEF Counted, BreakerAges
<1>3. Cardinality(BadCalls') \in Nat
  <2>1. IsFiniteSet(BadCalls')
    <3>1. BadCalls' \in SUBSET Calls
      BY DEF BadCalls
    <3> QED BY <3>1, BreakerAssumption, FS_Subset
  <2> QED BY <2>1, FS_CardinalityType
<1>4. CASE Opens(failures + 1)
  <2>1. state' = "open" /\ tries' = 0 /\ late' = 0
    BY <1>4 DEF Fail
  <2>2. BreakerTypeOK'
    BY <1>0, <1>1, <1>2, <2>1 DEF BreakerTypeOK
  <2>3. 0 * (Threshold - 1) = 0 /\ Pressing' \in Nat
    BY <1>2, BreakerNumbers DEF Pressing
  <2> QED BY <1>3, <2>1, <2>2, <2>3 DEF LoadCounted
<1>5. CASE ~Opens(failures + 1)
  <2>1. state' = state /\ tries' = tries /\ late' = late /\ failures + 1 < Threshold
    BY <1>5, BreakerNumbers DEF Fail, Opens
  <2>2. failures' = failures + 1
    BY <1>0, <2>1, BreakerNumbers DEF Counted
  <2>3. BreakerTypeOK'
    BY <1>0, <1>1, <1>2, <2>1, <2>2 DEF BreakerTypeOK
  <2>4. Pressing' = Pressing + 1
    BY <2>1, <2>2, BreakerNumbers DEF Pressing
  <2>5. tries' <= late' * (Threshold - 1) + Pressing' + Cardinality(BadCalls')
    BY <1>1, <2>1, <2>4, BreakerNumbers DEF LoadCounted
  <2> QED BY <1>0, <2>1, <2>3, <2>5 DEF LoadCounted
<1> QED BY <1>4, <1>5

\* A late success clears fewer failures than the threshold.
LEMMA SucceedInv ==
    ASSUME BreakerInv, NEW c \in Calls, Succeed(c)
    PROVE  BreakerInv'
<1> USE DEF BreakerInv
<1>0. /\ call[c] = "good" /\ call' = [call EXCEPT ![c] = "idle"] /\ well' = well /\ tries' = tries /\ age' = age
      /\ failures' = 0 /\ state' = IF state = "half-open" THEN "closed" ELSE state
      /\ late' = IF well THEN 0 ELSE late + 1
  BY DEF Succeed, AfterSuccess
<1>1. call' \in [Calls -> {"idle", "good", "bad"}] /\ Cardinality(BadCalls') = Cardinality(BadCalls)
  BY <1>0, OneBadCall
<1>2. BreakerTypeOK'
  BY <1>0, <1>1, BreakerNumbers DEF BreakerTypeOK
<1>3. Pressing' = 0
  BY <1>0, BreakerNumbers DEF Pressing
<1>4. CASE well
  <2>1. tries' = 0 /\ late' = 0 /\ 0 * (Threshold - 1) = 0
    BY <1>0, <1>4, BreakerNumbers DEF LoadCounted
  <2> QED BY <1>1, <1>2, <1>3, <2>1, BreakerNumbers DEF LoadCounted
<1>5. CASE ~well
  <2>1. tries' <= (late + 1) * (Threshold - 1) + Cardinality(BadCalls)
    BY <1>0, BreakerNumbers DEF LoadCounted
  <2>2. late' = late + 1 /\ (late + 1) * (Threshold - 1) \in Nat
    BY <1>0, <1>5, BreakerNumbers
  <2>3. tries' <= late' * (Threshold - 1) + Pressing' + Cardinality(BadCalls')
    BY <1>1, <1>3, <2>1, <2>2, BreakerNumbers
  <2> QED BY <1>0, <1>2, <1>5, <2>3 DEF LoadCounted
<1> QED BY <1>4, <1>5

\* The service breaks or recovers: the account begins again.
LEMMA BeginsAgain ==
    ASSUME BreakerInv, well' \in BOOLEAN, call' \in [Calls -> {"idle", "good", "bad"}],
           tries' = 0, late' = 0, UNCHANGED <<state, failures, age>>
    PROVE  BreakerInv'
<1>1. BreakerTypeOK'
  BY DEF BreakerInv, BreakerTypeOK
<1>2. BadCalls' \in SUBSET Calls
  BY DEF BadCalls
<1>3. Cardinality(BadCalls') \in Nat
  BY <1>2, BreakerAssumption, FS_Subset, FS_CardinalityType
<1>4. Pressing' \in Nat /\ 0 * (Threshold - 1) = 0
  BY BreakerNumbers DEF BreakerInv, Pressing
<1> QED BY <1>1, <1>3, <1>4 DEF BreakerInv, LoadCounted

LEMMA BreakerStays ==
    ASSUME BreakerInv, age' \in BreakerAges, UNCHANGED <<state, failures, call, well, tries, late>>
    PROVE  BreakerInv'
<1>1. BadCalls' = BadCalls /\ Pressing' = Pressing
  BY DEF BadCalls, Pressing
<1> QED BY <1>1 DEF BreakerInv, BreakerTypeOK, LoadCounted

LEMMA StepBreakerInv == BreakerInv /\ [BreakerNext]_breakerVars => BreakerInv'
<1> SUFFICES ASSUME BreakerInv, [BreakerNext]_breakerVars PROVE BreakerInv'
  OBVIOUS
<1>0. age \in BreakerAges /\ call \in [Calls -> {"idle", "good", "bad"}]
  BY DEF BreakerInv, BreakerTypeOK
<1>1. ASSUME NEW c \in Calls, Refuse(c) PROVE BreakerInv'
  BY <1>0, <1>1, BreakerStays DEF Refuse, Refused
<1>2. CASE BreakerTick
  <2>1. age' \in BreakerAges
    BY <1>0, <1>2, BreakerAssumption DEF BreakerTick, BreakerAges
  <2> QED BY <1>2, <2>1, BreakerStays DEF BreakerTick
<1>3. CASE Break
  <2>1. call' \in [Calls -> {"idle", "good", "bad"}]
    BY <1>0, <1>3 DEF Break
  <2> QED BY <1>3, <2>1, BeginsAgain DEF Break
<1>4. CASE Recover
  BY <1>0, <1>4, BeginsAgain DEF Recover
<1>5. CASE UNCHANGED breakerVars
  BY <1>0, <1>5, BreakerStays DEF breakerVars
<1> QED BY <1>1, <1>2, <1>3, <1>4, <1>5, AdmitInv, FailInv, SucceedInv DEF BreakerNext, Arrive, End

LEMMA InitBreakerInv == BreakerInit => BreakerInv
<1> SUFFICES ASSUME BreakerInit PROVE BreakerInv
  OBVIOUS
<1>1. BreakerTypeOK
  BY BreakerAssumption DEF BreakerInit, BreakerTypeOK, BreakerAges
<1>2. tries = 0 /\ late = 0 /\ 0 * (Threshold - 1) = 0
  BY BreakerAssumption DEF BreakerInit
<1> QED BY <1>1, <1>2, BreakerNumbers DEF BreakerInv, LoadCounted

\* The inductive invariant: the types, and where each call to the broken service is.
THEOREM Spec_BreakerInv == BreakerSpec => []BreakerInv
  BY InitBreakerInv, StepBreakerInv, PTL DEF BreakerSpec

\* A closed breaker is below its threshold, whatever calls end in between.
THEOREM Spec_BreakerTypeOK == BreakerSpec => []BreakerTypeOK
<1>1. BreakerInv => BreakerTypeOK
  BY DEF BreakerInv
<1> QED BY <1>1, Spec_BreakerInv, PTL

\* For any threshold and any number of calls, a broken service gets a bounded number of calls between
\* two openings, also when results of older calls come in in any order.
THEOREM Spec_LoadOnABrokenService == BreakerSpec => []LoadOnABrokenService
<1>1. BreakerInv => LoadOnABrokenService
  BY BreakerNumbers DEF BreakerInv, LoadCounted, LoadOnABrokenService
<1> QED BY <1>1, Spec_BreakerInv, PTL

-----------------------------------------------------------------------------
(* The status gate.  Its cache is a map and a list; put keeps them in agreement, moves an old entry   *)
(* to the back and evicts from the front.                                                            *)

\* A list of the cache: users without repetition.
List(s) == s \in Seq(Users) /\ \A i, j \in 1 .. Len(s) : s[i] = s[j] => i = j

LEMMA OrderIsList ==
    ASSUME GateTypeOK
    PROVE  /\ List(order) /\ Len(order) \in Nat /\ Len(order) <= MaxEntries
           /\ DOMAIN order = 1 .. Len(order)
           /\ \A v : v \in Cached <=> \E i \in 1 .. Len(order) : order[i] = v
<1>1. DOMAIN order = 1 .. Len(order) /\ Len(order) \in Nat
  BY DEF GateTypeOK
<1>2. \A v : v \in Cached <=> \E i \in DOMAIN order : order[i] = v
  BY DEF GateTypeOK
<1> QED BY <1>1, <1>2 DEF GateTypeOK, List

LEMMA MovedIsList ==
    ASSUME GateTypeOK, NEW u \in Cached
    PROVE  /\ List(MovedToBack(u)) /\ Len(MovedToBack(u)) = Len(order)
           /\ \A v : (\E i \in 1 .. Len(order) : MovedToBack(u)[i] = v) <=> v \in Cached
<1> DEFINE n == Len(order)
           k == Place(u)
           m == MovedToBack(u)
<1>1. /\ n \in Nat /\ DOMAIN order = 1 .. n /\ \A i \in 1 .. n : order[i] \in Users
      /\ \A i, j \in 1 .. n : order[i] = order[j] => i = j
      /\ \A v : v \in Cached <=> \E i \in 1 .. n : order[i] = v
  BY OrderIsList DEF List
<1>2. k \in 1 .. n /\ order[k] = u
  <2>1. \E i \in DOMAIN order : order[i] = u
    BY <1>1
  <2> QED BY <1>1, <2>1 DEF Place
<1>3. m = [i \in 1 .. n |-> IF i < k THEN order[i] ELSE IF i < n THEN order[i + 1] ELSE u]
  BY <1>1 DEF MovedToBack
<1>4. u \in Users
  BY <1>1, <1>2
<1> HIDE DEF n, k, m
<1>5. \A i \in 1 .. n : m[i] \in Users /\ m[i] = IF i < k THEN order[i] ELSE IF i < n THEN order[i + 1] ELSE u
  BY <1>1, <1>3, <1>4
<1>6. m \in Seq(Users) /\ Len(m) = n
  BY <1>1, <1>3, <1>5
<1>7. \A i, j \in 1 .. n : m[i] = m[j] => i = j
  BY <1>1, <1>2, <1>5
<1>8. ASSUME NEW v, v \in Cached PROVE \E i \in 1 .. n : m[i] = v
  <2>1. PICK i \in 1 .. n : order[i] = v
    BY <1>1, <1>8
  <2>2. CASE i < k
    BY <1>5, <2>1, <2>2
  <2>3. CASE i = k
    BY <1>1, <1>2, <1>5, <2>1, <2>3
  <2>4. CASE i > k
    <3>1. i - 1 \in 1 .. n /\ ~(i - 1 < k) /\ i - 1 < n /\ (i - 1) + 1 = i
      BY <1>1, <1>2, <2>4
    <3> QED BY <1>5, <2>1, <3>1
  <2> QED BY <1>1, <1>2, <2>2, <2>3, <2>4
<1>9. ASSUME NEW v, NEW i \in 1 .. n, m[i] = v PROVE v \in Cached
  BY <1>1, <1>2, <1>5, <1>9
<1> QED BY <1>6, <1>7, <1>8, <1>9 DEF List, n, m

LEMMA AppendedIsList ==
    ASSUME GateTypeOK, NEW u \in Users, u \notin Cached
    PROVE  /\ List(Append(order, u)) /\ Len(Append(order, u)) = Len(order) + 1
           /\ \A i \in 1 .. Len(order) : Append(order, u)[i] = order[i]
           /\ Append(order, u)[Len(order) + 1] = u
           /\ \A v : (\E i \in 1 .. Len(order) + 1 : Append(order, u)[i] = v) <=> v \in Cached \cup {u}
<1>1. /\ Len(order) \in Nat /\ order \in Seq(Users)
      /\ \A i, j \in 1 .. Len(order) : order[i] = order[j] => i = j
      /\ \A v : v \in Cached <=> \E i \in 1 .. Len(order) : order[i] = v
  BY OrderIsList DEF List
<1>2. /\ Append(order, u) \in Seq(Users) /\ Len(Append(order, u)) = Len(order) + 1
      /\ \A i \in 1 .. Len(order) : Append(order, u)[i] = order[i]
      /\ Append(order, u)[Len(order) + 1] = u
  BY <1>1
<1> QED BY <1>1, <1>2 DEF List

\* Entries are evicted from the front.
LEMMA TrimmedIsList ==
    ASSUME NEW s, List(s), NEW k \in Nat, k <= Len(s)
    PROVE  LET r == SubSeq(s, k + 1, Len(s))
           IN  /\ List(r) /\ Len(r) = Len(s) - k
               /\ \A i \in 1 .. Len(s) - k : r[i] = s[i + k]
<1> DEFINE r == SubSeq(s, k + 1, Len(s))
<1>1. Len(s) \in Nat /\ \A i \in 1 .. Len(s) : s[i] \in Users
  BY DEF List
<1>2. r \in Seq(Users) /\ Len(r) = Len(s) - k /\ \A i \in 1 .. Len(s) - k : r[i] = s[i + k]
  <2>1. k + 1 \in Int /\ Len(s) \in Int /\ \A i \in (k + 1) .. Len(s) : s[i] \in Users
    BY <1>1
  <2>2. /\ r \in Seq(Users) /\ Len(r) = IF k + 1 <= Len(s) THEN Len(s) - (k + 1) + 1 ELSE 0
        /\ \A i \in 1 .. Len(s) - (k + 1) + 1 : r[i] = s[(k + 1) + i - 1]
    BY <2>1, SubSeqProperties
  <2> HIDE DEF r
  <2> QED BY <1>1, <2>2
<1> HIDE DEF r
<1>3. List(r)
  BY <1>1, <1>2 DEF List
<1> QED BY <1>2, <1>3 DEF r
\* Mutual agreement of the map and the list after put, and what the entries then are.
LEMMA PutKeeps ==
    ASSUME GateTypeOK, NEW u \in Users, NEW val \in Statuses, Put(u, val)
    PROVE  /\ entry' \in [Users -> Entry]
           /\ order' \in Seq(Users) /\ Len(order') <= MaxEntries
           /\ {order'[i] : i \in DOMAIN order'} = Cached'
           /\ \A i, j \in DOMAIN order' : order'[i] = order'[j] => i = j
           /\ \A v \in Users : entry'[v] \in {entry[v], NoEntry} \/ (v = u /\ entry'[v] = [val |-> val, age |-> 0])
<1> DEFINE list == IF u \in Cached THEN MovedToBack(u) ELSE Append(order, u)
           k == Overflow(list)
           evicted == {list[i] : i \in 1 .. k}
           new == [val |-> val, age |-> 0]
<1>0. /\ entry \in [Users -> Entry] /\ Len(order) \in Nat /\ Len(order) <= MaxEntries /\ MaxEntries \in Nat \ {0}
      /\ Cached \subseteq Users /\ \A v \in Users : v \in Cached <=> entry[v].val # "None"
  BY OrderIsList, StatusGateAssumption DEF GateTypeOK, Cached
<1>1. new \in Entry /\ NoEntry \in Entry /\ new.val # "None" /\ NoEntry.val = "None"
  BY StatusGateAssumption DEF Entry, NoEntry, Ages, Statuses
<1>2. /\ order' = SubSeq(list, k + 1, Len(list))
      /\ entry' = [v \in Users |-> CASE v = u -> new
                                     [] v # u /\ v \in evicted -> NoEntry
                                     [] OTHER -> entry[v]]
  BY DEF Put
<1> HIDE DEF new
<1>3. \A v \in Users : entry'[v] = IF v = u THEN new ELSE IF v \in evicted THEN NoEntry ELSE entry[v]
  BY <1>2
<1>4. entry' \in [Users -> Entry]
  <2>1. \A v \in Users : (CASE v = u -> new [] v # u /\ v \in evicted -> NoEntry [] OTHER -> entry[v]) \in Entry
    BY <1>0, <1>1
  <2> QED BY <1>2, <2>1
<1>5. \A v : v \in Cached' <=> v \in Users /\ (v = u \/ (v \notin evicted /\ v \in Cached))
  BY <1>0, <1>1, <1>3 DEF Cached
<1>6. /\ List(list) /\ Len(list) \in Nat
      /\ \A v : (\E i \in 1 .. Len(list) : list[i] = v) <=> v \in Cached \cup {u}
      /\ k \in Nat /\ k <= Len(list) /\ Len(list) - k <= MaxEntries
      /\ \A i \in 1 .. k : list[i] # u
  <2>1. CASE u \in Cached
    <3>1. list = MovedToBack(u)
      BY <2>1
    <3> HIDE DEF list
    <3>2. /\ List(list) /\ Len(list) = Len(order)
          /\ \A v : (\E i \in 1 .. Len(list) : list[i] = v) <=> v \in Cached
      BY <2>1, <3>1, MovedIsList
    <3>3. k = 0
      BY <1>0, <3>2 DEF Overflow
    <3> HIDE DEF k
    <3> QED BY <1>0, <2>1, <3>2, <3>3
  <2>2. CASE u \notin Cached
    <3>1. list = Append(order, u)
      BY <2>2
    <3> HIDE DEF list
    <3>2. /\ List(list) /\ Len(list) = Len(order) + 1 /\ list[Len(order) + 1] = u
          /\ \A v : (\E i \in 1 .. Len(list) : list[i] = v) <=> v \in Cached \cup {u}
      BY <2>2, <3>1, AppendedIsList
    <3>3. k \in Nat /\ k <= 1 /\ k <= Len(order) /\ Len(list) - k <= MaxEntries
      BY <1>0, <3>2 DEF Overflow
    <3> HIDE DEF k
    <3>4. \A i \in 1 .. k : list[i] # u
      <4> SUFFICES ASSUME NEW i \in 1 .. k, list[i] = u PROVE FALSE
        OBVIOUS
      <4>1. i \in 1 .. Len(list) /\ Len(order) + 1 \in 1 .. Len(list) /\ i # Len(order) + 1
        BY <1>0, <3>2, <3>3
      <4> QED BY <3>2, <4>1 DEF List
    <3> QED BY <1>0, <3>2, <3>3, <3>4
  <2> QED BY <2>1, <2>2
<1> HIDE DEF list, k
<1>7. \A v : v \in evicted <=> \E i \in 1 .. k : list[i] = v
  OBVIOUS
<1>8. /\ List(order') /\ Len(order') = Len(list) - k
      /\ \A i \in 1 .. Len(list) - k : order'[i] = list[i + k]
  BY <1>2, <1>6, TrimmedIsList
<1>9. order' \in Seq(Users) /\ DOMAIN order' = 1 .. Len(list) - k
      /\ \A i, j \in DOMAIN order' : order'[i] = order'[j] => i = j
  BY <1>8 DEF List
<1> HIDE DEF evicted
<1>10. ASSUME NEW i \in DOMAIN order' PROVE order'[i] \in Cached'
  <2>1. i + k \in 1 .. Len(list) /\ order'[i] = list[i + k]
    BY <1>6, <1>8, <1>9
  <2>2. order'[i] \in Cached \cup {u} /\ order'[i] \in Users
    BY <1>0, <1>6, <2>1
  <2>3. order'[i] \notin evicted
    <3> SUFFICES ASSUME NEW j \in 1 .. k, list[j] = list[i + k] PROVE FALSE
      BY <1>7, <2>1
    <3>1. j \in 1 .. Len(list) /\ j # i + k
      BY <1>6, <1>9
    <3> QED BY <1>6, <2>1, <3>1 DEF List
  <2> QED BY <1>5, <2>2, <2>3
<1>11. ASSUME NEW v \in Cached' PROVE \E i \in DOMAIN order' : order'[i] = v
  <2>1. v \in Cached \cup {u} /\ v \notin evicted
    BY <1>5, <1>6, <1>7
  <2>2. PICK j \in 1 .. Len(list) : list[j] = v
    BY <1>6, <2>1
  <2>3. ~(j \in 1 .. k)
    BY <1>7, <2>1, <2>2
  <2>4. j - k \in 1 .. Len(list) - k /\ (j - k) + k = j
    BY <1>6, <2>2, <2>3
  <2> QED BY <1>8, <1>9, <2>2, <2>4
<1>12. {order'[i] : i \in DOMAIN order'} = Cached'
  BY <1>10, <1>11
<1>13. Len(order') <= MaxEntries
  BY <1>6, <1>8
<1> QED BY <1>3, <1>4, <1>9, <1>12, <1>13 DEF new

\* The part of the types that is about the cache.
CacheOK ==
    /\ entry \in [Users -> Entry]
    /\ order \in Seq(Users) /\ Len(order) <= MaxEntries
    /\ {order[i] : i \in DOMAIN order} = Cached
    /\ \A i, j \in DOMAIN order : order[i] = order[j] => i = j

\* The rest of them.
TrafficOK ==
    /\ stored \in [Users -> Statuses]
    /\ flight \in [Users -> Flights]
    /\ req \in [Requests -> Request]
    /\ settled \in [Users -> Ages]

LEMMA TypesSplit == GateTypeOK <=> CacheOK /\ TrafficOK
  BY DEF GateTypeOK, CacheOK, TrafficOK

LEMMA CacheStays ==
    ASSUME CacheOK, UNCHANGED <<entry, order>>
    PROVE  CacheOK'
<1>1. Cached' = Cached
  BY DEF Cached
<1> QED BY <1>1 DEF CacheOK

\* Whatever is out of date in the cache, or in what a request remembers of it, is older than the time
\* since which the status is settled; and what is on its way into the cache keeps that time at zero.
CarriedIsUnsettled == \A u \in Users : Carried(u) => settled[u] = 0

EntriesAge == \A u \in Users : Outdated(u, entry[u].val) => settled[u] <= entry[u].age

RememberedAge ==
    \A q \in Requests : req[q].pc # "idle" =>
      /\ req[q].user \in Users
      /\ Outdated(req[q].user, req[q].prev.val) => settled[req[q].user] <= req[q].prev.age

GateInv == GateTypeOK /\ CarriedIsUnsettled /\ EntriesAge /\ RememberedAge

LEMMA GateNumbers ==
    /\ MaxStale \in Nat \ {0} /\ TTL \in Nat /\ NotFoundTTL \in Nat /\ TTL <= MaxStale /\ NotFoundTTL <= MaxStale
    /\ 0 \in Ages /\ Ages \subseteq Nat /\ \A a \in Ages : a <= MaxStale /\ Older(a) \in Ages
    /\ \A a, b \in Ages : a <= b => Older(a) <= Older(b)
    /\ NoEntry \in Entry /\ NoEntry.val = "None" /\ NoEntry.age = 0
    /\ "None" \notin Statuses /\ "Error" \notin Statuses /\ "Off" \notin Statuses /\ "Started" \notin Statuses
<1>1. MaxStale \in Nat \ {0} /\ TTL \in Nat /\ NotFoundTTL \in Nat /\ TTL <= MaxStale /\ NotFoundTTL <= MaxStale
  BY StatusGateAssumption
<1>2. 0 \in Ages /\ Ages \subseteq Nat /\ \A a \in Ages : a <= MaxStale /\ Older(a) \in Ages
  BY <1>1 DEF Ages, Older
<1>3. \A a, b \in Ages : a <= b => Older(a) <= Older(b)
  BY <1>1 DEF Ages, Older
<1> QED BY <1>1, <1>2, <1>3 DEF NoEntry, Entry, Statuses

\* A step of one request that brings nothing out of date on its way.
LEMMA OneRequestStep ==
    ASSUME GateInv, NEW q \in Requests, NEW r \in Request, req' = [req EXCEPT ![q] = r],
           UNCHANGED <<stored, settled>>,
           flight' \in [Users -> Flights], \A u \in Users : flight'[u] \in {flight[u], "Started"},
           r.pc # "result",
           r.pc # "idle" => /\ r.user \in Users
                            /\ Outdated(r.user, r.prev.val) => settled[r.user] <= r.prev.age,
           CacheOK',
           \A v \in Users : Outdated(v, entry'[v].val) => settled[v] <= entry'[v].age
    PROVE  GateInv'
<1>1. \A p \in Requests : req'[p] = IF p = q THEN r ELSE req[p]
  BY DEF GateInv, GateTypeOK
<1>2. TrafficOK'
  BY TypesSplit DEF GateInv, TrafficOK
<1>3. \A u, val : Outdated(u, val)' <=> Outdated(u, val)
  BY DEF Outdated
<1>4. CarriedIsUnsettled'
  <2> SUFFICES ASSUME NEW u \in Users, Carried(u)' PROVE settled'[u] = 0
    BY DEF CarriedIsUnsettled
  <2>1. Outdated(u, flight'[u]) => Outdated(u, flight[u])
    BY GateNumbers DEF Outdated
  <2>2. \A p \in Requests : req'[p].pc = "result" => req'[p] = req[p]
    BY <1>1
  <2>3. Carried(u)
    BY <1>3, <2>1, <2>2 DEF Carried, At, Outdated
  <2> QED BY <2>3 DEF GateInv, CarriedIsUnsettled
<1>5. EntriesAge'
  BY DEF EntriesAge, Outdated
<1>6. RememberedAge'
  <2> SUFFICES ASSUME NEW p \in Requests, req'[p].pc # "idle"
               PROVE  /\ req'[p].user \in Users
                      /\ Outdated(req'[p].user, req'[p].prev.val) => settled[req'[p].user] <= req'[p].prev.age
    BY DEF RememberedAge, Outdated
  <2> QED BY <1>1 DEF GateInv, RememberedAge
<1>7. GateTypeOK'
  BY <1>2, TypesSplit DEF CacheOK, TrafficOK, GateTypeOK, Cached
<1> QED BY <1>4, <1>5, <1>6, <1>7 DEF GateInv

LEMMA IdleIsRequest == Idle \in Request /\ Idle.pc = "idle" /\ Idle.prev = NoEntry /\ Idle.user = Anyone /\ Idle.res = "None"
  BY GateNumbers DEF Idle, Request

LEMMA JoinInv ==
    ASSUME GateInv, NEW q \in Requests, Join(q)
    PROVE  GateInv'
<1> DEFINE r == [req[q] EXCEPT !.pc = "waiting"]
           u == req[q].user
<1>1. req[q] \in Request /\ req[q].pc = "miss" /\ u \in Users
  BY DEF GateInv, GateTypeOK, RememberedAge, Join, At
<1>2. /\ r \in Request /\ r.pc = "waiting" /\ r.user = u /\ r.prev = req[q].prev
      /\ req' = [req EXCEPT ![q] = r] /\ UNCHANGED <<stored, entry, order, settled>>
      /\ flight' = [flight EXCEPT ![u] = IF flight[u] = "Off" THEN "Started" ELSE flight[u]]
  BY <1>1 DEF Join, Request
<1> HIDE DEF r, u
<1>3. flight' \in [Users -> Flights] /\ \A v \in Users : flight'[v] \in {flight[v], "Started"}
  BY <1>1, <1>2 DEF GateInv, GateTypeOK, Flights
<1>4. CacheOK'
  BY <1>2, TypesSplit, CacheStays DEF GateInv
<1>5. Outdated(r.user, r.prev.val) => settled[r.user] <= r.prev.age
  BY <1>1, <1>2 DEF GateInv, RememberedAge, u
<1> QED BY <1>1, <1>2, <1>3, <1>4, <1>5, OneRequestStep DEF GateInv, EntriesAge

LEMMA LeaveInv ==
    ASSUME GateInv, NEW q \in Requests, Leave(q)
    PROVE  GateInv'
<1>1. req' = [req EXCEPT ![q] = Idle] /\ UNCHANGED <<stored, entry, order, flight, settled>>
  BY DEF Leave
<1>2. CacheOK' /\ flight \in [Users -> Flights]
  BY <1>1, TypesSplit, CacheStays DEF GateInv, TrafficOK
<1> QED BY <1>1, <1>2, IdleIsRequest, OneRequestStep DEF GateInv, EntriesAge

LEMMA EnterInv ==
    ASSUME GateInv, NEW q \in Requests, NEW u \in Users, Enter(q, u)
    PROVE  GateInv'
<1> DEFINE r == IF Fresh(entry[u])
                  THEN [Idle EXCEPT !.pc = "answered", !.user = u, !.res = entry[u].val]
                  ELSE [Idle EXCEPT !.pc = "miss", !.user = u, !.prev = entry[u]]
<1>1. req' = [req EXCEPT ![q] = r] /\ UNCHANGED <<stored, entry, order, flight, settled>>
  BY DEF Enter
<1>2. entry[u] \in Entry /\ entry[u].val \in Statuses \cup {"None"}
  BY DEF GateInv, GateTypeOK, Entry
<1>3. r \in Request /\ r.pc \in {"answered", "miss"} /\ r.user = u /\ r.prev \in {NoEntry, entry[u]}
  BY <1>2, IdleIsRequest DEF Request
<1> HIDE DEF r
<1>4. Outdated(r.user, r.prev.val) => settled[r.user] <= r.prev.age
  BY <1>3, GateNumbers DEF GateInv, EntriesAge, Outdated
<1>5. CacheOK' /\ flight \in [Users -> Flights]
  BY <1>1, TypesSplit, CacheStays DEF GateInv, TrafficOK
<1> QED BY <1>1, <1>3, <1>4, <1>5, OneRequestStep DEF GateInv, EntriesAge

LEMMA FinishFailedInv ==
    ASSUME GateInv, NEW q \in Requests, FinishFailed(q)
    PROVE  GateInv'
<1> DEFINE res == IF Servable(req[q].prev) THEN req[q].prev.val ELSE "Error"
           r == [req[q] EXCEPT !.pc = "answered", !.prev = NoEntry, !.res = res]
<1>1. req' = [req EXCEPT ![q] = r] /\ UNCHANGED <<stored, entry, order, flight, settled>>
  BY DEF FinishFailed
<1>2. req[q] \in Request /\ req[q].user \in Users /\ res \in Statuses \cup {"None", "Error"}
  BY DEF GateInv, GateTypeOK, RememberedAge, FinishFailed, At, Request, Entry
<1> HIDE DEF res
<1>3. r \in Request /\ r.pc = "answered" /\ r.user = req[q].user /\ r.prev = NoEntry
  BY <1>2, GateNumbers DEF Request
<1> HIDE DEF r
<1>4. ~Outdated(r.user, r.prev.val)
  BY <1>3, GateNumbers DEF Outdated
<1>5. CacheOK' /\ flight \in [Users -> Flights]
  BY <1>1, TypesSplit, CacheStays DEF GateInv, TrafficOK
<1> QED BY <1>1, <1>2, <1>3, <1>4, <1>5, OneRequestStep DEF GateInv, EntriesAge

\* What a lookup answered is stored with age 0; if it is out of date, it was on its way until now.
LEMMA FinishFoundInv ==
    ASSUME GateInv, NEW q \in Requests, FinishFound(q)
    PROVE  GateInv'
<1> DEFINE r == [req[q] EXCEPT !.pc = "answered", !.prev = NoEntry]
           u == req[q].user
           val == req[q].res
<1>1. /\ req' = [req EXCEPT ![q] = r] /\ UNCHANGED <<stored, flight, settled>>
      /\ req[q].pc = "result" /\ val \in Statuses /\ Put(u, val)
  BY DEF FinishFound, At
<1>2. req[q] \in Request /\ u \in Users
  BY <1>1 DEF GateInv, GateTypeOK, RememberedAge
<1>3. r \in Request /\ r.pc = "answered" /\ r.user = u /\ r.prev = NoEntry
  BY <1>2, GateNumbers DEF Request
<1> HIDE DEF r
<1>4. ~Outdated(r.user, r.prev.val)
  BY <1>3, GateNumbers DEF Outdated
<1>5. CacheOK' /\ flight \in [Users -> Flights]
  BY <1>1, <1>2, PutKeeps DEF GateInv, GateTypeOK, CacheOK
<1>6. Outdated(u, val) => settled[u] = 0
  BY <1>1, <1>2 DEF GateInv, CarriedIsUnsettled, Carried, At
<1>7. \A v \in Users : entry'[v] \in {entry[v], NoEntry} \/ (v = u /\ entry'[v] = [val |-> val, age |-> 0])
  BY <1>1, <1>2, PutKeeps DEF GateInv
<1> HIDE DEF u, val
<1>8. \A v \in Users : Outdated(v, entry'[v].val) => settled[v] <= entry'[v].age
  <2> SUFFICES ASSUME NEW v \in Users, Outdated(v, entry'[v].val) PROVE settled[v] <= entry'[v].age
    OBVIOUS
  <2>1. CASE entry'[v] = entry[v]
    BY <2>1 DEF GateInv, EntriesAge
  <2>2. entry'[v] # NoEntry
    BY GateNumbers DEF Outdated
  <2>3. CASE v = u /\ entry'[v] = [val |-> val, age |-> 0]
    BY <1>6, <2>3
  <2> QED BY <1>7, <2>1, <2>2, <2>3
<1> QED BY <1>1, <1>2, <1>3, <1>4, <1>5, <1>8, OneRequestStep

LEMMA SetStatusInv ==
    ASSUME GateInv, NEW u \in Users, SetStatus(u)
    PROVE  GateInv'
<1>1. PICK s \in Statuses \ {stored[u]} : stored' = [stored EXCEPT ![u] = s]
  BY DEF SetStatus
<1>2. settled' = [settled EXCEPT ![u] = 0] /\ UNCHANGED <<entry, order, flight, req>>
  BY DEF SetStatus
<1>3. CacheOK' /\ TrafficOK'
  BY <1>1, <1>2, TypesSplit, CacheStays, GateNumbers DEF GateInv, TrafficOK
<1>4. \A v \in Users : v # u => stored'[v] = stored[v] /\ settled'[v] = settled[v]
  BY <1>1, <1>2, TypesSplit DEF GateInv, TrafficOK
<1>5. settled'[u] = 0
  BY <1>2, TypesSplit DEF GateInv, TrafficOK
<1>6. CarriedIsUnsettled'
  BY <1>2, <1>4, <1>5 DEF GateInv, CarriedIsUnsettled, Carried, Outdated, At
<1>7. \A v \in Users : entry[v].age \in Nat
  BY GateNumbers DEF GateInv, GateTypeOK, Entry
<1>8. EntriesAge'
  BY <1>2, <1>4, <1>5, <1>7 DEF GateInv, EntriesAge, Outdated
<1>9. \A q \in Requests : req[q].prev.age \in Nat
  BY GateNumbers DEF GateInv, GateTypeOK, Request, Entry
<1>10. RememberedAge'
  BY <1>2, <1>4, <1>5, <1>9 DEF GateInv, RememberedAge, Outdated
<1> QED BY <1>3, <1>6, <1>8, <1>10, TypesSplit DEF GateInv, CacheOK, TrafficOK, GateTypeOK, Cached

LEMMA LookupInv ==
    ASSUME GateInv, NEW u \in Users, Lookup(u)
    PROVE  GateInv'
<1>1. PICK res \in {stored[u], "Error"} : flight' = [flight EXCEPT ![u] = res]
  BY DEF Lookup
<1>2. UNCHANGED <<stored, entry, order, req, settled>>
  BY DEF Lookup
<1>3. stored[u] \in Statuses /\ flight' \in [Users -> Flights]
  BY <1>1 DEF GateInv, GateTypeOK, Flights
<1>4. CacheOK' /\ TrafficOK'
  BY <1>2, <1>3, TypesSplit, CacheStays DEF GateInv, TrafficOK
<1>5. \A v \in Users : Outdated(v, flight'[v]) => Outdated(v, flight[v])
  BY <1>1, GateNumbers DEF GateInv, GateTypeOK, Outdated
<1>6. CarriedIsUnsettled'
  BY <1>2, <1>5 DEF GateInv, CarriedIsUnsettled, Carried, Outdated, At
<1>7. EntriesAge' /\ RememberedAge'
  BY <1>2 DEF GateInv, EntriesAge, RememberedAge, Outdated
<1> QED BY <1>4, <1>6, <1>7, TypesSplit DEF GateInv, CacheOK, TrafficOK, GateTypeOK, Cached

LEMMA DeliverInv ==
    ASSUME GateInv, NEW u \in Users, Deliver(u)
    PROVE  GateInv'
<1>1. /\ flight[u] \in Statuses \cup {"Error"} /\ flight' = [flight EXCEPT ![u] = "Off"]
      /\ req' = [q \in Requests |->
                   IF q \in Waiters(u) THEN [req[q] EXCEPT !.pc = "result", !.res = flight[u]] ELSE req[q]]
      /\ UNCHANGED <<stored, entry, order, settled>>
  BY DEF Deliver
<1>2. ASSUME NEW q \in Requests
      PROVE  /\ req'[q] \in Request /\ req'[q].user = req[q].user /\ req'[q].prev = req[q].prev
             /\ req'[q] = req[q] \/ (req[q].pc = "waiting" /\ req[q].user = u /\ req'[q].res = flight[u])
             /\ req'[q].pc # "idle" => req[q].pc # "idle"
  <2>1. req[q] \in Request
    BY DEF GateInv, GateTypeOK
  <2>2. CASE q \in Waiters(u)
    BY <1>1, <2>1, <2>2 DEF Waiters, At, Request
  <2>3. CASE q \notin Waiters(u)
    BY <1>1, <2>1, <2>3
  <2> QED BY <2>2, <2>3
<1>3. flight' \in [Users -> Flights] /\ req' \in [Requests -> Request]
  BY <1>1, <1>2 DEF GateInv, GateTypeOK, Flights
<1>4. CacheOK' /\ TrafficOK'
  BY <1>1, <1>3, TypesSplit, CacheStays DEF GateInv, TrafficOK
<1>5. CarriedIsUnsettled'
  <2> SUFFICES ASSUME NEW v \in Users, Carried(v)' PROVE Carried(v)
    BY <1>1 DEF GateInv, CarriedIsUnsettled
  <2>1. CASE Outdated(v, flight'[v])
    BY <1>1, <2>1, GateNumbers DEF GateInv, GateTypeOK, Outdated, Carried
  <2>2. CASE ~Outdated(v, flight'[v])
    <3>1. PICK q \in Requests : req'[q].pc = "result" /\ req'[q].user = v /\ Outdated(v, req'[q].res)
      BY <1>1, <2>2 DEF Carried, Outdated, At
    <3> QED BY <1>2, <3>1 DEF Carried, At
  <2> QED BY <2>1, <2>2
<1>6. EntriesAge'
  BY <1>1 DEF GateInv, EntriesAge, Outdated
<1>7. RememberedAge'
  <2> SUFFICES ASSUME NEW q \in Requests, req'[q].pc # "idle"
               PROVE  /\ req'[q].user \in Users
                      /\ Outdated(req'[q].user, req'[q].prev.val) => settled[req'[q].user] <= req'[q].prev.age
    BY <1>1 DEF RememberedAge, Outdated
  <2> QED BY <1>2 DEF GateInv, RememberedAge
<1> QED BY <1>4, <1>5, <1>6, <1>7, TypesSplit DEF GateInv, CacheOK, TrafficOK, GateTypeOK, Cached

LEMMA GateTickInv ==
    ASSUME GateInv, Tick
    PROVE  GateInv'
<1>1. /\ entry' = [u \in Users |-> [entry[u] EXCEPT !.age = IF entry[u].val = "None" THEN 0 ELSE Older(entry[u].age)]]
      /\ req' = [q \in Requests |-> [req[q] EXCEPT !.prev.age = IF req[q].prev.val = "None" THEN 0
                                                                  ELSE Older(req[q].prev.age)]]
      /\ settled' = [u \in Users |-> IF Carried(u) THEN 0 ELSE Older(settled[u])]
      /\ UNCHANGED <<stored, order, flight>>
  BY DEF Tick
<1>2. ASSUME NEW u \in Users
      PROVE  /\ entry'[u] \in Entry /\ entry'[u].val = entry[u].val /\ entry[u].age \in Ages
             /\ entry[u].val # "None" => entry'[u].age = Older(entry[u].age)
  <2> DEFINE a == IF entry[u].val = "None" THEN 0 ELSE Older(entry[u].age)
  <2>1. entry[u] \in Entry /\ entry'[u] = [entry[u] EXCEPT !.age = a]
    BY <1>1 DEF GateInv, GateTypeOK
  <2>2. entry[u].age \in Ages /\ a \in Ages
    BY <2>1, GateNumbers DEF Entry
  <2>3. entry[u].val # "None" => a = Older(entry[u].age)
    OBVIOUS
  <2> HIDE DEF a
  <2> QED BY <2>1, <2>2, <2>3 DEF Entry
<1>3. ASSUME NEW q \in Requests
      PROVE  /\ req'[q] \in Request /\ req'[q].pc = req[q].pc /\ req'[q].user = req[q].user /\ req'[q].res = req[q].res
             /\ req'[q].prev.val = req[q].prev.val /\ req[q].prev.age \in Ages
             /\ req[q].prev.val # "None" => req'[q].prev.age = Older(req[q].prev.age)
  <2> DEFINE a == IF req[q].prev.val = "None" THEN 0 ELSE Older(req[q].prev.age)
             e == [req[q].prev EXCEPT !.age = a]
  <2>1. req[q] \in Request /\ req'[q] = [req[q] EXCEPT !.prev = e]
    BY <1>1 DEF GateInv, GateTypeOK
  <2>2. req[q].prev \in Entry /\ req[q].prev.age \in Ages /\ a \in Ages
    BY <2>1, GateNumbers DEF Request, Entry
  <2>3. req[q].prev.val # "None" => a = Older(req[q].prev.age)
    OBVIOUS
  <2> HIDE DEF a
  <2>4. e \in Entry /\ e.val = req[q].prev.val /\ e.age = a
    BY <2>2 DEF Entry
  <2> HIDE DEF e
  <2> QED BY <2>1, <2>2, <2>3, <2>4 DEF Request
<1>4. settled' \in [Users -> Ages] /\ \A u \in Users : settled[u] \in Ages
  BY <1>1, GateNumbers DEF GateInv, GateTypeOK
<1>5. entry' \in [Users -> Entry] /\ req' \in [Requests -> Request]
  BY <1>1, <1>2, <1>3
<1>6. Cached' = Cached
  BY <1>2 DEF Cached
<1>7. GateTypeOK'
  BY <1>1, <1>4, <1>5, <1>6 DEF GateInv, GateTypeOK
<1>8. CarriedIsUnsettled'
  <2> SUFFICES ASSUME NEW u \in Users, Carried(u)' PROVE Carried(u)
    BY <1>1 DEF CarriedIsUnsettled
  <2> QED BY <1>1, <1>3 DEF Carried, Outdated, At
<1>9. ASSUME NEW u \in Users, NEW a \in Ages, settled[u] <= a PROVE settled'[u] <= Older(a)
  <2>1. settled'[u] \in {0, Older(settled[u])}
    BY <1>1
  <2>2. settled[u] \in Ages /\ Older(a) \in Nat
    BY <1>4, GateNumbers
  <2>3. Older(settled[u]) <= Older(a)
    BY <1>9, <2>2, GateNumbers
  <2> QED BY <2>1, <2>2, <2>3
<1>10. EntriesAge'
  <2> SUFFICES ASSUME NEW u \in Users, Outdated(u, entry'[u].val) PROVE settled'[u] <= entry'[u].age
    BY <1>1 DEF EntriesAge, Outdated
  <2>1. Outdated(u, entry[u].val) /\ entry[u].val # "None"
    BY <1>2, GateNumbers DEF Outdated
  <2>2. settled[u] <= entry[u].age /\ entry[u].age \in Ages /\ entry'[u].age = Older(entry[u].age)
    BY <1>2, <2>1 DEF GateInv, EntriesAge
  <2> QED BY <1>9, <2>2
<1>11. RememberedAge'
  <2> SUFFICES ASSUME NEW q \in Requests, req'[q].pc # "idle"
               PROVE  /\ req'[q].user \in Users
                      /\ Outdated(req'[q].user, req'[q].prev.val) => settled'[req'[q].user] <= req'[q].prev.age
    BY <1>1 DEF RememberedAge, Outdated
  <2>1. req'[q].user \in Users /\ req'[q].user = req[q].user /\ req[q].pc # "idle"
    BY <1>3 DEF GateInv, RememberedAge
  <2>2. ASSUME Outdated(req'[q].user, req'[q].prev.val) PROVE settled'[req'[q].user] <= req'[q].prev.age
    <3>1. Outdated(req[q].user, req[q].prev.val) /\ req[q].prev.val # "None"
      BY <1>3, <2>2, GateNumbers DEF Outdated
    <3>2. settled[req[q].user] <= req[q].prev.age /\ req[q].prev.age \in Ages
          /\ req'[q].prev.age = Older(req[q].prev.age)
      BY <1>3, <2>1, <3>1 DEF GateInv, RememberedAge
    <3> QED BY <1>9, <2>1, <3>2
  <2> QED BY <2>1, <2>2
<1> QED BY <1>7, <1>8, <1>10, <1>11 DEF GateInv

LEMMA GateStays ==
    ASSUME GateInv, UNCHANGED vars
    PROVE  GateInv'
<1>1. CacheOK' /\ TrafficOK'
  BY TypesSplit, CacheStays DEF GateInv, TrafficOK, vars
<1>2. CarriedIsUnsettled' /\ EntriesAge' /\ RememberedAge'
  BY DEF GateInv, CarriedIsUnsettled, EntriesAge, RememberedAge, Carried, Outdated, At, vars
<1> QED BY <1>1, <1>2, TypesSplit DEF GateInv, CacheOK, TrafficOK, GateTypeOK, Cached

LEMMA StepGateInv == GateInv /\ [Next]_vars => GateInv'
<1> SUFFICES ASSUME GateInv, [Next]_vars PROVE GateInv'
  OBVIOUS
<1>1. ASSUME NEW u \in Users, SetStatus(u) \/ LookupStep(u) PROVE GateInv'
  BY <1>1, SetStatusInv, LookupInv, DeliverInv DEF LookupStep
<1>2. ASSUME NEW q \in Requests, RequestStep(q) PROVE GateInv'
  BY <1>2, JoinInv, FinishFoundInv, FinishFailedInv, LeaveInv DEF RequestStep
<1>3. ASSUME NEW q \in Requests, NEW u \in Tokens[q], Enter(q, u) PROVE GateInv'
  <2>1. u \in Users
    BY StatusGateAssumption
  <2> QED BY <1>3, <2>1, EnterInv
<1> QED BY <1>1, <1>2, <1>3, GateTickInv, GateStays DEF Next

LEMMA InitGateInv == Init => GateInv
<1> SUFFICES ASSUME Init PROVE GateInv
  OBVIOUS
<1>1. /\ stored = [u \in Users |-> "Active"] /\ entry = [u \in Users |-> NoEntry] /\ order = << >>
      /\ flight = [u \in Users |-> "Off"] /\ req = [q \in Requests |-> Idle]
      /\ settled = [u \in Users |-> MaxStale]
  BY DEF Init
<1>2. TrafficOK
  BY <1>1, IdleIsRequest, GateNumbers DEF TrafficOK, Statuses, Flights, Ages
<1>3. Cached = {}
  BY <1>1, GateNumbers DEF Cached
<1>4. order \in Seq(Users) /\ Len(order) = 0 /\ DOMAIN order = {}
  BY <1>1
<1>5. CacheOK
  <2>1. {order[i] : i \in DOMAIN order} = Cached
    BY <1>3, <1>4
  <2>2. entry \in [Users -> Entry] /\ Len(order) <= MaxEntries
    BY <1>1, <1>4, GateNumbers, StatusGateAssumption
  <2> QED BY <1>4, <2>1, <2>2 DEF CacheOK
<1>6. \A u \in Users : ~Carried(u) /\ ~Outdated(u, entry[u].val)
  BY <1>1, IdleIsRequest, GateNumbers DEF Carried, Outdated, At
<1>7. RememberedAge
  BY <1>1, IdleIsRequest DEF RememberedAge
<1> QED BY <1>2, <1>5, <1>6, <1>7, TypesSplit DEF GateInv, CarriedIsUnsettled, EntriesAge

\* The inductive invariant: the types, the cache within its capacity, and the ages of what is out of date.
THEOREM Spec_GateInv == Spec => []GateInv
  BY InitGateInv, StepGateInv, PTL DEF Spec

\* For any capacity and any number of users and requests, the map and the list of the cache agree and
\* never hold more than the capacity.
THEOREM Spec_GateTypeOK == Spec => []GateTypeOK
<1>1. GateInv => GateTypeOK
  BY DEF GateInv
<1> QED BY <1>1, Spec_GateInv, PTL

\* What an answer may be: the entry found, while it is fresh; what a lookup brought; or the entry
\* found before, while it may be served.
LEMMA StepWrongAnswersExpire ==
    ASSUME GateInv, [Next]_vars, NEW q \in Requests, Answers(q), Outdated(req'[q].user, req'[q].res)
    PROVE  settled[req'[q].user] < IF At(q, "idle") THEN (IF req'[q].res = "Missing" THEN NotFoundTTL ELSE TTL)
                                                     ELSE MaxStale
<1>0. req \in [Requests -> Request] /\ req[q] \in Request /\ req'[q].pc = "answered" /\ req[q].pc # "answered"
  BY DEF GateInv, GateTypeOK, Answers
<1>1. ASSUME NEW u \in Users, Enter(q, u)
      PROVE  settled[u] < (IF req'[q].res = "Missing" THEN NotFoundTTL ELSE TTL) /\ req'[q].user = u /\ At(q, "idle")
  <2>1. /\ req' = [req EXCEPT ![q] =
                     IF Fresh(entry[u])
                       THEN [Idle EXCEPT !.pc = "answered", !.user = u, !.res = entry[u].val]
                       ELSE [Idle EXCEPT !.pc = "miss", !.user = u, !.prev = entry[u]]]
        /\ At(q, "idle")
    BY <1>1 DEF Enter
  <2>2. Fresh(entry[u])
    BY <1>0, <2>1 DEF Idle
  <2>3. req'[q] = [Idle EXCEPT !.pc = "answered", !.user = u, !.res = entry[u].val]
    BY <1>0, <2>1, <2>2
  <2>4. req'[q].user = u /\ req'[q].res = entry[u].val
    BY <2>3 DEF Idle
  <2>5. settled[u] <= entry[u].age
    BY <2>4 DEF GateInv, EntriesAge
  <2>6. entry[u].age < IF entry[u].val = "Missing" THEN NotFoundTTL ELSE TTL
    BY <2>2 DEF Fresh
  <2>7. settled[u] \in Nat /\ entry[u].age \in Nat
    BY GateNumbers DEF GateInv, GateTypeOK, Entry
  <2> QED BY <2>1, <2>4, <2>5, <2>6, <2>7, GateNumbers
<1>2. ASSUME FinishFound(q)
      PROVE  settled[req'[q].user] < MaxStale /\ ~At(q, "idle")
  <2>1. req'[q] = [req[q] EXCEPT !.pc = "answered", !.prev = NoEntry] /\ At(q, "result")
    BY <1>0, <1>2 DEF FinishFound
  <2>2. req'[q].user = req[q].user /\ req'[q].res = req[q].res /\ req[q].user \in Users
    BY <1>0, <2>1 DEF Request, GateInv, RememberedAge, At
  <2>3. Carried(req[q].user)
    BY <2>1, <2>2 DEF Carried
  <2> QED BY <2>1, <2>2, <2>3, GateNumbers DEF GateInv, CarriedIsUnsettled, At
<1>3. ASSUME FinishFailed(q)
      PROVE  settled[req'[q].user] < MaxStale /\ ~At(q, "idle")
  <2> DEFINE res == IF Servable(req[q].prev) THEN req[q].prev.val ELSE "Error"
  <2>1. req'[q] = [req[q] EXCEPT !.pc = "answered", !.prev = NoEntry, !.res = res] /\ At(q, "result")
    BY <1>0, <1>3 DEF FinishFailed
  <2> HIDE DEF res
  <2>2. req'[q].user = req[q].user /\ req'[q].res = res /\ req[q].user \in Users
    BY <1>0, <2>1 DEF Request, GateInv, RememberedAge, At
  <2>3. Servable(req[q].prev) /\ res = req[q].prev.val
    BY <2>2, GateNumbers DEF Outdated, res
  <2>4. settled[req[q].user] <= req[q].prev.age
    BY <2>1, <2>2, <2>3 DEF GateInv, RememberedAge, At
  <2>5. req[q].prev.age < MaxStale
    BY <2>3 DEF Servable
  <2>6. settled[req[q].user] \in Nat /\ req[q].prev.age \in Nat
    BY <2>2, GateNumbers DEF GateInv, GateTypeOK, Request, Entry
  <2> QED BY <2>1, <2>2, <2>4, <2>5, <2>6, GateNumbers DEF At
<1>4. \/ \E u \in Users : Enter(q, u)
      \/ FinishFound(q) \/ FinishFailed(q)
  <2>1. ASSUME NEW p \in Requests, NEW r, p # q, req' = [req EXCEPT ![p] = r] PROVE FALSE
    BY <1>0, <2>1
  <2>2. ASSUME NEW r, r.pc # "answered", req' = [req EXCEPT ![q] = r] PROVE FALSE
    BY <1>0, <2>2
  <2>3. ASSUME req' = req PROVE FALSE
    BY <1>0, <2>3
  <2>4. ASSUME NEW p \in Requests, NEW u \in Tokens[p], Enter(p, u) PROVE p = q /\ u \in Users
    <3>1. u \in Users
      BY StatusGateAssumption
    <3>2. PICK r : req' = [req EXCEPT ![p] = r]
      BY <2>4 DEF Enter
    <3> QED BY <2>1, <3>1, <3>2
  <2>5. ASSUME NEW p \in Requests, Join(p) \/ Leave(p) PROVE FALSE
    <3>1. CASE Join(p)
      <4>1. req' = [req EXCEPT ![p] = [req[p] EXCEPT !.pc = "waiting"]] /\ req[p] \in Request
        BY <1>0, <3>1 DEF Join
      <4>2. [req[p] EXCEPT !.pc = "waiting"].pc # "answered"
        BY <4>1 DEF Request
      <4> QED BY <2>1, <2>2, <4>1, <4>2
    <3>2. CASE Leave(p)
      <4>1. req' = [req EXCEPT ![p] = Idle] /\ Idle.pc # "answered"
        BY <3>2, IdleIsRequest DEF Leave
      <4> QED BY <2>1, <2>2, <4>1
    <3> QED BY <2>5, <3>1, <3>2
  <2>6. ASSUME NEW p \in Requests, FinishFound(p) \/ FinishFailed(p) PROVE p = q
    <3>1. PICK r : req' = [req EXCEPT ![p] = r]
      BY <2>6 DEF FinishFound, FinishFailed
    <3> QED BY <2>1, <3>1
  <2>7. ASSUME NEW u \in Users, Deliver(u) PROVE FALSE
    <3>1. req'[q] = IF q \in Waiters(u) THEN [req[q] EXCEPT !.pc = "result", !.res = flight[u]] ELSE req[q]
      BY <2>7 DEF Deliver
    <3> QED BY <1>0, <3>1 DEF Request
  <2>8. ASSUME Tick PROVE FALSE
    <3>1. PICK e : req'[q] = [req[q] EXCEPT !.prev = e]
      BY <2>8 DEF Tick
    <3> QED BY <1>0, <3>1 DEF Request
  <2>9. ASSUME NEW u \in Users, SetStatus(u) \/ Lookup(u) PROVE FALSE
    BY <2>3, <2>9 DEF SetStatus, Lookup
  <2> QED BY <2>3, <2>4, <2>5, <2>6, <2>7, <2>8, <2>9 DEF Next, RequestStep, LookupStep, vars
<1> QED BY <1>1, <1>2, <1>3, <1>4

\* For any bounds in the order of the code's, any number of users and requests and any schedule of
\* lookups and failures, an answer that contradicts the database is that recent.
THEOREM Spec_WrongAnswersExpire == Spec => WrongAnswersExpire
<1> DEFINE Expires ==
      \A q \in Requests :
         Answers(q) /\ Outdated(req'[q].user, req'[q].res)
           => settled[req'[q].user] < IF At(q, "idle") THEN (IF req'[q].res = "Missing" THEN NotFoundTTL ELSE TTL)
                                                       ELSE MaxStale
<1>1. GateInv /\ [Next]_vars => [Expires]_vars
  BY StepWrongAnswersExpire
<1> QED BY <1>1, Spec_GateInv, PTL DEF Spec, WrongAnswersExpire

=============================================================================
