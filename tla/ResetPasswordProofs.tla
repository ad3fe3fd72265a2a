------------------------- MODULE ResetPasswordProofs -------------------------
(***************************************************************************)
(* What holds of ResetPassword for every number of requests and every      *)
(* policy: its state is well typed, the guess budget is never exceeded and *)
(* regenerations are spaced.                                               *)
(***************************************************************************)
EXTENDS ResetPassword, TLAPS, SequenceTheorems

USE CodePolicyAssumption, ResetPasswordAssumption

-----------------------------------------------------------------------------
(* The document updates stay within CodeRecord *)

LEMMA NoCodeType == NoCode \in CodeRecord
BY DEF NoCode, CodeRecord, Blank, ZeroTime

LEMMA ConsumeTryType ==
    ASSUME NEW r \in CodeRecord
    PROVE  /\ ConsumeTry(r) \in CodeRecord
           /\ ConsumeTry(r).attempts = r.attempts + 1
BY DEF ConsumeTry, CodeRecord

LEMMA ClearBudgetType ==
    ASSUME NEW r \in CodeRecord
    PROVE  ClearBudget(r) \in CodeRecord
BY DEF ClearBudget, CodeRecord, ZeroTime

LEMMA LockCodeType ==
    ASSUME NEW r \in CodeRecord, NEW until \in Nat
    PROVE  /\ LockCode(r, until) \in CodeRecord
           /\ LockCode(r, until).attempts = r.attempts
BY DEF LockCode, CodeRecord, Blank

LEMMA PlannedType ==
    ASSUME NEW r \in CodeRecord, NEW at \in Nat
    PROVE  Planned(r, at) \in [last : Nat, window : Nat, count : Nat]
BY DEF Planned, CodeRecord

LEMMA FirstIssueType ==
    ASSUME NEW code \in Nat, NEW at \in Nat,
           NEW plan \in [last : Nat, window : Nat, count : Nat]
    PROVE  FirstIssue(code, at, plan) \in CodeRecord
BY DEF FirstIssue, CodeRecord, ZeroTime

LEMMA ReIssueType ==
    ASSUME NEW r \in CodeRecord, NEW code \in Nat, NEW at \in Nat,
           NEW plan \in [last : Nat, window : Nat, count : Nat], NEW refill \in BOOLEAN
    PROVE  ReIssue(r, code, at, plan, refill) \in CodeRecord
BY DEF ReIssue, CodeRecord, ZeroTime

\* A verdict of "invalid" is only given within the budget.
LEMMA InvalidWithinBudget ==
    ASSUME NEW r \in CodeRecord, NEW given, NEW t \in Nat,
           CheckCode(r, given, t) = "invalid"
    PROVE  r.attempts <= MaxCodeAttempts
BY DEF CheckCode, CodeRecord

-----------------------------------------------------------------------------
(* Type correctness *)

LEMMA IdleType == Idle \in Request
BY NoCodeType DEF Idle, Request, Steps, ZeroTime

LEMMA IssueOfType ==
    ASSUME TypeOK, NEW q \in Requests
    PROVE  IssueOf(q) \in Issue
BY PlannedType DEF TypeOK, Request, IssueOf, Issue

LEMMA InitTypeOK == Init => TypeOK
BY NoCodeType, IdleType DEF Init, TypeOK

LEMMA NextTypeOK == TypeOK /\ [Next]_vars => TypeOK'
<1> SUFFICES ASSUME TypeOK, [Next]_vars
             PROVE  TypeOK'
  OBVIOUS
<1> USE NoCodeType, IdleType DEF TypeOK
<1>1. CASE Tick
  BY <1>1 DEF Tick
<1>2. ASSUME NEW q \in Requests, ReadCode(q)
      PROVE  TypeOK'
  BY <1>2 DEF ReadCode, Request, Steps, Idle
<1>3. ASSUME NEW q \in Requests, PlanIssue(q)
      PROVE  TypeOK'
  BY <1>3 DEF PlanIssue, Request, Steps
<1>4. ASSUME NEW q \in Requests, StoreFirst(q)
      PROVE  TypeOK'
  <2>1. /\ req[q].snap \in CodeRecord
        /\ req[q].at \in Nat
    BY DEF Request
  <2>2. Planned(req[q].snap, req[q].at) \in [last : Nat, window : Nat, count : Nat]
    BY <2>1, PlannedType
  <2>3. issued' \in Nat
    BY <1>4 DEF StoreFirst
  <2>4. rec' \in CodeRecord
    BY <1>4, <2>1, <2>2, <2>3, FirstIssueType DEF StoreFirst
  <2>5. issues' \in Seq(Issue)
    BY <1>4, IssueOfType DEF StoreFirst
  <2>. QED
    BY <1>4, <2>3, <2>4, <2>5 DEF StoreFirst
<1>5. ASSUME NEW q \in Requests, StoreAgain(q)
      PROVE  TypeOK'
  <2>1. /\ req[q].snap \in CodeRecord
        /\ req[q].at \in Nat
    BY DEF Request
  <2>2. Planned(req[q].snap, req[q].at) \in [last : Nat, window : Nat, count : Nat]
    BY <2>1, PlannedType
  <2>3. issued' \in Nat /\ wrong' \in Nat
    BY <1>5 DEF StoreAgain
  <2>4. RefillsBudget(req[q].snap) \in BOOLEAN
    BY DEF RefillsBudget
  <2>5. rec' \in CodeRecord
    BY <1>5, <2>1, <2>2, <2>3, <2>4, ReIssueType DEF StoreAgain
  <2>6. issues' \in Seq(Issue)
    BY <1>5, IssueOfType DEF StoreAgain
  <2>. QED
    BY <1>5, <2>3, <2>5, <2>6 DEF StoreAgain
<1>6. ASSUME NEW q \in Requests, StoreLost(q)
      PROVE  TypeOK'
  BY <1>6 DEF StoreLost
<1>7. ASSUME NEW q \in Requests, NEW given \in 0 .. issued, NEW redeem \in BOOLEAN,
             SubmitCode(q, given, redeem)
      PROVE  TypeOK'
  <2>1. rec' \in CodeRecord
    BY <1>7, ConsumeTryType DEF SubmitCode
  <2>2. wrong' \in Nat
    BY <1>7 DEF SubmitCode
  <2>3. req' \in [Requests -> Request]
    <3>1. [Idle EXCEPT !.pc = "clear", !.redeem = redeem] \in Request
      BY DEF Request, Steps, Idle
    <3>2. [Idle EXCEPT !.pc = "lock", !.at = now] \in Request
      BY DEF Request, Steps, Idle
    <3>3. \E x \in Request : req' = [req EXCEPT ![q] = x]
      BY <1>7, <3>1, <3>2 DEF SubmitCode
    <3>. QED
      BY <3>3
  <2>. QED
    BY <1>7, <2>1, <2>2, <2>3 DEF SubmitCode
<1>8. ASSUME NEW q \in Requests, Clear(q)
      PROVE  TypeOK'
  <2>1. rec' \in CodeRecord
    BY <1>8, ClearBudgetType DEF Clear
  <2>2. [Idle EXCEPT !.pc = "setPassword"] \in Request
    BY DEF Request, Steps, Idle
  <2>. QED
    BY <1>8, <2>1, <2>2 DEF Clear
<1>9. ASSUME NEW q \in Requests, Lock(q)
      PROVE  TypeOK'
  <2>1. req[q].at + CodeLockout \in Nat
    BY DEF Request
  <2>. QED
    BY <1>9, <2>1, LockCodeType DEF Lock
<1>10. ASSUME NEW q \in Requests, SetPassword(q)
       PROVE  TypeOK'
  BY <1>10 DEF SetPassword
<1>11. ASSUME NEW q \in Requests, ReadLogin(q)
       PROVE  TypeOK'
  BY <1>11 DEF ReadLogin, Request, Steps, Idle
<1>12. ASSUME NEW q \in Requests, SaveLogin(q)
       PROVE  TypeOK'
  BY <1>12 DEF SaveLogin, Request
<1>13. ASSUME NEW q \in Requests, Abort(q)
       PROVE  TypeOK'
  BY <1>13 DEF Abort
<1>14. CASE UNCHANGED vars
  BY <1>14 DEF vars
<1>. QED
  BY <1>1, <1>2, <1>3, <1>4, <1>5, <1>6, <1>7, <1>8, <1>9, <1>10, <1>11, <1>12, <1>13, <1>14
     DEF Next

\* The state of the reset-code protocol stays well typed: attempts and instants never leave Nat.
THEOREM TypeCorrect == Spec => []TypeOK
<1>. QED
  BY InitTypeOK, NextTypeOK, PTL DEF Spec

-----------------------------------------------------------------------------
(* The guess budget *)

\* The wrong guesses compared since the last refill were all counted in the stored attempts, and
\* none was compared past the cap.  The second conjunct is the property; the first makes it
\* inductive, because a guess is compared only while the counter it has just raised is within it.
GuessesCounted ==
    /\ wrong <= rec.attempts
    /\ GuessBudget

LEMMA SubmitKeepsBudget ==
    ASSUME TypeOK, GuessesCounted,
           NEW q \in Requests, NEW given \in 0 .. issued, NEW redeem \in BOOLEAN,
           SubmitCode(q, given, redeem)
    PROVE  GuessesCounted'
<1>1. /\ rec \in CodeRecord /\ now \in Nat /\ wrong \in Nat /\ rec.attempts \in Nat
      /\ rec' = ConsumeTry(rec)
      /\ wrong' = IF CheckCode(rec', given, now) = "invalid" /\ Live(rec', now)
                    THEN wrong + 1 ELSE wrong
  BY DEF TypeOK, SubmitCode, CodeRecord
<1>2. rec' \in CodeRecord /\ rec'.attempts = rec.attempts + 1
  BY <1>1, ConsumeTryType
<1>3. CASE CheckCode(rec', given, now) = "invalid"
  <2>1. rec'.attempts <= MaxCodeAttempts
    BY <1>1, <1>2, <1>3, InvalidWithinBudget
  <2>. QED
    BY <1>1, <1>2, <2>1 DEF GuessesCounted, GuessBudget
<1>4. CASE CheckCode(rec', given, now) # "invalid"
  BY <1>1, <1>2, <1>4 DEF GuessesCounted, GuessBudget
<1>. QED
  BY <1>3, <1>4

LEMMA StoreAgainKeepsBudget ==
    ASSUME TypeOK, GuessesCounted, NEW q \in Requests, StoreAgain(q)
    PROVE  GuessesCounted'
<1> DEFINE plan == Planned(req[q].snap, req[q].at)
           refill == RefillsBudget(req[q].snap)
<1>1. /\ req[q].snap \in CodeRecord /\ req[q].at \in Nat
      /\ rec \in CodeRecord /\ rec.attempts \in Nat /\ wrong \in Nat
  BY DEF TypeOK, Request, CodeRecord
<1>2. /\ issued' \in Nat
      /\ rec' = ReIssue(rec, issued', req[q].at, plan, refill)
      /\ wrong' = IF refill THEN 0 ELSE wrong
  BY DEF StoreAgain, TypeOK
<1>3. rec'.attempts = IF refill THEN 0 ELSE rec.attempts
  BY <1>2 DEF ReIssue
<1>. QED
  BY <1>1, <1>2, <1>3 DEF GuessesCounted, GuessBudget, RefillsBudget

LEMMA NextKeepsBudget == TypeOK /\ TypeOK' /\ GuessesCounted /\ [Next]_vars => GuessesCounted'
<1> SUFFICES ASSUME TypeOK, TypeOK', GuessesCounted, [Next]_vars
             PROVE  GuessesCounted'
  OBVIOUS
<1>0. rec' \in CodeRecord /\ rec'.attempts \in Nat
  BY DEF TypeOK, CodeRecord
<1>1. CASE UNCHANGED <<rec, wrong>>
  BY <1>1 DEF GuessesCounted, GuessBudget
<1>2. CASE wrong' = 0
  BY <1>0, <1>2 DEF GuessesCounted, GuessBudget
<1>3. ASSUME NEW q \in Requests, Lock(q)
      PROVE  GuessesCounted'
  <2>1. req[q].at + CodeLockout \in Nat
    BY DEF TypeOK, Request
  <2>2. rec'.attempts = rec.attempts /\ wrong' = wrong
    BY <1>3, <2>1, LockCodeType DEF Lock, TypeOK
  <2>. QED
    BY <2>2 DEF GuessesCounted, GuessBudget
<1>4. ASSUME NEW q \in Requests, StoreAgain(q)
      PROVE  GuessesCounted'
  BY <1>4, StoreAgainKeepsBudget
<1>5. ASSUME NEW q \in Requests, NEW given \in 0 .. issued, NEW redeem \in BOOLEAN,
             SubmitCode(q, given, redeem)
      PROVE  GuessesCounted'
  BY <1>5, SubmitKeepsBudget
<1>6. ASSUME NEW q \in Requests,
             ReadCode(q) \/ PlanIssue(q) \/ StoreLost(q) \/ ReadLogin(q) \/ Abort(q)
      PROVE  UNCHANGED <<rec, wrong>>
  BY <1>6 DEF ReadCode, PlanIssue, StoreLost, ReadLogin, Abort
<1>7. ASSUME NEW q \in Requests, StoreFirst(q) \/ Clear(q) \/ SetPassword(q) \/ SaveLogin(q)
      PROVE  wrong' = 0
  BY <1>7 DEF StoreFirst, Clear, SetPassword, SaveLogin
<1>8. Tick \/ UNCHANGED vars => UNCHANGED <<rec, wrong>>
  BY DEF Tick, vars
<1>. QED
  BY <1>1, <1>2, <1>3, <1>4, <1>5, <1>6, <1>7, <1>8 DEF Next

\* At most MaxCodeAttempts wrong guesses are compared with a live code between two refills of the
\* budget, for every number of concurrent requests.
THEOREM BudgetRespected == Spec => []GuessBudget
<1>1. Init => GuessesCounted
  BY DEF Init, GuessesCounted, GuessBudget, NoCode
<1>2. GuessesCounted => GuessBudget
  BY DEF GuessesCounted
<1>. QED
  BY <1>1, <1>2, TypeCorrect, NextKeepsBudget, PTL DEF Spec

-----------------------------------------------------------------------------
(* The spacing of regenerations *)

\* What a request is about to store was allowed on the code it read.
PlansAllowed ==
    \A q \in Requests : At(q, "store") => MayIssue(req[q].snap, req[q].at)

\* Every stored or remembered code carries the instant of its issue, so that the instant tells a
\* missing code from a present one.
Stamped(r) == r.last = ZeroTime => r = NoCode

IssuesStamped ==
    /\ now # ZeroTime
    /\ Stamped(rec)
    /\ \A q \in Requests : /\ Stamped(req[q].snap)
                           /\ At(q, "store") => req[q].at # ZeroTime

LEMMA NextKeepsPlans == TypeOK /\ PlansAllowed /\ [Next]_vars => PlansAllowed'
<1> SUFFICES ASSUME TypeOK, PlansAllowed, [Next]_vars, NEW p \in Requests, At(p, "store")'
             PROVE  MayIssue(req'[p].snap, req'[p].at)
  BY DEF PlansAllowed, MayIssue, CoolingDown, WindowOver
<1>1. CASE req'[p] = req[p]
  BY <1>1 DEF PlansAllowed, At
<1>2. CASE PlanIssue(p)
  BY <1>2 DEF PlanIssue, TypeOK, At, Idle, Request
<1>3. ASSUME NEW q \in Requests, PlanIssue(q)
      PROVE  MayIssue(req'[p].snap, req'[p].at)
  <2>1. CASE q = p
    BY <1>2, <1>3, <2>1
  <2>2. CASE q # p
    BY <1>1, <1>3, <2>2 DEF PlanIssue, TypeOK
  <2>. QED
    BY <2>1, <2>2
<1>4. ASSUME NEW q \in Requests, NEW r, r.pc # "store", req' = [req EXCEPT ![q] = r]
      PROVE  MayIssue(req'[p].snap, req'[p].at)
  BY <1>1, <1>4 DEF At, TypeOK
<1>5. ASSUME NEW q \in Requests, NEW given \in 0 .. issued, NEW redeem \in BOOLEAN,
             SubmitCode(q, given, redeem)
      PROVE  MayIssue(req'[p].snap, req'[p].at)
  <2>1. /\ [Idle EXCEPT !.pc = "clear", !.redeem = redeem].pc # "store"
        /\ [Idle EXCEPT !.pc = "lock", !.at = now].pc # "store"
        /\ Idle.pc # "store"
    BY DEF Idle
  <2>2. PICK r : r.pc # "store" /\ req' = [req EXCEPT ![q] = r]
    BY <1>5, <2>1 DEF SubmitCode
  <2>. QED
    BY <1>4, <2>2
<1>6. ASSUME NEW q \in Requests,
             \/ ReadCode(q) \/ StoreFirst(q) \/ StoreAgain(q) \/ StoreLost(q) \/ Clear(q)
             \/ Lock(q) \/ SetPassword(q) \/ ReadLogin(q) \/ SaveLogin(q) \/ Abort(q)
      PROVE  MayIssue(req'[p].snap, req'[p].at)
  <2>1. /\ [Idle EXCEPT !.pc = "plan", !.snap = rec].pc # "store"
        /\ [Idle EXCEPT !.pc = "saveLogin", !.snap = rec].pc # "store"
        /\ [Idle EXCEPT !.pc = "setPassword"].pc # "store"
        /\ Idle.pc # "store"
    BY DEF Idle
  <2>2. PICK r : r.pc # "store" /\ req' = [req EXCEPT ![q] = r]
    BY <1>6, <2>1 DEF ReadCode, StoreFirst, StoreAgain, StoreLost, Clear, Lock, SetPassword,
                      ReadLogin, SaveLogin, Abort
  <2>. QED
    BY <1>4, <2>2
<1>7. CASE Tick \/ UNCHANGED vars
  BY <1>1, <1>7 DEF Tick, vars
<1>. QED
  BY <1>3, <1>5, <1>6, <1>7 DEF Next

\* An update of a present code never takes its issue instant away.
LEMMA UpdatesStamped ==
    ASSUME NEW r \in CodeRecord, Stamped(r), NEW until
    PROVE  /\ r # NoCode => Stamped(ConsumeTry(r))
           /\ Stamped(ClearBudget(r))
           /\ Stamped(LockCode(r, until))
BY DEF Stamped, ConsumeTry, ClearBudget, LockCode, CodeRecord

LEMMA NoCodeStamped == Stamped(NoCode) /\ Stamped(Idle.snap)
BY DEF Stamped, NoCode, Idle

LEMMA RecStamped ==
    ASSUME TypeOK, IssuesStamped, [Next]_vars
    PROVE  now' # ZeroTime /\ Stamped(rec')
<1>1. now \in Nat /\ now # ZeroTime /\ rec \in CodeRecord /\ Stamped(rec)
  BY DEF TypeOK, IssuesStamped
<1>2. CASE UNCHANGED <<now, rec>>
  BY <1>1, <1>2
<1>3. CASE Tick
  BY <1>1, <1>3 DEF Tick, ZeroTime
<1>4. ASSUME NEW q \in Requests, StoreFirst(q) \/ StoreAgain(q)
      PROVE  now' # ZeroTime /\ Stamped(rec')
  <2>1. now' = now /\ req[q].at # ZeroTime
    BY <1>4 DEF StoreFirst, StoreAgain, IssuesStamped
  <2>2. rec'.last = req[q].at
    BY <1>4 DEF StoreFirst, StoreAgain, FirstIssue, ReIssue, Planned
  <2>. QED
    BY <1>1, <2>1, <2>2 DEF Stamped
<1>5. ASSUME NEW q \in Requests, NEW given \in 0 .. issued, NEW redeem \in BOOLEAN,
             SubmitCode(q, given, redeem)
      PROVE  now' # ZeroTime /\ Stamped(rec')
  BY <1>1, <1>5, UpdatesStamped DEF SubmitCode
<1>6. ASSUME NEW q \in Requests, Clear(q) \/ Lock(q)
      PROVE  now' # ZeroTime /\ Stamped(rec')
  BY <1>1, <1>6, UpdatesStamped DEF Clear, Lock
<1>7. ASSUME NEW q \in Requests, SetPassword(q) \/ SaveLogin(q)
      PROVE  now' # ZeroTime /\ Stamped(rec')
  BY <1>1, <1>7, NoCodeStamped DEF SetPassword, SaveLogin, IssuesStamped
<1>8. ASSUME NEW q \in Requests,
             ReadCode(q) \/ PlanIssue(q) \/ StoreLost(q) \/ ReadLogin(q) \/ Abort(q)
      PROVE  UNCHANGED <<now, rec>>
  BY <1>8 DEF ReadCode, PlanIssue, StoreLost, ReadLogin, Abort
<1>9. UNCHANGED vars => UNCHANGED <<now, rec>>
  BY DEF vars
<1>. QED
  BY <1>2, <1>3, <1>4, <1>5, <1>6, <1>7, <1>8, <1>9 DEF Next

\* What one request holds respects the stamps.
HeldStamped(h) == Stamped(h.snap) /\ (h.pc = "store" => h.at # ZeroTime)

LEMMA RequestsStamped ==
    ASSUME TypeOK, IssuesStamped, [Next]_vars, NEW p \in Requests
    PROVE  HeldStamped(req'[p])
<1>1. HeldStamped(req[p]) /\ HeldStamped(Idle) /\ Stamped(rec) /\ now # ZeroTime
  BY NoCodeStamped DEF IssuesStamped, HeldStamped, Idle, At
<1>2. CASE req'[p] = req[p]
  BY <1>1, <1>2
<1>3. ASSUME NEW q \in Requests, NEW h, HeldStamped(h), req' = [req EXCEPT ![q] = h]
      PROVE  HeldStamped(req'[p])
  BY <1>1, <1>3 DEF TypeOK
<1>4. ASSUME NEW q \in Requests, PlanIssue(q)
      PROVE  HeldStamped(req'[p])
  <2>1. HeldStamped(req[q]) /\ req[q] \in Request
    BY DEF IssuesStamped, HeldStamped, At, TypeOK
  <2>2. HeldStamped([req[q] EXCEPT !.pc = "store", !.at = now])
    BY <1>1, <2>1 DEF HeldStamped, Request
  <2>. QED
    BY <1>1, <1>3, <1>4, <2>2 DEF PlanIssue
<1>5. ASSUME NEW q \in Requests, ReadCode(q) \/ ReadLogin(q)
      PROVE  HeldStamped(req'[p])
  <2>1. /\ HeldStamped([Idle EXCEPT !.pc = "plan", !.snap = rec])
        /\ HeldStamped([Idle EXCEPT !.pc = "saveLogin", !.snap = rec])
    BY <1>1 DEF HeldStamped, Idle
  <2>. QED
    BY <1>3, <1>5, <2>1 DEF ReadCode, ReadLogin
<1>6. ASSUME NEW q \in Requests, NEW given \in 0 .. issued, NEW redeem \in BOOLEAN,
             SubmitCode(q, given, redeem)
      PROVE  HeldStamped(req'[p])
  <2>1. /\ HeldStamped([Idle EXCEPT !.pc = "clear", !.redeem = redeem])
        /\ HeldStamped([Idle EXCEPT !.pc = "lock", !.at = now])
    BY NoCodeStamped DEF HeldStamped, Idle
  <2>2. PICK h : HeldStamped(h) /\ req' = [req EXCEPT ![q] = h]
    BY <1>1, <1>6, <2>1 DEF SubmitCode
  <2>. QED
    BY <1>3, <2>2
<1>7. ASSUME NEW q \in Requests,
             \/ StoreFirst(q) \/ StoreAgain(q) \/ StoreLost(q) \/ Clear(q) \/ Lock(q)
             \/ SetPassword(q) \/ SaveLogin(q) \/ Abort(q)
      PROVE  HeldStamped(req'[p])
  <2>1. HeldStamped([Idle EXCEPT !.pc = "setPassword"])
    BY NoCodeStamped DEF HeldStamped, Idle
  <2>2. PICK h : HeldStamped(h) /\ req' = [req EXCEPT ![q] = h]
    BY <1>1, <1>7, <2>1 DEF StoreFirst, StoreAgain, StoreLost, Clear, Lock, SetPassword,
                            SaveLogin, Abort
  <2>. QED
    BY <1>3, <2>2
<1>8. CASE Tick \/ UNCHANGED vars
  BY <1>1, <1>8 DEF Tick, vars
<1>. QED
  BY <1>4, <1>5, <1>6, <1>7, <1>8 DEF Next

LEMMA NextKeepsStamps == TypeOK /\ IssuesStamped /\ [Next]_vars => IssuesStamped'
BY RecStamped, RequestsStamped DEF IssuesStamped, HeldStamped, Stamped, At

LEMMA InitSpacing == Init => PlansAllowed /\ IssuesStamped
BY NoCodeStamped DEF Init, PlansAllowed, IssuesStamped, At, Idle, ZeroTime

\* The history ends in the issue the record carries, the issues of the record's window are its last
\* rec.count ones, and the others lie in windows that were over.
IssuesRecorded ==
    issues # <<>> =>
      /\ rec.last = issues[Len(issues)].at
      /\ rec.last # ZeroTime /\ rec.window # ZeroTime
      /\ rec.count <= MaxRegensPerWindow
      /\ \A i \in 1 .. Len(issues) :
           /\ issues[i].at <= rec.last
           /\ IF i > Len(issues) - rec.count
                THEN issues[i].window = rec.window
                ELSE rec.window - issues[i].window >= RegenWindow

\* A record of one issue, whatever was stored before.
LEMMA OneIssueRecorded ==
    ASSUME TypeOK, NEW q \in Requests, req[q].at # ZeroTime,
           MayIssue(req[q].snap, req[q].at), Stamped(req[q].snap),
           issues' = <<IssueOf(q)>>,
           rec'.last = req[q].at,
           rec'.window = Planned(req[q].snap, req[q].at).window,
           rec'.count = Planned(req[q].snap, req[q].at).count
    PROVE  IssuesRecorded' /\ RegenerationsSpaced'
<1> DEFINE snap == req[q].snap
           at == req[q].at
<1>1. /\ at \in Nat /\ snap.window \in Nat /\ snap.count \in Nat
  BY DEF TypeOK, Request, CodeRecord
<1>2. /\ Len(issues') = 1
      /\ issues'[1].at = at /\ issues'[1].window = rec'.window
  BY DEF IssueOf
<1>3. rec'.window # ZeroTime /\ rec'.count \in 1 .. MaxRegensPerWindow
  BY <1>1 DEF Planned, MayIssue, WindowOver
<1>. QED
  BY <1>1, <1>2, <1>3 DEF IssuesRecorded, RegenerationsSpaced

\* An issue after the one the request read: the plan was made on the bookkeeping still stored.
LEMMA NextIssueRecorded ==
    ASSUME TypeOK, IssuesRecorded, RegenerationsSpaced, issues # <<>>,
           NEW q \in Requests, MayIssue(req[q].snap, req[q].at), SameIssues(rec, req[q].snap),
           issues' = Append(issues, IssueOf(q)),
           rec'.last = req[q].at,
           rec'.window = Planned(req[q].snap, req[q].at).window,
           rec'.count = Planned(req[q].snap, req[q].at).count
    PROVE  IssuesRecorded' /\ RegenerationsSpaced'
<1> DEFINE at == req[q].at
           n == Len(issues)
<1>1. /\ at \in Nat /\ n \in Nat \ {0}
      /\ rec.last \in Nat /\ rec.window \in Nat /\ rec.count \in Nat
      /\ \A i \in 1 .. n : issues[i].at \in Nat /\ issues[i].window \in Nat
  <2>1. issues \in Seq(Issue) /\ req[q] \in Request /\ rec \in CodeRecord
    BY DEF TypeOK
  <2>2. n \in Nat /\ \A i \in 1 .. n : issues[i] \in Issue
    BY <2>1
  <2>3. n # 0
    BY <2>1, EmptySeq
  <2>4. at \in Nat /\ rec.last \in Nat /\ rec.window \in Nat /\ rec.count \in Nat
    BY <2>1 DEF Request, CodeRecord
  <2>. QED
    BY <2>2, <2>3, <2>4 DEF Issue
<1>2. /\ rec.last = req[q].snap.last
      /\ rec.window = req[q].snap.window
      /\ rec.count = req[q].snap.count
  BY DEF SameIssues
<1>3. /\ Len(issues') = n + 1
      /\ \A i \in 1 .. n : issues'[i] = issues[i]
      /\ issues'[n + 1].at = at /\ issues'[n + 1].window = rec'.window
  BY IssueOfType DEF IssueOf, TypeOK
<1>4. at - rec.last >= RegenCooldown
  BY <1>1, <1>2 DEF MayIssue, CoolingDown, IssuesRecorded
<1>5. \A i \in 1 .. n : issues[i].at <= rec.last /\ issues[i].window <= rec.window
  BY <1>1 DEF IssuesRecorded
<1>6. CASE at - rec.window >= RegenWindow
  <2>1. rec'.window = at /\ rec'.count = 1
    BY <1>2, <1>6 DEF Planned, WindowOver
  <2>2. \A i \in 1 .. n : rec'.window - issues'[i].window >= RegenWindow
    BY <1>1, <1>3, <1>5, <1>6, <2>1
  <2>3. IssuesRecorded'
    BY <1>1, <1>3, <1>4, <1>5, <2>1, <2>2 DEF IssuesRecorded, ZeroTime
  <2>4. RegenerationsSpaced'
    BY <1>1, <1>3, <1>4, <1>5, <2>1, <2>2 DEF RegenerationsSpaced
  <2>. QED
    BY <2>3, <2>4
<1>7. CASE ~(at - rec.window >= RegenWindow)
  <2>1. /\ rec'.window = rec.window /\ rec'.count = rec.count + 1
        /\ rec.count < MaxRegensPerWindow
    BY <1>2, <1>7 DEF Planned, WindowOver, MayIssue, IssuesRecorded
  <2>2. \A i \in 1 .. n : IF i > n - rec.count
                            THEN issues'[i].window = rec'.window
                            ELSE rec'.window - issues'[i].window >= RegenWindow
    BY <1>3, <2>1 DEF IssuesRecorded
  <2>3. IssuesRecorded'
    <3>1. /\ rec'.last = issues'[Len(issues')].at
          /\ rec'.last # ZeroTime /\ rec'.window # ZeroTime
          /\ rec'.count <= MaxRegensPerWindow
      BY <1>1, <1>3, <1>4, <2>1 DEF IssuesRecorded, ZeroTime
    <3>2. ASSUME NEW i \in 1 .. n + 1
          PROVE  /\ issues'[i].at <= rec'.last
                 /\ IF i > n + 1 - rec'.count
                      THEN issues'[i].window = rec'.window
                      ELSE rec'.window - issues'[i].window >= RegenWindow
      <4>1. CASE i = n + 1
        BY <1>1, <1>3, <2>1, <4>1
      <4>2. CASE i \in 1 .. n
        <5>1. issues'[i].at <= rec'.last
          BY <1>1, <1>3, <1>4, <1>5, <4>2
        <5>2. i > n + 1 - rec'.count <=> i > n - rec.count
          BY <1>1, <2>1
        <5>. QED
          BY <2>2, <4>2, <5>1, <5>2
      <4>. QED
        BY <1>1, <4>1, <4>2
    <3>3. \A i \in 1 .. Len(issues') :
            /\ issues'[i].at <= rec'.last
            /\ IF i > Len(issues') - rec'.count
                 THEN issues'[i].window = rec'.window
                 ELSE rec'.window - issues'[i].window >= RegenWindow
      <4> SUFFICES ASSUME NEW i \in 1 .. Len(issues')
                   PROVE  /\ issues'[i].at <= rec'.last
                          /\ IF i > Len(issues') - rec'.count
                               THEN issues'[i].window = rec'.window
                               ELSE rec'.window - issues'[i].window >= RegenWindow
        OBVIOUS
      <4>0. Len(issues') = n + 1
        BY <1>3
      <4>1. i \in 1 .. n + 1
        BY <4>0, Zenon
      <4>2. i > Len(issues') - rec'.count <=> i > n + 1 - rec'.count
        BY <1>1, <2>1, <4>0, <4>1
      <4>. QED
        BY <3>2, <4>1, <4>2, Zenon
    <3>. QED
      BY <3>1, <3>3, Zenon DEF IssuesRecorded
  <2>4. RegenerationsSpaced'
    <3>1. ASSUME NEW i \in 1 .. n
          PROVE  /\ issues'[n + 1].at - issues'[i].at >= RegenCooldown
                 /\ issues'[n + 1].window = issues'[i].window => n + 1 - i < MaxRegensPerWindow
                 /\ issues'[n + 1].window # issues'[i].window
                      => issues'[n + 1].window - issues'[i].window >= RegenWindow
      <4>1. issues'[n + 1].at - issues'[i].at >= RegenCooldown
        BY <1>1, <1>3, <1>4, <1>5
      <4>2. i > n - rec.count => n + 1 - i < MaxRegensPerWindow
        BY <1>1, <2>1
      <4>. QED
        BY <1>1, <1>3, <2>1, <2>2, <4>1, <4>2
    <3>2. ASSUME NEW i \in 1 .. n, NEW j \in 1 .. n, i < j
          PROVE  /\ issues'[j].at - issues'[i].at >= RegenCooldown
                 /\ issues'[j].window = issues'[i].window => j - i < MaxRegensPerWindow
                 /\ issues'[j].window # issues'[i].window
                      => issues'[j].window - issues'[i].window >= RegenWindow
      BY <1>3, <3>2 DEF RegenerationsSpaced
    <3>3. \A i, j \in 1 .. n + 1 : i < j => i \in 1 .. n /\ (j = n + 1 \/ j \in 1 .. n)
      BY <1>1
    <3>4. \A i, j \in 1 .. Len(issues') : i < j =>
            /\ issues'[j].at - issues'[i].at >= RegenCooldown
            /\ issues'[j].window = issues'[i].window => j - i < MaxRegensPerWindow
            /\ issues'[j].window # issues'[i].window
                 => issues'[j].window - issues'[i].window >= RegenWindow
      <4> SUFFICES ASSUME NEW i \in 1 .. Len(issues'), NEW j \in 1 .. Len(issues'), i < j
                   PROVE  /\ issues'[j].at - issues'[i].at >= RegenCooldown
                          /\ issues'[j].window = issues'[i].window => j - i < MaxRegensPerWindow
                          /\ issues'[j].window # issues'[i].window
                               => issues'[j].window - issues'[i].window >= RegenWindow
        OBVIOUS
      <4>1. i \in 1 .. n + 1 /\ j \in 1 .. n + 1
        BY <1>3, Zenon
      <4>2. i \in 1 .. n /\ (j = n + 1 \/ j \in 1 .. n)
        BY <3>3, <4>1, Zenon
      <4>3. CASE j = n + 1
        BY <3>1, <4>2, <4>3
      <4>4. CASE j \in 1 .. n
        BY <3>2, <4>2, <4>4, Zenon
      <4>. QED
        BY <4>2, <4>3, <4>4, Zenon
    <3>. QED
      BY <3>4, Zenon DEF RegenerationsSpaced
  <2>. QED
    BY <2>3, <2>4
<1>. QED
  BY <1>6, <1>7

\* Every other update of the record leaves the bookkeeping of its last issue alone.
LEMMA UpdatesKeepIssues ==
    ASSUME NEW r \in CodeRecord, NEW until
    PROVE  /\ SameIssues(ConsumeTry(r), r)
           /\ SameIssues(ClearBudget(r), r)
           /\ SameIssues(LockCode(r, until), r)
BY DEF SameIssues, ConsumeTry, ClearBudget, LockCode, CodeRecord

LEMMA NextKeepsIssues ==
    TypeOK /\ PlansAllowed /\ IssuesStamped /\ IssuesRecorded /\ RegenerationsSpaced /\ [Next]_vars
      => IssuesRecorded' /\ RegenerationsSpaced'
<1> SUFFICES ASSUME TypeOK, PlansAllowed, IssuesStamped, IssuesRecorded, RegenerationsSpaced,
                    [Next]_vars
             PROVE  IssuesRecorded' /\ RegenerationsSpaced'
  OBVIOUS
<1>1. CASE UNCHANGED issues /\ SameIssues(rec', rec)
  BY <1>1 DEF IssuesRecorded, RegenerationsSpaced, SameIssues
<1>2. CASE issues' = <<>>
  <2>1. Len(issues') = 0
    BY <1>2
  <2>. QED
    BY <1>2, <2>1 DEF IssuesRecorded, RegenerationsSpaced
<1>3. ASSUME NEW q \in Requests, StoreFirst(q)
      PROVE  IssuesRecorded' /\ RegenerationsSpaced'
  <2>1. /\ req[q].at # ZeroTime /\ MayIssue(req[q].snap, req[q].at) /\ Stamped(req[q].snap)
    BY <1>3 DEF StoreFirst, IssuesStamped, PlansAllowed
  <2>2. /\ rec'.last = req[q].at
        /\ rec'.window = Planned(req[q].snap, req[q].at).window
        /\ rec'.count = Planned(req[q].snap, req[q].at).count
    BY <1>3 DEF StoreFirst, FirstIssue, Planned
  <2>. QED
    BY <1>3, <2>1, <2>2, OneIssueRecorded DEF StoreFirst
<1>4. ASSUME NEW q \in Requests, StoreAgain(q)
      PROVE  IssuesRecorded' /\ RegenerationsSpaced'
  <2>1. /\ req[q].at # ZeroTime /\ MayIssue(req[q].snap, req[q].at) /\ Stamped(req[q].snap)
    BY <1>4 DEF StoreAgain, IssuesStamped, PlansAllowed
  <2>2. /\ rec'.last = req[q].at
        /\ rec'.window = Planned(req[q].snap, req[q].at).window
        /\ rec'.count = Planned(req[q].snap, req[q].at).count
    BY <1>4 DEF StoreAgain, ReIssue, Planned
  <2>3. rec.last = req[q].snap.last
    BY <1>4 DEF StoreAgain, GuardHolds
  <2>4. CASE ~SameIssues(rec, req[q].snap) \/ issues = <<>>
    <3>1. issues' = <<IssueOf(q)>>
      <4>1. Append(<<>>, IssueOf(q)) = <<IssueOf(q)>>
        OBVIOUS
      <4>. QED
        BY <1>4, <2>3, <2>4, <4>1 DEF StoreAgain
    <3>. QED
      BY <2>1, <2>2, <3>1, OneIssueRecorded
  <2>5. CASE SameIssues(rec, req[q].snap) /\ issues # <<>>
    <3>1. issues' = Append(issues, IssueOf(q))
      BY <1>4, <2>5 DEF StoreAgain
    <3>. QED
      BY <2>1, <2>2, <2>5, <3>1, NextIssueRecorded
  <2>. QED
    BY <2>4, <2>5
<1>5. ASSUME NEW q \in Requests, SaveLogin(q)
      PROVE  IssuesRecorded' /\ RegenerationsSpaced'
  BY <1>1, <1>2, <1>5 DEF SaveLogin
<1>6. ASSUME NEW q \in Requests, SetPassword(q)
      PROVE  IssuesRecorded' /\ RegenerationsSpaced'
  BY <1>2, <1>6 DEF SetPassword
<1>7. ASSUME NEW q \in Requests, NEW given \in 0 .. issued, NEW redeem \in BOOLEAN,
             SubmitCode(q, given, redeem)
      PROVE  IssuesRecorded' /\ RegenerationsSpaced'
  BY <1>1, <1>7, UpdatesKeepIssues DEF SubmitCode, TypeOK
<1>8. ASSUME NEW q \in Requests, Clear(q) \/ Lock(q)
      PROVE  IssuesRecorded' /\ RegenerationsSpaced'
  BY <1>1, <1>8, UpdatesKeepIssues DEF Clear, Lock, TypeOK
<1>9. ASSUME NEW q \in Requests,
             ReadCode(q) \/ PlanIssue(q) \/ StoreLost(q) \/ ReadLogin(q) \/ Abort(q)
      PROVE  IssuesRecorded' /\ RegenerationsSpaced'
  BY <1>1, <1>9 DEF ReadCode, PlanIssue, StoreLost, ReadLogin, Abort, SameIssues
<1>10. CASE Tick \/ UNCHANGED vars
  BY <1>1, <1>10 DEF Tick, vars, SameIssues
<1>. QED
  BY <1>3, <1>4, <1>5, <1>6, <1>7, <1>8, <1>9, <1>10 DEF Next

\* Of the codes issued one after the other by requests that had read a code, any two are
\* RegenCooldown apart and at most MaxRegensPerWindow fall into a window, for every number of
\* concurrent requests: the lastissuedat filter makes the decision still hold when it is stored.
THEOREM SpacingRespected == Spec => []RegenerationsSpaced
<1>1. Init => IssuesRecorded /\ RegenerationsSpaced
  BY DEF Init, IssuesRecorded, RegenerationsSpaced
<1>. QED
  BY <1>1, InitSpacing, TypeCorrect, NextKeepsPlans, NextKeepsStamps, NextKeepsIssues, PTL DEF Spec

=============================================================================
