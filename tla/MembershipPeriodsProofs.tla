----------------------- MODULE MembershipPeriodsProofs -----------------------
(***************************************************************************)
(* The history of memberships, for any coaches, head coaches, gyms, instants  *)
(* and requests in flight: it follows the memberships, it is disjoint, and    *)
(* the scopes worked out from it are right.                                   *)
(***************************************************************************)
EXTENDS MembershipPeriods, FiniteSetTheorems, TLAPS

-----------------------------------------------------------------------------
(* The inductive invariants *)

Row == [member : Coaches, parent : Heads, at : Times]

Request ==
    [op : {"idle", "assign", "remove", "release", "delete", "reconcile"},
     pc : {"done", "write", "find", "close", "insert", "closeMember", "closeOwn", "closeParent", "gym",
           "rows", "open", "next", "orphans", "existing", "orphan"},
     member : Members \cup {None}, parent : Members \cup Parents \cup {None}, at : Times,
     since : Times, touched : SUBSET Members, rows : SUBSET Row, todo : SUBSET Row]

\* In OpenPeriod.
Opening(r) == r.pc \in {"find", "close", "insert"}

\* Repairing the rows: todo is about rows that have no period.
Repairing(r) == r.op = "reconcile" /\ (r.pc = "next" \/ Opening(r))

\* Where a request can be, and whom it is about there.
Shape(r) ==
    /\ r.op = "idle" => r = Idle
    /\ r.op = "assign" => /\ r.pc = "write" \/ Opening(r)
                          /\ r.member \in Members /\ r.parent \in ParentsOf(r.member)
    /\ r.op = "remove" => r.pc \in {"write", "closeMember"} /\ r.member \in Members
    /\ r.op = "release" => r.pc \in {"write", "closeParent"} /\ r.parent \in Parents
    /\ r.op = "delete" => /\ r.pc \in {"write", "closeOwn", "closeParent", "gym", "closeMember"}
                          /\ r.parent \in Members
                          /\ r.pc = "closeOwn" => r.parent \in Coaches
                          /\ r.pc = "closeMember" => r.member = r.parent /\ r.parent \in Heads
    /\ r.op = "reconcile" => /\ r.pc \in {"rows", "open", "next", "orphans", "existing", "orphan"} \/ Opening(r)
                             /\ r.member \in Coaches \cup {None}
                             /\ Opening(r) => r.member \in Coaches /\ r.parent \in Heads

\* Whom a row or a period may be under.
Fits(m, k) == k \in ParentsOf(m)

Typed ==
    /\ now \in Times
    /\ row \in [Members -> [parent : Parents \cup {None}, at : Times]]
    /\ \A m \in Members : row[m] = NoRow \/ Fits(m, row[m].parent)
    /\ periods \subseteq Period
    /\ \A p \in periods : Fits(p.member, p.parent)
    /\ req \in [Requests -> Request]
    /\ \A q \in Requests : Shape(req[q])
    /\ begun \in 0 .. MaxWrites
    /\ torn \subseteq Members /\ raced \subseteq Members

\* The index.
OnlyOnce == \A p, p2 \in periods : p.member = p2.member /\ p.end = Open /\ p2.end = Open => p = p2

-----------------------------------------------------------------------------
(* The rows and what the requests still have to write *)

\* A reconciliation goes on, and nobody interfered with m since it began.
Repaired(r, m) == r.op = "reconcile" /\ m \in Coaches \ r.touched

Sound(m) == m \notin torn \/ \E q \in Requests : Repaired(req[q], m)

Opens(r, m) == Opening(r) /\ r.member = m
Closes(r, m) == \/ r.pc = "closeMember" /\ r.member = m
                \/ r.pc = "closeOwn" /\ r.parent = m

\* What a request in flight writes about m is what m's row says.
InStep(r, m) ==
    /\ Opens(r, m) => row[m].parent = r.parent
    /\ Closes(r, m) => row[m] = NoRow
    /\ r.pc = "closeParent" => row[m].parent # r.parent
    /\ r.pc = "open" => \A x \in r.rows : x.member = m => x.parent = row[m].parent
    /\ Repairing(r) => \A x \in r.todo : x.member = m => x.parent = row[m].parent
    /\ r.pc = "orphan" => \A x \in r.todo : x.member = m => row[m] = NoRow

RequestsInStep == \A m \in Members : Sound(m) => \A q \in Requests : InStep(req[q], m)

\* Only reconciliations open periods of a member with whom nobody interfered since one of them began.
RepairsAlone ==
    \A q \in Requests, m \in Members : Repaired(req[q], m) =>
      \A r \in Requests : req[r].op = "assign" => ~Opens(req[r], m)

-----------------------------------------------------------------------------
(* The history and the rows *)

Aligned(m) == IF row[m] = NoRow THEN OpenOf(m) = {} ELSE \E p \in OpenOf(m) : p.parent = row[m].parent

\* Who opens a period finds none open, or the one it would open.
InsertsFit ==
    \A m \in Members : Sound(m) => \A q \in Requests : Opens(req[q], m) /\ At(q, "insert") =>
      \A p \in OpenOf(m) : p.parent = row[m].parent

\* Somebody is about to align the history of m.
Awaits(r, m) ==
    \/ row[m] # NoRow /\ Opens(r, m)
    \/ row[m] = NoRow /\ Closes(r, m)
    \/ row[m] = NoRow /\ r.pc = "closeParent" /\ m \in r.touched /\ \A p \in OpenOf(m) : p.parent = r.parent

HistoryAwaited == \A m \in Members : m \notin torn => Aligned(m) \/ \E q \in Requests : Awaits(req[q], m)

\* The member is aligned, or about to be: another reconciliation may be between its two writes.
Settling(m) == Aligned(m) \/ (row[m] # NoRow /\ \E q \in Requests : Opens(req[q], m))

\* How far a reconciliation is with a member that nobody else changed.
RepairedUpTo(r, m) ==
    /\ row[m] # NoRow =>
         /\ r.pc = "open" => \E x \in r.rows : x.member = m
         /\ Repairing(r) => Settling(m) \/ \E x \in r.todo : x.member = m
         /\ r.pc \in {"orphans", "existing", "orphan"} => Settling(m)
    /\ row[m] = NoRow =>
         /\ r.pc = "existing" => OpenOf(m) = {} \/ \E x \in r.rows : x.member = m
         /\ r.pc = "orphan" => OpenOf(m) = {} \/ \E x \in r.todo : x.member = m

RepairsReach == \A q \in Requests, m \in Members : Repaired(req[q], m) => RepairedUpTo(req[q], m)

-----------------------------------------------------------------------------
(* Disjointness *)

Concerns(r, m) == r.op \in {"release", "delete", "reconcile"} \/ (r.op \in {"assign", "remove"} /\ r.member = m)

\* A member nobody raced about is the business of one request at a time.
OneAtATime ==
    /\ \A m \in Members \ raced : \A q, q2 \in Requests : Concerns(req[q], m) /\ Concerns(req[q2], m) => q = q2
    /\ torn \subseteq raced

\* A reconciliation has nothing to do about such a member.
Spares(r, m) ==
    /\ ~Opens(r, m)
    /\ Repairing(r) \/ r.pc = "orphan" => \A x \in r.todo : x.member # m
    /\ r.pc = "existing" => \A x \in r.rows : x.member = m => row[m] # NoRow

NothingToRepair == \A m \in Members \ raced : \A q \in Requests : req[q].op = "reconcile" => Spares(req[q], m)

\* The request takes the time of what it writes from the clock.
Timed(r) == r.op = "assign" \/ r.pc \in {"closeMember", "closeOwn", "closeParent", "gym"}

Before(p, t) == p.start <= t /\ (p.end = Open \/ p.end <= t)
Apart(p, p2) == p.end # Open /\ p.end <= p2.start

\* No time that is written or noted down is ahead of the clock.
Past(r) == r.at <= now /\ r.since <= now /\ (r.op = "reconcile" => \A x \in r.rows \cup r.todo : x.at <= now)

InThePast ==
    /\ \A p \in periods : Before(p, now)
    /\ \A q \in Requests : Past(req[q])
    /\ \A m \in Members : row[m].at <= now

\* A member's periods are one after the other, and before the time of who closes or opens the next.
InOrder ==
    \A m \in Members \ raced : \A p \in periods : p.member = m =>
      /\ p.end = Open \/ p.start <= p.end
      /\ \A q \in Requests : Timed(req[q]) /\ Concerns(req[q], m) => Before(p, req[q].at)
      /\ \A p2 \in periods : p2.member = m /\ p2 # p => Apart(p, p2) \/ Apart(p2, p)

-----------------------------------------------------------------------------
(* Types *)

LEMMA Sorts ==
    /\ Members \cap Gyms = {} /\ None \notin Members /\ None \notin Parents
    /\ 0 \in Times /\ Times \subseteq Nat /\ Open \notin Times
    /\ \A m \in Members : ParentsOf(m) \subseteq Parents
    /\ \A m \in Coaches : ParentsOf(m) = Heads
    /\ \A m \in Heads : ParentsOf(m) = Gyms /\ m \notin Coaches
  BY PeriodsAssumption, ScopeAssumption DEF Members, Parents, ParentsOf

LEMMA IdleIsOne == Idle \in Request /\ Shape(Idle) /\ Idle.op = "idle" /\ Idle.pc = "done"
  BY Sorts DEF Idle, Request, Shape, Opening

\* One request takes a step, and the others stay.
Became(q, w) ==
    /\ w \in Request /\ Shape(w)
    /\ req' = [req EXCEPT ![q] = w]

LEMMA BecameTyped ==
    ASSUME Typed, NEW q \in Requests, NEW w, Became(q, w)
    PROVE  /\ req' \in [Requests -> Request] /\ \A r \in Requests : Shape(req'[r])
           /\ req'[q] = w
           /\ \A r \in Requests : r # q => req'[r] = req[r]
  BY DEF Typed, Became

\* A request is at a point of its own operation.
LEMMA PointsOf ==
    ASSUME NEW r \in Request, Shape(r)
    PROVE  /\ r.op = "idle" <=> r.pc = "done"
           /\ r.op = "idle" <=> r = Idle
           /\ r.pc \in {"rows", "open", "next", "orphans", "existing", "orphan"} => r.op = "reconcile"
           /\ r.pc \in {"closeOwn", "gym"} => r.op = "delete"
           /\ r.pc = "closeParent" => r.op \in {"release", "delete"}
           /\ r.pc = "closeMember" => r.op \in {"remove", "delete"}
           /\ Opening(r) => r.op \in {"assign", "reconcile"}
           /\ r.pc = "write" => r.op \in {"assign", "remove", "release", "delete"}
  BY IdleIsOne DEF Request, Shape, Opening

LEMMA RequestOf == ASSUME Typed, NEW q \in Requests PROVE req[q] \in Request /\ Shape(req[q])
  BY DEF Typed

LEMMA DoneTyped ==
    ASSUME Typed, NEW q \in Requests, Done(q)
    PROVE  Became(q, Idle)
  BY IdleIsOne DEF Done, Became

\* Closing open periods: they are not open any more, and nothing else changes.
LEMMA ClosedOf ==
    ASSUME Typed, OnlyOnce, NEW S, S \subseteq {p \in periods : p.end = Open}, NEW at \in Times,
           periods' = Closed(S, at)
    PROVE  /\ periods' \subseteq Period
           /\ \A p \in periods' : Fits(p.member, p.parent)
           /\ \A p, p2 \in periods' : p.member = p2.member /\ p.end = Open /\ p2.end = Open => p = p2
           /\ \A m : OpenOf(m)' = OpenOf(m) \ S
           /\ \A p \in periods' : p \in periods \ S \/ \E x \in S : p = [x EXCEPT !.end = at]
<1>1. \A p \in periods' : p \in periods \ S \/ \E x \in S : p = [x EXCEPT !.end = at]
  BY DEF Closed
<1>2. \A x \in S : /\ [x EXCEPT !.end = at] \in Period /\ [x EXCEPT !.end = at].end = at
                   /\ [x EXCEPT !.end = at].member = x.member /\ [x EXCEPT !.end = at].parent = x.parent
  BY DEF Typed, Period
<1>3. at # Open
  BY Sorts
<1>4. periods' \subseteq Period /\ \A p \in periods' : Fits(p.member, p.parent)
  <2> SUFFICES ASSUME NEW p \in periods' PROVE p \in Period /\ Fits(p.member, p.parent)
    OBVIOUS
  <2>1. CASE p \in periods \ S
    BY <2>1 DEF Typed
  <2>2. ASSUME NEW x \in S, p = [x EXCEPT !.end = at] PROVE p \in Period /\ Fits(p.member, p.parent)
    <3>1. p \in Period /\ p.member = x.member /\ p.parent = x.parent /\ x \in periods
      BY <1>2, <2>2
    <3> QED BY <3>1 DEF Typed
  <2> QED BY <1>1, <2>1, <2>2
<1>5. \A p \in periods' : p.end = Open => p \in periods \ S
  BY <1>1, <1>2, <1>3
<1>6. \A p \in periods \ S : p \in periods'
  BY DEF Closed
<1>7. \A m : OpenOf(m)' = OpenOf(m) \ S
  BY <1>5, <1>6 DEF OpenOf
<1>8. \A p, p2 \in periods' : p.member = p2.member /\ p.end = Open /\ p2.end = Open => p = p2
  BY <1>5 DEF OnlyOnce
<1> QED BY <1>1, <1>4, <1>7, <1>8

LEMMA InsertedOf ==
    ASSUME Typed, OnlyOnce, NEW p \in Period, Fits(p.member, p.parent), p.end = Open, periods' = Inserted(p)
    PROVE  /\ periods' \subseteq Period
           /\ \A x \in periods' : Fits(x.member, x.parent)
           /\ \A x, x2 \in periods' : x.member = x2.member /\ x.end = Open /\ x2.end = Open => x = x2
           /\ \A m : OpenOf(m)' = IF m = p.member /\ OpenOf(m) = {} THEN {p} ELSE OpenOf(m)
<1>1. CASE OpenOf(p.member) = {}
  <2>1. periods' = periods \cup {p}
    BY <1>1 DEF Inserted
  <2>2. \A x \in periods : x.member = p.member => x.end # Open
    BY <1>1 DEF OpenOf
  <2>3. \A m : OpenOf(m)' = IF m = p.member THEN {p} ELSE OpenOf(m)
    BY <2>1, <2>2 DEF OpenOf
  <2> QED BY <1>1, <2>1, <2>2, <2>3 DEF Typed, OnlyOnce
<1>2. CASE OpenOf(p.member) # {}
  <2>1. periods' = periods
    BY <1>2 DEF Inserted
  <2> QED BY <1>2, <2>1 DEF Typed, OnlyOnce, OpenOf
<1> QED BY <1>1, <1>2

-----------------------------------------------------------------------------
(* What each step does to the requests and the rows *)

\* The arrival of a request.
LEMMA BeginIs ==
    ASSUME Typed, NEW q \in Requests, NEW r \in Request, Shape(r), NEW C, C \subseteq Members, Begin(q, r, C)
    PROVE  /\ Became(q, r) /\ UNCHANGED <<now, row, periods, torn>>
           /\ raced' \subseteq Members /\ begun' \in 0 .. MaxWrites
           /\ req[q] = Idle /\ (raced' = raced \/ raced' = raced \cup C)
           /\ (Busy # {} => raced' = raced \cup C)
<1>1. begun' \in 0 .. MaxWrites
  BY PeriodsAssumption DEF Begin, Typed
<1> QED BY <1>1 DEF Begin, Became, Typed

LEMMA ArrivalsTyped ==
    ASSUME Typed
    PROVE  /\ \A m \in Members, k \in Parents : Fits(m, k) =>
                LET r == [Idle EXCEPT !.op = "assign", !.pc = "write", !.member = m, !.parent = k, !.at = now]
                IN  r \in Request /\ Shape(r)
           /\ \A m \in Members : LET r == [Idle EXCEPT !.op = "remove", !.pc = "write", !.member = m]
                                 IN  r \in Request /\ Shape(r)
           /\ \A k \in Parents : LET r == [Idle EXCEPT !.op = "release", !.pc = "write", !.parent = k]
                                 IN  r \in Request /\ Shape(r)
           /\ \A u \in Members : LET r == [Idle EXCEPT !.op = "delete", !.pc = "write", !.parent = u]
                                 IN  r \in Request /\ Shape(r)
           /\ \A T \in SUBSET Members :
                LET r == [Idle EXCEPT !.op = "reconcile", !.pc = "rows", !.since = now, !.touched = T]
                IN  r \in Request /\ Shape(r)
<1>1. now \in Times /\ 0 \in Times
  BY Sorts DEF Typed
<1>2. ASSUME NEW m \in Members, NEW k \in Parents, Fits(m, k)
      PROVE  LET r == [Idle EXCEPT !.op = "assign", !.pc = "write", !.member = m, !.parent = k, !.at = now]
             IN  r \in Request /\ Shape(r)
  BY <1>1, <1>2 DEF Idle, Request, Shape, Opening, Fits
<1>3. ASSUME NEW m \in Members
      PROVE  LET r == [Idle EXCEPT !.op = "remove", !.pc = "write", !.member = m]
             IN  r \in Request /\ Shape(r)
  BY <1>1 DEF Idle, Request, Shape, Opening
<1>4. ASSUME NEW k \in Parents
      PROVE  LET r == [Idle EXCEPT !.op = "release", !.pc = "write", !.parent = k]
             IN  r \in Request /\ Shape(r)
  BY <1>1 DEF Idle, Request, Shape, Opening
<1>5. ASSUME NEW u \in Members
      PROVE  LET r == [Idle EXCEPT !.op = "delete", !.pc = "write", !.parent = u]
             IN  r \in Request /\ Shape(r)
  BY <1>1 DEF Idle, Request, Shape, Opening
<1>6. ASSUME NEW T \in SUBSET Members
      PROVE  LET r == [Idle EXCEPT !.op = "reconcile", !.pc = "rows", !.since = now, !.touched = T]
             IN  r \in Request /\ Shape(r)
  BY <1>1 DEF Idle, Request, Shape, Opening
<1> QED BY <1>2, <1>3, <1>4, <1>5, <1>6

\* The requests that reconcile notice whose row is written, and the others do not change.
LEMMA NoticedIs ==
    ASSUME NEW r \in Request, Shape(r), NEW C, C \subseteq Members
    PROVE  LET y == Noticed(r, C)
           IN  /\ y \in Request /\ Shape(y)
               /\ y.op = r.op /\ y.pc = r.pc /\ y.member = r.member /\ y.parent = r.parent /\ y.at = r.at
               /\ y.since = r.since /\ y.rows = r.rows /\ y.todo = r.todo
               /\ r.op # "reconcile" => y = r
               /\ r.op = "reconcile" => y.touched = r.touched \cup C
<1>1. CASE r.op # "reconcile"
  BY <1>1 DEF Noticed
<1>2. CASE r.op = "reconcile"
  <2> DEFINE y == [r EXCEPT !.touched = @ \cup C]
  <2>1. Noticed(r, C) = y
    BY <1>2 DEF Noticed
  <2>2. /\ y \in Request /\ y.op = r.op /\ y.pc = r.pc /\ y.member = r.member /\ y.parent = r.parent
        /\ y.at = r.at /\ y.since = r.since /\ y.rows = r.rows /\ y.todo = r.todo /\ y.touched = r.touched \cup C
    BY <1>2 DEF Request
  <2> HIDE DEF y
  <2>3. Shape(y)
    BY <1>2, <2>2 DEF Shape, Opening
  <2> QED BY <1>2, <2>1, <2>2, <2>3
<1> QED BY <1>1, <1>2

LEMMA WriteRowsIs ==
    ASSUME Typed, NEW q \in Requests, NEW C, C \subseteq Members, NEW w \in Request, Shape(w), w.op # "reconcile",
           WriteRows(q, C, w)
    PROVE  /\ req' \in [Requests -> Request] /\ \A r \in Requests : Shape(req'[r])
           /\ torn' = torn \cup Overlapped(q, C) /\ torn' \subseteq Members
           /\ UNCHANGED <<now, periods, raced, begun>>
           /\ req'[q] = w
           /\ \A r \in Requests : r # q => req'[r] = Noticed(req[r], C)
<1>1. req' = [r \in Requests |-> IF r = q THEN w ELSE Noticed(req[r], C)]
  BY DEF WriteRows
<1>2. \A r \in Requests : Noticed(req[r], C) \in Request /\ Shape(Noticed(req[r], C))
  BY RequestOf, NoticedIs
<1>3. Overlapped(q, C) \subseteq Members
  BY DEF Overlapped
<1> QED BY <1>1, <1>2, <1>3 DEF WriteRows, Typed

LEMMA AssignRowIs ==
    ASSUME Typed, NEW q \in Requests, AssignRow(q)
    PROVE  LET m == req[q].member
               w == [req[q] EXCEPT !.pc = "find"]
           IN  /\ req[q].op = "assign" /\ req[q].pc = "write" /\ m \in Members /\ Fits(m, req[q].parent)
               /\ w \in Request /\ Shape(w)
               /\ \/ row' = row /\ WriteRows(q, {}, Idle)
                  \/ /\ row' = [row EXCEPT ![m] = [parent |-> req[q].parent, at |-> req[q].at]]
                     /\ WriteRows(q, {m}, w)
<1> DEFINE r == req[q]
           w == [r EXCEPT !.pc = "find"]
<1>1. r \in Request /\ Shape(r) /\ r.op = "assign" /\ r.pc = "write"
  BY RequestOf DEF AssignRow, At
<1>2. r.member \in Members /\ Fits(r.member, r.parent)
  BY <1>1 DEF Shape, Fits
<1>3. \/ row' = row /\ WriteRows(q, {}, Idle)
      \/ /\ row' = [row EXCEPT ![r.member] = [parent |-> r.parent, at |-> r.at]]
         /\ WriteRows(q, {r.member}, w)
  BY DEF AssignRow
<1> HIDE DEF r
<1>4. w \in Request /\ w.op = "assign" /\ w.pc = "find" /\ w.member = r.member /\ w.parent = r.parent
  BY <1>1 DEF Request
<1> HIDE DEF w
<1>5. Shape(w)
  BY <1>1, <1>4 DEF Shape, Opening
<1> QED BY <1>1, <1>2, <1>3, <1>4, <1>5 DEF r, w

LEMMA RemoveRowIs ==
    ASSUME Typed, NEW q \in Requests, RemoveRow(q)
    PROVE  LET m == req[q].member
               w == [req[q] EXCEPT !.pc = "closeMember", !.at = now]
           IN  /\ req[q].op = "remove" /\ req[q].pc = "write" /\ m \in Members
               /\ w \in Request /\ Shape(w)
               /\ row' = [row EXCEPT ![m] = NoRow]
               /\ \/ row[m] = NoRow /\ WriteRows(q, {}, Idle)
                  \/ row[m] # NoRow /\ WriteRows(q, {m}, w)
<1> DEFINE r == req[q]
           w == [r EXCEPT !.pc = "closeMember", !.at = now]
<1>1. r \in Request /\ Shape(r) /\ r.op = "remove" /\ r.pc = "write"
  BY RequestOf DEF RemoveRow, At
<1>2. r.member \in Members
  BY <1>1 DEF Shape
<1>3. /\ row' = [row EXCEPT ![r.member] = NoRow]
      /\ \/ row[r.member] = NoRow /\ WriteRows(q, {}, Idle)
         \/ row[r.member] # NoRow /\ WriteRows(q, {r.member}, w)
  BY DEF RemoveRow
<1> HIDE DEF r
<1>4. w \in Request /\ w.op = "remove" /\ w.pc = "closeMember" /\ w.member = r.member
  BY <1>1 DEF Request, Typed
<1> HIDE DEF w
<1>5. Shape(w)
  BY <1>1, <1>4 DEF Shape
<1> QED BY <1>1, <1>2, <1>3, <1>4, <1>5 DEF r, w

LEMMA ReleaseRowsIs ==
    ASSUME Typed, NEW q \in Requests, ReleaseRows(q)
    PROVE  LET k == req[q].parent
               w == [req[q] EXCEPT !.pc = "closeParent", !.at = now, !.touched = Team(k)]
           IN  /\ req[q].op = "release" /\ req[q].pc = "write" /\ k \in Parents
               /\ w \in Request /\ Shape(w)
               /\ row' = [m \in Members |-> IF m \in Team(k) THEN NoRow ELSE row[m]]
               /\ WriteRows(q, Team(k), w)
<1> DEFINE r == req[q]
           T == Team(r.parent)
           w == [r EXCEPT !.pc = "closeParent", !.at = now, !.touched = T]
<1>1. r \in Request /\ Shape(r) /\ r.op = "release" /\ r.pc = "write"
  BY RequestOf DEF ReleaseRows, At
<1>2. r.parent \in Parents
  BY <1>1 DEF Shape
<1>3. row' = [m \in Members |-> IF m \in T THEN NoRow ELSE row[m]] /\ WriteRows(q, T, w)
  BY DEF ReleaseRows
<1>4. T \subseteq Members
  BY DEF Team
<1> HIDE DEF r, T
<1>5. w \in Request /\ w.op = "release" /\ w.pc = "closeParent" /\ w.parent = r.parent
  BY <1>1, <1>4 DEF Request, Typed
<1> HIDE DEF w
<1>6. Shape(w)
  BY <1>1, <1>5 DEF Shape
<1> QED BY <1>1, <1>2, <1>3, <1>5, <1>6 DEF r, w, T

LEMMA DeleteRowsIs ==
    ASSUME Typed, NEW q \in Requests, DeleteRows(q)
    PROVE  LET u == req[q].parent
               gone == Team(u) \cup ({u} \cap Coaches)
               C == {m \in gone : row[m] # NoRow}
               w == [req[q] EXCEPT !.pc = IF u \in Coaches THEN "closeOwn" ELSE "closeParent",
                                   !.at = now, !.touched = C]
           IN  /\ req[q].op = "delete" /\ req[q].pc = "write" /\ u \in Members
               /\ w \in Request /\ Shape(w)
               /\ row' = [m \in Members |-> IF m \in gone THEN NoRow ELSE row[m]]
               /\ WriteRows(q, C, w)
<1> DEFINE r == req[q]
           gone == Team(r.parent) \cup ({r.parent} \cap Coaches)
           C == {m \in gone : row[m] # NoRow}
           pc == IF r.parent \in Coaches THEN "closeOwn" ELSE "closeParent"
           w == [r EXCEPT !.pc = pc, !.at = now, !.touched = C]
<1>1. r \in Request /\ Shape(r) /\ r.op = "delete" /\ r.pc = "write"
  BY RequestOf DEF DeleteRows, At
<1>2. r.parent \in Members
  BY <1>1 DEF Shape
<1>3. row' = [m \in Members |-> IF m \in gone THEN NoRow ELSE row[m]] /\ WriteRows(q, C, w)
  BY DEF DeleteRows
<1>4. C \subseteq Members
  BY DEF Team, Members
<1> HIDE DEF r, gone, C
<1>5. w \in Request /\ w.op = "delete" /\ w.pc = pc /\ w.parent = r.parent
  BY <1>1, <1>4 DEF Request, Typed
<1> HIDE DEF w
<1>6. Shape(w)
  BY <1>1, <1>2, <1>5 DEF Shape
<1> QED BY <1>1, <1>2, <1>3, <1>5, <1>6 DEF r, w, gone, C

LEMMA DeleteGymRowIs ==
    ASSUME Typed, NEW q \in Requests, DeleteGymRow(q)
    PROVE  LET u == req[q].parent
               w == [req[q] EXCEPT !.pc = "closeMember", !.member = u, !.touched = {u}]
           IN  /\ req[q].op = "delete" /\ req[q].pc = "gym" /\ u \in Members
               /\ \/ row' = row /\ WriteRows(q, {}, Idle)
                  \/ /\ u \in Heads /\ row[u] # NoRow
                     /\ w \in Request /\ Shape(w)
                     /\ row' = [row EXCEPT ![u] = NoRow]
                     /\ WriteRows(q, {u}, w)
<1> DEFINE r == req[q]
           u == r.parent
           w == [r EXCEPT !.pc = "closeMember", !.member = u, !.touched = {u}]
<1>1. r \in Request /\ Shape(r) /\ r.op = "delete" /\ r.pc = "gym"
  BY RequestOf, PointsOf DEF DeleteGymRow, At
<1>2. u \in Members
  BY <1>1 DEF Shape
<1>3. \/ row' = row /\ WriteRows(q, {}, Idle)
      \/ /\ u \in Heads /\ row[u] # NoRow
         /\ row' = [row EXCEPT ![u] = NoRow]
         /\ WriteRows(q, {u}, w)
  BY DEF DeleteGymRow
<1> HIDE DEF r
<1>4. w \in Request /\ w.op = "delete" /\ w.pc = "closeMember" /\ w.member = u /\ w.parent = u
  BY <1>1, <1>2 DEF Request
<1> HIDE DEF w
<1>5. u \in Heads => Shape(w)
  BY <1>1, <1>2, <1>4 DEF Shape
<1> QED BY <1>1, <1>2, <1>3, <1>4, <1>5 DEF r, w

\* A request that only moves to another point.
Moved(r, pc) == [r EXCEPT !.pc = pc]

Turns(r, pc) ==
    \/ Opening(r) /\ pc \in {"close", "insert"}
    \/ r.pc = "closeOwn" /\ pc = "closeParent"
    \/ r.pc = "closeParent" /\ r.op = "delete" /\ pc = "gym"
    \/ r.op = "reconcile" /\ pc = "orphans"

LEMMA MovedTo ==
    ASSUME Typed, NEW q \in Requests, NEW pc, Turns(req[q], pc), Goto(q, pc)
    PROVE  Became(q, Moved(req[q], pc))
<1> DEFINE r == req[q]
           w == Moved(r, pc)
<1>1. r \in Request /\ Shape(r)
  BY RequestOf
<1>2. r.op \in {"idle", "assign", "remove", "release", "delete", "reconcile"}
  BY <1>1 DEF Request
<1>3. req' = [req EXCEPT ![q] = w]
  BY DEF Goto, Typed, Moved
<1>4. Turns(r, pc)
  OBVIOUS
<1> HIDE DEF r
<1>5. w \in Request /\ w.op = r.op /\ w.member = r.member /\ w.parent = r.parent /\ w.pc = pc
  BY <1>1, <1>4 DEF Request, Moved, Turns
<1> HIDE DEF w
<1>6. Shape(w)
  BY <1>1, <1>2, <1>4, <1>5, IdleIsOne, PointsOf DEF Shape, Opening, Turns
<1> QED BY <1>3, <1>5, <1>6 DEF Became, r, w

\* What a request is when its OpenPeriod is over.
Gone(r) ==
    IF r.op = "reconcile" THEN [r EXCEPT !.pc = "next", !.member = None, !.parent = None, !.at = 0] ELSE Idle

LEMMA GoIs ==
    ASSUME Typed, NEW q \in Requests, Go(q)
    PROVE  Became(q, Gone(req[q]))
<1> DEFINE r == req[q]
           w == [r EXCEPT !.pc = "next", !.member = None, !.parent = None, !.at = 0]
<1>1. r \in Request /\ Shape(r)
  BY RequestOf
<1>2. req' = [req EXCEPT ![q] = Gone(r)]
  BY DEF Go, Gone, Typed
<1> HIDE DEF r
<1>3. CASE r.op = "reconcile"
  <2>1. w \in Request /\ w.op = "reconcile" /\ w.pc = "next" /\ w.member = None
    BY <1>1, <1>3, Sorts DEF Request
  <2>2. Gone(r) = w
    BY <1>3 DEF Gone
  <2> HIDE DEF w
  <2>3. Shape(w)
    BY <2>1 DEF Shape, Opening
  <2> QED BY <1>2, <2>1, <2>2, <2>3 DEF Became, r
<1>4. CASE r.op # "reconcile"
  BY <1>2, <1>4, IdleIsOne DEF Gone, Became, r
<1> QED BY <1>3, <1>4

LEMMA FindIs ==
    ASSUME Typed, NEW q \in Requests, Find(q)
    PROVE  LET r == req[q]
           IN  /\ Opening(r) /\ r.pc = "find"
               /\ UNCHANGED <<now, row, periods, torn, raced, begun>>
               /\ \/ OpenOf(r.member) = {} /\ Became(q, Moved(r, "insert"))
                  \/ (\E p \in OpenOf(r.member) : p.parent = r.parent) /\ Became(q, Gone(r))
                  \/ Became(q, Moved(r, "close"))
<1>1. req[q].pc = "find" /\ Opening(req[q])
  BY DEF Find, At, Opening
<1>2. Goto(q, "insert") => Became(q, Moved(req[q], "insert"))
  BY <1>1, MovedTo DEF Turns
<1>3. Goto(q, "close") => Became(q, Moved(req[q], "close"))
  BY <1>1, MovedTo DEF Turns
<1>4. Go(q) => Became(q, Gone(req[q]))
  BY GoIs
<1> QED BY <1>1, <1>2, <1>3, <1>4 DEF Find

LEMMA CloseOtherIs ==
    ASSUME Typed, NEW q \in Requests, CloseOther(q)
    PROVE  LET r == req[q]
           IN  /\ Opening(r) /\ r.pc = "close" /\ r.at \in Times
               /\ UNCHANGED <<now, row, torn, raced, begun>>
               /\ periods' = Closed(OpenOf(r.member), r.at)
               /\ Became(q, Moved(r, "insert"))
<1>1. req[q].pc = "close" /\ Opening(req[q])
  BY DEF CloseOther, At, Opening
<1>2. req[q].at \in Times
  BY RequestOf DEF Request
<1>3. Goto(q, "insert") => Became(q, Moved(req[q], "insert"))
  BY <1>1, MovedTo DEF Turns
<1> QED BY <1>1, <1>2, <1>3 DEF CloseOther, CloseFirst

\* The period that a request opens.
Opened(r) == [member |-> r.member, parent |-> r.parent, start |-> r.at, end |-> Open]

LEMMA InsertIs ==
    ASSUME Typed, NEW q \in Requests, Insert(q)
    PROVE  LET r == req[q]
           IN  /\ Opening(r) /\ r.pc = "insert"
               /\ Opened(r) \in Period /\ Fits(r.member, r.parent)
               /\ UNCHANGED <<now, row, torn, raced, begun>>
               /\ periods' = Inserted(Opened(r))
               /\ Became(q, Gone(r))
<1> DEFINE r == req[q]
<1>1. r \in Request /\ Shape(r) /\ r.pc = "insert" /\ Opening(r)
  BY RequestOf DEF Insert, At, Opening
<1>2. r.op \in {"assign", "reconcile"}
  BY <1>1, PointsOf
<1>3. r.member \in Members /\ Fits(r.member, r.parent)
  BY <1>1, <1>2, Sorts DEF Shape, Fits, Members
<1>4. r.parent \in Parents /\ r.at \in Times
  BY <1>1, <1>3, Sorts DEF Fits, Request
<1>5. Opened(r) \in Period
  BY <1>3, <1>4 DEF Opened, Period
<1> QED BY <1>1, <1>3, <1>5, GoIs DEF Insert, Opened

LEMMA CloseMemberIs ==
    ASSUME Typed, NEW q \in Requests, CloseMember(q)
    PROVE  LET r == req[q]
           IN  /\ r.pc = "closeMember" /\ r.op # "reconcile" /\ r.at \in Times
               /\ UNCHANGED <<now, row, torn, raced, begun>>
               /\ periods' = Closed(OpenOf(r.member), r.at)
               /\ Became(q, Idle)
<1>1. req[q].pc = "closeMember" /\ req[q] \in Request /\ Shape(req[q])
  BY RequestOf DEF CloseMember, At
<1> QED BY <1>1, PointsOf, DoneTyped DEF CloseMember, Request

LEMMA CloseOwnIs ==
    ASSUME Typed, NEW q \in Requests, CloseOwn(q)
    PROVE  LET r == req[q]
           IN  /\ r.pc = "closeOwn" /\ r.op = "delete" /\ r.parent \in Coaches /\ r.at \in Times
               /\ UNCHANGED <<now, row, torn, raced, begun>>
               /\ periods' = Closed(OpenOf(r.parent), r.at)
               /\ Became(q, Moved(r, "closeParent"))
<1>1. req[q].pc = "closeOwn" /\ req[q] \in Request /\ Shape(req[q])
  BY RequestOf DEF CloseOwn, At
<1>2. req[q].op = "delete" /\ req[q].parent \in Coaches
  BY <1>1, PointsOf DEF Shape
<1>3. Goto(q, "closeParent") => Became(q, Moved(req[q], "closeParent"))
  BY <1>1, MovedTo DEF Turns
<1> QED BY <1>1, <1>2, <1>3 DEF CloseOwn, Request

LEMMA CloseParentIs ==
    ASSUME Typed, NEW q \in Requests, CloseParent(q)
    PROVE  LET r == req[q]
           IN  /\ r.pc = "closeParent" /\ r.op \in {"release", "delete"} /\ r.at \in Times
               /\ UNCHANGED <<now, row, torn, raced, begun>>
               /\ periods' = Closed(OpenUnder(r.parent), r.at)
               /\ \/ Became(q, Idle)
                  \/ r.op = "delete" /\ Became(q, Moved(r, "gym"))
<1>1. req[q].pc = "closeParent" /\ req[q] \in Request /\ Shape(req[q])
  BY RequestOf DEF CloseParent, At
<1>2. req[q].op \in {"release", "delete"}
  BY <1>1, PointsOf
<1>3. req[q].op = "delete" /\ Goto(q, "gym") => Became(q, Moved(req[q], "gym"))
  BY <1>1, MovedTo DEF Turns
<1> QED BY <1>1, <1>2, <1>3, DoneTyped DEF CloseParent, Request

LEMMA FailHistoryIs ==
    ASSUME Typed, NEW q \in Requests, FailHistory(q)
    PROVE  LET r == req[q]
           IN  /\ r.op \notin {"reconcile", "idle"} /\ r.pc \notin {"write", "done"}
               /\ UNCHANGED <<now, row, periods, begun>>
               /\ torn' = torn \cup Left(q) /\ raced' = raced \cup Left(q) /\ Left(q) \subseteq Members
               /\ \/ Became(q, Idle)
                  \/ r.op = "delete" /\ r.pc = "closeOwn" /\ r.parent \in Coaches
                     /\ Became(q, Moved(r, "closeParent"))
                  \/ r.op = "delete" /\ r.pc = "closeParent" /\ Became(q, Moved(r, "gym"))
<1> DEFINE r == req[q]
<1>1. r \in Request /\ Shape(r) /\ r.op # "reconcile"
  BY RequestOf DEF FailHistory
<1>2. r.pc \in {"find", "close", "insert", "closeMember", "closeOwn", "closeParent"}
  BY DEF FailHistory
<1>3. Left(q) \subseteq Members /\ r.op # "idle"
  BY <1>1, <1>2, PointsOf DEF Left
<1>4. r.pc = "closeOwn" => r.op = "delete" /\ r.parent \in Coaches
  BY <1>1, PointsOf DEF Shape
<1>5. \/ Done(q)
      \/ r.pc = "closeOwn" /\ Goto(q, "closeParent")
      \/ r.op = "delete" /\ r.pc = "closeParent" /\ Goto(q, "gym")
  BY DEF FailHistory, At
<1>6. \/ Became(q, Idle)
      \/ r.pc = "closeOwn" /\ Became(q, Moved(r, "closeParent"))
      \/ r.op = "delete" /\ r.pc = "closeParent" /\ Became(q, Moved(r, "gym"))
  <2>1. r.op = "delete" /\ r.pc = "closeParent" /\ Goto(q, "gym") => Became(q, Moved(r, "gym"))
    BY MovedTo DEF Turns
  <2>2. r.pc = "closeOwn" /\ Goto(q, "closeParent") => Became(q, Moved(r, "closeParent"))
    BY MovedTo DEF Turns
  <2> QED BY <1>5, <2>1, <2>2, DoneTyped
<1> QED BY <1>1, <1>2, <1>3, <1>4, <1>6 DEF FailHistory

\* What a crash leaves half done.
LEMMA CrashIs ==
    ASSUME Typed, NEW q \in Requests, Crash(q)
    PROVE  LET D == Dropped(q)
           IN  /\ req' \in [Requests -> Request] /\ \A r \in Requests : Shape(req'[r])
               /\ req'[q] = Idle /\ \A r \in Requests : r # q => req'[r] = Noticed(req[r], D)
               /\ UNCHANGED <<now, row, periods, begun>>
               /\ torn' = torn \cup D /\ raced' = raced \cup Left(q)
               /\ Left(q) \subseteq Members /\ D \subseteq Left(q)
               /\ req[q].op # "reconcile" => D = Left(q)
               /\ req[q].op = "reconcile" => D = {req[q].member} \ {None}
<1>1. Left(q) \subseteq Members
  BY DEF Left
<1>2. req[q].op = "reconcile" => {req[q].member} \ {None} \subseteq Left(q)
  <2> SUFFICES ASSUME req[q].op = "reconcile", req[q].member # None PROVE req[q].member \in Left(q)
    OBVIOUS
  <2>1. req[q].member \in Coaches /\ req[q].pc \notin {"done", "write"}
    BY RequestOf DEF Shape, Opening
  <2> QED BY <2>1 DEF Left, Owes, Members
<1>3. PICK D : D = Dropped(q)
  OBVIOUS
<1>4. /\ D \subseteq Left(q) /\ D \subseteq Members
      /\ req[q].op # "reconcile" => D = Left(q)
      /\ req[q].op = "reconcile" => D = {req[q].member} \ {None}
  BY <1>1, <1>2, <1>3 DEF Dropped
<1>5. \A r \in Requests : Noticed(req[r], D) \in Request /\ Shape(Noticed(req[r], D))
  BY <1>4, RequestOf, NoticedIs
<1>6. req' = [r \in Requests |-> IF r = q THEN Idle ELSE Noticed(req[r], D)]
  BY <1>3 DEF Crash
<1> QED BY <1>1, <1>3, <1>4, <1>5, <1>6, IdleIsOne DEF Crash

-----------------------------------------------------------------------------
(* The steps of a reconciliation *)

\* A step that changes nothing but the request, which is and stays a reconciliation.
Proceeds(q, w) ==
    /\ UNCHANGED <<now, row, periods, torn, raced, begun>>
    /\ Became(q, w) /\ req[q].op = "reconcile" /\ w.op = "reconcile" /\ w.touched = req[q].touched
    /\ w.since = req[q].since

LEMMA ReadRowsIs ==
    ASSUME Typed, NEW q \in Requests, ReadRows(q)
    PROVE  \E w : /\ Proceeds(q, w) /\ req[q].pc = "rows" /\ w.pc = "open"
                  /\ w.rows = {[member |-> m, parent |-> row[m].parent, at |-> row[m].at] :
                                 m \in {c \in Coaches : row[c] # NoRow}}
                  /\ w.at = req[q].at /\ w.todo = req[q].todo
<1> DEFINE r == req[q]
           R == {[member |-> m, parent |-> row[m].parent, at |-> row[m].at] : m \in {c \in Coaches : row[c] # NoRow}}
           w == [r EXCEPT !.pc = "open", !.rows = R]
<1>1. r \in Request /\ Shape(r) /\ r.pc = "rows" /\ r.op = "reconcile"
  BY RequestOf, PointsOf DEF ReadRows, At
<1>2. R \subseteq Row
  <2> SUFFICES ASSUME NEW m \in Coaches, row[m] # NoRow
               PROVE  row[m].parent \in Heads /\ row[m].at \in Times
    BY DEF Row
  <2>1. m \in Members /\ ParentsOf(m) = Heads
    BY Sorts DEF Members
  <2> QED BY <2>1 DEF Typed, Fits
<1>3. req' = [req EXCEPT ![q] = w]
  BY DEF ReadRows, Typed
<1> HIDE DEF r, R
<1>4. /\ w \in Request /\ w.op = "reconcile" /\ w.pc = "open" /\ w.rows = R /\ w.touched = r.touched
      /\ w.at = r.at /\ w.todo = r.todo /\ w.member = r.member /\ w.since = r.since
  BY <1>1, <1>2 DEF Request
<1> HIDE DEF w
<1>5. Shape(w)
  BY <1>1, <1>4 DEF Shape, Opening
<1>6. Proceeds(q, w)
  BY <1>1, <1>3, <1>4, <1>5 DEF Proceeds, Became, ReadRows, r, w
<1> QED BY <1>1, <1>4, <1>6 DEF r, R

LEMMA ReadOpenIs ==
    ASSUME Typed, NEW q \in Requests, ReadOpen(q)
    PROVE  \E w : /\ Proceeds(q, w) /\ req[q].pc = "open" /\ w.pc = "next"
                  /\ w.todo = {r \in req[q].rows : ~ \E p \in OpenOf(r.member) : p.parent = r.parent}
                  /\ w.at = req[q].at /\ w.rows = {}
<1> DEFINE r == req[q]
           T == {x \in r.rows : ~ \E p \in OpenOf(x.member) : p.parent = x.parent}
           w == [r EXCEPT !.pc = "next", !.rows = {}, !.todo = T]
<1>1. r \in Request /\ Shape(r) /\ r.pc = "open" /\ r.op = "reconcile"
  BY RequestOf, PointsOf DEF ReadOpen, At
<1>2. T \subseteq Row
  BY <1>1 DEF Request
<1>3. req' = [req EXCEPT ![q] = w]
  BY DEF ReadOpen, Typed
<1> HIDE DEF r, T
<1>4. /\ w \in Request /\ w.op = "reconcile" /\ w.pc = "next" /\ w.todo = T /\ w.touched = r.touched
      /\ w.at = r.at /\ w.rows = {} /\ w.member = r.member /\ w.since = r.since
  BY <1>1, <1>2 DEF Request
<1> HIDE DEF w
<1>5. Shape(w)
  BY <1>1, <1>4 DEF Shape, Opening
<1>6. Proceeds(q, w)
  BY <1>1, <1>3, <1>4, <1>5 DEF Proceeds, Became, ReadOpen, r, w
<1> QED BY <1>1, <1>4, <1>6 DEF r, T

LEMMA RepairIs ==
    ASSUME Typed, NEW q \in Requests, Repair(q)
    PROVE  \E w : /\ Proceeds(q, w) /\ req[q].pc = "next" /\ w.rows = req[q].rows
                  /\ \/ req[q].todo = {} /\ w.pc = "orphans" /\ w.at = req[q].at /\ w.todo = {}
                     \/ \E x \in req[q].todo : /\ w.pc = "find" /\ w.todo = req[q].todo \ {x}
                                               /\ w.member = x.member /\ w.parent = x.parent /\ w.at = x.at
<1> DEFINE r == req[q]
<1>1. r \in Request /\ Shape(r) /\ r.pc = "next" /\ r.op = "reconcile"
  BY RequestOf, PointsOf DEF Repair, At
<1>2. CASE r.todo = {}
  <2>1. Became(q, Moved(r, "orphans"))
    BY <1>1, <1>2, MovedTo DEF Repair, Turns
  <2>2. /\ Moved(r, "orphans").op = "reconcile" /\ Moved(r, "orphans").pc = "orphans"
        /\ Moved(r, "orphans").touched = r.touched /\ Moved(r, "orphans").rows = r.rows
        /\ Moved(r, "orphans").at = r.at /\ Moved(r, "orphans").todo = r.todo /\ Moved(r, "orphans").since = r.since
    BY <1>1 DEF Moved, Request
  <2> QED BY <1>1, <1>2, <2>1, <2>2 DEF Repair, Proceeds
<1>3. CASE r.todo # {}
  <2>1. PICK x \in r.todo :
          req' = [req EXCEPT ![q] = [r EXCEPT !.pc = "find", !.todo = r.todo \ {x}, !.member = x.member,
                                              !.parent = x.parent, !.at = x.at]]
    BY <1>3 DEF Repair
  <2> DEFINE w == [r EXCEPT !.pc = "find", !.todo = r.todo \ {x}, !.member = x.member, !.parent = x.parent, !.at = x.at]
  <2>2. x \in Row /\ req' = [req EXCEPT ![q] = w]
    BY <1>1, <2>1 DEF Request
  <2> HIDE DEF r
  <2>3. /\ w \in Request /\ w.op = "reconcile" /\ w.pc = "find" /\ w.todo = r.todo \ {x}
        /\ w.member = x.member /\ w.parent = x.parent /\ w.touched = r.touched /\ w.at = x.at /\ w.rows = r.rows
        /\ w.since = r.since
    BY <1>1, <2>2 DEF Request, Row, Members, Parents
  <2> HIDE DEF w
  <2>4. Shape(w)
    BY <2>2, <2>3 DEF Shape, Opening, Row
  <2>5. Proceeds(q, w)
    BY <1>1, <2>2, <2>3, <2>4 DEF Proceeds, Became, Repair, r, w
  <2> QED BY <1>1, <2>3, <2>5 DEF r
<1> QED BY <1>2, <1>3

LEMMA ReadOrphansIs ==
    ASSUME Typed, NEW q \in Requests, ReadOrphans(q)
    PROVE  \E w : /\ Proceeds(q, w) /\ req[q].pc = "orphans" /\ w.pc = "existing"
                  /\ w.rows = {[member |-> p.member, parent |-> p.parent, at |-> 0] :
                                 p \in UNION {OpenOf(c) : c \in Coaches}}
                  /\ w.at = req[q].at /\ w.todo = req[q].todo
<1> DEFINE r == req[q]
           R == {[member |-> p.member, parent |-> p.parent, at |-> 0] : p \in UNION {OpenOf(c) : c \in Coaches}}
           w == [r EXCEPT !.pc = "existing", !.rows = R]
<1>1. r \in Request /\ Shape(r) /\ r.pc = "orphans" /\ r.op = "reconcile"
  BY RequestOf, PointsOf DEF ReadOrphans, At
<1>2. R \subseteq Row
  <2> SUFFICES ASSUME NEW c \in Coaches, NEW p \in OpenOf(c)
               PROVE  p.member \in Coaches /\ p.parent \in Heads /\ 0 \in Times
    BY DEF Row
  <2> QED BY Sorts DEF Typed, Fits, OpenOf
<1>3. req' = [req EXCEPT ![q] = w]
  BY DEF ReadOrphans, Typed
<1> HIDE DEF r, R
<1>4. /\ w \in Request /\ w.op = "reconcile" /\ w.pc = "existing" /\ w.rows = R /\ w.touched = r.touched
      /\ w.at = r.at /\ w.todo = r.todo /\ w.member = r.member /\ w.since = r.since
  BY <1>1, <1>2, <1>3 DEF Request
<1> HIDE DEF w
<1>5. Shape(w)
  BY <1>1, <1>4 DEF Shape, Opening
<1>6. Proceeds(q, w)
  BY <1>1, <1>3, <1>4, <1>5 DEF Proceeds, Became, ReadOrphans, r, w
<1> QED BY <1>1, <1>4, <1>6 DEF r, R

LEMMA ReadExistingIs ==
    ASSUME Typed, NEW q \in Requests, ReadExisting(q)
    PROVE  \E w : /\ Proceeds(q, w) /\ req[q].pc = "existing" /\ w.pc = "orphan"
                  /\ w.todo = {x \in req[q].rows : row[x.member] = NoRow}
                  /\ w.at = req[q].at /\ w.rows = {}
<1> DEFINE r == req[q]
           T == {x \in r.rows : row[x.member] = NoRow}
           w == [r EXCEPT !.pc = "orphan", !.rows = {}, !.todo = T]
<1>1. r \in Request /\ Shape(r) /\ r.pc = "existing" /\ r.op = "reconcile"
  BY RequestOf, PointsOf DEF ReadExisting, At
<1>2. T \subseteq Row
  BY <1>1 DEF Request
<1>3. req' = [req EXCEPT ![q] = w]
  BY DEF ReadExisting, Typed, Orphans
<1> HIDE DEF r, T
<1>4. /\ w \in Request /\ w.op = "reconcile" /\ w.pc = "orphan" /\ w.todo = T /\ w.touched = r.touched
      /\ w.at = r.at /\ w.rows = {} /\ w.member = r.member /\ w.since = r.since
  BY <1>1, <1>2 DEF Request
<1> HIDE DEF w
<1>5. Shape(w)
  BY <1>1, <1>4 DEF Shape, Opening
<1>6. Proceeds(q, w)
  BY <1>1, <1>3, <1>4, <1>5 DEF Proceeds, Became, ReadExisting, r, w
<1> QED BY <1>1, <1>4, <1>6 DEF r, T

LEMMA CloseOrphanIs ==
    ASSUME Typed, NEW q \in Requests, CloseOrphan(q)
    PROVE  \E w, x : /\ Became(q, w) /\ req[q].op = "reconcile" /\ w.op = "reconcile" /\ w.touched = req[q].touched
                     /\ req[q].pc = "orphan" /\ w.pc = "orphan"
                     /\ x \in req[q].todo /\ x \in Row /\ w.todo = req[q].todo \ {x} /\ req[q].since \in Times
                     /\ w.at = req[q].at /\ w.since = req[q].since /\ w.rows = req[q].rows
                     /\ periods' = Closed(OpenOf(x.member), req[q].since)
                     /\ UNCHANGED <<now, row, torn, raced, begun>>
<1> DEFINE r == req[q]
<1>1. r \in Request /\ Shape(r) /\ r.pc = "orphan" /\ r.op = "reconcile"
  BY RequestOf, PointsOf DEF CloseOrphan, At
<1>2. PICK x \in r.todo : /\ periods' = Closed(OpenOf(x.member), r.since)
                          /\ req' = [req EXCEPT ![q].todo = @ \ {x}]
  BY DEF CloseOrphan
<1> DEFINE w == [r EXCEPT !.todo = @ \ {x}]
<1>3. x \in Row /\ req' = [req EXCEPT ![q] = w] /\ r.since \in Times
  BY <1>1, <1>2 DEF Request, Typed
<1> HIDE DEF r
<1>4. /\ w \in Request /\ w.op = "reconcile" /\ w.pc = "orphan" /\ w.todo = r.todo \ {x} /\ w.touched = r.touched
      /\ w.at = r.at /\ w.since = r.since /\ w.rows = r.rows /\ w.member = r.member
  BY <1>1 DEF Request
<1> HIDE DEF w
<1>5. Shape(w)
  BY <1>1, <1>4 DEF Shape, Opening
<1>6. Became(q, w)
  BY <1>3, <1>4, <1>5 DEF Became
<1>7. UNCHANGED <<now, row, torn, raced, begun>>
  BY DEF CloseOrphan
<1> QED BY <1>1, <1>2, <1>3, <1>4, <1>6, <1>7 DEF r

LEMMA EndReconcileIs ==
    ASSUME Typed, NEW q \in Requests, EndReconcile(q)
    PROVE  /\ Became(q, Idle) /\ req[q].op = "reconcile" /\ req[q].pc = "orphan" /\ req[q].todo = {}
           /\ torn' = torn \ (Coaches \ req[q].touched)
           /\ UNCHANGED <<now, row, periods, raced, begun>>
  BY RequestOf, PointsOf, DoneTyped DEF EndReconcile, At

-----------------------------------------------------------------------------
(* Types hold *)

LEMMA TypedInit == Init => Typed /\ OnlyOnce
<1> SUFFICES ASSUME Init PROVE Typed /\ OnlyOnce
  OBVIOUS
<1>1. 0 \in 0 .. MaxWrites
  BY PeriodsAssumption
<1>2. row \in [Members -> [parent : Parents \cup {None}, at : Times]] /\ \A m \in Members : row[m] = NoRow
  BY Sorts DEF Init, NoRow
<1>3. req \in [Requests -> Request] /\ \A q \in Requests : Shape(req[q]) /\ req[q].op = "idle"
  BY IdleIsOne DEF Init
<1> QED BY <1>1, <1>2, <1>3, Sorts DEF Init, Typed, OnlyOnce

\* A step that leaves the periods and the rows alone.
LEMMA RequestStepTyped ==
    ASSUME Typed, OnlyOnce, NEW q \in Requests, NEW w, Became(q, w),
           row' = row, periods' = periods, now' \in Times, begun' \in 0 .. MaxWrites,
           torn' \subseteq Members, raced' \subseteq Members
    PROVE  Typed' /\ OnlyOnce'
<1>1. req' \in [Requests -> Request] /\ \A r \in Requests : Shape(req'[r])
  BY BecameTyped
<1> QED BY <1>1 DEF Typed, OnlyOnce, Fits

\* A step that closes or opens periods.
LEMMA HistoryStepTyped ==
    ASSUME Typed, OnlyOnce, NEW q \in Requests, NEW w, Became(q, w),
           row' = row, UNCHANGED <<now, begun, torn, raced>>,
           periods' \subseteq Period, \A p \in periods' : Fits(p.member, p.parent),
           \A p, p2 \in periods' : p.member = p2.member /\ p.end = Open /\ p2.end = Open => p = p2
    PROVE  Typed' /\ OnlyOnce'
<1>1. req' \in [Requests -> Request] /\ \A r \in Requests : Shape(req'[r])
  BY BecameTyped
<1> QED BY <1>1 DEF Typed, OnlyOnce, Fits

\* A write of rows.
LEMMA RowStepTyped ==
    ASSUME Typed, OnlyOnce, NEW q \in Requests, NEW C, C \subseteq Members, NEW w \in Request, Shape(w),
           w.op # "reconcile", WriteRows(q, C, w),
           row' \in [Members -> [parent : Parents \cup {None}, at : Times]],
           \A m \in Members : row'[m] = NoRow \/ Fits(m, row'[m].parent)
    PROVE  Typed' /\ OnlyOnce'
<1>1. /\ req' \in [Requests -> Request] /\ \A r \in Requests : Shape(req'[r])
      /\ torn' \subseteq Members /\ UNCHANGED <<now, periods, raced, begun>> /\ req'[q] = w
      /\ \A r \in Requests : r # q => req'[r] = Noticed(req[r], C)
  BY WriteRowsIs
<1> QED BY <1>1 DEF Typed, OnlyOnce, Fits

LEMMA GoneOp == ASSUME NEW r \in Request PROVE Gone(r).op = "reconcile" => r.op = "reconcile"
  BY IdleIsOne DEF Gone, Request

LEMMA MovedIs ==
    ASSUME NEW r \in Request, NEW pc
    PROVE  /\ Moved(r, pc).op = r.op /\ Moved(r, pc).pc = pc /\ Moved(r, pc).member = r.member
           /\ Moved(r, pc).parent = r.parent /\ Moved(r, pc).at = r.at /\ Moved(r, pc).touched = r.touched
           /\ Moved(r, pc).since = r.since
           /\ Moved(r, pc).rows = r.rows /\ Moved(r, pc).todo = r.todo
  BY DEF Moved, Request

LEMMA GoneIs ==
    ASSUME NEW r \in Request
    PROVE  \/ r.op # "reconcile" /\ Gone(r) = Idle
           \/ /\ r.op = "reconcile" /\ Gone(r).op = "reconcile" /\ Gone(r).pc = "next"
              /\ Gone(r).touched = r.touched /\ Gone(r).todo = r.todo /\ Gone(r).rows = r.rows /\ Gone(r).at = 0
              /\ Gone(r).since = r.since
  BY DEF Gone, Request

\* Arrivals.
LEMMA ArriveIs ==
    ASSUME Typed, NEW q \in Requests, Arrive(q)
    PROVE  \E w, C : /\ Became(q, w) /\ UNCHANGED <<now, row, periods, torn>>
                     /\ raced' \subseteq Members /\ begun' \in 0 .. MaxWrites
                     /\ req[q] = Idle /\ (raced' = raced \/ raced' = raced \cup C)
                     /\ (Busy # {} => raced' = raced \cup C)
                     /\ \A m \in Members : Concerns(w, m) => m \in C
                     /\ \/ w.pc = "write" /\ w.op # "reconcile" /\ (w.op = "assign" => w.at = now)
                        \/ w.pc = "rows" /\ w.op = "reconcile" /\ w.touched = Unsure
                     /\ w.at = now \/ w.at = 0
                     /\ w.since = now \/ w.since = 0
                     /\ w.rows = {} /\ w.todo = {}
<1>1. ASSUME NEW m \in Members, NEW k \in Parents, BeginAssign(q, m, k)
      PROVE  \E w, C : /\ Begin(q, w, C) /\ w \in Request /\ Shape(w) /\ C \subseteq Members
                       /\ w.pc = "write" /\ w.op # "reconcile" /\ w.at = now /\ w.since = 0 /\ w.rows = {} /\ w.todo = {}
                       /\ \A x \in Members : Concerns(w, x) => x \in C
  <2> DEFINE w == [Idle EXCEPT !.op = "assign", !.pc = "write", !.member = m, !.parent = k, !.at = now]
  <2>1. Begin(q, w, {m}) /\ w \in Request /\ Shape(w)
    BY <1>1, ArrivalsTyped DEF BeginAssign, Fits
  <2>2. w.pc = "write" /\ w.op = "assign" /\ w.at = now /\ w.since = 0 /\ w.member = m /\ w.rows = {} /\ w.todo = {}
    BY DEF Idle
  <2> HIDE DEF w
  <2> QED BY <2>1, <2>2 DEF Concerns
<1>2. ASSUME NEW m \in Members, BeginRemove(q, m)
      PROVE  \E w, C : /\ Begin(q, w, C) /\ w \in Request /\ Shape(w) /\ C \subseteq Members
                       /\ w.pc = "write" /\ w.op = "remove" /\ w.at = 0 /\ w.since = 0 /\ w.rows = {} /\ w.todo = {}
                       /\ \A x \in Members : Concerns(w, x) => x \in C
  <2> DEFINE w == [Idle EXCEPT !.op = "remove", !.pc = "write", !.member = m]
  <2>1. Begin(q, w, {m}) /\ w \in Request /\ Shape(w)
    BY <1>2, ArrivalsTyped DEF BeginRemove
  <2>2. w.pc = "write" /\ w.op = "remove" /\ w.member = m /\ w.at = 0 /\ w.since = 0 /\ w.rows = {} /\ w.todo = {}
    BY DEF Idle
  <2> HIDE DEF w
  <2> QED BY <2>1, <2>2 DEF Concerns
<1>3. ASSUME NEW k \in Parents, BeginRelease(q, k)
      PROVE  \E w, C : /\ Begin(q, w, C) /\ w \in Request /\ Shape(w) /\ C = Members
                       /\ w.pc = "write" /\ w.op = "release" /\ w.at = 0 /\ w.since = 0 /\ w.rows = {} /\ w.todo = {}
  <2> DEFINE w == [Idle EXCEPT !.op = "release", !.pc = "write", !.parent = k]
  <2>1. Begin(q, w, Members) /\ w \in Request /\ Shape(w)
    BY <1>3, ArrivalsTyped DEF BeginRelease
  <2>2. w.pc = "write" /\ w.op = "release" /\ w.at = 0 /\ w.since = 0 /\ w.rows = {} /\ w.todo = {}
    BY DEF Idle
  <2> HIDE DEF w
  <2> QED BY <2>1, <2>2
<1>4. ASSUME NEW u \in Members, BeginDelete(q, u)
      PROVE  \E w, C : /\ Begin(q, w, C) /\ w \in Request /\ Shape(w) /\ C = Members
                       /\ w.pc = "write" /\ w.op = "delete" /\ w.at = 0 /\ w.since = 0 /\ w.rows = {} /\ w.todo = {}
  <2> DEFINE w == [Idle EXCEPT !.op = "delete", !.pc = "write", !.parent = u]
  <2>1. Begin(q, w, Members) /\ w \in Request /\ Shape(w)
    BY <1>4, ArrivalsTyped DEF BeginDelete
  <2>2. w.pc = "write" /\ w.op = "delete" /\ w.at = 0 /\ w.since = 0 /\ w.rows = {} /\ w.todo = {}
    BY DEF Idle
  <2> HIDE DEF w
  <2> QED BY <2>1, <2>2
<1>5. ASSUME BeginReconcile(q)
      PROVE  \E w : /\ Begin(q, w, Members) /\ w \in Request /\ Shape(w)
                    /\ w.pc = "rows" /\ w.op = "reconcile" /\ w.touched = Unsure /\ w.at = 0 /\ w.since = now
                    /\ w.rows = {} /\ w.todo = {}
  <2>0. PICK T, w : T = Unsure /\ w = [Idle EXCEPT !.op = "reconcile", !.pc = "rows", !.since = now, !.touched = T]
    OBVIOUS
  <2>1. Begin(q, w, Members) /\ T \in SUBSET Members
    BY <1>5, <2>0 DEF BeginReconcile, Unsure, Members
  <2>2. w \in Request /\ Shape(w)
    BY <2>0, <2>1, ArrivalsTyped
  <2>3. /\ w.pc = "rows" /\ w.op = "reconcile" /\ w.touched = T /\ w.at = 0 /\ w.since = now
        /\ w.rows = {} /\ w.todo = {}
    BY <2>0 DEF Idle
  <2> QED BY <2>0, <2>1, <2>2, <2>3
<1>6. CASE BeginReconcile(q)
  <2>1. PICK w : /\ Begin(q, w, Members) /\ w \in Request /\ Shape(w)
                 /\ w.pc = "rows" /\ w.op = "reconcile" /\ w.touched = Unsure /\ w.at = 0 /\ w.since = now
                 /\ w.rows = {} /\ w.todo = {}
    BY <1>5, <1>6
  <2>2. /\ Became(q, w) /\ UNCHANGED <<now, row, periods, torn>>
        /\ raced' \subseteq Members /\ begun' \in 0 .. MaxWrites
        /\ req[q] = Idle /\ (raced' = raced \/ raced' = raced \cup Members)
        /\ (Busy # {} => raced' = raced \cup Members)
    BY <2>1, BeginIs
  <2> QED BY <2>1, <2>2
<1>7. CASE ~BeginReconcile(q)
  <2>1. PICK w, C : /\ Begin(q, w, C) /\ w \in Request /\ Shape(w) /\ C \subseteq Members
                    /\ w.pc = "write" /\ w.op # "reconcile" /\ (w.op = "assign" => w.at = now)
                    /\ (w.at = now \/ w.at = 0) /\ w.since = 0 /\ w.rows = {} /\ w.todo = {}
                    /\ \A x \in Members : Concerns(w, x) => x \in C
    BY <1>1, <1>2, <1>3, <1>4, <1>7 DEF Arrive
  <2>2. /\ Became(q, w) /\ UNCHANGED <<now, row, periods, torn>>
        /\ raced' \subseteq Members /\ begun' \in 0 .. MaxWrites
        /\ req[q] = Idle /\ (raced' = raced \/ raced' = raced \cup C)
        /\ (Busy # {} => raced' = raced \cup C)
    BY <2>1, BeginIs
  <2> QED BY <2>1, <2>2
<1> QED BY <1>6, <1>7

\* The steps of which Next is the disjunction.
LEMMA StepsOf ==
    ASSUME Next
    PROVE  \/ Tick
           \/ \E q \in Requests :
                \/ Arrive(q) \/ AssignRow(q) \/ RemoveRow(q) \/ ReleaseRows(q) \/ DeleteRows(q) \/ DeleteGymRow(q)
                \/ Find(q) \/ CloseOther(q) \/ Insert(q) \/ CloseMember(q) \/ CloseOwn(q) \/ CloseParent(q)
                \/ FailHistory(q) \/ Crash(q) \/ EndReconcile(q) \/ CloseOrphan(q)
                \/ ReadRows(q) \/ ReadOpen(q) \/ Repair(q) \/ ReadOrphans(q) \/ ReadExisting(q)
  BY DEF Next, WriteMembership, WriteHistory, Reconcile

\* The five steps of a reconciliation that write nothing.
Reads(q) == ReadRows(q) \/ ReadOpen(q) \/ Repair(q) \/ ReadOrphans(q) \/ ReadExisting(q)

LEMMA ReadsProceed ==
    ASSUME Typed, NEW q \in Requests, Reads(q)
    PROVE  \E w : Proceeds(q, w)
  BY ReadRowsIs, ReadOpenIs, RepairIs, ReadOrphansIs, ReadExistingIs DEF Reads

LEMMA RowWritesTyped ==
    ASSUME Typed, OnlyOnce, NEW q \in Requests,
           AssignRow(q) \/ RemoveRow(q) \/ ReleaseRows(q) \/ DeleteRows(q) \/ DeleteGymRow(q)
    PROVE  Typed' /\ OnlyOnce'
<1> DEFINE r == req[q]
<1>0. r \in Request /\ 0 \in Times
  BY RequestOf, Sorts
<1>1. CASE AssignRow(q)
  <2> DEFINE w == [r EXCEPT !.pc = "find"]
  <2>1. /\ r.member \in Members /\ Fits(r.member, r.parent) /\ r.op = "assign" /\ w \in Request /\ Shape(w)
        /\ \/ row' = row /\ WriteRows(q, {}, Idle)
           \/ /\ row' = [row EXCEPT ![r.member] = [parent |-> r.parent, at |-> r.at]]
              /\ WriteRows(q, {r.member}, w)
    BY <1>1, AssignRowIs
  <2>2. w.op = "assign"
    BY <1>0, <2>1 DEF Request
  <2>3. r.parent \in Parents /\ r.at \in Times
    BY <1>0, <2>1, Sorts DEF Fits, Request
  <2> HIDE DEF w, r
  <2>4. CASE row' = row /\ WriteRows(q, {}, Idle)
    BY <2>4, IdleIsOne, RowStepTyped DEF Typed
  <2>5. CASE row' = [row EXCEPT ![r.member] = [parent |-> r.parent, at |-> r.at]] /\ WriteRows(q, {r.member}, w)
    <3>1. row' \in [Members -> [parent : Parents \cup {None}, at : Times]]
      BY <2>1, <2>3, <2>5 DEF Typed
    <3>2. \A m \in Members : row'[m] = NoRow \/ Fits(m, row'[m].parent)
      BY <2>1, <2>3, <2>5 DEF Typed
    <3> QED BY <2>1, <2>2, <2>5, <3>1, <3>2, RowStepTyped
  <2> QED BY <2>1, <2>4, <2>5
<1>2. CASE RemoveRow(q)
  <2> DEFINE w == [r EXCEPT !.pc = "closeMember", !.at = now]
  <2>1. /\ r.op = "remove" /\ r.member \in Members /\ w \in Request /\ Shape(w)
        /\ row' = [row EXCEPT ![r.member] = NoRow]
        /\ WriteRows(q, {}, Idle) \/ WriteRows(q, {r.member}, w)
    BY <1>2, RemoveRowIs
  <2>2. w.op = "remove"
    BY <1>0, <2>1 DEF Request
  <2> HIDE DEF w, r
  <2>3. row' \in [Members -> [parent : Parents \cup {None}, at : Times]]
    BY <1>0, <2>1 DEF Typed, NoRow
  <2>4. \A m \in Members : row'[m] = NoRow \/ Fits(m, row'[m].parent)
    BY <2>1 DEF Typed
  <2> QED BY <2>1, <2>2, <2>3, <2>4, IdleIsOne, RowStepTyped
<1>3. CASE ReleaseRows(q)
  <2> DEFINE T == Team(r.parent)
             w == [r EXCEPT !.pc = "closeParent", !.at = now, !.touched = T]
  <2>1. /\ r.op = "release" /\ w \in Request /\ Shape(w)
        /\ row' = [m \in Members |-> IF m \in T THEN NoRow ELSE row[m]]
        /\ WriteRows(q, T, w)
    BY <1>3, ReleaseRowsIs
  <2>2. w.op = "release" /\ T \subseteq Members
    BY <1>0, <2>1 DEF Request, Team
  <2> HIDE DEF w, T, r
  <2>3. row' \in [Members -> [parent : Parents \cup {None}, at : Times]]
    BY <1>0, <2>1 DEF Typed, NoRow
  <2>4. \A m \in Members : row'[m] = NoRow \/ Fits(m, row'[m].parent)
    BY <2>1 DEF Typed
  <2> QED BY <2>1, <2>2, <2>3, <2>4, RowStepTyped
<1>4. CASE DeleteRows(q)
  <2> DEFINE gone == Team(r.parent) \cup ({r.parent} \cap Coaches)
             C == {m \in gone : row[m] # NoRow}
             w == [r EXCEPT !.pc = IF r.parent \in Coaches THEN "closeOwn" ELSE "closeParent",
                            !.at = now, !.touched = C]
  <2>1. /\ r.op = "delete" /\ w \in Request /\ Shape(w)
        /\ row' = [m \in Members |-> IF m \in gone THEN NoRow ELSE row[m]]
        /\ WriteRows(q, C, w)
    BY <1>4, DeleteRowsIs
  <2>2. w.op = "delete" /\ C \subseteq Members
    BY <1>0, <2>1 DEF Request, Team, Members
  <2> HIDE DEF w, C, gone, r
  <2>3. row' \in [Members -> [parent : Parents \cup {None}, at : Times]]
    BY <1>0, <2>1 DEF Typed, NoRow
  <2>4. \A m \in Members : row'[m] = NoRow \/ Fits(m, row'[m].parent)
    BY <2>1 DEF Typed
  <2> QED BY <2>1, <2>2, <2>3, <2>4, RowStepTyped
<1>5. CASE DeleteGymRow(q)
  <2> DEFINE u == r.parent
             w == [r EXCEPT !.pc = "closeMember", !.member = u, !.touched = {u}]
  <2>1. /\ r.op = "delete" /\ u \in Members
        /\ \/ row' = row /\ WriteRows(q, {}, Idle)
           \/ w \in Request /\ Shape(w) /\ row' = [row EXCEPT ![u] = NoRow] /\ WriteRows(q, {u}, w)
    BY <1>5, DeleteGymRowIs
  <2>2. w.op = "delete"
    BY <1>0, <2>1 DEF Request
  <2> HIDE DEF w, u, r
  <2>3. row' \in [Members -> [parent : Parents \cup {None}, at : Times]]
    BY <1>0, <2>1 DEF Typed, NoRow
  <2>4. \A m \in Members : row'[m] = NoRow \/ Fits(m, row'[m].parent)
    BY <2>1 DEF Typed
  <2> QED BY <2>1, <2>2, <2>3, <2>4, IdleIsOne, RowStepTyped
<1> QED BY <1>1, <1>2, <1>3, <1>4, <1>5

LEMMA HistoryWritesTyped ==
    ASSUME Typed, OnlyOnce, NEW q \in Requests,
           CloseOther(q) \/ Insert(q) \/ CloseMember(q) \/ CloseOwn(q) \/ CloseParent(q) \/ CloseOrphan(q)
    PROVE  Typed' /\ OnlyOnce'
<1>0. req[q] \in Request
  BY RequestOf
<1>1. CASE CloseOther(q)
  <2>1. OpenOf(req[q].member) \subseteq {p \in periods : p.end = Open}
    BY DEF OpenOf
  <2>2. \E w : Became(q, w) /\ w.op = req[q].op
    BY <1>0, <1>1, CloseOtherIs, MovedIs
  <2> QED BY <1>0, <1>1, <2>1, <2>2, CloseOtherIs, ClosedOf, HistoryStepTyped
<1>2. CASE Insert(q)
  <2>1. Opened(req[q]).end = Open /\ Fits(Opened(req[q]).member, Opened(req[q]).parent)
    BY <1>2, InsertIs DEF Opened
  <2> QED BY <1>0, <1>2, <2>1, InsertIs, InsertedOf, GoneOp, HistoryStepTyped
<1>3. CASE CloseMember(q)
  <2>1. OpenOf(req[q].member) \subseteq {p \in periods : p.end = Open}
    BY DEF OpenOf
  <2> QED BY <1>0, <1>3, <2>1, CloseMemberIs, ClosedOf, IdleIsOne, HistoryStepTyped
<1>4. CASE CloseOwn(q)
  <2>1. OpenOf(req[q].parent) \subseteq {p \in periods : p.end = Open}
    BY DEF OpenOf
  <2>2. \E w : Became(q, w) /\ w.op = req[q].op
    BY <1>0, <1>4, CloseOwnIs, MovedIs
  <2> QED BY <1>0, <1>4, <2>1, <2>2, CloseOwnIs, ClosedOf, HistoryStepTyped
<1>5. CASE CloseParent(q)
  <2>1. OpenUnder(req[q].parent) \subseteq {p \in periods : p.end = Open}
    BY DEF OpenUnder
  <2>2. \E w : Became(q, w) /\ w.op # "reconcile"
    BY <1>0, <1>5, CloseParentIs, MovedIs, IdleIsOne
  <2> QED BY <1>0, <1>5, <2>1, <2>2, CloseParentIs, ClosedOf, HistoryStepTyped
<1>6. CASE CloseOrphan(q)
  <2>1. PICK w, x : /\ Became(q, w) /\ req[q].op = "reconcile" /\ x \in Row /\ req[q].since \in Times
                    /\ periods' = Closed(OpenOf(x.member), req[q].since)
                    /\ UNCHANGED <<now, row, torn, raced, begun>>
    BY <1>6, CloseOrphanIs
  <2>2. OpenOf(x.member) \subseteq {p \in periods : p.end = Open}
    BY DEF OpenOf
  <2> QED BY <2>1, <2>2, ClosedOf, HistoryStepTyped
<1> QED BY <1>1, <1>2, <1>3, <1>4, <1>5, <1>6

LEMMA TypedStep == Typed /\ OnlyOnce /\ [Next]_vars => Typed' /\ OnlyOnce'
<1> SUFFICES ASSUME Typed, OnlyOnce, [Next]_vars PROVE Typed' /\ OnlyOnce'
  OBVIOUS
<1>1. CASE UNCHANGED vars
  BY <1>1 DEF vars, Typed, OnlyOnce, Fits
<1>2. CASE Tick
  <2>1. now' \in Times
    BY <1>2, PeriodsAssumption DEF Tick, Typed
  <2> QED BY <1>2, <2>1 DEF Tick, Typed, OnlyOnce, Fits
<1>3. ASSUME NEW q \in Requests,
             Arrive(q) \/ Find(q) \/ FailHistory(q) \/ EndReconcile(q) \/ Reads(q)
      PROVE  Typed' /\ OnlyOnce'
  <2>0. req[q] \in Request /\ now \in Times /\ begun \in 0 .. MaxWrites /\ torn \subseteq Members /\ raced \subseteq Members
    BY RequestOf DEF Typed
  <2>1. \E w : /\ Became(q, w)
               /\ row' = row /\ periods' = periods /\ now' = now /\ begun' \in 0 .. MaxWrites
               /\ torn' \subseteq Members /\ raced' \subseteq Members
    <3>1. CASE Arrive(q)
      BY <2>0, <3>1, ArriveIs
    <3>2. CASE Find(q)
      BY <2>0, <3>2, FindIs, MovedIs, GoneOp
    <3>3. CASE FailHistory(q)
      BY <2>0, <3>3, FailHistoryIs, MovedIs, IdleIsOne
    <3>4. CASE EndReconcile(q)
      BY <2>0, <3>4, EndReconcileIs, IdleIsOne
    <3>5. CASE Reads(q)
      BY <2>0, <3>5, ReadsProceed DEF Proceeds
    <3> QED BY <1>3, <3>1, <3>2, <3>3, <3>4, <3>5
  <2> QED BY <2>0, <2>1, RequestStepTyped
<1>4. ASSUME NEW q \in Requests, Crash(q) PROVE Typed' /\ OnlyOnce'
  <2>1. /\ req' \in [Requests -> Request] /\ \A r \in Requests : Shape(req'[r])
        /\ UNCHANGED <<now, row, periods, begun>> /\ torn' \subseteq Members /\ raced' \subseteq Members
    BY <1>4, CrashIs DEF Typed
  <2> QED BY <2>1 DEF Typed, OnlyOnce, Fits
<1>5. ASSUME Next PROVE Typed' /\ OnlyOnce'
  BY <1>2, <1>3, <1>4, <1>5, StepsOf, RowWritesTyped, HistoryWritesTyped DEF Reads
<1> QED BY <1>1, <1>5

\* At most one open period, as the index has it.
LEMMA TypedIsEnough == Typed /\ OnlyOnce => PeriodsTypeOK
<1> SUFFICES ASSUME Typed, OnlyOnce PROVE PeriodsTypeOK
  OBVIOUS
<1>1. ASSUME NEW m \in Members PROVE Cardinality(OpenOf(m)) <= 1
  <2>1. CASE OpenOf(m) = {}
    BY <2>1, FS_EmptySet
  <2>2. ASSUME NEW p \in OpenOf(m) PROVE Cardinality(OpenOf(m)) <= 1
    <3>1. OpenOf(m) = {p}
      BY DEF OpenOf, OnlyOnce
    <3> QED BY <3>1, FS_Singleton
  <2> QED BY <2>1, <2>2
<1>2. \A q \in Requests : req[q].touched \subseteq Members
  BY RequestOf DEF Request
<1> QED BY <1>1, <1>2 DEF Typed, PeriodsTypeOK

\* Memberships, periods and requests are well formed, and nobody ever has two open periods, however
\* many requests write at once: the unique index of OpenPeriod.
THEOREM Spec_PeriodsTypeOK == Spec => []PeriodsTypeOK
<1>1. Spec => [](Typed /\ OnlyOnce)
  BY TypedInit, TypedStep, PTL DEF Spec
<1> QED BY <1>1, TypedIsEnough, PTL

-----------------------------------------------------------------------------
(* The requests stay in step with the rows *)

Discipline == Typed /\ OnlyOnce /\ RequestsInStep /\ RepairsAlone

\* A request goes on as w: it vouches for nobody else, and is in step where it was.
Follows(r, w) ==
    /\ w.op = "reconcile" => r.op = "reconcile" /\ w.touched = r.touched
    /\ \A m \in Members : InStep(r, m) => InStep(w, m)
    /\ \A m : w.op = "assign" /\ Opens(w, m) => r.op = "assign" /\ Opens(r, m)

\* A request moves on, and no row changes.
LEMMA StaysInStep ==
    ASSUME Discipline, NEW q \in Requests, NEW w, Became(q, w), row' = row, torn \subseteq torn',
           Follows(req[q], w)
    PROVE  /\ RequestsInStep' /\ RepairsAlone'
           /\ \A m : Sound(m)' => Sound(m)
<1>1. req'[q] = w /\ \A r \in Requests : r # q => req'[r] = req[r]
  BY BecameTyped DEF Discipline
<1>2. \A r \in Requests : \A m : Repaired(req'[r], m) => Repaired(req[r], m)
  BY <1>1 DEF Repaired, Follows
<1>3. \A m : Sound(m)' => Sound(m)
  BY <1>2 DEF Sound
<1>4. ASSUME NEW m \in Members, NEW r \in Requests, Sound(m)' PROVE InStep(req[r], m)'
  <2>1. InStep(req[r], m) /\ InStep(req[q], m)
    BY <1>3, <1>4 DEF Discipline, RequestsInStep
  <2>2. InStep(req'[r], m)
    BY <1>1, <2>1 DEF Follows
  <2> QED BY <2>2 DEF InStep
<1>5. \A r \in Requests : \A m : req'[r].op = "assign" /\ Opens(req'[r], m) => req[r].op = "assign" /\ Opens(req[r], m)
  BY <1>1 DEF Follows
<1>6. RepairsAlone'
  BY <1>2, <1>5 DEF Discipline, RepairsAlone
<1> QED BY <1>3, <1>4, <1>6 DEF RequestsInStep

LEMMA IdleInStep == \A m : InStep(Idle, m) /\ ~Opens(Idle, m) /\ ~Closes(Idle, m) /\ ~Repairing(Idle)
  BY IdleIsOne DEF InStep, Opens, Opening, Closes, Repairing

\* Requests that only move within an operation on one member.
LEMMA MovedInStep ==
    ASSUME Typed, NEW q \in Requests, NEW pc, Turns(req[q], pc), req[q].pc = "closeOwn" => req[q].parent \in Coaches
    PROVE  Follows(req[q], Moved(req[q], pc))
<1> DEFINE r == req[q]
           w == Moved(r, pc)
<1>1. r \in Request /\ Shape(r) /\ Turns(r, pc) /\ (r.pc = "closeOwn" => r.parent \in Coaches)
  BY RequestOf
<1>2. \A m \in Members : row[m] = NoRow \/ row[m].parent \notin Coaches
  BY Sorts DEF Typed, Fits, Members, ParentsOf
<1>3. None \notin Coaches /\ NoRow.parent = None
  BY Sorts DEF Members, NoRow
<1> HIDE DEF r
<1>4. w.op = r.op /\ w.pc = pc /\ w.member = r.member /\ w.parent = r.parent /\ w.touched = r.touched /\ w.todo = r.todo
  BY <1>1, MovedIs
<1> HIDE DEF w
<1>5. CASE Opening(r) /\ pc \in {"close", "insert"}
  BY <1>4, <1>5 DEF Follows, InStep, Opens, Opening, Closes, Repairing, r, w
<1>6. CASE r.pc = "closeOwn" /\ pc = "closeParent"
  BY <1>1, <1>2, <1>3, <1>4, <1>6, PointsOf DEF Follows, InStep, Opens, Opening, Closes, Repairing, r, w
<1>7. CASE pc \in {"gym", "orphans"}
  BY <1>4, <1>7 DEF Follows, InStep, Opens, Opening, Closes, Repairing, r, w
<1> QED BY <1>1, <1>5, <1>6, <1>7 DEF Turns

LEMMA GoneInStep ==
    ASSUME Typed, NEW q \in Requests, Opening(req[q])
    PROVE  Follows(req[q], Gone(req[q]))
<1>1. req[q] \in Request /\ Opening(req[q])
  BY RequestOf
<1>2. CASE Gone(req[q]) = Idle
  BY <1>2, IdleIsOne, IdleInStep DEF Follows
<1>3. CASE /\ req[q].op = "reconcile" /\ Gone(req[q]).op = "reconcile" /\ Gone(req[q]).pc = "next"
           /\ Gone(req[q]).touched = req[q].touched /\ Gone(req[q]).todo = req[q].todo
  BY <1>1, <1>3 DEF Follows, InStep, Opens, Opening, Closes, Repairing
<1> QED BY <1>1, <1>2, <1>3, GoneIs

LEMMA ReadsInStep ==
    ASSUME Typed, NEW q \in Requests, Reads(q)
    PROVE  \E w : /\ Proceeds(q, w)
                  /\ \A m \in Members : InStep(req[q], m) => InStep(w, m)
<1> DEFINE r == req[q]
<1>1. CASE ReadRows(q)
  <2>1. PICK w : /\ Proceeds(q, w) /\ w.pc = "open"
                 /\ w.rows = {[member |-> m, parent |-> row[m].parent, at |-> row[m].at] :
                                m \in {c \in Coaches : row[c] # NoRow}}
    BY <1>1, ReadRowsIs
  <2>2. \A m \in Members, x \in w.rows : x.member = m => x.parent = row[m].parent
    BY <2>1
  <2> QED BY <2>1, <2>2 DEF InStep, Opens, Opening, Closes, Repairing
<1>2. CASE ReadOpen(q)
  <2>1. PICK w : Proceeds(q, w) /\ r.pc = "open" /\ w.pc = "next" /\ w.todo \subseteq r.rows
    BY <1>2, ReadOpenIs
  <2> QED BY <2>1 DEF InStep, Opens, Opening, Closes, Repairing
<1>3. CASE Repair(q)
  <2>1. PICK w : /\ Proceeds(q, w) /\ r.pc = "next"
                 /\ \/ w.pc = "orphans"
                    \/ \E x \in r.todo : /\ w.pc = "find" /\ w.todo = r.todo \ {x}
                                         /\ w.member = x.member /\ w.parent = x.parent
    BY <1>3, RepairIs
  <2>2. CASE w.pc = "orphans"
    BY <2>1, <2>2 DEF InStep, Opens, Opening, Closes, Repairing
  <2>3. ASSUME NEW x \in r.todo, w.pc = "find", w.todo = r.todo \ {x}, w.member = x.member, w.parent = x.parent,
               NEW m \in Members, InStep(r, m)
        PROVE  InStep(w, m)
    <3>1. r.op = "reconcile" /\ Repairing(r)
      BY <2>1 DEF Proceeds, Repairing
    <3>2. \A y \in r.todo : y.member = m => y.parent = row[m].parent
      BY <2>3, <3>1 DEF InStep
    <3> QED BY <2>3, <3>2 DEF InStep, Opens, Opening, Closes, Repairing
  <2> QED BY <2>1, <2>2, <2>3
<1>4. CASE ReadOrphans(q)
  <2>1. PICK w : Proceeds(q, w) /\ w.pc = "existing"
    BY <1>4, ReadOrphansIs
  <2> QED BY <2>1 DEF InStep, Opens, Opening, Closes, Repairing
<1>5. CASE ReadExisting(q)
  <2>1. PICK w : Proceeds(q, w) /\ w.pc = "orphan" /\ w.todo = {x \in r.rows : row[x.member] = NoRow}
    BY <1>5, ReadExistingIs
  <2>2. \A m \in Members, x \in w.todo : x.member = m => row[m] = NoRow
    BY <2>1
  <2> QED BY <2>1, <2>2 DEF InStep, Opens, Opening, Closes, Repairing
<1> QED BY <1>1, <1>2, <1>3, <1>4, <1>5 DEF Reads

\* The steps that change no row.
Advances(q) ==
    Find(q) \/ CloseOther(q) \/ Insert(q) \/ CloseMember(q) \/ CloseOwn(q) \/ CloseParent(q) \/ FailHistory(q)
    \/ Reads(q) \/ CloseOrphan(q)

LEMMA AdvancesFollow ==
    ASSUME Typed, NEW q \in Requests, Advances(q)
    PROVE  \E w : Became(q, w) /\ Follows(req[q], w) /\ row' = row /\ torn \subseteq torn'
<1> DEFINE r == req[q]
<1>0. r \in Request /\ (r.pc = "closeOwn" => r.parent \in Coaches)
  BY RequestOf, PointsOf DEF Shape
<1>1. Follows(r, Idle)
  BY IdleIsOne, IdleInStep DEF Follows
<1>2. CASE Find(q)
  <2>1. Opening(r) /\ r.pc = "find" /\ row' = row /\ torn' = torn
    BY <1>2, FindIs
  <2>2. Follows(r, Moved(r, "insert")) /\ Follows(r, Moved(r, "close")) /\ Follows(r, Gone(r))
    BY <2>1, MovedInStep, GoneInStep DEF Turns
  <2> QED BY <1>2, <2>1, <2>2, FindIs
<1>3. CASE CloseOther(q)
  <2>1. Opening(r) /\ r.pc = "close"
    BY <1>3, CloseOtherIs
  <2>2. Follows(r, Moved(r, "insert"))
    BY <2>1, MovedInStep DEF Turns
  <2> QED BY <1>3, <2>2, CloseOtherIs
<1>4. CASE Insert(q)
  BY <1>4, InsertIs, GoneInStep
<1>5. CASE CloseMember(q)
  BY <1>1, <1>5, CloseMemberIs
<1>6. CASE CloseOwn(q)
  <2>1. r.pc = "closeOwn" /\ r.parent \in Coaches
    BY <1>6, CloseOwnIs
  <2>2. Follows(r, Moved(r, "closeParent"))
    BY <2>1, MovedInStep DEF Turns
  <2> QED BY <1>6, <2>2, CloseOwnIs
<1>7. CASE CloseParent(q)
  <2>1. r.pc = "closeParent"
    BY <1>7, CloseParentIs
  <2>2. r.op = "delete" => Follows(r, Moved(r, "gym"))
    BY <2>1, MovedInStep DEF Turns
  <2> QED BY <1>1, <1>7, <2>2, CloseParentIs
<1>8. CASE FailHistory(q)
  <2>1. r.op = "delete" /\ r.pc = "closeParent" => Follows(r, Moved(r, "gym"))
    BY MovedInStep DEF Turns
  <2>2. r.pc = "closeOwn" => Follows(r, Moved(r, "closeParent"))
    BY <1>0, MovedInStep DEF Turns
  <2>3. row' = row /\ torn \subseteq torn'
    BY <1>8, FailHistoryIs
  <2> QED BY <1>1, <1>8, <2>1, <2>2, <2>3, FailHistoryIs
<1>9. CASE Reads(q)
  <2>1. PICK w : Proceeds(q, w) /\ \A m \in Members : InStep(r, m) => InStep(w, m)
    BY <1>9, ReadsInStep
  <2> QED BY <2>1 DEF Proceeds, Follows
<1>10. CASE CloseOrphan(q)
  <2>1. PICK w, x : /\ Became(q, w) /\ r.op = "reconcile" /\ w.op = "reconcile" /\ w.touched = r.touched
                    /\ r.pc = "orphan" /\ w.pc = "orphan" /\ w.todo = r.todo \ {x}
                    /\ row' = row /\ torn' = torn
    BY <1>10, CloseOrphanIs
  <2>2. Follows(r, w)
    BY <2>1 DEF Follows, InStep, Opens, Opening, Closes, Repairing
  <2> QED BY <2>1, <2>2
<1> QED BY <1>2, <1>3, <1>4, <1>5, <1>6, <1>7, <1>8, <1>9, <1>10 DEF Advances

\* A request that crashes is in step, and a reconciliation no longer vouches for whom it leaves torn.
LEMMA CrashInStep ==
    ASSUME Discipline, NEW q \in Requests, Crash(q)
    PROVE  /\ RequestsInStep' /\ RepairsAlone'
           /\ \A m : Sound(m)' => Sound(m)
<1>1. PICK D : /\ D \subseteq Members /\ req'[q] = Idle /\ \A r \in Requests : r # q => req'[r] = Noticed(req[r], D)
               /\ row' = row /\ torn' = torn \cup D
  BY CrashIs DEF Discipline
<1>2. \A r \in Requests : LET y == Noticed(req[r], D)
                          IN  /\ y.op = req[r].op /\ y.pc = req[r].pc /\ y.member = req[r].member
                              /\ y.parent = req[r].parent /\ y.rows = req[r].rows /\ y.todo = req[r].todo
                              /\ req[r].op = "reconcile" => y.touched = req[r].touched \cup D
  BY <1>1, RequestOf, NoticedIs DEF Discipline
<1>3. \A r \in Requests : \A m : Repaired(req'[r], m) => Repaired(req[r], m)
  BY <1>1, <1>2, IdleIsOne DEF Repaired
<1>4. \A m : Sound(m)' => Sound(m)
  BY <1>1, <1>3 DEF Sound
<1>5. ASSUME NEW m \in Members, NEW r \in Requests, Sound(m)' PROVE InStep(req[r], m)'
  <2>1. CASE r = q
    <3>1. InStep(req'[r], m)
      BY <1>1, <2>1, IdleInStep
    <3> QED BY <1>1, <3>1 DEF InStep
  <2>2. CASE r # q
    <3>1. InStep(req[r], m) /\ req'[r] = Noticed(req[r], D)
      BY <1>1, <1>4, <1>5, <2>2 DEF Discipline, RequestsInStep
    <3> QED BY <1>1, <1>2, <3>1 DEF InStep, Opens, Opening, Closes, Repairing
  <2> QED BY <2>1, <2>2
<1>6. \A r \in Requests : \A m : req'[r].op = "assign" /\ Opens(req'[r], m) => req[r].op = "assign" /\ Opens(req[r], m)
  BY <1>1, <1>2, IdleIsOne DEF Opens, Opening
<1>7. RepairsAlone'
  BY <1>3, <1>6 DEF Discipline, RepairsAlone
<1> QED BY <1>4, <1>5, <1>7 DEF RequestsInStep

\* What a request in flight still writes about m it owes, whoever m is under.
LEMMA OwesWhatItWrites ==
    ASSUME NEW r \in Requests, Typed, NEW m \in Members, NEW k, ~Owes(r, m, k)
    PROVE  /\ ~Opens(req[r], m) /\ ~Closes(req[r], m)
           /\ req[r].pc = "closeParent" => req[r].parent # k /\ m \notin req[r].touched
           /\ req[r].op = "reconcile" => m \notin Coaches
<1>1. req[r] \in Request /\ Shape(req[r])
  BY RequestOf
<1>2. Opens(req[r], m) => req[r].op \in {"assign", "reconcile"} /\ (req[r].op = "reconcile" => m \in Coaches)
  BY <1>1, PointsOf DEF Opens, Shape
<1>3. Closes(req[r], m) => \/ req[r].op = "remove" /\ req[r].member = m
                           \/ req[r].op = "delete" /\ req[r].parent = m
  BY <1>1, PointsOf DEF Closes, Shape
<1>4. req[r].op = "reconcile" => req[r].pc \notin {"done", "write"}
  BY <1>1 DEF Shape, Opening
<1>5. req[r].pc = "closeParent" => req[r].op \in {"release", "delete"}
  BY <1>1, PointsOf
<1> QED BY <1>2, <1>3, <1>4, <1>5 DEF Owes, Opens, Opening, Closes

\* A request writes the rows of C; whoever of them stays sound is nobody else's business.
LEMMA RowsInStep ==
    ASSUME Discipline, NEW q \in Requests, NEW C, C \subseteq Members, NEW w \in Request, Shape(w),
           w.op # "reconcile", WriteRows(q, C, w), Typed',
           \A m \in Members \ C : row'[m] = row[m],
           \A m \in Members : InStep(w, m)',
           \A m : w.op = "assign" /\ Opens(w, m) => m \in C
    PROVE  /\ RequestsInStep' /\ RepairsAlone'
           /\ \A m \in C : Sound(m)' => m \notin torn' /\ \A r \in Requests \ {q} : ~Owes(r, m, row'[m].parent)
           /\ \A m \in Members : Sound(m)' => Sound(m)
<1>1. /\ torn' = torn \cup Overlapped(q, C) /\ req'[q] = w
      /\ \A r \in Requests : r # q => req'[r] = Noticed(req[r], C)
  BY WriteRowsIs DEF Discipline
<1>2. \A r \in Requests : LET y == Noticed(req[r], C)
                          IN  /\ y.op = req[r].op /\ y.pc = req[r].pc /\ y.member = req[r].member
                              /\ y.parent = req[r].parent /\ y.rows = req[r].rows /\ y.todo = req[r].todo
                              /\ req[r].op = "reconcile" => y.touched = req[r].touched \cup C
  BY RequestOf, NoticedIs DEF Discipline
<1>3. \A r \in Requests : \A m : Repaired(req'[r], m) => Repaired(req[r], m) /\ m \notin C /\ r # q
  BY <1>1, <1>2 DEF Repaired
<1>4. \A m \in Members : Sound(m)' => Sound(m)
  BY <1>1, <1>3 DEF Sound
<1>5. \A m \in C : Sound(m)' => m \notin torn'
  BY <1>3 DEF Sound
<1>6. \A m \in C : Sound(m)' => \A r \in Requests \ {q} : ~Owes(r, m, row'[m].parent)
  BY <1>1, <1>5 DEF Overlapped
<1>7. ASSUME NEW m \in Members, Sound(m)', NEW r \in Requests
      PROVE  InStep(req[r], m)'
  <2>1. CASE r = q
    BY <1>1, <2>1
  <2>2. CASE r # q /\ m \notin C
    <3>1. InStep(req[r], m)
      BY <1>4, <1>7 DEF Discipline, RequestsInStep
    <3>2. row'[m] = row[m] /\ req'[r] = Noticed(req[r], C)
      BY <1>1, <2>2
    <3> QED BY <1>2, <3>1, <3>2 DEF InStep, Opens, Opening, Closes, Repairing
  <2>3. CASE r # q /\ m \in C
    <3>1. ~Owes(r, m, row'[m].parent) /\ req'[r] = Noticed(req[r], C)
      BY <1>1, <1>6, <1>7, <2>3
    <3>2. /\ ~Opens(req[r], m) /\ ~Closes(req[r], m)
          /\ req[r].pc = "closeParent" => req[r].parent # row'[m].parent
          /\ req[r].op = "reconcile" => m \notin Coaches
      BY <3>1, OwesWhatItWrites DEF Discipline
    <3>3. req[r] \in Request /\ Shape(req[r])
      BY RequestOf DEF Discipline
    <3>4. \A x \in req[r].rows \cup req[r].todo : x.member \in Coaches
      BY <3>3 DEF Request, Row
    <3>5. req[r].pc \in {"open", "orphan"} \/ Repairing(req[r]) => req[r].op = "reconcile"
      BY <3>3, PointsOf DEF Repairing
    <3> QED BY <1>2, <3>1, <3>2, <3>4, <3>5 DEF InStep, Opens, Opening, Closes, Repairing
  <2> QED BY <2>1, <2>2, <2>3
<1>8. RepairsAlone'
  <2> SUFFICES ASSUME NEW x \in Requests, NEW m \in Members, Repaired(req'[x], m),
                      NEW r \in Requests, req'[r].op = "assign", Opens(req'[r], m)
               PROVE  FALSE
    BY DEF RepairsAlone
  <2>1. Repaired(req[x], m) /\ m \notin C
    BY <1>3
  <2>2. r # q
    BY <1>1, <2>1
  <2>3. req[r].op = "assign" /\ Opens(req[r], m)
    BY <1>1, <1>2, <2>2 DEF Opens, Opening
  <2> QED BY <2>1, <2>3 DEF Discipline, RepairsAlone
<1> QED BY <1>4, <1>5, <1>6, <1>7, <1>8 DEF RequestsInStep

RowWrite(q) == AssignRow(q) \/ RemoveRow(q) \/ ReleaseRows(q) \/ DeleteRows(q) \/ DeleteGymRow(q)

\* The rows of C are written, and w goes on with their history.
Writes(q, C, w) ==
    /\ C \subseteq Members /\ w \in Request /\ Shape(w) /\ w.op # "reconcile" /\ WriteRows(q, C, w)
    /\ req[q].pc \in {"write", "gym"} /\ req[q].op # "reconcile"
    /\ \A m \in Members \ C : row'[m] = row[m]
    /\ \A m \in Members : InStep(w, m)'
    /\ \A m : Opens(w, m) => m \in C
    /\ w.pc # "insert"
    /\ \A m \in Members : m \in C \/ Concerns(w, m) => Concerns(req[q], m)
    /\ w = Idle \/ w.at = now \/ (w.at = req[q].at /\ Timed(req[q]))
    /\ w = Idle \/ w.since = req[q].since
    /\ \A m \in C : row'[m].at \in {0, req[q].at}
    /\ \A m \in C : \/ row'[m] # NoRow /\ Opens(w, m)
                    \/ row'[m] = NoRow /\ Closes(w, m)
                    \/ /\ row'[m] = NoRow /\ w.pc = "closeParent" /\ m \in w.touched
                       /\ row[m] # NoRow /\ row[m].parent = w.parent

LEMMA NothingWritten ==
    ASSUME Typed, NEW q \in Requests, row' = row, WriteRows(q, {}, Idle), req[q].pc \in {"write", "gym"},
           req[q].op # "reconcile"
    PROVE  Writes(q, {}, Idle)
<1>1. \A m \in Members : InStep(Idle, m)'
  BY IdleIsOne DEF InStep, Opens, Opening, Closes, Repairing
<1>2. \A m : ~Concerns(Idle, m)
  BY IdleIsOne DEF Concerns
<1> QED BY <1>1, <1>2, IdleIsOne, IdleInStep DEF Writes

LEMMA RowWritesAre ==
    ASSUME Typed, NEW q \in Requests, RowWrite(q)
    PROVE  \E C, w : Writes(q, C, w)
<1> DEFINE r == req[q]
<1>0. r \in Request /\ NoRow.parent = None /\ None \notin Parents /\ NoRow.at = 0 /\ now \in Times
  BY RequestOf, Sorts DEF NoRow, Typed
<1> HIDE DEF r
<1>1. CASE AssignRow(q)
  <2>0. PICK w : w = [r EXCEPT !.pc = "find"]
    OBVIOUS
  <2>1. /\ r.op = "assign" /\ r.pc = "write" /\ r.member \in Members /\ Fits(r.member, r.parent)
        /\ w \in Request /\ Shape(w)
        /\ \/ row' = row /\ WriteRows(q, {}, Idle)
           \/ /\ row' = [row EXCEPT ![r.member] = [parent |-> r.parent, at |-> r.at]]
              /\ WriteRows(q, {r.member}, w)
    BY <2>0, <1>1, AssignRowIs DEF r
  <2>2. w.op = "assign" /\ w.pc = "find" /\ w.member = r.member /\ w.parent = r.parent /\ w.at = r.at /\ w.since = r.since
    BY <1>0, <2>0, <2>1 DEF Request
  <2>3. r.parent \in Parents
    BY <2>1, Sorts DEF Fits
  <2>4. CASE row' = [row EXCEPT ![r.member] = [parent |-> r.parent, at |-> r.at]] /\ WriteRows(q, {r.member}, w)
    <3>1. /\ row'[r.member].parent = r.parent /\ row'[r.member] # NoRow /\ row'[r.member].at = r.at
          /\ \A m \in Members \ {r.member} : row'[m] = row[m]
      BY <1>0, <2>1, <2>3, <2>4 DEF Typed
    <3>2. \A m : Opens(w, m) <=> m = r.member
      BY <2>2 DEF Opens, Opening
    <3>3. \A m \in Members : InStep(w, m)'
      BY <2>2, <3>1 DEF InStep, Opens, Opening, Closes, Repairing
    <3>4. Timed(r) /\ \A m : m = r.member \/ Concerns(w, m) => Concerns(r, m)
      BY <2>1, <2>2 DEF Timed, Concerns
    <3> QED BY <2>1, <2>2, <2>4, <3>1, <3>2, <3>3, <3>4 DEF Writes, r
  <2> QED BY <2>1, <2>4, NothingWritten DEF r
<1>2. CASE RemoveRow(q)
  <2>0. PICK w : w = [r EXCEPT !.pc = "closeMember", !.at = now]
    OBVIOUS
  <2>1. /\ r.op = "remove" /\ r.pc = "write" /\ r.member \in Members /\ w \in Request /\ Shape(w)
        /\ row' = [row EXCEPT ![r.member] = NoRow]
        /\ \/ row[r.member] = NoRow /\ WriteRows(q, {}, Idle)
           \/ row[r.member] # NoRow /\ WriteRows(q, {r.member}, w)
    BY <2>0, <1>2, RemoveRowIs DEF r
  <2>2. w.op = "remove" /\ w.pc = "closeMember" /\ w.member = r.member /\ w.at = now /\ w.since = r.since
    BY <1>0, <2>0, <2>1 DEF Request
  <2>3. row'[r.member] = NoRow /\ \A m \in Members \ {r.member} : row'[m] = row[m]
    BY <2>1 DEF Typed
  <2>4. CASE row[r.member] = NoRow /\ WriteRows(q, {}, Idle)
    <3>1. row' = row
      BY <2>1, <2>4 DEF Typed
    <3> QED BY <2>1, <2>4, <3>1, NothingWritten DEF r
  <2>5. CASE WriteRows(q, {r.member}, w)
    <3>1. \A m : (Closes(w, m) <=> m = r.member) /\ ~Opens(w, m)
      BY <2>2 DEF Opens, Opening, Closes
    <3>2. \A m \in Members : InStep(w, m)'
      BY <2>2, <2>3 DEF InStep, Opens, Opening, Closes, Repairing
    <3>3. \A m : m = r.member \/ Concerns(w, m) => Concerns(r, m)
      BY <2>1, <2>2 DEF Concerns
    <3> QED BY <1>0, <2>1, <2>2, <2>3, <2>5, <3>1, <3>2, <3>3 DEF Writes, r
  <2> QED BY <2>1, <2>4, <2>5
<1>3. CASE ReleaseRows(q)
  <2>0. PICK T, w : T = Team(r.parent) /\ w = [r EXCEPT !.pc = "closeParent", !.at = now, !.touched = T]
    OBVIOUS
  <2>1. /\ r.op = "release" /\ r.pc = "write" /\ r.parent \in Parents /\ w \in Request /\ Shape(w)
        /\ row' = [m \in Members |-> IF m \in T THEN NoRow ELSE row[m]]
        /\ WriteRows(q, T, w)
    BY <2>0, <1>3, ReleaseRowsIs DEF r
  <2>2. T \subseteq Members /\ \A m \in Members : m \in T <=> row[m].parent = r.parent
    BY <2>0 DEF Team
  <2>3. w.op = "release" /\ w.pc = "closeParent" /\ w.parent = r.parent /\ w.touched = T /\ w.at = now /\ w.since = r.since
    BY <1>0, <2>0, <2>1 DEF Request
  <2>4. \A m \in Members : row'[m] = IF m \in T THEN NoRow ELSE row[m]
    BY <2>1
  <2>5. \A m : ~Closes(w, m) /\ ~Opens(w, m)
    BY <2>3 DEF Opens, Opening, Closes
  <2>6. \A m \in Members : row'[m].parent # r.parent
    BY <1>0, <2>1, <2>2, <2>4
  <2>7. \A m \in Members : InStep(w, m)'
    BY <2>3, <2>6 DEF InStep, Opens, Opening, Closes, Repairing
  <2>8. \A m : Concerns(r, m)
    BY <2>1 DEF Concerns
  <2> QED BY <1>0, <2>1, <2>2, <2>3, <2>4, <2>5, <2>7, <2>8 DEF Writes, r
<1>4. CASE DeleteRows(q)
  <2> DEFINE u == r.parent
             gone == Team(u) \cup ({u} \cap Coaches)
             pc == IF u \in Coaches THEN "closeOwn" ELSE "closeParent"
  <2>0. PICK C, w : C = {m \in gone : row[m] # NoRow} /\ w = [r EXCEPT !.pc = pc, !.at = now, !.touched = C]
    OBVIOUS
  <2>1. /\ r.op = "delete" /\ r.pc = "write" /\ u \in Members /\ w \in Request /\ Shape(w)
        /\ row' = [m \in Members |-> IF m \in gone THEN NoRow ELSE row[m]]
        /\ WriteRows(q, C, w)
    BY <2>0, <1>4, DeleteRowsIs DEF r
  <2>2. /\ gone \subseteq Members
        /\ \A m \in Members : m \in gone <=> row[m].parent = u \/ (m = u /\ u \in Coaches)
    BY DEF Team, Members
  <2>3. C \subseteq Members /\ \A m \in gone : m \notin C => row[m] = NoRow
    BY <2>0, <2>2
  <2> HIDE DEF gone
  <2>4. C = {m \in gone : row[m] # NoRow}
    BY <2>0
  <2>5. w.op = "delete" /\ w.pc = pc /\ w.parent = u /\ w.touched = C /\ w.at = now /\ w.since = r.since
    <3>1. w = [r EXCEPT !.pc = pc, !.at = now, !.touched = C]
      BY <2>0
    <3> HIDE DEF pc
    <3> QED BY <1>0, <2>1, <3>1 DEF Request
  <2>6. \A m \in Members : row'[m] = IF m \in gone THEN NoRow ELSE row[m]
    BY <2>1
  <2>7. \A m \in Members : row[m] # NoRow /\ row[m].parent = u => u \notin Coaches
    BY Sorts DEF Typed, Fits, Members, ParentsOf
  <2>8. \A m \in Members : row'[m].parent # u
    <3>1. u # None
      BY <2>1, Sorts
    <3> QED BY <1>0, <2>2, <2>6, <3>1
  <2>9. \A m : ~Opens(w, m) /\ (Closes(w, m) <=> (u \in Coaches /\ m = u))
    BY <2>5 DEF Opens, Opening, Closes
  <2>10. \A m \in Members : InStep(w, m)'
    BY <2>2, <2>5, <2>6, <2>8, <2>9 DEF InStep, Opens, Opening, Closes, Repairing
  <2>11. \A m \in C : \/ row'[m] = NoRow /\ Closes(w, m)
                      \/ /\ row'[m] = NoRow /\ w.pc = "closeParent" /\ m \in w.touched
                         /\ row[m] # NoRow /\ row[m].parent = w.parent
    BY <2>2, <2>3, <2>4, <2>5, <2>6, <2>7, <2>9
  <2>12. \A m : Concerns(r, m)
    BY <2>1 DEF Concerns
  <2> QED BY <1>0, <2>1, <2>3, <2>4, <2>5, <2>6, <2>9, <2>10, <2>11, <2>12 DEF Writes, r
<1>5. CASE DeleteGymRow(q)
  <2> DEFINE u == r.parent
  <2>0. PICK w : w = [r EXCEPT !.pc = "closeMember", !.member = u, !.touched = {u}]
    OBVIOUS
  <2>1. /\ r.op = "delete" /\ r.pc = "gym" /\ u \in Members
        /\ \/ row' = row /\ WriteRows(q, {}, Idle)
           \/ /\ u \in Heads /\ row[u] # NoRow /\ w \in Request /\ Shape(w)
              /\ row' = [row EXCEPT ![u] = NoRow] /\ WriteRows(q, {u}, w)
    BY <2>0, <1>5, DeleteGymRowIs DEF r
  <2>2. w.op = "delete" /\ w.pc = "closeMember" /\ w.member = u /\ w.at = r.at /\ w.since = r.since
    BY <1>0, <2>0, <2>1 DEF Request
  <2>3. CASE row' = row /\ WriteRows(q, {}, Idle)
    BY <2>1, <2>3, NothingWritten DEF r
  <2>4. CASE w \in Request /\ Shape(w) /\ row' = [row EXCEPT ![u] = NoRow] /\ WriteRows(q, {u}, w)
    <3>1. row'[u] = NoRow /\ \A m \in Members \ {u} : row'[m] = row[m]
      BY <2>1, <2>4 DEF Typed
    <3>2. \A m : (Closes(w, m) <=> m = u) /\ ~Opens(w, m)
      BY <2>2 DEF Opens, Opening, Closes
    <3>3. \A m \in Members : InStep(w, m)'
      BY <2>2, <3>1 DEF InStep, Opens, Opening, Closes, Repairing
    <3>4. Timed(r) /\ \A m : Concerns(r, m)
      BY <2>1 DEF Timed, Concerns
    <3> QED BY <1>0, <2>1, <2>2, <2>4, <3>1, <3>2, <3>3, <3>4 DEF Writes, r
  <2> QED BY <2>1, <2>3, <2>4
<1> QED BY <1>1, <1>2, <1>3, <1>4, <1>5 DEF RowWrite

\* Whom a reconciliation that begins vouches for, another one does, or nobody owes anything.
LEMMA NewlyRepaired ==
    ASSUME Typed, NEW q \in Requests, NEW w, Became(q, w), w.touched = Unsure, NEW m, NEW r \in Requests,
           Repaired(req'[r], m)
    PROVE  \/ \E x \in Requests : Repaired(req[x], m)
           \/ \A x \in Requests : ~Owes(x, m, row[m].parent) /\ req[x].op # "reconcile"
<1>1. req'[q] = w /\ \A x \in Requests : x # q => req'[x] = req[x]
  BY BecameTyped
<1>2. CASE r # q
  BY <1>1, <1>2
<1>3. CASE r = q
  <2>1. m \in Coaches /\ m \notin Unsure
    BY <1>1, <1>3 DEF Repaired
  <2> QED BY <2>1 DEF Unsure, Repaired
<1> QED BY <1>2, <1>3

LEMMA ArrivalInStep ==
    ASSUME Discipline, NEW q \in Requests, Arrive(q)
    PROVE  RequestsInStep' /\ RepairsAlone'
<1>1. PICK w : /\ Became(q, w) /\ row' = row /\ torn' = torn /\ req[q] = Idle
               /\ \/ w.pc = "write" /\ w.op # "reconcile"
                  \/ w.pc = "rows" /\ w.op = "reconcile" /\ w.touched = Unsure
  BY ArriveIs DEF Discipline
<1>2. \A m : InStep(w, m) /\ ~Opens(w, m)
  BY <1>1 DEF InStep, Opens, Opening, Closes, Repairing
<1>3. CASE w.op # "reconcile"
  BY <1>1, <1>2, <1>3, StaysInStep DEF Follows
<1>4. CASE w.op = "reconcile"
  <2>1. Typed /\ w.touched = Unsure
    BY <1>1, <1>4 DEF Discipline
  <2>2. req'[q] = w /\ \A r \in Requests : r # q => req'[r] = req[r]
    BY <1>1, <2>1, BecameTyped
  <2>3. ASSUME NEW m \in Members, NEW x \in Requests, Repaired(req'[x], m)
        PROVE  \/ \E y \in Requests : Repaired(req[y], m)
               \/ \A y \in Requests : ~Owes(y, m, row[m].parent) /\ req[y].op # "reconcile"
    BY <1>1, <2>1, <2>3, NewlyRepaired
  <2>4. ASSUME NEW m \in Members, Sound(m)', NEW r \in Requests
        PROVE  InStep(req[r], m)'
    <3>1. CASE Sound(m)
      <4>1. InStep(req[r], m)
        BY <3>1 DEF Discipline, RequestsInStep
      <4>2. InStep(req'[r], m)
        BY <1>2, <2>2, <4>1
      <4> QED BY <1>1, <4>2 DEF InStep
    <3>2. CASE ~Sound(m)
      <4>1. \A x \in Requests : ~Owes(x, m, row[m].parent) /\ req[x].op # "reconcile"
        BY <1>1, <2>3, <2>4, <3>2 DEF Sound
      <4>2. CASE r = q
        BY <1>1, <1>2, <2>2, <4>2 DEF InStep
      <4>3. CASE r # q
        <5>1. /\ ~Opens(req[r], m) /\ ~Closes(req[r], m)
              /\ req[r].pc = "closeParent" => req[r].parent # row[m].parent
          BY <2>1, <4>1, OwesWhatItWrites
        <5>2. req[r] \in Request /\ Shape(req[r]) /\ req[r].op # "reconcile"
          BY <2>1, <4>1, RequestOf
        <5>3. req[r].pc \notin {"open", "orphan"} /\ ~Repairing(req[r])
          BY <5>2, PointsOf DEF Repairing
        <5> QED BY <1>1, <2>2, <4>3, <5>1, <5>3 DEF InStep, Opens, Opening, Closes, Repairing
      <4> QED BY <4>2, <4>3
    <3> QED BY <3>1, <3>2
  <2>5. ASSUME NEW x \in Requests, NEW m \in Members, Repaired(req'[x], m),
               NEW r \in Requests, req'[r].op = "assign", Opens(req'[r], m)
        PROVE  FALSE
    <3>1. req[r].op = "assign" /\ Opens(req[r], m)
      BY <1>2, <2>2, <2>5
    <3>2. CASE \E y \in Requests : Repaired(req[y], m)
      BY <3>1, <3>2 DEF Discipline, RepairsAlone
    <3>3. CASE ~Owes(r, m, row[m].parent)
      BY <2>1, <3>1, <3>3, OwesWhatItWrites
    <3> QED BY <2>3, <2>5, <3>2, <3>3
  <2>6. RepairsAlone'
    BY <2>5 DEF RepairsAlone
  <2> QED BY <2>4, <2>6 DEF RequestsInStep
<1> QED BY <1>3, <1>4

\* Every step keeps the requests in step.
LEMMA DisciplineInit == Init => Discipline
<1> SUFFICES ASSUME Init PROVE Discipline
  OBVIOUS
<1>1. \A q \in Requests : req[q] = Idle
  BY DEF Init
<1>2. RequestsInStep /\ RepairsAlone
  BY <1>1, IdleInStep, IdleIsOne DEF RequestsInStep, RepairsAlone
<1> QED BY <1>2, TypedInit DEF Discipline

LEMMA DisciplineStep == Discipline /\ [Next]_vars => Discipline'
<1> SUFFICES ASSUME Discipline, [Next]_vars PROVE Discipline'
  OBVIOUS
<1>0. Typed' /\ OnlyOnce'
  BY TypedStep DEF Discipline
<1>1. CASE UNCHANGED vars \/ Tick
  <2>1. UNCHANGED <<row, req, torn>>
    BY <1>1 DEF vars, Tick
  <2>2. RequestsInStep' /\ RepairsAlone'
    BY <2>1 DEF Discipline, RequestsInStep, RepairsAlone, Sound, InStep
  <2> QED BY <1>0, <2>2 DEF Discipline
<1>2. ASSUME NEW q \in Requests, Arrive(q) PROVE Discipline'
  BY <1>0, <1>2, ArrivalInStep DEF Discipline
<1>3. ASSUME NEW q \in Requests, Advances(q) PROVE Discipline'
  <2>1. PICK w : Became(q, w) /\ Follows(req[q], w) /\ row' = row /\ torn \subseteq torn'
    BY <1>3, AdvancesFollow DEF Discipline
  <2> QED BY <1>0, <2>1, StaysInStep DEF Discipline
<1>4. ASSUME NEW q \in Requests, RowWrite(q) PROVE Discipline'
  <2>1. PICK C, w : Writes(q, C, w)
    BY <1>4, RowWritesAre DEF Discipline
  <2>2. /\ C \subseteq Members /\ w \in Request /\ Shape(w) /\ w.op # "reconcile" /\ WriteRows(q, C, w)
        /\ \A m \in Members \ C : row'[m] = row[m]
        /\ \A m \in Members : InStep(w, m)'
        /\ \A m : Opens(w, m) => m \in C
    BY <2>1 DEF Writes
  <2>3. RequestsInStep' /\ RepairsAlone'
    BY <1>0, <2>2, RowsInStep
  <2> QED BY <1>0, <2>3 DEF Discipline
<1>5. ASSUME NEW q \in Requests, EndReconcile(q) PROVE Discipline'
  <2>1. /\ Became(q, Idle) /\ req[q].op = "reconcile" /\ row' = row
        /\ torn' = torn \ (Coaches \ req[q].touched)
    BY <1>5, EndReconcileIs DEF Discipline
  <2>2. req'[q] = Idle /\ \A r \in Requests : r # q => req'[r] = req[r]
    BY <2>1, BecameTyped DEF Discipline
  <2>3. \A m : Sound(m)' => Sound(m)
    BY <2>1, <2>2, IdleIsOne DEF Sound, Repaired
  <2>4. ASSUME NEW m \in Members, Sound(m)', NEW r \in Requests PROVE InStep(req[r], m)'
    <3>1. InStep(req'[r], m)
      BY <2>2, <2>3, <2>4, IdleInStep DEF Discipline, RequestsInStep
    <3> QED BY <2>1, <3>1 DEF InStep
  <2>5. RepairsAlone'
    <3>1. \A r \in Requests : req'[r] = req[r] \/ req'[r].op = "idle"
      BY <2>2, IdleIsOne
    <3> QED BY <3>1 DEF Discipline, RepairsAlone, Repaired
  <2> QED BY <1>0, <2>4, <2>5 DEF Discipline, RequestsInStep
<1>6. ASSUME NEW q \in Requests, Crash(q) PROVE Discipline'
  BY <1>0, <1>6, CrashInStep DEF Discipline
<1>7. ASSUME Next PROVE Discipline'
  BY <1>1, <1>2, <1>3, <1>4, <1>5, <1>6, <1>7, StepsOf DEF Advances, Reads, RowWrite
<1> QED BY <1>1, <1>7

-----------------------------------------------------------------------------
(* The history follows the rows *)

\* Who opens periods is of an operation that does.
InsertsOf(r, m) == Opens(r, m) /\ r.pc = "insert"

HistoryInv == Discipline /\ InsertsFit /\ HistoryAwaited /\ RepairsReach

\* Who settles a member goes on to, or is through.
Settles(q, w, m) ==
    \/ Aligned(m)'
    \/ row[m] # NoRow /\ Opens(w, m)
    \/ ~Opens(req[q], m) /\ (Aligned(m) => Aligned(m)')

LEMMA SettlingKept ==
    ASSUME Typed, NEW q \in Requests, NEW w, Became(q, w), row' = row, NEW m, Settling(m), Settles(q, w, m)
    PROVE  Settling(m)'
<1>1. req'[q] = w /\ \A r \in Requests : r # q => req'[r] = req[r]
  BY BecameTyped
<1>2. ASSUME row[m] # NoRow, NEW x \in Requests, Opens(req'[x], m) PROVE Settling(m)'
  BY <1>2 DEF Settling, Opens, Opening
<1>3. CASE Aligned(m)'
  BY <1>3 DEF Settling
<1>4. CASE row[m] # NoRow /\ Opens(w, m)
  BY <1>1, <1>2, <1>4
<1>5. CASE ~Opens(req[q], m) /\ (Aligned(m) => Aligned(m)') /\ ~Aligned(m)'
  <2>1. PICK x \in Requests : row[m] # NoRow /\ Opens(req[x], m)
    BY <1>5 DEF Settling
  <2> QED BY <1>1, <1>2, <1>5, <2>1
<1> QED BY <1>3, <1>4, <1>5 DEF Settles

\* A step that leaves the rows: how each conjunct is kept, one member at a time.
LEMMA HistoryKept ==
    ASSUME HistoryInv, NEW q \in Requests, NEW w, Became(q, w), row' = row,
           \A m \in Members : Sound(m)' => Sound(m) \/ \A x \in Requests : ~Opens(req[x], m),
           \A m \in Members : InsertsOf(w, m) => \A p \in OpenOf(m)' : p.parent = row[m].parent,
           \A m \in Members : OpenOf(m)' \subseteq OpenOf(m) \/ (Sound(m) => \A p \in OpenOf(m)' : p.parent = row[m].parent),
           \A m \in Members : m \notin torn' =>
              \/ Aligned(m)'
              \/ row[m] # NoRow /\ Opens(w, m)
              \/ row[m] # NoRow /\ \E x \in Requests \ {q} : Opens(req[x], m)
              \/ m \notin torn /\ ~Awaits(req[q], m) /\ (Aligned(m) => Aligned(m)') /\ OpenOf(m)' \subseteq OpenOf(m),
           \A m \in Members : Repaired(w, m) => RepairedUpTo(w, m)',
           \A m \in Members : (\E x \in Requests \ {q} : Repaired(req[x], m)) => Settles(q, w, m)
    PROVE  InsertsFit' /\ HistoryAwaited' /\ RepairsReach'
<1>0. Typed
  BY DEF HistoryInv, Discipline
<1>1. req'[q] = w /\ \A r \in Requests : r # q => req'[r] = req[r]
  BY <1>0, BecameTyped
<1>2. InsertsFit'
  <2> SUFFICES ASSUME NEW m \in Members, Sound(m)', NEW x \in Requests, InsertsOf(req'[x], m),
                      NEW p \in OpenOf(m)'
               PROVE  p.parent = row[m].parent
    BY DEF InsertsFit, InsertsOf, At
  <2>1. CASE x = q
    BY <1>1, <2>1
  <2>2. CASE x # q
    <3>1. Sound(m) /\ InsertsOf(req[x], m)
      BY <1>1, <2>2 DEF InsertsOf
    <3>2. \A y \in OpenOf(m) : y.parent = row[m].parent
      BY <3>1 DEF HistoryInv, InsertsFit, InsertsOf, At
    <3> QED BY <3>1, <3>2
  <2> QED BY <2>1, <2>2
<1>3. HistoryAwaited'
  <2> SUFFICES ASSUME NEW m \in Members, m \notin torn', ~Aligned(m)'
               PROVE  \E x \in Requests : Awaits(req[x], m)'
    BY DEF HistoryAwaited
  <2>1. CASE row[m] # NoRow /\ Opens(w, m)
    <3>1. Awaits(req[q], m)'
      BY <1>1, <2>1 DEF Awaits
    <3> QED BY <3>1
  <2>2. CASE row[m] # NoRow /\ \E x \in Requests \ {q} : Opens(req[x], m)
    <3>1. PICK x \in Requests \ {q} : Opens(req[x], m)
      BY <2>2
    <3>2. req'[x] = req[x]
      BY <1>1
    <3>3. Awaits(req[x], m)'
      BY <2>2, <3>1, <3>2 DEF Awaits
    <3> QED BY <3>3
  <2>3. CASE m \notin torn /\ ~Awaits(req[q], m) /\ (Aligned(m) => Aligned(m)') /\ OpenOf(m)' \subseteq OpenOf(m)
    <3>1. PICK x \in Requests : Awaits(req[x], m) /\ x # q
      BY <2>3 DEF HistoryInv, HistoryAwaited
    <3>2. req'[x] = req[x]
      BY <1>1, <3>1
    <3>3. Awaits(req[x], m)'
      BY <2>3, <3>1, <3>2 DEF Awaits
    <3> QED BY <3>3
  <2> QED BY <2>1, <2>2, <2>3
<1>4. RepairsReach'
  <2> SUFFICES ASSUME NEW x \in Requests, NEW m \in Members, Repaired(req'[x], m)
               PROVE  RepairedUpTo(req[x], m)'
    BY DEF RepairsReach
  <2>1. CASE x = q
    <3>1. RepairedUpTo(w, m)'
      BY <1>1, <2>1
    <3> QED BY <1>1, <2>1, <3>1 DEF RepairedUpTo
  <2>2. CASE x # q
    <3>1. req'[x] = req[x] /\ Repaired(req[x], m) /\ RepairedUpTo(req[x], m)
      BY <1>1, <2>2 DEF HistoryInv, RepairsReach
    <3>2. Settles(q, w, m)
      BY <2>2, <3>1
    <3>3. Settling(m) => Settling(m)'
      BY <1>0, <3>2, SettlingKept
    <3>4. row[m] = NoRow => (OpenOf(m) = {} => OpenOf(m)' = {})
      BY <3>2 DEF Settles, Aligned
    <3> QED BY <3>1, <3>3, <3>4 DEF RepairedUpTo
  <2> QED BY <2>1, <2>2
<1> QED BY <1>2, <1>3, <1>4

\* What a step leaves alone.
LEMMA SamePeriods ==
    ASSUME row' = row, periods' = periods
    PROVE  \A m : /\ OpenOf(m)' = OpenOf(m) /\ (Aligned(m)' <=> Aligned(m))
  BY DEF OpenOf, Aligned

\* A step that writes no period, by a request that opens none.
LEMMA IdlySettled ==
    ASSUME row' = row, periods' = periods, NEW q \in Requests, NEW w, NEW m, ~Opens(req[q], m)
    PROVE  Settles(q, w, m)
  BY SamePeriods DEF Settles

LEMMA AwaitsWhat ==
    ASSUME Typed, NEW q \in Requests, NEW m, Awaits(req[q], m)
    PROVE  req[q].pc \in {"find", "close", "insert", "closeMember", "closeOwn", "closeParent"}
  BY DEF Awaits, Opens, Opening, Closes

LEMMA ArrivalHistory ==
    ASSUME HistoryInv, NEW q \in Requests, Arrive(q)
    PROVE  InsertsFit' /\ HistoryAwaited' /\ RepairsReach'
<1>0. Typed /\ Discipline
  BY DEF HistoryInv, Discipline
<1>1. PICK w : /\ Became(q, w) /\ row' = row /\ periods' = periods /\ torn' = torn /\ req[q] = Idle
               /\ \/ w.pc = "write" /\ w.op # "reconcile"
                  \/ w.pc = "rows" /\ w.op = "reconcile" /\ w.touched = Unsure
  BY <1>0, ArriveIs
<1>2. \A m : OpenOf(m)' = OpenOf(m) /\ (Aligned(m)' <=> Aligned(m))
  BY <1>1, SamePeriods
<1>3. \A m : ~Awaits(req[q], m) /\ ~Opens(req[q], m)
  BY <1>0, <1>1, AwaitsWhat, IdleIsOne, IdleInStep
<1>4. \A m : ~InsertsOf(w, m) /\ ~Opens(w, m) /\ RepairedUpTo(w, m)'
  BY <1>1 DEF InsertsOf, RepairedUpTo, Repairing, Opens, Opening
<1>5. req'[q] = w /\ \A r \in Requests : r # q => req'[r] = req[r]
  BY <1>0, <1>1, BecameTyped
<1>6. ASSUME NEW m \in Members, Sound(m)' PROVE Sound(m) \/ \A x \in Requests : ~Opens(req[x], m)
  <2>1. CASE m \notin torn \/ \E x \in Requests \ {q} : Repaired(req'[x], m)
    BY <1>5, <2>1 DEF Sound
  <2>2. CASE w.touched = Unsure /\ Repaired(req'[q], m)
    <3>1. \/ \E x \in Requests : Repaired(req[x], m)
          \/ \A x \in Requests : ~Owes(x, m, row[m].parent)
      BY <1>0, <1>1, <2>2, NewlyRepaired
    <3> QED BY <1>0, <3>1, OwesWhatItWrites DEF Sound
  <2> QED BY <1>1, <1>5, <1>6, <2>1, <2>2 DEF Sound, Repaired
<1>7. \A m \in Members : Settles(q, w, m)
  BY <1>1, <1>3, IdlySettled
<1> QED BY <1>1, <1>2, <1>3, <1>4, <1>6, <1>7, HistoryKept

LEMMA FindHistory ==
    ASSUME HistoryInv, NEW q \in Requests, Find(q), \A m \in Members : Sound(m)' => Sound(m)
    PROVE  InsertsFit' /\ HistoryAwaited' /\ RepairsReach'
<1> DEFINE r == req[q]
<1>0. Typed /\ Discipline /\ r \in Request /\ Shape(r)
  BY RequestOf DEF HistoryInv, Discipline
<1>1. /\ Opening(r) /\ r.pc = "find" /\ UNCHANGED <<row, periods, torn>>
      /\ \/ OpenOf(r.member) = {} /\ Became(q, Moved(r, "insert"))
         \/ (\E p \in OpenOf(r.member) : p.parent = r.parent) /\ Became(q, Gone(r))
         \/ Became(q, Moved(r, "close"))
  BY <1>0, FindIs
<1>2. \A m : OpenOf(m)' = OpenOf(m) /\ (Aligned(m)' <=> Aligned(m))
  BY <1>1, SamePeriods
<1>3. \A m \in Members : Sound(m) /\ m = r.member => row[m].parent = r.parent /\ row[m] # NoRow
  <2>1. r.parent # None
    <3>1. r.op = "assign" \/ r.op = "reconcile"
      BY <1>0, <1>1, PointsOf
    <3> QED BY <1>0, <1>1, <3>1, Sorts DEF Shape, Parents
  <2> QED BY <1>0, <1>1, <2>1 DEF Discipline, RequestsInStep, InStep, Opens, NoRow
<1>4. \A m \in Members : m # r.member => ~Awaits(r, m) /\ ~Opens(r, m)
  BY <1>1 DEF Awaits, Opens, Closes
<1>5. CASE OpenOf(r.member) = {} /\ Became(q, Moved(r, "insert"))
  <2>1. PICK w : w = Moved(r, "insert")
    OBVIOUS
  <2>2. w.op = r.op /\ w.pc = "insert" /\ w.member = r.member /\ w.touched = r.touched /\ w.todo = r.todo
    BY <1>0, <2>1, MovedIs
  <2>3. \A m : (Opens(w, m) <=> m = r.member) /\ (Opens(r, m) <=> m = r.member)
    BY <1>1, <2>2 DEF Opens, Opening
  <2>0. \A m \in Members : Sound(m) => Settles(q, w, m)
    BY <1>1, <1>2, <1>3, <1>4, <2>3 DEF Settles
  <2>4. \A m \in Members : Repaired(w, m) => RepairedUpTo(w, m)'
    <3> SUFFICES ASSUME NEW m \in Members, Repaired(w, m) PROVE RepairedUpTo(w, m)'
      OBVIOUS
    <3>1. Repaired(r, m) /\ RepairedUpTo(r, m)
      BY <2>2 DEF HistoryInv, RepairsReach, Repaired
    <3>2. Repairing(r) /\ Sound(m)
      BY <1>1, <3>1 DEF Repairing, Repaired, Sound
    <3>3. Settling(m) => Settling(m)'
      BY <1>0, <1>1, <1>5, <2>1, <3>2, <2>0, SettlingKept
    <3> QED BY <1>1, <1>2, <2>2, <2>3, <3>1, <3>2, <3>3 DEF RepairedUpTo, Repairing
  <2>5. \A m \in Members : m \notin torn' =>
              \/ row[m] # NoRow /\ Opens(w, m)
              \/ m \notin torn /\ ~Awaits(r, m)
    BY <1>1, <1>3, <1>4, <2>3 DEF Sound
  <2>6. \A m \in Members : (\E x \in Requests \ {q} : Repaired(req[x], m)) => Settles(q, w, m)
    BY <2>0 DEF Sound
  <2> QED BY <1>1, <1>2, <1>5, <2>1, <2>3, <2>4, <2>5, <2>6, HistoryKept DEF InsertsOf
<1>6. CASE (\E p \in OpenOf(r.member) : p.parent = r.parent) /\ Became(q, Gone(r))
  <2>1. PICK w : w = Gone(r)
    OBVIOUS
  <2>2. \/ w = Idle
        \/ r.op = "reconcile" /\ w.op = "reconcile" /\ w.pc = "next" /\ w.touched = r.touched /\ w.todo = r.todo
    BY <1>0, <2>1, GoneIs
  <2>3. \A m : ~Opens(w, m)
    BY <2>2, IdleInStep DEF Opens, Opening
  <2>4. \A m \in Members : Sound(m) /\ m = r.member => Aligned(m)
    BY <1>3, <1>6 DEF Aligned
  <2>0. \A m \in Members : Sound(m) => Settles(q, w, m)
    BY <1>2, <1>4, <2>4 DEF Settles
  <2>5. \A m \in Members : Repaired(w, m) => RepairedUpTo(w, m)'
    <3> SUFFICES ASSUME NEW m \in Members, Repaired(w, m) PROVE RepairedUpTo(w, m)'
      OBVIOUS
    <3>1. w.pc = "next" /\ w.todo = r.todo /\ Repaired(r, m) /\ RepairedUpTo(r, m)
      BY <2>2, IdleIsOne DEF HistoryInv, RepairsReach, Repaired
    <3>2. Repairing(r) /\ Sound(m)
      BY <1>1, <3>1 DEF Repairing, Repaired, Sound
    <3>3. Settling(m) => Settling(m)'
      BY <1>0, <1>1, <1>6, <2>1, <3>2, <2>0, SettlingKept
    <3> QED BY <1>1, <1>2, <3>1, <3>2, <3>3 DEF RepairedUpTo, Repairing
  <2>6. \A m \in Members : m \notin torn' => Aligned(m) \/ (m \notin torn /\ ~Awaits(r, m))
    BY <1>1, <1>4, <2>4 DEF Sound
  <2>7. \A m \in Members : (\E x \in Requests \ {q} : Repaired(req[x], m)) => Settles(q, w, m)
    BY <2>0 DEF Sound
  <2> QED BY <1>1, <1>2, <1>6, <2>1, <2>3, <2>5, <2>6, <2>7, HistoryKept DEF InsertsOf
<1>7. CASE Became(q, Moved(r, "close"))
  <2>1. PICK w : w = Moved(r, "close")
    OBVIOUS
  <2>2. w.op = r.op /\ w.pc = "close" /\ w.member = r.member /\ w.touched = r.touched /\ w.todo = r.todo
    BY <1>0, <2>1, MovedIs
  <2>3. \A m : (Opens(w, m) <=> m = r.member) /\ (Opens(r, m) <=> m = r.member)
    BY <1>1, <2>2 DEF Opens, Opening
  <2>0. \A m \in Members : Sound(m) => Settles(q, w, m)
    BY <1>1, <1>2, <1>3, <1>4, <2>3 DEF Settles
  <2>4. \A m \in Members : Repaired(w, m) => RepairedUpTo(w, m)'
    <3> SUFFICES ASSUME NEW m \in Members, Repaired(w, m) PROVE RepairedUpTo(w, m)'
      OBVIOUS
    <3>1. Repaired(r, m) /\ RepairedUpTo(r, m)
      BY <2>2 DEF HistoryInv, RepairsReach, Repaired
    <3>2. Repairing(r) /\ Sound(m)
      BY <1>1, <3>1 DEF Repairing, Repaired, Sound
    <3>3. Settling(m) => Settling(m)'
      BY <1>0, <1>1, <1>7, <2>1, <3>2, <2>0, SettlingKept
    <3> QED BY <1>1, <1>2, <2>2, <2>3, <3>1, <3>2, <3>3 DEF RepairedUpTo, Repairing
  <2>5. \A m \in Members : m \notin torn' =>
              \/ row[m] # NoRow /\ Opens(w, m)
              \/ m \notin torn /\ ~Awaits(r, m)
    BY <1>1, <1>3, <1>4, <2>3 DEF Sound
  <2>6. \A m : ~InsertsOf(w, m)
    BY <2>2 DEF InsertsOf
  <2>7. \A m \in Members : (\E x \in Requests \ {q} : Repaired(req[x], m)) => Settles(q, w, m)
    BY <2>0 DEF Sound
  <2> QED BY <1>1, <1>2, <1>7, <2>1, <2>4, <2>5, <2>6, <2>7, HistoryKept
<1> QED BY <1>1, <1>5, <1>6, <1>7

\* Who opens a period of a sound member opens it where the member is.
LEMMA OpensRight ==
    ASSUME Discipline, NEW q \in Requests, NEW m \in Members, Sound(m), Opens(req[q], m)
    PROVE  row[m].parent = req[q].parent /\ row[m] # NoRow /\ req[q].op \in {"assign", "reconcile"}
<1>1. req[q] \in Request /\ Shape(req[q]) /\ Opening(req[q])
  BY RequestOf DEF Discipline, Opens
<1>2. req[q].op = "assign" \/ req[q].op = "reconcile"
  BY <1>1, PointsOf
<1>3. req[q].parent # None
  BY <1>1, <1>2, Sorts DEF Shape, Parents
<1> QED BY <1>2, <1>3 DEF Discipline, RequestsInStep, InStep, NoRow

LEMMA CloseOtherHistory ==
    ASSUME HistoryInv, NEW q \in Requests, CloseOther(q), \A m \in Members : Sound(m)' => Sound(m)
    PROVE  InsertsFit' /\ HistoryAwaited' /\ RepairsReach'
<1> DEFINE r == req[q]
<1>0. Typed /\ OnlyOnce /\ Discipline /\ r \in Request /\ Shape(r)
  BY RequestOf DEF HistoryInv, Discipline
<1>1. /\ Opening(r) /\ r.pc = "close" /\ r.at \in Times /\ UNCHANGED <<row, torn>>
      /\ periods' = Closed(OpenOf(r.member), r.at) /\ Became(q, Moved(r, "insert"))
  BY <1>0, CloseOtherIs
<1>2. \A m : OpenOf(m)' = OpenOf(m) \ OpenOf(r.member)
  <2>1. OpenOf(r.member) \subseteq {p \in periods : p.end = Open}
    BY DEF OpenOf
  <2> QED BY <1>0, <1>1, <2>1, ClosedOf
<1>3. \A m : OpenOf(m)' = IF m = r.member THEN {} ELSE OpenOf(m)
  BY <1>2 DEF OpenOf
<1>4. \A m : m # r.member => (Aligned(m) <=> Aligned(m)')
  BY <1>1, <1>3 DEF Aligned
<1>5. PICK w : w = Moved(r, "insert")
  OBVIOUS
<1>6. w.op = r.op /\ w.pc = "insert" /\ w.member = r.member /\ w.touched = r.touched /\ w.todo = r.todo
  BY <1>0, <1>5, MovedIs
<1>7. \A m : (Opens(w, m) <=> m = r.member) /\ (Opens(r, m) <=> m = r.member)
  BY <1>1, <1>6 DEF Opens, Opening
<1>8. \A m \in Members : InsertsOf(w, m) => OpenOf(m)' = {}
  BY <1>3, <1>7 DEF InsertsOf
<1>9. \A m \in Members : m \notin torn' =>
              \/ row[m] # NoRow /\ Opens(w, m)
              \/ m \notin torn /\ ~Awaits(r, m) /\ (Aligned(m) => Aligned(m)') /\ OpenOf(m)' \subseteq OpenOf(m)
  <2>1. \A m \in Members : m # r.member => ~Awaits(r, m)
    BY <1>1 DEF Awaits, Opens, Closes
  <2>2. \A m \in Members : m = r.member /\ m \notin torn => row[m] # NoRow
    BY <1>0, <1>7, OpensRight DEF Sound
  <2> QED BY <1>1, <1>3, <1>4, <1>7, <2>1, <2>2
<1>10. ASSUME NEW m \in Members, Sound(m) PROVE Settles(q, w, m)
  <2>1. CASE m = r.member
    BY <1>0, <1>7, <1>10, <2>1, OpensRight DEF Settles
  <2>2. CASE m # r.member
    BY <1>4, <1>7, <2>2 DEF Settles
  <2> QED BY <2>1, <2>2
<1>11. \A m \in Members : Repaired(w, m) => RepairedUpTo(w, m)'
  <2> SUFFICES ASSUME NEW m \in Members, Repaired(w, m) PROVE RepairedUpTo(w, m)'
    OBVIOUS
  <2>1. Repaired(r, m) /\ RepairedUpTo(r, m)
    BY <1>6 DEF HistoryInv, RepairsReach, Repaired
  <2>2. Repairing(r) /\ Sound(m)
    BY <1>1, <2>1 DEF Repairing, Repaired, Sound
  <2>3. Settling(m) => Settling(m)'
    BY <1>0, <1>1, <1>5, <1>10, <2>2, SettlingKept
  <2> QED BY <1>1, <1>6, <2>1, <2>2, <2>3 DEF RepairedUpTo
<1>12. \A m \in Members : (\E x \in Requests \ {q} : Repaired(req[x], m)) => Settles(q, w, m)
  BY <1>10 DEF Sound
<1>13. \A m : OpenOf(m)' \subseteq OpenOf(m)
  BY <1>2
<1> QED BY <1>1, <1>5, <1>8, <1>9, <1>11, <1>12, <1>13, HistoryKept

LEMMA InsertHistory ==
    ASSUME HistoryInv, NEW q \in Requests, Insert(q), \A m \in Members : Sound(m)' => Sound(m)
    PROVE  InsertsFit' /\ HistoryAwaited' /\ RepairsReach'
<1> DEFINE r == req[q]
<1>0. Typed /\ OnlyOnce /\ Discipline /\ r \in Request /\ Shape(r)
  BY RequestOf DEF HistoryInv, Discipline
<1>1. /\ Opening(r) /\ r.pc = "insert" /\ Opened(r) \in Period /\ Fits(r.member, r.parent) /\ UNCHANGED <<row, torn>>
      /\ periods' = Inserted(Opened(r)) /\ Became(q, Gone(r))
  BY <1>0, InsertIs
<1>2. Opened(r).member = r.member /\ Opened(r).parent = r.parent /\ Opened(r).end = Open
  BY DEF Opened
<1>3. \A m : OpenOf(m)' = IF m = r.member /\ OpenOf(m) = {} THEN {Opened(r)} ELSE OpenOf(m)
  BY <1>0, <1>1, <1>2, InsertedOf
<1>4. \A m : m # r.member => OpenOf(m)' = OpenOf(m) /\ (Aligned(m) <=> Aligned(m)')
  BY <1>1, <1>3 DEF Aligned
<1>5. \A m : Opens(r, m) <=> m = r.member
  BY <1>1 DEF Opens
<1>6. \A m \in Members : Sound(m) /\ m = r.member =>
        /\ row[m] # NoRow /\ row[m].parent = r.parent
        /\ \A p \in OpenOf(m)' : p.parent = row[m].parent
        /\ Aligned(m)'
  <2> SUFFICES ASSUME NEW m \in Members, Sound(m), m = r.member
               PROVE  /\ row[m] # NoRow /\ row[m].parent = r.parent
                      /\ \A p \in OpenOf(m)' : p.parent = row[m].parent
                      /\ Aligned(m)'
    OBVIOUS
  <2>1. row[m] # NoRow /\ row[m].parent = r.parent
    BY <1>0, <1>5, OpensRight
  <2>2. \A p \in OpenOf(m) : p.parent = row[m].parent
    BY <1>1, <1>5 DEF HistoryInv, InsertsFit, At
  <2>3. OpenOf(m)' # {} /\ \A p \in OpenOf(m)' : p.parent = row[m].parent
    BY <1>2, <1>3, <2>1, <2>2
  <2>4. Aligned(m)'
    BY <1>1, <2>1, <2>3 DEF Aligned
  <2> QED BY <2>1, <2>3, <2>4
<1>7. PICK w : w = Gone(r)
  OBVIOUS
<1>8. \/ w = Idle
      \/ r.op = "reconcile" /\ w.op = "reconcile" /\ w.pc = "next" /\ w.touched = r.touched /\ w.todo = r.todo
  BY <1>0, <1>7, GoneIs
<1>9. \A m : ~Opens(w, m) /\ ~InsertsOf(w, m)
  BY <1>8, IdleInStep DEF Opens, Opening, InsertsOf
<1>10. \A m \in Members : m \notin torn' =>
              \/ Aligned(m)'
              \/ m \notin torn /\ ~Awaits(r, m) /\ (Aligned(m) => Aligned(m)') /\ OpenOf(m)' \subseteq OpenOf(m)
  <2>1. \A m \in Members : m # r.member => ~Awaits(r, m)
    BY <1>1 DEF Awaits, Opens, Closes
  <2> QED BY <1>1, <1>4, <1>6, <2>1 DEF Sound
<1>11. \A m \in Members : Sound(m) => Settles(q, w, m)
  BY <1>4, <1>5, <1>6 DEF Settles
<1>12. \A m \in Members : Repaired(w, m) => RepairedUpTo(w, m)'
  <2> SUFFICES ASSUME NEW m \in Members, Repaired(w, m) PROVE RepairedUpTo(w, m)'
    OBVIOUS
  <2>1. w.pc = "next" /\ w.todo = r.todo /\ Repaired(r, m) /\ RepairedUpTo(r, m)
    BY <1>8, IdleIsOne DEF HistoryInv, RepairsReach, Repaired
  <2>2. Repairing(r) /\ Sound(m)
    BY <1>1, <2>1 DEF Repairing, Repaired, Sound
  <2>3. Settling(m) => Settling(m)'
    BY <1>0, <1>1, <1>7, <1>11, <2>2, SettlingKept
  <2> QED BY <1>1, <2>1, <2>2, <2>3 DEF RepairedUpTo
<1>13. \A m \in Members : (\E x \in Requests \ {q} : Repaired(req[x], m)) => Settles(q, w, m)
  BY <1>11 DEF Sound
<1>14. \A m \in Members : OpenOf(m)' \subseteq OpenOf(m) \/ (Sound(m) => \A p \in OpenOf(m)' : p.parent = row[m].parent)
  BY <1>4, <1>6
<1> QED BY <1>1, <1>7, <1>9, <1>10, <1>12, <1>13, <1>14, HistoryKept

\* Periods are closed that no row stands for.
LEMMA ClosingHistory ==
    ASSUME HistoryInv, NEW q \in Requests, NEW w, Became(q, w), row' = row, torn' = torn,
           \A m \in Members : Sound(m)' => Sound(m),
           \A m \in Members : OpenOf(m)' \subseteq OpenOf(m),
           \A m \in Members : Sound(m) /\ Aligned(m) => Aligned(m)',
           \A m \in Members : Sound(m) /\ Awaits(req[q], m) => Aligned(m)',
           \A m : ~Opens(w, m) /\ ~Opens(req[q], m),
           \A m \in Members : Repaired(w, m) => RepairedUpTo(w, m)'
    PROVE  InsertsFit' /\ HistoryAwaited' /\ RepairsReach'
<1>1. \A m : ~InsertsOf(w, m)
  BY DEF InsertsOf
<1>2. \A m \in Members : m \notin torn' =>
              \/ Aligned(m)'
              \/ m \notin torn /\ ~Awaits(req[q], m) /\ (Aligned(m) => Aligned(m)') /\ OpenOf(m)' \subseteq OpenOf(m)
  BY DEF Sound
<1>3. \A m \in Members : (\E x \in Requests \ {q} : Repaired(req[x], m)) => Settles(q, w, m)
  BY DEF Sound, Settles
<1> QED BY <1>1, <1>2, <1>3, HistoryKept

LEMMA CloseMembersHistory ==
    ASSUME HistoryInv, NEW q \in Requests, CloseMember(q) \/ CloseOwn(q), \A m \in Members : Sound(m)' => Sound(m)
    PROVE  InsertsFit' /\ HistoryAwaited' /\ RepairsReach'
<1> DEFINE r == req[q]
<1>0. Typed /\ OnlyOnce /\ Discipline /\ r \in Request /\ Shape(r)
  BY RequestOf DEF HistoryInv, Discipline
<1>1. \E w, k : /\ r.op # "reconcile" /\ w.op # "reconcile" /\ r.at \in Times /\ UNCHANGED <<row, torn>>
                /\ periods' = Closed(OpenOf(k), r.at) /\ Became(q, w)
                /\ r.pc \in {"closeMember", "closeOwn"} /\ (\A m : Closes(r, m) <=> m = k) /\ \A m : ~Opens(w, m)
  <2>1. CASE CloseMember(q)
    <3>1. /\ r.pc = "closeMember" /\ r.op # "reconcile" /\ r.at \in Times /\ UNCHANGED <<row, torn>>
          /\ periods' = Closed(OpenOf(r.member), r.at) /\ Became(q, Idle)
      BY <1>0, <2>1, CloseMemberIs
    <3>2. \A m : (Closes(r, m) <=> m = r.member) /\ ~Opens(Idle, m)
      BY <3>1, IdleInStep DEF Closes
    <3> QED BY <3>1, <3>2, IdleIsOne
  <2>2. CASE CloseOwn(q)
    <3>1. /\ r.pc = "closeOwn" /\ r.op = "delete" /\ r.at \in Times /\ UNCHANGED <<row, torn>>
          /\ periods' = Closed(OpenOf(r.parent), r.at) /\ Became(q, Moved(r, "closeParent"))
      BY <1>0, <2>2, CloseOwnIs
    <3>2. Moved(r, "closeParent").op = "delete" /\ Moved(r, "closeParent").pc = "closeParent"
      BY <1>0, <3>1, MovedIs
    <3>3. \A m : (Closes(r, m) <=> m = r.parent) /\ ~Opens(Moved(r, "closeParent"), m)
      BY <3>1, <3>2 DEF Closes, Opens, Opening
    <3> QED BY <3>1, <3>2, <3>3
  <2> QED BY <2>1, <2>2
<1>2. PICK w, k : /\ r.op # "reconcile" /\ w.op # "reconcile" /\ r.at \in Times /\ UNCHANGED <<row, torn>>
                  /\ periods' = Closed(OpenOf(k), r.at) /\ Became(q, w)
                  /\ r.pc \in {"closeMember", "closeOwn"} /\ (\A m : Closes(r, m) <=> m = k) /\ \A m : ~Opens(w, m)
  BY <1>1
<1>3. \A m : OpenOf(m)' = IF m = k THEN {} ELSE OpenOf(m)
  <2>1. OpenOf(k) \subseteq {p \in periods : p.end = Open}
    BY DEF OpenOf
  <2>2. \A m : OpenOf(m)' = OpenOf(m) \ OpenOf(k)
    BY <1>0, <1>2, <2>1, ClosedOf
  <2> QED BY <2>2 DEF OpenOf
<1>4. \A m \in Members : Sound(m) /\ m = k => row[m] = NoRow
  BY <1>0, <1>2 DEF Discipline, RequestsInStep, InStep
<1>5. \A m \in Members : Sound(m) /\ m = k => Aligned(m)'
  BY <1>2, <1>3, <1>4 DEF Aligned
<1>6. \A m \in Members : m # k => (Aligned(m) => Aligned(m)')
  BY <1>2, <1>3 DEF Aligned
<1>7. \A m \in Members : Awaits(r, m) => m = k
  BY <1>2 DEF Awaits, Opens, Opening
<1>8. \A m : ~Repaired(w, m) /\ ~Opens(r, m)
  BY <1>2 DEF Repaired, Opens, Opening
<1> QED BY <1>2, <1>3, <1>5, <1>6, <1>7, <1>8, ClosingHistory

LEMMA CloseParentHistory ==
    ASSUME HistoryInv, NEW q \in Requests, CloseParent(q), \A m \in Members : Sound(m)' => Sound(m)
    PROVE  InsertsFit' /\ HistoryAwaited' /\ RepairsReach'
<1> DEFINE r == req[q]
<1>0. Typed /\ OnlyOnce /\ Discipline /\ r \in Request /\ Shape(r)
  BY RequestOf DEF HistoryInv, Discipline
<1>1. /\ r.pc = "closeParent" /\ r.op \in {"release", "delete"} /\ r.at \in Times /\ UNCHANGED <<row, torn>>
      /\ periods' = Closed(OpenUnder(r.parent), r.at)
      /\ Became(q, Idle) \/ Became(q, Moved(r, "gym"))
  BY <1>0, CloseParentIs
<1>2. \E w : Became(q, w) /\ w.op # "reconcile" /\ \A m : ~Opens(w, m)
  <2>1. Moved(r, "gym").op = r.op /\ Moved(r, "gym").pc = "gym"
    BY <1>0, MovedIs
  <2>2. \A m : ~Opens(Moved(r, "gym"), m) /\ ~Opens(Idle, m)
    BY <2>1, IdleInStep DEF Opens, Opening
  <2> QED BY <1>1, <2>1, <2>2, IdleIsOne
<1>3. PICK w : Became(q, w) /\ w.op # "reconcile" /\ \A m : ~Opens(w, m)
  BY <1>2
<1>4. \A m : OpenOf(m)' = {p \in OpenOf(m) : p.parent # r.parent}
  <2>1. OpenUnder(r.parent) \subseteq {p \in periods : p.end = Open}
    BY DEF OpenUnder
  <2>2. \A m : OpenOf(m)' = OpenOf(m) \ OpenUnder(r.parent)
    BY <1>0, <1>1, <2>1, ClosedOf
  <2> QED BY <2>2 DEF OpenOf, OpenUnder
<1>5. \A m \in Members : Sound(m) => row[m].parent # r.parent
  BY <1>0, <1>1 DEF Discipline, RequestsInStep, InStep
<1>6. ASSUME NEW m \in Members, Sound(m), Aligned(m) PROVE Aligned(m)'
  <2>1. CASE row[m] = NoRow
    BY <1>1, <1>4, <1>6, <2>1 DEF Aligned
  <2>2. CASE row[m] # NoRow
    <3>1. PICK p \in OpenOf(m) : p.parent = row[m].parent
      BY <1>6, <2>2 DEF Aligned
    <3>2. p \in OpenOf(m)'
      BY <1>4, <1>5, <1>6, <3>1
    <3> QED BY <1>1, <2>2, <3>1, <3>2 DEF Aligned
  <2> QED BY <2>1, <2>2
<1>7. ASSUME NEW m \in Members, Awaits(r, m) PROVE Aligned(m)'
  <2>1. row[m] = NoRow /\ \A p \in OpenOf(m) : p.parent = r.parent
    BY <1>1, <1>7 DEF Awaits, Opens, Opening, Closes
  <2>2. OpenOf(m)' = {}
    BY <1>4, <2>1
  <2> QED BY <1>1, <2>1, <2>2 DEF Aligned
<1>8. \A m : ~Repaired(w, m) /\ ~Opens(r, m)
  BY <1>1, <1>3 DEF Repaired, Opens, Opening
<1>9. \A m \in Members : OpenOf(m)' \subseteq OpenOf(m)
  BY <1>4
<1> QED BY <1>1, <1>3, <1>6, <1>7, <1>8, <1>9, ClosingHistory

LEMMA CloseOrphanHistory ==
    ASSUME HistoryInv, NEW q \in Requests, CloseOrphan(q), \A m \in Members : Sound(m)' => Sound(m)
    PROVE  InsertsFit' /\ HistoryAwaited' /\ RepairsReach'
<1> DEFINE r == req[q]
<1>0. Typed /\ OnlyOnce /\ Discipline /\ r \in Request /\ Shape(r)
  BY RequestOf DEF HistoryInv, Discipline
<1>1. PICK w, x : /\ Became(q, w) /\ r.op = "reconcile" /\ w.op = "reconcile" /\ w.touched = r.touched
                  /\ r.pc = "orphan" /\ w.pc = "orphan"
                  /\ x \in r.todo /\ w.todo = r.todo \ {x} /\ r.since \in Times
                  /\ periods' = Closed(OpenOf(x.member), r.since) /\ UNCHANGED <<row, torn>>
  BY <1>0, CloseOrphanIs
<1>2. \A m : OpenOf(m)' = IF m = x.member THEN {} ELSE OpenOf(m)
  <2>1. OpenOf(x.member) \subseteq {p \in periods : p.end = Open}
    BY DEF OpenOf
  <2>2. \A m : OpenOf(m)' = OpenOf(m) \ OpenOf(x.member)
    BY <1>0, <1>1, <2>1, ClosedOf
  <2> QED BY <2>2 DEF OpenOf
<1>3. \A m \in Members : Sound(m) /\ m = x.member => row[m] = NoRow
  BY <1>0, <1>1 DEF Discipline, RequestsInStep, InStep
<1>4. \A m \in Members : Sound(m) /\ m = x.member => Aligned(m)'
  BY <1>1, <1>2, <1>3 DEF Aligned
<1>5. \A m \in Members : m # x.member => (Aligned(m) => Aligned(m)')
  BY <1>1, <1>2 DEF Aligned
<1>6. \A m : ~Awaits(r, m) /\ ~Opens(w, m) /\ ~Opens(r, m)
  BY <1>1 DEF Awaits, Opens, Opening, Closes
<1>7. ASSUME NEW m \in Members, Repaired(w, m) PROVE RepairedUpTo(w, m)'
  <2>1. Repaired(r, m) /\ RepairedUpTo(r, m) /\ Sound(m)
    BY <1>1, <1>7 DEF HistoryInv, RepairsReach, Repaired, Sound
  <2>2. row[m] # NoRow => Settling(m)'
    <3>1. Settles(q, w, m)
      BY <1>4, <1>5, <1>6, <2>1 DEF Settles
    <3> QED BY <1>0, <1>1, <2>1, <3>1, SettlingKept DEF RepairedUpTo
  <2>3. row[m] = NoRow => OpenOf(m)' = {} \/ \E y \in w.todo : y.member = m
    BY <1>1, <1>2, <2>1 DEF RepairedUpTo
  <2> QED BY <1>1, <2>2, <2>3 DEF RepairedUpTo, Repairing, Opening
<1> QED BY <1>1, <1>2, <1>4, <1>5, <1>6, <1>7, ClosingHistory

\* A request fails: what it owed is torn from now on.
LEMMA FailureHistory ==
    ASSUME HistoryInv, NEW q \in Requests, FailHistory(q), \A m \in Members : Sound(m)' => Sound(m)
    PROVE  InsertsFit' /\ HistoryAwaited' /\ RepairsReach'
<1> DEFINE r == req[q]
<1>0. Typed /\ OnlyOnce /\ Discipline /\ r \in Request /\ Shape(r)
  BY RequestOf DEF HistoryInv, Discipline
<1>1. \E w : Became(q, w) /\ w.op # "reconcile" /\ \A m : ~Opens(w, m)
  <2>1. \A pc : Moved(r, pc).op = r.op /\ Moved(r, pc).pc = pc
    BY <1>0, MovedIs
  <2>2. \A m : ~Opens(Moved(r, "gym"), m) /\ ~Opens(Moved(r, "closeParent"), m) /\ ~Opens(Idle, m)
    BY <2>1, IdleInStep DEF Opens, Opening
  <2>3. \/ Became(q, Idle)
        \/ r.op = "delete" /\ (Became(q, Moved(r, "gym")) \/ Became(q, Moved(r, "closeParent")))
    BY <1>0, FailHistoryIs
  <2> QED BY <2>1, <2>2, <2>3, IdleIsOne
<1>2. PICK w : Became(q, w) /\ w.op # "reconcile" /\ \A m : ~Opens(w, m)
  BY <1>1
<1>3. /\ row' = row /\ periods' = periods /\ torn \subseteq torn' /\ Left(q) \subseteq torn'
      /\ r.op # "reconcile"
  BY <1>0, FailHistoryIs
<1>4. \A m : OpenOf(m)' = OpenOf(m) /\ (Aligned(m)' <=> Aligned(m))
  BY <1>3, SamePeriods
<1>5. ASSUME NEW m \in Members, m \notin torn' PROVE m \notin torn /\ ~Awaits(r, m)
  <2>1. ~Owes(q, m, row[m].parent)
    BY <1>3, <1>5 DEF Left
  <2>2. ~Opens(r, m) /\ ~Closes(r, m) /\ (r.pc = "closeParent" => m \notin r.touched)
    BY <1>0, <2>1, OwesWhatItWrites
  <2> QED BY <1>3, <1>5, <2>2 DEF Awaits
<1>6. \A m : ~InsertsOf(w, m) /\ ~Repaired(w, m)
  BY <1>2 DEF InsertsOf, Repaired
<1>7. ASSUME NEW m \in Members, NEW x \in Requests, Repaired(req[x], m) PROVE Settles(q, w, m)
  <2>1. ~Opens(r, m)
    BY <1>0, <1>3, <1>7, OpensRight DEF Discipline, RepairsAlone, Sound
  <2> QED BY <1>3, <2>1, IdlySettled
<1> QED BY <1>2, <1>3, <1>4, <1>5, <1>6, <1>7, HistoryKept

\* A request crashes: what it owed is torn from now on, and reconciliations go on without whom it leaves torn.
LEMMA CrashHistory ==
    ASSUME HistoryInv, NEW q \in Requests, Crash(q)
    PROVE  InsertsFit' /\ HistoryAwaited' /\ RepairsReach'
<1> DEFINE r == req[q]
<1>0. Typed /\ OnlyOnce /\ Discipline /\ r \in Request /\ Shape(r)
  BY RequestOf DEF HistoryInv, Discipline
<1>1. PICK D : /\ req'[q] = Idle /\ (\A x \in Requests : x # q => req'[x] = Noticed(req[x], D))
               /\ row' = row /\ periods' = periods /\ torn' = torn \cup D /\ D \subseteq Members
               /\ r.op # "reconcile" => D = Left(q)
               /\ r.op = "reconcile" => D = {r.member} \ {None}
  BY <1>0, CrashIs
<1>2. \A m : OpenOf(m)' = OpenOf(m) /\ (Aligned(m)' <=> Aligned(m))
  BY <1>1, SamePeriods
<1>3. ASSUME NEW x \in Requests, x # q
      PROVE  /\ req'[x].op = req[x].op /\ req'[x].pc = req[x].pc /\ req'[x].member = req[x].member
             /\ req'[x].parent = req[x].parent /\ req'[x].rows = req[x].rows /\ req'[x].todo = req[x].todo
             /\ req[x].op # "reconcile" => req'[x] = req[x]
             /\ \A m : Repaired(req'[x], m) => Repaired(req[x], m) /\ m \notin D
  <2>1. req[x] \in Request /\ Shape(req[x]) /\ req'[x] = Noticed(req[x], D)
    BY <1>0, <1>1, <1>3, RequestOf
  <2>2. PICK y : y = req[x]
    OBVIOUS
  <2>3. /\ Noticed(y, D).op = y.op /\ Noticed(y, D).pc = y.pc /\ Noticed(y, D).member = y.member
        /\ Noticed(y, D).parent = y.parent /\ Noticed(y, D).rows = y.rows /\ Noticed(y, D).todo = y.todo
        /\ y.op # "reconcile" => Noticed(y, D) = y
        /\ \A m : Repaired(Noticed(y, D), m) => Repaired(y, m) /\ m \notin D
    BY <1>1, <2>1, <2>2, NoticedIs DEF Repaired
  <2> QED BY <2>1, <2>2, <2>3
<1>4. \A m : ~Opens(req'[q], m) /\ ~Repaired(req'[q], m)
  BY <1>1, IdleInStep, IdleIsOne DEF Repaired
<1>5. \A x \in Requests : \A m : Opens(req'[x], m) => x # q /\ Opens(req[x], m)
  BY <1>3, <1>4 DEF Opens, Opening
<1>6. ASSUME NEW m \in Members, ~(m \in D) PROVE ~Opens(r, m) /\ ~Closes(r, m) /\ (r.pc = "closeParent" => m \notin r.touched)
  <2>1. CASE r.op # "reconcile"
    <3>1. ~Owes(q, m, row[m].parent)
      BY <1>1, <1>6, <2>1 DEF Left
    <3> QED BY <1>0, <3>1, OwesWhatItWrites
  <2>2. CASE r.op = "reconcile"
    <3>1. ~Opens(r, m)
      BY <1>1, <1>6, <2>2, Sorts DEF Opens
    <3>2. r.pc \notin {"closeMember", "closeOwn", "closeParent"}
      BY <1>0, <2>2, PointsOf
    <3> QED BY <3>1, <3>2 DEF Closes
  <2> QED BY <2>1, <2>2
<1>7. ASSUME NEW m \in Members, Sound(m)' PROVE Sound(m)
  BY <1>1, <1>3, <1>4, <1>7 DEF Sound
<1>8. InsertsFit'
  <2> SUFFICES ASSUME NEW m \in Members, Sound(m)', NEW x \in Requests, InsertsOf(req'[x], m), NEW p \in OpenOf(m)'
               PROVE  p.parent = row[m].parent
    BY <1>1 DEF InsertsFit, InsertsOf, At
  <2>1. InsertsOf(req[x], m) /\ Sound(m)
    BY <1>3, <1>5, <1>7 DEF InsertsOf
  <2> QED BY <1>2, <2>1 DEF HistoryInv, InsertsFit, InsertsOf, At
<1>9. HistoryAwaited'
  <2> SUFFICES ASSUME NEW m \in Members, m \notin torn', ~Aligned(m)'
               PROVE  \E x \in Requests : Awaits(req[x], m)'
    BY DEF HistoryAwaited
  <2>1. m \notin torn /\ ~Aligned(m) /\ m \notin D
    BY <1>1, <1>2
  <2>2. PICK x \in Requests : Awaits(req[x], m)
    BY <2>1 DEF HistoryInv, HistoryAwaited
  <2>3. x # q
    BY <1>6, <2>1, <2>2 DEF Awaits
  <2>4. Awaits(req'[x], m)
    <3>1. CASE row[m] # NoRow /\ Opens(req[x], m)
      BY <1>3, <2>3, <3>1 DEF Awaits, Opens, Opening
    <3>2. CASE ~Opens(req[x], m)
      <4>1. req[x].pc \in {"closeMember", "closeOwn", "closeParent"}
        BY <2>2, <3>2 DEF Awaits, Closes
      <4>2. req[x].op # "reconcile"
        BY <1>0, <4>1, RequestOf, PointsOf
      <4> QED BY <1>3, <2>2, <2>3, <4>2
    <3> QED BY <2>2, <3>1, <3>2 DEF Awaits, Opens, Opening, Closes
  <2>5. Awaits(req[x], m)'
    BY <1>1, <1>2, <2>4 DEF Awaits
  <2> QED BY <2>5
<1>10. ASSUME NEW x \in Requests, NEW m \in Members, Repaired(req'[x], m) PROVE RepairedUpTo(req[x], m)'
  <2>1. x # q /\ Repaired(req[x], m) /\ m \notin D
    BY <1>3, <1>4, <1>10
  <2>2. RepairedUpTo(req[x], m)
    BY <2>1 DEF HistoryInv, RepairsReach
  <2>3. Settling(m) => Settling(m)'
    <3> SUFFICES ASSUME row[m] # NoRow, NEW y \in Requests, Opens(req[y], m) PROVE \E z \in Requests : Opens(req'[z], m)
      BY <1>1, <1>2 DEF Settling
    <3>1. y # q
      BY <1>6, <2>1
    <3> QED BY <1>3, <3>1 DEF Opens, Opening
  <2>4. req'[x].pc = req[x].pc /\ req'[x].rows = req[x].rows /\ req'[x].todo = req[x].todo /\ req'[x].op = req[x].op
    BY <1>3, <2>1
  <2>5. OpenOf(m)' = OpenOf(m) /\ row' = row
    BY <1>1, <1>2
  <2> QED BY <2>2, <2>3, <2>4, <2>5 DEF RepairedUpTo, Repairing, Opening
<1>11. RepairsReach'
  BY <1>10 DEF RepairsReach
<1> QED BY <1>8, <1>9, <1>11

\* Each read of a reconciliation takes it one part further.
LEMMA ReadsReach ==
    ASSUME HistoryInv, NEW q \in Requests, Reads(q)
    PROVE  \E w : /\ Proceeds(q, w)
                  /\ \A m \in Members : InsertsOf(w, m) => FALSE
                  /\ \A m \in Members : Repaired(w, m) => RepairedUpTo(w, m)'
<1> DEFINE r == req[q]
<1>0. Typed /\ OnlyOnce /\ Discipline /\ r \in Request /\ Shape(r)
  BY RequestOf DEF HistoryInv, Discipline
<1>1. ASSUME NEW w, Proceeds(q, w), NEW m \in Members, Repaired(w, m)
      PROVE  Repaired(r, m) /\ RepairedUpTo(r, m) /\ InStep(r, m) /\ m \in Coaches
  <2>1. Repaired(r, m)
    BY <1>1 DEF Proceeds, Repaired
  <2> QED BY <1>0, <2>1 DEF HistoryInv, RepairsReach, Repaired, Discipline, RequestsInStep, Sound
<1>7. \A m : ~Opens(r, m)
  BY DEF Opens, Opening, Reads, ReadRows, ReadOpen, Repair, ReadOrphans, ReadExisting, At
<1>8. ASSUME NEW w, Proceeds(q, w)
      PROVE  \A m : /\ row' = row /\ OpenOf(m)' = OpenOf(m) /\ (Aligned(m) <=> Aligned(m)')
                    /\ Settling(m) => Settling(m)'
                    /\ row[m] # NoRow /\ Opens(w, m) => Settling(m)'
  <2>1. Became(q, w) /\ row' = row /\ periods' = periods
    BY <1>8 DEF Proceeds
  <2>2. req'[q] = w
    BY <1>0, <2>1, BecameTyped
  <2>3. ASSUME NEW m, Settling(m) PROVE Settling(m)'
    <3>1. Settles(q, w, m)
      BY <1>7, <2>1, IdlySettled
    <3> QED BY <1>0, <2>1, <2>3, <3>1, SettlingKept
  <2>4. ASSUME NEW m, row[m] # NoRow, Opens(w, m) PROVE Settling(m)'
    BY <2>1, <2>2, <2>4 DEF Settling, Opens, Opening
  <2> QED BY <2>1, <2>3, <2>4, SamePeriods
<1>2. CASE ReadRows(q)
  <2>1. PICK w : /\ Proceeds(q, w) /\ w.pc = "open"
                 /\ w.rows = {[member |-> m, parent |-> row[m].parent, at |-> row[m].at] :
                                m \in {c \in Coaches : row[c] # NoRow}}
    BY <1>0, <1>2, ReadRowsIs
  <2>2. ASSUME NEW m \in Coaches, row[m] # NoRow PROVE \E x \in w.rows : x.member = m
    <3>1. [member |-> m, parent |-> row[m].parent, at |-> row[m].at] \in w.rows
      BY <2>1, <2>2
    <3> QED BY <3>1
  <2> QED BY <1>1, <1>8, <2>1, <2>2 DEF RepairedUpTo, InsertsOf, Repairing, Opening
<1>3. CASE ReadOpen(q)
  <2>1. PICK w : /\ Proceeds(q, w) /\ r.pc = "open" /\ w.pc = "next"
                 /\ w.todo = {x \in r.rows : ~ \E p \in OpenOf(x.member) : p.parent = x.parent}
    BY <1>0, <1>3, ReadOpenIs
  <2>2. ASSUME NEW m \in Members, Repaired(w, m), row[m] # NoRow
        PROVE  Aligned(m) \/ \E x \in w.todo : x.member = m
    <3>1. PICK x \in r.rows : x.member = m
      BY <1>1, <2>1, <2>2 DEF RepairedUpTo
    <3>2. x.parent = row[m].parent
      BY <1>1, <2>1, <2>2, <3>1 DEF InStep
    <3> QED BY <2>1, <2>2, <3>1, <3>2 DEF Aligned
  <2> QED BY <1>8, <2>1, <2>2 DEF RepairedUpTo, InsertsOf, Repairing, Opening, Settling
<1>4. CASE Repair(q)
  <2>1. PICK w : /\ Proceeds(q, w) /\ r.pc = "next"
                 /\ \/ r.todo = {} /\ w.pc = "orphans"
                    \/ \E x \in r.todo : /\ w.pc = "find" /\ w.todo = r.todo \ {x}
                                         /\ w.member = x.member /\ w.parent = x.parent
    BY <1>0, <1>4, RepairIs
  <2>2. ASSUME NEW m \in Members, Repaired(w, m), row[m] # NoRow
        PROVE  Settling(m)' \/ \E x \in r.todo : x.member = m
    BY <1>1, <1>8, <2>1, <2>2 DEF RepairedUpTo, Proceeds, Repairing
  <2>3. CASE r.todo = {} /\ w.pc = "orphans"
    BY <1>8, <2>1, <2>2, <2>3 DEF RepairedUpTo, InsertsOf, Repairing, Opening
  <2>4. ASSUME NEW x \in r.todo, w.pc = "find", w.todo = r.todo \ {x}, w.member = x.member,
               NEW m \in Members, Repaired(w, m)
        PROVE  RepairedUpTo(w, m)'
    <3>1. row[m] # NoRow => Settling(m)' \/ (\E y \in w.todo : y.member = m) \/ w.member = m
      BY <2>2, <2>4
    <3>2. w.member = m => Opens(w, m)
      BY <2>4 DEF Opens, Opening
    <3> QED BY <1>8, <2>1, <2>4, <3>1, <3>2 DEF RepairedUpTo
  <2>5. \A m : InsertsOf(w, m) => FALSE
    BY <2>1 DEF InsertsOf
  <2> QED BY <2>1, <2>3, <2>4, <2>5
<1>5. CASE ReadOrphans(q)
  <2>1. PICK w : /\ Proceeds(q, w) /\ r.pc = "orphans" /\ w.pc = "existing"
                 /\ w.rows = {[member |-> p.member, parent |-> p.parent, at |-> 0] :
                                p \in UNION {OpenOf(c) : c \in Coaches}}
    BY <1>0, <1>5, ReadOrphansIs
  <2>2. ASSUME NEW m \in Coaches PROVE OpenOf(m) = {} \/ \E x \in w.rows : x.member = m
    <3> SUFFICES ASSUME NEW p \in OpenOf(m) PROVE \E x \in w.rows : x.member = m
      OBVIOUS
    <3>1. [member |-> p.member, parent |-> p.parent, at |-> 0] \in w.rows /\ p.member = m
      BY <2>1 DEF OpenOf
    <3> QED BY <3>1
  <2>3. ASSUME NEW m \in Members, Repaired(w, m), row[m] # NoRow PROVE Settling(m)'
    BY <1>1, <1>8, <2>1, <2>3 DEF RepairedUpTo
  <2> QED BY <1>1, <1>8, <2>1, <2>2, <2>3 DEF RepairedUpTo, InsertsOf, Repairing, Opening
<1>6. CASE ReadExisting(q)
  <2>1. PICK w : /\ Proceeds(q, w) /\ r.pc = "existing" /\ w.pc = "orphan"
                 /\ w.todo = {x \in r.rows : row[x.member] = NoRow}
    BY <1>0, <1>6, ReadExistingIs
  <2>2. ASSUME NEW m \in Members, Repaired(w, m)
        PROVE  /\ row[m] # NoRow => Settling(m)'
               /\ row[m] = NoRow => OpenOf(m) = {} \/ \E x \in w.todo : x.member = m
    BY <1>1, <1>8, <2>1, <2>2 DEF RepairedUpTo
  <2> QED BY <1>8, <2>1, <2>2 DEF RepairedUpTo, InsertsOf, Repairing, Opening
<1> QED BY <1>2, <1>3, <1>4, <1>5, <1>6 DEF Reads

LEMMA ReadsHistory ==
    ASSUME HistoryInv, NEW q \in Requests, Reads(q), \A m \in Members : Sound(m)' => Sound(m)
    PROVE  InsertsFit' /\ HistoryAwaited' /\ RepairsReach'
<1>0. Typed
  BY DEF HistoryInv, Discipline
<1>1. PICK w : /\ Proceeds(q, w)
               /\ \A m \in Members : ~InsertsOf(w, m)
               /\ \A m \in Members : Repaired(w, m) => RepairedUpTo(w, m)'
  BY ReadsReach
<1>2. Became(q, w) /\ UNCHANGED <<row, periods, torn>>
  BY <1>1 DEF Proceeds
<1>3. \A m : OpenOf(m)' = OpenOf(m) /\ (Aligned(m)' <=> Aligned(m))
  BY <1>2, SamePeriods
<1>4. \A m : ~Awaits(req[q], m) /\ ~Opens(req[q], m)
  BY <1>0, AwaitsWhat DEF Reads, ReadRows, ReadOpen, Repair, ReadOrphans, ReadExisting, At, Opens, Opening
<1>5. \A m \in Members : Settles(q, w, m)
  BY <1>2, <1>4, IdlySettled
<1> QED BY <1>1, <1>2, <1>3, <1>4, <1>5, HistoryKept

\* The end of a reconciliation: whom nobody interfered with is aligned.
LEMMA EndReconcileHistory ==
    ASSUME HistoryInv, NEW q \in Requests, EndReconcile(q)
    PROVE  InsertsFit' /\ HistoryAwaited' /\ RepairsReach'
<1> DEFINE r == req[q]
<1>0. Typed
  BY DEF HistoryInv, Discipline
<1>1. /\ Became(q, Idle) /\ r.op = "reconcile" /\ r.pc = "orphan" /\ r.todo = {} /\ row' = row /\ periods' = periods
      /\ torn' = torn \ (Coaches \ r.touched)
  BY <1>0, EndReconcileIs
<1>2. \A m : OpenOf(m)' = OpenOf(m) /\ (Aligned(m)' <=> Aligned(m))
  BY <1>1, SamePeriods
<1>3. \A m : ~Awaits(r, m) /\ ~Opens(r, m)
  BY <1>0, <1>1, AwaitsWhat DEF Opens, Opening
<1>4. ASSUME NEW m \in Members, m \notin torn', m \in torn
      PROVE  Aligned(m) \/ (row[m] # NoRow /\ \E x \in Requests \ {q} : Opens(req[x], m))
  <2>1. Repaired(r, m) /\ RepairedUpTo(r, m)
    BY <1>1, <1>4 DEF HistoryInv, RepairsReach, Repaired
  <2>2. row[m] # NoRow => Settling(m)
    BY <1>1, <2>1 DEF RepairedUpTo
  <2>3. row[m] = NoRow => Aligned(m)
    BY <1>1, <2>1 DEF RepairedUpTo, Aligned
  <2> QED BY <1>3, <2>2, <2>3 DEF Settling
<1>5. req'[q] = Idle /\ \A x \in Requests : x # q => req'[x] = req[x]
  BY <1>0, <1>1, BecameTyped
<1>6. \A m : Sound(m)' => Sound(m)
  BY <1>1, <1>5, IdleIsOne DEF Sound, Repaired
<1>7. \A m : ~InsertsOf(Idle, m) /\ ~Repaired(Idle, m)
  BY IdleIsOne, IdleInStep DEF InsertsOf, Repaired
<1>8. PICK w : w = Idle
  OBVIOUS
<1>9. \A m \in Members : Settles(q, w, m)
  BY <1>1, <1>3, IdlySettled
<1> QED BY <1>1, <1>2, <1>3, <1>4, <1>6, <1>7, <1>8, <1>9, HistoryKept

\* A row is written: whoever stays sound was aligned, and the request is about to align it again.
LEMMA RowWriteHistory ==
    ASSUME HistoryInv, NEW q \in Requests, RowWrite(q), Typed'
    PROVE  InsertsFit' /\ HistoryAwaited' /\ RepairsReach'
<1> DEFINE r == req[q]
<1>0. Typed /\ OnlyOnce /\ Discipline /\ r \in Request /\ Shape(r)
  BY RequestOf DEF HistoryInv, Discipline
<1>1. PICK C, w : Writes(q, C, w)
  BY <1>0, RowWritesAre
<1>2. /\ C \subseteq Members /\ w \in Request /\ Shape(w) /\ w.op # "reconcile" /\ WriteRows(q, C, w)
      /\ r.pc \in {"write", "gym"} /\ r.op # "reconcile"
      /\ \A m \in Members \ C : row'[m] = row[m]
      /\ \A m \in Members : InStep(w, m)'
      /\ \A m : Opens(w, m) => m \in C
      /\ \A m \in C : \/ row'[m] # NoRow /\ Opens(w, m)
                      \/ row'[m] = NoRow /\ Closes(w, m)
                      \/ /\ row'[m] = NoRow /\ w.pc = "closeParent" /\ m \in w.touched
                         /\ row[m] # NoRow /\ row[m].parent = w.parent
  BY <1>1 DEF Writes
<1>3. /\ \A m \in C : Sound(m)' => m \notin torn' /\ \A x \in Requests \ {q} : ~Owes(x, m, row'[m].parent)
      /\ \A m \in Members : Sound(m)' => Sound(m)
  BY <1>0, <1>2, RowsInStep
<1>4. /\ req'[q] = w /\ periods' = periods /\ torn \subseteq torn'
      /\ \A x \in Requests : x # q => req'[x] = Noticed(req[x], C)
  BY <1>0, <1>2, WriteRowsIs
<1>5. \A x \in Requests :
        LET y == Noticed(req[x], C)
        IN  /\ y.op = req[x].op /\ y.pc = req[x].pc /\ y.member = req[x].member /\ y.parent = req[x].parent
            /\ y.rows = req[x].rows /\ y.todo = req[x].todo
            /\ req[x].op # "reconcile" => y = req[x]
            /\ req[x].op = "reconcile" => y.touched = req[x].touched \cup C
  BY <1>0, <1>2, RequestOf, NoticedIs
<1>6. \A m : OpenOf(m)' = OpenOf(m)
  BY <1>4 DEF OpenOf
<1>7. \A m \in Members \ C : Aligned(m)' <=> Aligned(m)
  BY <1>2, <1>6 DEF Aligned
<1>8. ~\E m : Awaits(r, m)
  BY <1>0, <1>2, AwaitsWhat
<1>9. w.pc # "insert"
  BY <1>1 DEF Writes
<1>10. InsertsFit'
  <2> SUFFICES ASSUME NEW m \in Members, Sound(m)', NEW x \in Requests, InsertsOf(req'[x], m),
                      NEW p \in OpenOf(m)'
               PROVE  p.parent = row'[m].parent
    BY DEF InsertsFit, InsertsOf, At
  <2>1. x # q
    BY <1>4, <1>9 DEF InsertsOf
  <2>2. InsertsOf(req[x], m)
    BY <1>4, <1>5, <2>1 DEF InsertsOf, Opens, Opening
  <2>3. m \notin C
    BY <1>0, <1>3, <2>1, <2>2, OwesWhatItWrites DEF InsertsOf
  <2>4. Sound(m) /\ row'[m] = row[m] /\ p \in OpenOf(m)
    BY <1>2, <1>3, <1>6, <2>3
  <2> QED BY <2>2, <2>4 DEF HistoryInv, InsertsFit, InsertsOf, At
<1>11. HistoryAwaited'
  <2> SUFFICES ASSUME NEW m \in Members, m \notin torn', ~Aligned(m)'
               PROVE  \E x \in Requests : Awaits(req[x], m)'
    BY DEF HistoryAwaited
  <2>0. m \notin torn /\ (m \in C => \A x \in Requests \ {q} : ~Owes(x, m, row'[m].parent))
    BY <1>3, <1>4 DEF Sound
  <2>1. CASE m \notin C
    <3>1. PICK x \in Requests : Awaits(req[x], m)
      BY <1>7, <2>0, <2>1 DEF HistoryInv, HistoryAwaited
    <3>2. x # q /\ req'[x] = Noticed(req[x], C)
      BY <1>4, <1>8, <3>1
    <3>3. req[x].op = "reconcile" => req[x].pc # "closeParent"
      BY <1>0, RequestOf, PointsOf
    <3>4. Awaits(req[x], m)'
      BY <1>2, <1>5, <1>6, <2>1, <3>1, <3>2, <3>3 DEF Awaits, Opens, Opening, Closes
    <3> QED BY <3>4
  <2>2. CASE m \in C
    <3>1. ASSUME row[m] # NoRow, row[m].parent = w.parent
          PROVE  \A p \in OpenOf(m) : p.parent = w.parent
      <4>1. \A x \in Requests : ~Awaits(req[x], m)
        <5>1. ASSUME NEW x \in Requests \ {q} PROVE ~Awaits(req[x], m)
          <6>1. ~Opens(req[x], m) /\ ~Closes(req[x], m) /\ (req[x].pc = "closeParent" => m \notin req[x].touched)
            BY <1>0, <2>0, <2>2, OwesWhatItWrites
          <6> QED BY <6>1 DEF Awaits
        <5> QED BY <1>8, <5>1
      <4>2. Aligned(m)
        BY <2>0, <4>1 DEF HistoryInv, HistoryAwaited
      <4> QED BY <1>0, <3>1, <4>2 DEF Aligned, OnlyOnce, OpenOf
    <3>2. Awaits(req[q], m)'
      BY <1>2, <1>4, <1>6, <2>2, <3>1 DEF Awaits
    <3> QED BY <3>2
  <2> QED BY <2>1, <2>2
<1>12. RepairsReach'
  <2> SUFFICES ASSUME NEW x \in Requests, NEW m \in Members, Repaired(req'[x], m)
               PROVE  RepairedUpTo(req[x], m)'
    BY DEF RepairsReach
  <2>1. x # q /\ m \notin C /\ Repaired(req[x], m) /\ req'[x] = Noticed(req[x], C)
    BY <1>2, <1>4, <1>5 DEF Repaired
  <2>2. RepairedUpTo(req[x], m)
    BY <2>1 DEF HistoryInv, RepairsReach
  <2>3. Settling(m) => Settling(m)'
    <3> SUFFICES ASSUME row[m] # NoRow, NEW y \in Requests, Opens(req[y], m)
                 PROVE  \E z \in Requests : Opens(req'[z], m)
      BY <1>2, <1>7, <2>1 DEF Settling
    <3>1. y # q
      BY <1>2 DEF Opens, Opening
    <3>2. Opens(req'[y], m)
      BY <1>4, <1>5, <3>1 DEF Opens, Opening
    <3> QED BY <3>2
  <2> QED BY <1>2, <1>5, <1>6, <2>1, <2>2, <2>3 DEF RepairedUpTo, Repairing, Opening
<1> QED BY <1>10, <1>11, <1>12

LEMMA HistoryInit == Init => HistoryInv
<1> SUFFICES ASSUME Init PROVE HistoryInv
  OBVIOUS
<1>1. \A q \in Requests : req[q] = Idle
  BY DEF Init
<1>2. \A m \in Members : Aligned(m)
  BY DEF Init, Aligned, OpenOf
<1>3. InsertsFit /\ HistoryAwaited /\ RepairsReach
  BY <1>1, <1>2, IdleInStep, IdleIsOne DEF InsertsFit, HistoryAwaited, RepairsReach, Repaired
<1> QED BY <1>3, DisciplineInit DEF HistoryInv

LEMMA HistoryStep == HistoryInv /\ [Next]_vars => HistoryInv'
<1> SUFFICES ASSUME HistoryInv, [Next]_vars PROVE HistoryInv'
  OBVIOUS
<1>0. Discipline /\ Typed /\ Discipline'
  BY DisciplineStep DEF HistoryInv, Discipline
<1>1. CASE UNCHANGED vars \/ Tick
  <2>1. UNCHANGED <<row, periods, req, torn>>
    BY <1>1 DEF vars, Tick
  <2>2. \A m : OpenOf(m)' = OpenOf(m) /\ (Aligned(m)' <=> Aligned(m))
    BY <2>1, SamePeriods
  <2>3. InsertsFit'
    BY <2>1, <2>2 DEF HistoryInv, InsertsFit, Sound, At
  <2>4. HistoryAwaited'
    <3> SUFFICES ASSUME NEW m \in Members, m \notin torn, ~Aligned(m)
                 PROVE  \E q \in Requests : Awaits(req[q], m)'
      BY <2>1, <2>2 DEF HistoryAwaited
    <3>1. PICK q \in Requests : Awaits(req[q], m)
      BY DEF HistoryInv, HistoryAwaited
    <3> QED BY <2>1, <2>2, <3>1 DEF Awaits
  <2>5. RepairsReach'
    BY <2>1, <2>2 DEF HistoryInv, RepairsReach, RepairedUpTo, Settling
  <2> QED BY <1>0, <2>3, <2>4, <2>5 DEF HistoryInv
<1>2. ASSUME NEW q \in Requests, Advances(q) PROVE HistoryInv'
  <2>1. \A m \in Members : Sound(m)' => Sound(m)
    <3>1. PICK w : Became(q, w) /\ Follows(req[q], w) /\ row' = row /\ torn \subseteq torn'
      BY <1>0, <1>2, AdvancesFollow
    <3> QED BY <1>0, <3>1, StaysInStep
  <2>2. InsertsFit' /\ HistoryAwaited' /\ RepairsReach'
    BY <1>2, <2>1, FindHistory, CloseOtherHistory, InsertHistory, CloseMembersHistory, CloseParentHistory,
       CloseOrphanHistory, FailureHistory, ReadsHistory DEF Advances
  <2> QED BY <1>0, <2>2 DEF HistoryInv
<1>3. ASSUME NEW q \in Requests, Arrive(q) \/ EndReconcile(q) \/ RowWrite(q) \/ Crash(q) PROVE HistoryInv'
  <2>1. InsertsFit' /\ HistoryAwaited' /\ RepairsReach'
    BY <1>0, <1>3, ArrivalHistory, EndReconcileHistory, RowWriteHistory, CrashHistory DEF Discipline
  <2> QED BY <1>0, <2>1 DEF HistoryInv
<1>4. ASSUME Next PROVE HistoryInv'
  BY <1>1, <1>2, <1>3, <1>4, StepsOf DEF Advances, Reads, RowWrite
<1> QED BY <1>1, <1>4

\* A member whom no request still owes anything is aligned.
LEMMA QuietIsAligned ==
    ASSUME HistoryInv, NEW m \in Members, Quiet(m)
    PROVE  Aligned(m)
<1>1. \A q \in Requests : ~Awaits(req[q], m)
  <2> SUFFICES ASSUME NEW q \in Requests PROVE ~Awaits(req[q], m)
    OBVIOUS
  <2>1. ~Owes(q, m, row[m].parent)
    BY DEF Quiet
  <2> QED BY <2>1, OwesWhatItWrites DEF HistoryInv, Discipline, Awaits
<1> QED BY <1>1 DEF HistoryInv, HistoryAwaited, Quiet

LEMMA FollowsFromInv == HistoryInv => HistoryFollowsRows
  BY QuietIsAligned DEF HistoryFollowsRows, Aligned

\* The history says where every member is, and says of nobody else that he is somewhere, as soon as no
\* request owes history of the member, unless a write of his history failed or was overtaken since the
\* last reconciliation that nobody interfered with, however many reconciliations (one per instance that
\* starts) run at once: the requests in flight are in step with the rows, and whoever is not aligned is
\* the business of one that aligns him.
THEOREM Spec_HistoryFollowsRows == Spec => []HistoryFollowsRows
<1>1. Spec => []HistoryInv
  BY HistoryInit, HistoryStep, PTL DEF Spec
<1> QED BY <1>1, FollowsFromInv, PTL

-----------------------------------------------------------------------------
(* The scopes *)

Overlap(x, y) == [from |-> Later(x.from, y.from), to |-> EarlierEnd(x, y)]

\* The overlap of two ranges covers what both cover, and is open when both are.
LEMMA OverlapIs ==
    ASSUME NEW x \in PeriodRange, NEW y \in PeriodRange
    PROVE  /\ \A t \in Times : Covers(Overlap(x, y), t) <=> Covers(x, t) /\ Covers(y, t)
           /\ \A t \in Times : Covers(Overlap(x, y), t) => Overlap(x, y).to = Open \/ Overlap(x, y).from < Overlap(x, y).to
           /\ Overlap(x, y).to = Open <=> x.to = Open /\ y.to = Open
<1>1. /\ x.from \in Nat /\ (x.to \in Nat \/ x.to = Open) /\ (x.to \in Times => x.to # Open)
      /\ y.from \in Nat /\ (y.to \in Nat \/ y.to = Open) /\ (y.to \in Times => y.to # Open)
      /\ x.to \in Times \cup {Open} /\ y.to \in Times \cup {Open}
  BY Sorts DEF PeriodRange
<1>2. Overlap(x, y).from = Later(x.from, y.from) /\ Overlap(x, y).to = EarlierEnd(x, y)
  BY DEF Overlap
<1>3. \A t \in Times : Later(x.from, y.from) <= t <=> x.from <= t /\ y.from <= t
  BY <1>1, Sorts DEF Later
<1>4. EarlierEnd(x, y) = Open <=> x.to = Open /\ y.to = Open
  BY <1>1 DEF EarlierEnd
<1>5. ASSUME NEW t \in Times
      PROVE  (EarlierEnd(x, y) = Open \/ t < EarlierEnd(x, y)) <=> (x.to = Open \/ t < x.to) /\ (y.to = Open \/ t < y.to)
  <2>1. t \in Nat /\ t # Open
    BY Sorts
  <2>2. CASE x.to = Open
    BY <1>1, <2>1, <2>2 DEF EarlierEnd
  <2>3. CASE x.to # Open /\ y.to = Open
    BY <1>1, <2>1, <2>3 DEF EarlierEnd
  <2>4. CASE x.to # Open /\ y.to # Open
    <3>1. x.to \in Nat /\ y.to \in Nat /\ EarlierEnd(x, y) = IF x.to < y.to THEN x.to ELSE y.to
      BY <1>1, <2>4 DEF EarlierEnd
    <3> QED BY <1>1, <2>1, <2>4, <3>1
  <2> QED BY <2>2, <2>3, <2>4
<1>6. ASSUME NEW t \in Times, Covers(Overlap(x, y), t)
      PROVE  Overlap(x, y).to = Open \/ Overlap(x, y).from < Overlap(x, y).to
  <2>1. CASE EarlierEnd(x, y) = Open
    BY <1>2, <2>1
  <2>2. CASE EarlierEnd(x, y) # Open
    <3>1. EarlierEnd(x, y) \in Nat /\ Later(x.from, y.from) \in Nat /\ t \in Nat
      BY <1>1, <2>2, Sorts DEF EarlierEnd, Later
    <3>2. Later(x.from, y.from) <= t /\ t < EarlierEnd(x, y)
      BY <1>2, <1>6, <2>2 DEF Covers
    <3> QED BY <1>2, <3>1, <3>2
  <2> QED BY <2>1, <2>2
<1> QED BY <1>2, <1>3, <1>4, <1>5, <1>6 DEF Covers

LEMMA IntersectionIs ==
    ASSUME NEW a, NEW b, a \subseteq PeriodRange, b \subseteq PeriodRange
    PROVE  /\ CoveredBy(IntersectPeriods(a, b)) = CoveredBy(a) \cap CoveredBy(b)
           /\ HasOpenPeriod(IntersectPeriods(a, b)) <=> HasOpenPeriod(a) /\ HasOpenPeriod(b)
<1>1. \A o : o \in IntersectPeriods(a, b) <=>
               /\ \E x \in a, y \in b : o = Overlap(x, y)
               /\ o.to = Open \/ o.from < o.to
  <2>1. ASSUME NEW o
        PROVE  (\E p \in a \X b : o = Overlap(p[1], p[2])) <=> \E x \in a, y \in b : o = Overlap(x, y)
    <3>1. ASSUME NEW x \in a, NEW y \in b, o = Overlap(x, y) PROVE \E p \in a \X b : o = Overlap(p[1], p[2])
      <4>1. PICK p : p = <<x, y>>
        OBVIOUS
      <4>2. p \in a \X b /\ p[1] = x /\ p[2] = y
        BY <4>1
      <4> QED BY <3>1, <4>2
    <3>2. ASSUME NEW p \in a \X b, o = Overlap(p[1], p[2]) PROVE \E x \in a, y \in b : o = Overlap(x, y)
      <4>1. p[1] \in a /\ p[2] \in b
        OBVIOUS
      <4> QED BY <3>2, <4>1
    <3> QED BY <3>1, <3>2
  <2>2. \A o : o \in IntersectPeriods(a, b) <=>
                 /\ \E p \in a \X b : o = Overlap(p[1], p[2])
                 /\ o.to = Open \/ o.from < o.to
    BY DEF IntersectPeriods, Overlap
  <2> QED BY <2>1, <2>2
<1>2. ASSUME NEW t \in Times
      PROVE  (\E o \in IntersectPeriods(a, b) : Covers(o, t)) <=> (\E x \in a : Covers(x, t)) /\ (\E y \in b : Covers(y, t))
  <2>1. ASSUME NEW o \in IntersectPeriods(a, b), Covers(o, t)
        PROVE  (\E x \in a : Covers(x, t)) /\ (\E y \in b : Covers(y, t))
    <3>1. PICK x \in a, y \in b : o = Overlap(x, y)
      BY <1>1
    <3>2. x \in PeriodRange /\ y \in PeriodRange
      OBVIOUS
    <3> QED BY <2>1, <3>1, <3>2, OverlapIs
  <2>2. ASSUME NEW x \in a, NEW y \in b, Covers(x, t), Covers(y, t)
        PROVE  \E o \in IntersectPeriods(a, b) : Covers(o, t)
    <3>1. x \in PeriodRange /\ y \in PeriodRange
      OBVIOUS
    <3>2. /\ Covers(Overlap(x, y), t)
          /\ Overlap(x, y).to = Open \/ Overlap(x, y).from < Overlap(x, y).to
      BY <2>2, <3>1, OverlapIs
    <3> QED BY <1>1, <3>2
  <2> QED BY <2>1, <2>2
<1>3. HasOpenPeriod(IntersectPeriods(a, b)) <=> HasOpenPeriod(a) /\ HasOpenPeriod(b)
  <2>1. \A x \in a, y \in b : Overlap(x, y).to = Open <=> x.to = Open /\ y.to = Open
    BY OverlapIs
  <2> QED BY <1>1, <2>1 DEF HasOpenPeriod
<1> QED BY <1>2, <1>3 DEF CoveredBy

LEMMA RangesTyped ==
    ASSUME Typed, NEW ps, ps \subseteq periods, NEW m, NEW k
    PROVE  /\ RangesOf(ps, m, k) \subseteq PeriodRange
           /\ HasOpenPeriod(RangesOf(ps, m, k)) <=> \E p \in ps : p.member = m /\ p.parent = k /\ p.end = Open
<1>1. \A p \in ps : [from |-> p.start, to |-> p.end] \in PeriodRange
  BY DEF Typed, Period, PeriodRange
<1> DEFINE P == {x \in ps : x.member = m /\ x.parent = k}
<1>2. RangesOf(ps, m, k) = {[from |-> p.start, to |-> p.end] : p \in P}
  BY DEF RangesOf
<1>3. RangesOf(ps, m, k) \subseteq PeriodRange
  BY <1>1, <1>2
<1>4. ASSUME NEW p \in ps, p.member = m, p.parent = k, p.end = Open PROVE HasOpenPeriod(RangesOf(ps, m, k))
  <2>1. [from |-> p.start, to |-> p.end] \in RangesOf(ps, m, k)
    BY <1>2, <1>4
  <2> QED BY <1>4, <2>1 DEF HasOpenPeriod
<1>5. HasOpenPeriod(RangesOf(ps, m, k)) => \E p \in ps : p.member = m /\ p.parent = k /\ p.end = Open
  BY <1>2 DEF HasOpenPeriod
<1> QED BY <1>3, <1>4, <1>5

LEMMA OverlapFromInv == Typed => ScopeIsTheOverlap
  BY RangesTyped, IntersectionIs DEF ScopeIsTheOverlap

\* A gym sees a coach at exactly the instants when he was in the team and his head coach in the gym,
\* whatever periods are stored: also periods that overlap, that are open or that end before they start.
THEOREM Spec_ScopeIsTheOverlap == Spec => []ScopeIsTheOverlap
<1>1. Spec => [](Typed /\ OnlyOnce)
  BY TypedInit, TypedStep, PTL DEF Spec
<1> QED BY <1>1, OverlapFromInv, PTL

\* When nobody is behind, the open periods are the memberships.
LEMMA OpenPeriodsAre ==
    ASSUME HistoryInv, NEW m \in Members, Quiet(m), NEW k \in Parents
    PROVE  (\E p \in periods : p.member = m /\ p.parent = k /\ p.end = Open) <=> row[m].parent = k
<1>1. Aligned(m)
  BY QuietIsAligned
<1>2. NoRow.parent = None /\ None \notin Parents
  BY Sorts DEF NoRow
<1>3. \A p, p2 \in OpenOf(m) : p = p2
  BY DEF HistoryInv, Discipline, OnlyOnce, OpenOf
<1>4. \A p : p \in OpenOf(m) <=> p \in periods /\ p.member = m /\ p.end = Open
  BY DEF OpenOf
<1> QED BY <1>1, <1>2, <1>3, <1>4 DEF Aligned

\* Who is in a gym is a head coach, and who is in the team of a head coach is not.
LEMMA TeamsOf ==
    ASSUME Typed
    PROVE  /\ \A g \in Gyms : Team(g) \subseteq Heads
           /\ \A h \in Heads : Team(h) \subseteq Coaches
<1>1. \A m \in Members : row[m].parent # None => row[m].parent \in ParentsOf(m)
  BY DEF Typed, Fits, NoRow
<1>2. \A m \in Members : (m \in Coaches /\ ParentsOf(m) = Heads) \/ (m \in Heads /\ ParentsOf(m) = Gyms)
  BY Sorts DEF Members
<1>3. Heads \cap Gyms = {} /\ None \notin Heads \cup Gyms
  BY PeriodsAssumption
<1> QED BY <1>1, <1>2, <1>3 DEF Team

\* The coaches whose clients a head coach sees, and those current in his scope, are found alike.
LEMMA HeadScopes ==
    ASSUME Typed, NEW h \in Heads
    PROVE  /\ \A m : m \in HeadClientsCoaches(TeamPeriods, h) <=>
                       m = h \/ \E p \in TeamPeriods : p.member = m /\ p.parent = h /\ p.end = Open
           /\ HeadClientsCoaches(TeamPeriods, h) = CurrentCoaches(TeamScope(TeamPeriods, h, 0))
<1> DEFINE Under(m) == \E p \in TeamPeriods : p.member = m /\ p.parent = h /\ p.end = Open
           Led == [coach |-> h, head |-> h, periods |-> {[from |-> 0, to |-> Open]}]
           Of(m) == [coach |-> m, head |-> h, periods |-> RangesOf(TeamPeriods, m, h)]
           Ever == {p.member : p \in {x \in TeamPeriods : x.parent = h}}
<1>1. TeamPeriods \subseteq periods
  BY DEF TeamPeriods
<1>2. \A m : HasOpenPeriod(RangesOf(TeamPeriods, m, h)) <=> Under(m)
  BY <1>1, RangesTyped
<1>3. ASSUME NEW m PROVE m \in HeadClientsCoaches(TeamPeriods, h) <=> m = h \/ Under(m)
  <2>1. Under(m) => m \in {p.member : p \in TeamPeriods}
    OBVIOUS
  <2> QED BY <1>2, <2>1 DEF HeadClientsCoaches
<1>4. TeamScope(TeamPeriods, h, 0) = {Led} \cup {Of(m) : m \in Ever}
  BY DEF TeamScope
<1>5. Led.coach = h /\ HasOpenPeriod(Led.periods) /\ \A m : Of(m).coach = m /\ Of(m).periods = RangesOf(TeamPeriods, m, h)
  BY DEF HasOpenPeriod
<1>6. \A m : Under(m) => m \in Ever
  OBVIOUS
<1> HIDE DEF Led, Of, Ever, Under
<1>7. ASSUME NEW m PROVE m \in CurrentCoaches(TeamScope(TeamPeriods, h, 0)) <=> m = h \/ Under(m)
  <2>1. m \in CurrentCoaches(TeamScope(TeamPeriods, h, 0)) <=>
          \E e \in TeamScope(TeamPeriods, h, 0) : HasOpenPeriod(e.periods) /\ m = e.coach
    BY DEF CurrentCoaches
  <2>2. (\E e \in TeamScope(TeamPeriods, h, 0) : HasOpenPeriod(e.periods) /\ m = e.coach) <=>
          \/ HasOpenPeriod(Led.periods) /\ m = Led.coach
          \/ \E x \in Ever : HasOpenPeriod(Of(x).periods) /\ m = Of(x).coach
    BY <1>4
  <2> QED BY <1>2, <1>5, <1>6, <2>1, <2>2
<1> QED BY <1>3, <1>7 DEF Under

LEMMA GymScopes ==
    ASSUME Typed, NEW g \in Gyms, NEW m
    PROVE  m \in CurrentCoaches(GymScope(TeamPeriods, GymPeriods, g)) <=>
             \/ \E p \in GymPeriods : p.member = m /\ p.parent = g /\ p.end = Open
             \/ \E h \in Heads : /\ \E p \in GymPeriods : p.member = h /\ p.parent = g /\ p.end = Open
                                 /\ \E p \in TeamPeriods : p.member = m /\ p.parent = h /\ p.end = Open
<1> DEFINE heads == {p.member : p \in {x \in GymPeriods : x.parent = g}}
           during(h) == RangesOf(GymPeriods, h, g)
           coaches(h) == {p.member : p \in {x \in TeamPeriods : x.parent = h}}
           both(x, h) == IntersectPeriods(RangesOf(TeamPeriods, x, h), during(h))
           Head(h) == [coach |-> h, head |-> h, periods |-> during(h)]
           Coach(x, h) == [coach |-> x, head |-> h, periods |-> both(x, h)]
           InGym(h) == \E p \in GymPeriods : p.member = h /\ p.parent = g /\ p.end = Open
           InTeam(x, h) == \E p \in TeamPeriods : p.member = x /\ p.parent = h /\ p.end = Open
           S == GymScope(TeamPeriods, GymPeriods, g)
<1>1. TeamPeriods \subseteq periods /\ GymPeriods \subseteq periods /\ heads \subseteq Heads
  BY DEF TeamPeriods, GymPeriods
<1>2. \A h : HasOpenPeriod(during(h)) <=> InGym(h)
  BY <1>1, RangesTyped
<1>3. \A x, h : HasOpenPeriod(both(x, h)) <=> InTeam(x, h) /\ InGym(h)
  BY <1>1, <1>2, RangesTyped, IntersectionIs
<1>4. S = {Head(h) : h \in heads} \cup UNION {{Coach(x, h) : x \in {y \in coaches(h) : both(y, h) # {}}} : h \in heads}
  BY DEF GymScope
<1>5. \A h : InGym(h) => h \in heads
  OBVIOUS
<1>6. \A x, h : InTeam(x, h) => x \in coaches(h)
  OBVIOUS
<1>7. \A x, h : HasOpenPeriod(both(x, h)) => both(x, h) # {}
  BY DEF HasOpenPeriod
<1>8. /\ \A h : Head(h).coach = h /\ Head(h).periods = during(h)
      /\ \A x, h : Coach(x, h).coach = x /\ Coach(x, h).periods = both(x, h)
  OBVIOUS
<1> HIDE DEF heads, during, coaches, both, Head, Coach, InGym, InTeam, S
<1>9. \A e : e \in S <=> \/ \E h \in heads : e = Head(h)
                         \/ \E h \in heads : \E x \in coaches(h) : both(x, h) # {} /\ e = Coach(x, h)
  BY <1>4
<1>10. m \in CurrentCoaches(S) <=> \E e \in S : HasOpenPeriod(e.periods) /\ m = e.coach
  BY DEF CurrentCoaches
<1>11. m \in CurrentCoaches(S) <=> InGym(m) \/ \E h \in Heads : InGym(h) /\ InTeam(m, h)
  <2>1. ASSUME m \in CurrentCoaches(S) PROVE InGym(m) \/ \E h \in Heads : InGym(h) /\ InTeam(m, h)
    <3>1. PICK e \in S : HasOpenPeriod(e.periods) /\ m = e.coach
      BY <1>10, <2>1
    <3>2. CASE \E h \in heads : e = Head(h)
      BY <1>2, <1>8, <3>1, <3>2
    <3>3. CASE \E h \in heads : \E x \in coaches(h) : both(x, h) # {} /\ e = Coach(x, h)
      BY <1>1, <1>3, <1>8, <3>1, <3>3
    <3> QED BY <1>9, <3>2, <3>3
  <2>2. ASSUME InGym(m) PROVE m \in CurrentCoaches(S)
    <3>1. Head(m) \in S /\ HasOpenPeriod(Head(m).periods) /\ m = Head(m).coach
      BY <1>2, <1>5, <1>8, <1>9, <2>2
    <3> QED BY <1>10, <3>1
  <2>3. ASSUME NEW h \in Heads, InGym(h), InTeam(m, h) PROVE m \in CurrentCoaches(S)
    <3>1. Coach(m, h) \in S /\ HasOpenPeriod(Coach(m, h).periods) /\ m = Coach(m, h).coach
      BY <1>3, <1>5, <1>6, <1>7, <1>8, <1>9, <2>3
    <3> QED BY <1>10, <3>1
  <2> QED BY <2>1, <2>2, <2>3
<1> QED BY <1>11 DEF S, InGym, InTeam

LEMMA CurrentFromInv == HistoryInv => CurrentScopeIsCurrent
<1> SUFFICES ASSUME HistoryInv PROVE CurrentScopeIsCurrent
  OBVIOUS
<1>0. Typed /\ Heads \subseteq Members /\ Coaches \subseteq Members /\ Gyms \subseteq Parents /\ Heads \subseteq Parents
  BY DEF HistoryInv, Discipline, Members, Parents
<1>1. \A g \in Gyms : Team(g) \subseteq Heads
  BY <1>0, TeamsOf
<1>2. \A h \in Heads : Team(h) \subseteq Coaches
  BY <1>0, TeamsOf
<1>3. \A m, k : m \in Team(k) <=> m \in Members /\ row[m].parent = k
  BY DEF Team
<1>4. ASSUME NEW h \in Heads, \A m \in Coaches : Quiet(m), NEW m
      PROVE  (\E p \in TeamPeriods : p.member = m /\ p.parent = h /\ p.end = Open) <=> m \in Team(h)
  <2>1. \A p : p \in TeamPeriods <=> p \in periods /\ p.member \in Coaches
    BY DEF TeamPeriods
  <2>2. m \in Coaches => ((\E p \in periods : p.member = m /\ p.parent = h /\ p.end = Open) <=> row[m].parent = h)
    BY <1>0, <1>4, OpenPeriodsAre
  <2> QED BY <1>0, <1>2, <1>3, <2>1, <2>2
<1>5. ASSUME NEW g \in Gyms, \A m \in Members : Quiet(m), NEW m
      PROVE  (\E p \in GymPeriods : p.member = m /\ p.parent = g /\ p.end = Open) <=> m \in Team(g)
  <2>1. \A p : p \in GymPeriods <=> p \in periods /\ p.member \in Heads
    BY DEF GymPeriods
  <2>2. m \in Heads => ((\E p \in periods : p.member = m /\ p.parent = g /\ p.end = Open) <=> row[m].parent = g)
    BY <1>0, <1>5, OpenPeriodsAre
  <2> QED BY <1>0, <1>1, <1>3, <2>1, <2>2
<1>6. ASSUME NEW g \in Gyms, \A m \in Members : Quiet(m)
      PROVE  CurrentCoaches(GymScope(TeamPeriods, GymPeriods, g)) = Team(g) \cup UNION {Team(h) : h \in Team(g)}
  <2>1. \A m : m \in CurrentCoaches(GymScope(TeamPeriods, GymPeriods, g)) <=>
                 m \in Team(g) \/ \E h \in Heads : h \in Team(g) /\ m \in Team(h)
    BY <1>0, <1>4, <1>5, <1>6, GymScopes
  <2> QED BY <1>1, <2>1
<1>7. ASSUME NEW h \in Heads
      PROVE  /\ (\A m \in Coaches : Quiet(m)) => HeadClientsCoaches(TeamPeriods, h) = {h} \cup Team(h)
             /\ HeadClientsCoaches(TeamPeriods, h) = CurrentCoaches(TeamScope(TeamPeriods, h, 0))
  <2>1. \A m : m \in HeadClientsCoaches(TeamPeriods, h) <=>
                 m = h \/ \E p \in TeamPeriods : p.member = m /\ p.parent = h /\ p.end = Open
    BY <1>0, HeadScopes
  <2>2. (\A m \in Coaches : Quiet(m)) => \A m : m \in HeadClientsCoaches(TeamPeriods, h) <=> m = h \/ m \in Team(h)
    BY <1>4, <2>1
  <2> QED BY <1>0, <2>2, HeadScopes
<1> QED BY <1>6, <1>7 DEF CurrentScopeIsCurrent

\* The coaches whose clients a gym's owner or a head coach can look up are those who are there now,
\* when no history is behind; and a head coach's list and his scope agree in any case.
THEOREM Spec_CurrentScopeIsCurrent == Spec => []CurrentScopeIsCurrent
<1>1. Spec => []HistoryInv
  BY HistoryInit, HistoryStep, PTL DEF Spec
<1> QED BY <1>1, CurrentFromInv, PTL

-----------------------------------------------------------------------------
(* The history of a member is disjoint *)

DisjointInv == HistoryInv /\ OneAtATime /\ NothingToRepair /\ InThePast /\ InOrder

LEMMA InstantsAre ==
    ASSUME Typed
    PROVE  /\ now \in Nat
           /\ \A m \in Members : row[m].at \in Nat
           /\ \A p \in periods : p.start \in Nat /\ (p.end = Open \/ (p.end # Open /\ p.end \in Nat))
           /\ \A q \in Requests : /\ req[q].at \in Nat /\ req[q].since \in Nat
                                  /\ \A x \in req[q].rows \cup req[q].todo : x.at \in Nat
<1>1. Times \subseteq Nat /\ Open \notin Times
  BY Sorts
<1>2. ASSUME NEW q \in Requests
      PROVE  req[q].at \in Nat /\ req[q].since \in Nat /\ \A x \in req[q].rows \cup req[q].todo : x.at \in Nat
  <2>1. req[q] \in Request
    BY RequestOf
  <2> QED BY <1>1, <2>1 DEF Request, Row
<1>3. \A p \in periods : p \in Period
  BY DEF Typed
<1>4. \A p \in periods : p.start \in Nat /\ (p.end = Open \/ (p.end # Open /\ p.end \in Nat))
  BY <1>1, <1>3 DEF Period
<1> QED BY <1>1, <1>2, <1>4 DEF Typed

\* Whom a request still owes history of, it concerns.
LEMMA OwesConcerns ==
    ASSUME NEW q \in Requests, NEW m, NEW k, Owes(q, m, k)
    PROVE  Concerns(req[q], m)
  BY DEF Owes, Concerns

LEMMA AwaitsConcerns ==
    ASSUME Typed, NEW q \in Requests, NEW m \in Members, Awaits(req[q], m)
    PROVE  Concerns(req[q], m)
<1>1. req[q] \in Request /\ Shape(req[q])
  BY RequestOf
<1>2. Opens(req[q], m) => Concerns(req[q], m)
  BY <1>1, PointsOf DEF Opens, Concerns
<1>3. Closes(req[q], m) => Concerns(req[q], m)
  BY <1>1, PointsOf DEF Closes, Concerns
<1>4. req[q].pc = "closeParent" => Concerns(req[q], m)
  BY <1>1, PointsOf DEF Concerns
<1> QED BY <1>2, <1>3, <1>4 DEF Awaits

\* A reconciliation that runs alone finds the member aligned.
LEMMA AlignedAlone ==
    ASSUME DisjointInv, NEW q \in Requests, req[q].op = "reconcile", NEW m \in Members, m \notin raced
    PROVE  Aligned(m) /\ InStep(req[q], m)
<1>1. m \notin torn /\ Sound(m) /\ Typed
  BY DEF DisjointInv, OneAtATime, Sound, HistoryInv, Discipline
<1>2. ASSUME NEW x \in Requests, Awaits(req[x], m) PROVE FALSE
  <2>1. x = q
    BY <1>1, <1>2, AwaitsConcerns DEF DisjointInv, OneAtATime, Concerns
  <2>2. req[q].pc \notin {"closeMember", "closeOwn", "closeParent"}
    BY <1>1, RequestOf DEF Shape, Opening
  <2>3. ~Opens(req[q], m)
    BY DEF DisjointInv, NothingToRepair, Spares
  <2> QED BY <1>2, <2>1, <2>2, <2>3 DEF Awaits, Closes
<1> QED BY <1>1, <1>2 DEF DisjointInv, HistoryInv, HistoryAwaited, Discipline, RequestsInStep

\* A request goes on as w: about nobody else, at the time it took from the clock.
Narrows(r, w) ==
    /\ \A m \in Members : Concerns(w, m) => Concerns(r, m)
    /\ Timed(w) => Timed(r) /\ w.at = r.at
    /\ Past(r) => Past(w)

LEMMA IdleNarrows == ASSUME Typed, NEW r PROVE Narrows(r, Idle)
<1>1. Idle.at = 0 /\ Idle.since = 0 /\ now \in Nat
  BY InstantsAre DEF Idle
<1> QED BY <1>1, IdleIsOne DEF Narrows, Concerns, Timed, Past

LEMMA MovedNarrows ==
    ASSUME NEW r \in Request, NEW pc, Turns(r, pc), Shape(r)
    PROVE  Narrows(r, Moved(r, pc))
<1>1. PICK w : w = Moved(r, pc)
  OBVIOUS
<1>2. /\ w.op = r.op /\ w.pc = pc /\ w.member = r.member /\ w.at = r.at /\ w.since = r.since
      /\ w.rows = r.rows /\ w.todo = r.todo
  BY <1>1, MovedIs
<1>3. Timed(w) => Timed(r)
  BY <1>2, PointsOf DEF Timed, Turns
<1> QED BY <1>1, <1>2, <1>3 DEF Narrows, Concerns, Past

LEMMA GoneNarrows ==
    ASSUME Typed, NEW q \in Requests, Opening(req[q])
    PROVE  Narrows(req[q], Gone(req[q]))
<1>1. PICK w : w = Gone(req[q])
  OBVIOUS
<1>2. req[q] \in Request /\ now \in Nat
  BY RequestOf, InstantsAre
<1>3. CASE w = Idle
  BY <1>1, <1>3, IdleNarrows
<1>4. CASE /\ req[q].op = "reconcile" /\ w.op = "reconcile" /\ w.pc = "next" /\ w.todo = req[q].todo
           /\ w.rows = req[q].rows /\ w.at = 0 /\ w.since = req[q].since
  BY <1>1, <1>2, <1>4 DEF Narrows, Concerns, Timed, Past
<1> QED BY <1>1, <1>2, <1>3, <1>4, GoneIs

LEMMA ReadsNarrow ==
    ASSUME Typed, InThePast, NEW q \in Requests, Reads(q)
    PROVE  \E w : Became(q, w) /\ Narrows(req[q], w) /\ UNCHANGED <<now, row, periods, torn, raced>>
<1> DEFINE r == req[q]
<1>0. Past(r) /\ now \in Nat /\ \A m \in Members : row[m].at <= now
  BY InstantsAre DEF InThePast
<1>1. ASSUME NEW w, Proceeds(q, w), w.pc \notin {"closeMember", "closeOwn", "closeParent", "gym"}, Past(w)
      PROVE  Narrows(r, w)
  BY <1>1 DEF Proceeds, Narrows, Concerns, Timed
<1>2. CASE ReadRows(q)
  <2>1. PICK w : /\ Proceeds(q, w) /\ w.pc = "open" /\ w.at = r.at /\ w.todo = r.todo
                 /\ w.rows = {[member |-> m, parent |-> row[m].parent, at |-> row[m].at] :
                                m \in {c \in Coaches : row[c] # NoRow}}
    BY <1>2, ReadRowsIs
  <2>2. \A x \in w.rows : x.at <= now
    BY <1>0, <2>1 DEF Members
  <2>3. Past(w)
    BY <1>0, <2>1, <2>2 DEF Past, Proceeds
  <2> QED BY <1>1, <2>1, <2>3 DEF Proceeds
<1>3. CASE ReadOpen(q)
  <2>1. PICK w : /\ Proceeds(q, w) /\ w.pc = "next" /\ w.at = r.at /\ w.rows = {}
                 /\ w.todo = {x \in r.rows : ~ \E p \in OpenOf(x.member) : p.parent = x.parent}
    BY <1>3, ReadOpenIs
  <2>2. Past(w)
    BY <1>0, <2>1 DEF Past, Proceeds
  <2> QED BY <1>1, <2>1, <2>2 DEF Proceeds
<1>4. CASE Repair(q)
  <2>1. PICK w : /\ Proceeds(q, w) /\ w.rows = r.rows
                 /\ \/ w.pc = "orphans" /\ w.at = r.at /\ w.todo = {}
                    \/ \E x \in r.todo : w.pc = "find" /\ w.todo = r.todo \ {x} /\ w.at = x.at
    BY <1>4, RepairIs
  <2>2. Past(w)
    BY <1>0, <2>1 DEF Past, Proceeds
  <2> QED BY <1>1, <2>1, <2>2 DEF Proceeds
<1>5. CASE ReadOrphans(q)
  <2>1. PICK w : /\ Proceeds(q, w) /\ w.pc = "existing" /\ w.at = r.at /\ w.todo = r.todo
                 /\ w.rows = {[member |-> p.member, parent |-> p.parent, at |-> 0] :
                                p \in UNION {OpenOf(c) : c \in Coaches}}
    BY <1>5, ReadOrphansIs
  <2>2. \A x \in w.rows : x.at = 0
    BY <2>1
  <2>3. Past(w)
    BY <1>0, <2>1, <2>2 DEF Past, Proceeds
  <2> QED BY <1>1, <2>1, <2>3 DEF Proceeds
<1>6. CASE ReadExisting(q)
  <2>1. PICK w : /\ Proceeds(q, w) /\ w.pc = "orphan" /\ w.at = r.at /\ w.rows = {}
                 /\ w.todo = {x \in r.rows : row[x.member] = NoRow}
    BY <1>6, ReadExistingIs
  <2>2. Past(w)
    BY <1>0, <2>1 DEF Past, Proceeds
  <2> QED BY <1>1, <2>1, <2>2 DEF Proceeds
<1> QED BY <1>2, <1>3, <1>4, <1>5, <1>6 DEF Reads

Continues(q) == Advances(q) \/ EndReconcile(q)

LEMMA AdvancesNarrow ==
    ASSUME Typed, InThePast, NEW q \in Requests, Continues(q)
    PROVE  /\ Narrows(req[q], req'[q]) /\ \A x \in Requests \ {q} : req'[x] = req[x]
           /\ row' = row /\ now' = now /\ raced \subseteq raced' /\ torn' \subseteq torn \cup raced'
<1> DEFINE r == req[q]
<1>0. r \in Request /\ Shape(r) /\ Narrows(r, Idle)
  BY RequestOf, IdleNarrows
<1>1. ASSUME NEW w, Became(q, w) PROVE req'[q] = w /\ \A x \in Requests \ {q} : req'[x] = req[x]
  BY <1>1, BecameTyped
<1>2. CASE Find(q)
  <2>1. Opening(r) /\ r.pc = "find" /\ UNCHANGED <<now, row, torn, raced>>
    BY <1>2, FindIs
  <2>2. Narrows(r, Moved(r, "insert")) /\ Narrows(r, Moved(r, "close")) /\ Narrows(r, Gone(r))
    BY <1>0, <2>1, MovedNarrows, GoneNarrows DEF Turns
  <2> QED BY <1>1, <1>2, <2>1, <2>2, FindIs
<1>3. CASE CloseOther(q)
  <2>1. Opening(r) /\ UNCHANGED <<now, row, torn, raced>> /\ Became(q, Moved(r, "insert"))
    BY <1>3, CloseOtherIs
  <2>2. Narrows(r, Moved(r, "insert"))
    BY <1>0, <2>1, MovedNarrows DEF Turns
  <2> QED BY <1>1, <2>1, <2>2
<1>4. CASE Insert(q)
  <2>1. Opening(r) /\ UNCHANGED <<now, row, torn, raced>> /\ Became(q, Gone(r))
    BY <1>4, InsertIs
  <2> QED BY <1>1, <2>1, GoneNarrows
<1>5. CASE CloseMember(q)
  BY <1>0, <1>1, <1>5, CloseMemberIs
<1>6. CASE CloseOwn(q)
  <2>1. r.pc = "closeOwn" /\ UNCHANGED <<now, row, torn, raced>> /\ Became(q, Moved(r, "closeParent"))
    BY <1>6, CloseOwnIs
  <2>2. Narrows(r, Moved(r, "closeParent"))
    BY <1>0, <2>1, MovedNarrows DEF Turns
  <2> QED BY <1>1, <2>1, <2>2
<1>7. CASE CloseParent(q)
  <2>1. r.pc = "closeParent" /\ UNCHANGED <<now, row, torn, raced>>
    BY <1>7, CloseParentIs
  <2>2. r.op = "delete" => Narrows(r, Moved(r, "gym"))
    BY <1>0, <2>1, MovedNarrows DEF Turns
  <2> QED BY <1>0, <1>1, <1>7, <2>1, <2>2, CloseParentIs
<1>8. CASE FailHistory(q)
  <2>1. r.op = "delete" /\ r.pc = "closeParent" => Narrows(r, Moved(r, "gym"))
    BY <1>0, MovedNarrows DEF Turns
  <2>2. r.pc = "closeOwn" => Narrows(r, Moved(r, "closeParent"))
    BY <1>0, MovedNarrows DEF Turns
  <2>3. /\ UNCHANGED <<now, row>> /\ torn' = torn \cup Left(q) /\ raced' = raced \cup Left(q)
        /\ \/ Became(q, Idle)
           \/ r.pc = "closeOwn" /\ Became(q, Moved(r, "closeParent"))
           \/ r.op = "delete" /\ r.pc = "closeParent" /\ Became(q, Moved(r, "gym"))
    BY <1>8, FailHistoryIs
  <2> QED BY <1>0, <1>1, <2>1, <2>2, <2>3
<1>9. CASE Reads(q)
  BY <1>1, <1>9, ReadsNarrow
<1>10. CASE CloseOrphan(q)
  <2>1. PICK w, x : /\ Became(q, w) /\ r.op = "reconcile" /\ w.op = "reconcile" /\ w.pc = "orphan"
                    /\ w.todo = r.todo \ {x} /\ w.at = r.at /\ w.since = r.since /\ w.rows = r.rows
                    /\ UNCHANGED <<now, row, torn, raced>>
    BY <1>10, CloseOrphanIs
  <2>2. Narrows(r, w)
    BY <2>1 DEF Narrows, Concerns, Timed, Past
  <2> QED BY <1>1, <2>1, <2>2
<1>11. CASE EndReconcile(q)
  <2>1. Became(q, Idle) /\ UNCHANGED <<now, row, raced>> /\ torn' \subseteq torn
    BY <1>11, EndReconcileIs
  <2> QED BY <1>0, <1>1, <2>1
<1> QED BY <1>2, <1>3, <1>4, <1>5, <1>6, <1>7, <1>8, <1>9, <1>10, <1>11 DEF Continues, Advances

LEMMA AdvancesSpare ==
    ASSUME DisjointInv, NEW q \in Requests, Continues(q), req'[q].op = "reconcile", NEW m \in Members \ raced
    PROVE  Spares(req'[q], m)
<1> DEFINE r == req[q]
<1>0. Typed /\ r \in Request /\ Shape(r)
  BY RequestOf DEF DisjointInv, HistoryInv, Discipline
<1>1. ASSUME NEW w, Became(q, w) PROVE req'[q] = w
  BY <1>0, <1>1, BecameTyped
<1>2. r.op = "reconcile" => Spares(r, m) /\ Aligned(m) /\ InStep(r, m)
  BY AlignedAlone DEF DisjointInv, NothingToRepair
<1>3. CASE Find(q) \/ CloseOther(q) \/ Insert(q)
  <2>1. /\ Opening(r)
        /\ \/ Became(q, Moved(r, "insert")) \/ Became(q, Moved(r, "close")) \/ Became(q, Gone(r))
    BY <1>0, <1>3, FindIs, CloseOtherIs, InsertIs
  <2>2. CASE Became(q, Gone(r))
    <3>1. req'[q] = Gone(r) /\ r.op = "reconcile"
      BY <1>0, <1>1, <2>2, GoneOp
    <3>2. req'[q].pc = "next" /\ req'[q].todo = r.todo
      BY <1>0, <3>1, GoneIs
    <3> QED BY <1>2, <2>1, <3>1, <3>2 DEF Spares, Opens, Opening, Repairing
  <2>3. ASSUME NEW pc \in {"insert", "close"}, Became(q, Moved(r, pc)) PROVE Spares(req'[q], m)
    <3>1. req'[q].op = r.op /\ req'[q].pc = pc /\ req'[q].member = r.member /\ req'[q].todo = r.todo
      BY <1>0, <1>1, <2>3, MovedIs
    <3> QED BY <1>2, <2>1, <3>1 DEF Spares, Opens, Opening, Repairing
  <2> QED BY <2>1, <2>2, <2>3
<1>4. CASE CloseMember(q) \/ CloseOwn(q) \/ CloseParent(q) \/ FailHistory(q) \/ EndReconcile(q)
  <2>1. \/ Became(q, Idle)
        \/ r.op = "delete" /\ (Became(q, Moved(r, "gym")) \/ Became(q, Moved(r, "closeParent")))
    BY <1>0, <1>4, CloseMemberIs, CloseOwnIs, CloseParentIs, FailHistoryIs, EndReconcileIs
  <2>2. \A pc : Moved(r, pc).op = r.op
    BY <1>0, MovedIs
  <2>3. req'[q].op # "reconcile"
    BY <1>1, <2>1, <2>2, IdleIsOne
  <2> QED BY <2>3
<1>5. CASE ReadRows(q)
  <2>1. PICK w : Proceeds(q, w) /\ w.pc = "open"
    BY <1>0, <1>5, ReadRowsIs
  <2>2. req'[q] = w
    BY <1>1, <2>1 DEF Proceeds
  <2> QED BY <2>1, <2>2 DEF Spares, Opens, Opening, Repairing
<1>6. CASE ReadOpen(q)
  <2>1. PICK w : /\ Proceeds(q, w) /\ r.pc = "open" /\ w.pc = "next"
                 /\ w.todo = {x \in r.rows : ~ \E p \in OpenOf(x.member) : p.parent = x.parent}
    BY <1>0, <1>6, ReadOpenIs
  <2>2. req'[q] = w /\ r.op = "reconcile"
    BY <1>1, <2>1 DEF Proceeds
  <2>3. ASSUME NEW x \in w.todo, x.member = m PROVE FALSE
    <3>1. x \in r.rows /\ x \in Row
      BY <1>0, <2>1, <2>3 DEF Request
    <3>2. x.parent = row[m].parent /\ x.parent \in Heads
      BY <1>2, <2>1, <2>2, <2>3, <3>1 DEF InStep, Row
    <3>3. row[m] # NoRow
      BY <3>2, PeriodsAssumption DEF NoRow
    <3>4. \E p \in OpenOf(m) : p.parent = x.parent
      BY <1>2, <2>2, <3>2, <3>3 DEF Aligned
    <3> QED BY <2>1, <2>3, <3>4
  <2> QED BY <2>1, <2>2, <2>3 DEF Spares, Opens, Opening, Repairing
<1>7. CASE Repair(q)
  <2>1. PICK w : /\ Proceeds(q, w) /\ r.pc = "next"
                 /\ \/ w.pc = "orphans" /\ w.todo = {}
                    \/ \E x \in r.todo : w.pc = "find" /\ w.todo = r.todo \ {x} /\ w.member = x.member
    BY <1>0, <1>7, RepairIs
  <2>2. req'[q] = w /\ r.op = "reconcile"
    BY <1>1, <2>1 DEF Proceeds
  <2> QED BY <1>2, <2>1, <2>2 DEF Spares, Opens, Opening, Repairing
<1>8. CASE ReadOrphans(q)
  <2>1. PICK w : /\ Proceeds(q, w) /\ w.pc = "existing"
                 /\ w.rows = {[member |-> p.member, parent |-> p.parent, at |-> 0] :
                                p \in UNION {OpenOf(c) : c \in Coaches}}
    BY <1>0, <1>8, ReadOrphansIs
  <2>2. req'[q] = w /\ r.op = "reconcile"
    BY <1>1, <2>1 DEF Proceeds
  <2>3. ASSUME NEW x \in w.rows, x.member = m PROVE row[m] # NoRow
    <3>1. PICK p \in UNION {OpenOf(c) : c \in Coaches} : x.member = p.member
      BY <2>1, <2>3
    <3>2. p \in OpenOf(m)
      BY <2>3, <3>1 DEF OpenOf
    <3> QED BY <1>2, <2>2, <3>2 DEF Aligned
  <2> QED BY <2>1, <2>2, <2>3 DEF Spares, Opens, Opening, Repairing
<1>9. CASE ReadExisting(q)
  <2>1. PICK w : /\ Proceeds(q, w) /\ r.pc = "existing" /\ w.pc = "orphan"
                 /\ w.todo = {x \in r.rows : row[x.member] = NoRow}
    BY <1>0, <1>9, ReadExistingIs
  <2>2. req'[q] = w /\ r.op = "reconcile"
    BY <1>1, <2>1 DEF Proceeds
  <2> QED BY <1>2, <2>1, <2>2 DEF Spares, Opens, Opening, Repairing
<1>10. CASE CloseOrphan(q)
  <2>1. PICK w, x : Became(q, w) /\ r.op = "reconcile" /\ r.pc = "orphan" /\ w.pc = "orphan" /\ w.todo = r.todo \ {x}
    BY <1>0, <1>10, CloseOrphanIs
  <2>2. req'[q] = w
    BY <1>1, <2>1
  <2> QED BY <1>2, <2>1, <2>2 DEF Spares, Opens, Opening, Repairing
<1> QED BY <1>3, <1>4, <1>5, <1>6, <1>7, <1>8, <1>9, <1>10 DEF Continues, Advances, Reads

\* The periods that a request closes end after they started, and before the next one.
LEMMA ClosingInOrder ==
    ASSUME DisjointInv, NEW q \in Requests, Continues(q), NEW S, S \subseteq {p \in periods : p.end = Open},
           NEW at \in Times, at <= now, periods' = Closed(S, at),
           \A p \in S : p.member \notin raced =>
             Timed(req[q]) /\ Concerns(req[q], p.member) /\ at = req[q].at
    PROVE  InOrder' /\ \A p \in periods' : Before(p, now)
<1>0. Typed /\ OnlyOnce /\ InThePast /\ InOrder /\ OneAtATime
  BY DEF DisjointInv, HistoryInv, Discipline
<1>1. at \in Times /\ at \in Nat /\ at # Open
  BY Sorts
<1>2. /\ Narrows(req[q], req'[q]) /\ \A x \in Requests \ {q} : req'[x] = req[x]
      /\ raced \subseteq raced'
  BY <1>0, AdvancesNarrow
<1>3. /\ now \in Nat
      /\ \A p \in periods : p.start \in Nat /\ (p.end = Open \/ (p.end # Open /\ p.end \in Nat))
  BY <1>0, InstantsAre
<1> DEFINE Base(p, x) == \/ p = x /\ x \in periods \ S
                         \/ x \in S /\ p = [x EXCEPT !.end = at]
<1>4. \A p \in periods' : \E x \in periods : Base(p, x)
  <2>1. \A p \in periods' : p \in periods \ S \/ \E x \in S : p = [x EXCEPT !.end = at]
    BY <1>0, <1>1, ClosedOf
  <2> QED BY <2>1
<1>5. \A x \in S : /\ [x EXCEPT !.end = at].member = x.member /\ [x EXCEPT !.end = at].start = x.start
                   /\ [x EXCEPT !.end = at].end = at /\ x \in periods /\ x.end = Open
  BY <1>0 DEF Typed, Period
<1>6. ASSUME NEW p, NEW x \in periods, Base(p, x)
      PROVE  /\ p.member = x.member /\ p.start = x.start
             /\ \/ p = x /\ x \notin S
                \/ p.end = at /\ x \in S /\ x.end = Open
  BY <1>5, <1>6
<1>7. \A p, p2, x : Base(p, x) /\ Base(p2, x) => p = p2
  OBVIOUS
<1>8. ASSUME NEW x \in S, x.member \in Members \ raced
      PROVE  Timed(req[q]) /\ Concerns(req[q], x.member) /\ at = req[q].at /\ x.start <= at
  <2>1. Timed(req[q]) /\ Concerns(req[q], x.member) /\ at = req[q].at
    BY <1>8
  <2> QED BY <1>0, <1>8, <2>1 DEF InOrder, Before
<1>9. \A p \in periods' : Before(p, now)
  <2> SUFFICES ASSUME NEW p \in periods' PROVE Before(p, now)
    OBVIOUS
  <2>1. PICK x \in periods : Base(p, x)
    BY <1>4
  <2>2. Before(x, now)
    BY <1>0 DEF InThePast
  <2> QED BY <1>1, <1>6, <2>1, <2>2 DEF Before
<1>10. ASSUME NEW m \in Members \ raced', NEW p \in periods', p.member = m
       PROVE  /\ p.end = Open \/ p.start <= p.end
              /\ \A y \in Requests : Timed(req'[y]) /\ Concerns(req'[y], m) => Before(p, req'[y].at)
              /\ \A p2 \in periods' : p2.member = m /\ p2 # p => Apart(p, p2) \/ Apart(p2, p)
  <2>1. PICK x \in periods : Base(p, x)
    BY <1>4
  <2>2. /\ p.member = x.member /\ p.start = x.start /\ m \in Members \ raced
        /\ \/ p = x /\ x \notin S
           \/ p.end = at /\ x \in S /\ x.end = Open
    BY <1>2, <1>6, <1>10, <2>1
  <2>3. x \in S => Timed(req[q]) /\ Concerns(req[q], m) /\ at = req[q].at /\ x.start <= at
    BY <1>8, <1>10, <2>2
  <2>4. p.end = Open \/ p.start <= p.end
    BY <1>0, <1>10, <2>2, <2>3 DEF InOrder
  <2>5. ASSUME NEW y \in Requests, Timed(req'[y]), Concerns(req'[y], m) PROVE Before(p, req'[y].at)
    <3>1. Timed(req[y]) /\ Concerns(req[y], m) /\ req'[y].at = req[y].at
      BY <1>2, <2>2, <2>5 DEF Narrows
    <3>2. Before(x, req[y].at)
      BY <1>0, <1>10, <2>2, <3>1 DEF InOrder
    <3>3. x \in S => y = q
      BY <1>0, <2>2, <2>3, <3>1 DEF OneAtATime
    <3> QED BY <1>1, <2>2, <2>3, <3>1, <3>2, <3>3 DEF Before
  <2>6. ASSUME NEW p2 \in periods', p2.member = m, p2 # p PROVE Apart(p, p2) \/ Apart(p2, p)
    <3>1. PICK x2 \in periods : Base(p2, x2)
      BY <1>4
    <3>2. /\ p2.member = x2.member /\ p2.start = x2.start
          /\ \/ p2 = x2 /\ x2 \notin S
             \/ p2.end = at /\ x2 \in S /\ x2.end = Open
      BY <1>6, <3>1
    <3>3. x # x2
      BY <1>7, <2>1, <2>6, <3>1
    <3>4. Apart(x, x2) \/ Apart(x2, x)
      BY <1>0, <1>10, <2>2, <2>6, <3>2, <3>3 DEF InOrder
    <3> QED BY <2>2, <3>2, <3>4 DEF Apart
  <2> QED BY <2>4, <2>5, <2>6
<1> QED BY <1>9, <1>10 DEF InOrder

\* The period that a request opens starts when the ones before it have ended.
LEMMA InsertInOrder ==
    ASSUME DisjointInv, NEW q \in Requests, Insert(q)
    PROVE  InOrder' /\ \A p \in periods' : Before(p, now)
<1>0. Typed /\ OnlyOnce /\ InThePast /\ InOrder /\ OneAtATime /\ Continues(q)
  BY DEF DisjointInv, HistoryInv, Discipline, Continues, Advances
<1>1. PICK r : r = req[q]
  OBVIOUS
<1>2. /\ r \in Request /\ Shape(r) /\ Opening(r) /\ Opened(r) \in Period /\ periods' = Inserted(Opened(r))
      /\ r.at <= now /\ r.at \in Nat /\ now \in Nat
  BY <1>0, <1>1, RequestOf, InsertIs, InstantsAre DEF InThePast, Past
<1>3. /\ Narrows(r, req'[q]) /\ \A x \in Requests \ {q} : req'[x] = req[x]
      /\ raced \subseteq raced'
  BY <1>0, <1>1, AdvancesNarrow
<1>4. PICK n : n = Opened(r) /\ n.member = r.member /\ n.start = r.at /\ n.end = Open /\ n \in Period
  BY <1>2 DEF Opened
<1>5. r.member \in Members \ raced => r.op = "assign"
  <2>1. Opens(r, r.member) /\ r.op \in {"assign", "reconcile"}
    BY <1>2, PointsOf DEF Opens
  <2> QED BY <1>1, <2>1 DEF DisjointInv, NothingToRepair, Spares
<1>6. ASSUME NEW m \in Members \ raced, m = r.member
      PROVE  Timed(r) /\ Concerns(r, m)
  BY <1>5, <1>6 DEF Timed, Concerns
<1>7. req'[q].op # "assign" /\ ~Timed(req'[q])
  <2>1. Became(q, Gone(r))
    BY <1>0, <1>1, InsertIs
  <2>2. req'[q] = Gone(r)
    BY <1>0, <2>1, BecameTyped
  <2> QED BY <1>2, <2>2, GoneIs, IdleIsOne DEF Timed
<1>8. \A x \in Requests : Timed(req'[x]) => x # q /\ req'[x] = req[x]
  BY <1>3, <1>7
<1>9. CASE periods' = periods
  BY <1>0, <1>3, <1>8, <1>9 DEF InOrder, InThePast
<1>10. CASE periods' # periods
  <2>1. periods' = periods \cup {n} /\ OpenOf(r.member) = {}
    BY <1>2, <1>4, <1>10 DEF Inserted
  <2>2. \A p \in periods' : Before(p, now)
    BY <1>0, <1>2, <1>4, <2>1 DEF InThePast, Before
  <2>3. ASSUME NEW p \in periods, p.member = r.member, r.member \in Members \ raced PROVE Apart(p, n)
    <3>1. p.end # Open
      BY <2>1, <2>3 DEF OpenOf
    <3>2. Before(p, r.at)
      BY <1>0, <1>1, <1>6, <2>3 DEF InOrder
    <3> QED BY <1>4, <3>1, <3>2 DEF Before, Apart
  <2>4. ASSUME NEW m \in Members \ raced', NEW p \in periods', p.member = m
        PROVE  /\ p.end = Open \/ p.start <= p.end
               /\ \A y \in Requests : Timed(req'[y]) /\ Concerns(req'[y], m) => Before(p, req'[y].at)
               /\ \A p2 \in periods' : p2.member = m /\ p2 # p => Apart(p, p2) \/ Apart(p2, p)
    <3>0. m \in Members \ raced
      BY <1>3
    <3>1. CASE p = n
      <4>1. ASSUME NEW y \in Requests, Timed(req'[y]), Concerns(req'[y], m) PROVE FALSE
        <5>1. y # q /\ Concerns(req[y], m)
          BY <1>8, <4>1
        <5>2. Concerns(req[q], m)
          BY <1>1, <1>4, <1>6, <2>4, <3>0, <3>1
        <5> QED BY <1>0, <3>0, <5>1, <5>2 DEF OneAtATime
      <4> QED BY <1>4, <2>1, <2>3, <2>4, <3>0, <3>1, <4>1
    <3>2. CASE p # n
      <4>1. p \in periods
        BY <2>1, <3>2
      <4>2. /\ p.end = Open \/ p.start <= p.end
            /\ \A y \in Requests : Timed(req[y]) /\ Concerns(req[y], m) => Before(p, req[y].at)
            /\ \A p2 \in periods : p2.member = m /\ p2 # p => Apart(p, p2) \/ Apart(p2, p)
        BY <1>0, <2>4, <3>0, <4>1 DEF InOrder
      <4> QED BY <1>4, <1>8, <2>1, <2>3, <2>4, <3>0, <4>1, <4>2
    <3> QED BY <3>1, <3>2
  <2> QED BY <2>2, <2>4 DEF InOrder
<1> QED BY <1>9, <1>10

\* Steps that leave the periods alone: whoever closes or opens next does so by the clock.
LEMMA KeptOrder ==
    ASSUME DisjointInv, periods' = periods, raced \subseteq raced',
           \A x \in Requests, m \in Members : Timed(req'[x]) /\ Concerns(req'[x], m) =>
             \/ req'[x].at = now
             \/ Timed(req[x]) /\ Concerns(req[x], m) /\ req'[x].at = req[x].at
    PROVE  InOrder'
<1>1. \A p \in periods : Before(p, now)
  BY DEF DisjointInv, InThePast
<1>2. ASSUME NEW m \in Members \ raced', NEW p \in periods, p.member = m
      PROVE  /\ p.end = Open \/ p.start <= p.end
             /\ \A y \in Requests : Timed(req'[y]) /\ Concerns(req'[y], m) => Before(p, req'[y].at)
             /\ \A p2 \in periods : p2.member = m /\ p2 # p => Apart(p, p2) \/ Apart(p2, p)
  BY <1>1, <1>2 DEF DisjointInv, InOrder
<1> QED BY <1>2 DEF InOrder

LEMMA ContinuesInOrder ==
    ASSUME DisjointInv, NEW q \in Requests, Continues(q)
    PROVE  InOrder' /\ \A p \in periods' : Before(p, now)
<1> DEFINE r == req[q]
<1>0. /\ Typed /\ OnlyOnce /\ InThePast /\ InOrder /\ OneAtATime /\ r \in Request /\ Shape(r)
      /\ periods \subseteq Period
  BY RequestOf DEF DisjointInv, HistoryInv, Discipline, Typed
<1>11. r.at \in Times /\ r.since \in Times /\ r.at <= now /\ r.since <= now
  BY <1>0 DEF InThePast, Past, Request
<1>1. \A S : S \subseteq periods => \A p \in S : p.member \in Members
  BY <1>0 DEF Period
<1>2. \A m : OpenOf(m) \subseteq {p \in periods : p.end = Open} /\ \A p \in OpenOf(m) : p.member = m
  BY DEF OpenOf
<1>3. \A m \in Members \ raced : Opens(r, m) => r.op = "assign"
  BY <1>0, PointsOf DEF DisjointInv, NothingToRepair, Spares, Opens
<1>4. CASE CloseOther(q)
  <2>1. periods' = Closed(OpenOf(r.member), r.at) /\ Opening(r)
    BY <1>0, <1>4, CloseOtherIs
  <2>2. ASSUME NEW p \in OpenOf(r.member), p.member \notin raced PROVE Timed(r) /\ Concerns(r, p.member)
    BY <1>1, <1>2, <1>3, <2>1, <2>2 DEF Opens, Timed, Concerns
  <2> QED BY <1>2, <2>1, <2>2, <1>11, ClosingInOrder
<1>5. CASE CloseMember(q)
  <2>1. periods' = Closed(OpenOf(r.member), r.at) /\ r.pc = "closeMember"
    BY <1>0, <1>5, CloseMemberIs
  <2>2. ASSUME NEW p \in OpenOf(r.member) PROVE Timed(r) /\ Concerns(r, p.member)
    BY <1>0, <1>2, <2>1, PointsOf DEF Timed, Concerns
  <2> QED BY <1>2, <2>1, <2>2, <1>11, ClosingInOrder
<1>6. CASE CloseOwn(q)
  <2>1. periods' = Closed(OpenOf(r.parent), r.at) /\ r.pc = "closeOwn" /\ r.op = "delete"
    BY <1>0, <1>6, CloseOwnIs
  <2>2. Timed(r) /\ \A m : Concerns(r, m)
    BY <2>1 DEF Timed, Concerns
  <2> QED BY <1>2, <2>1, <2>2, <1>11, ClosingInOrder
<1>7. CASE CloseParent(q)
  <2>1. periods' = Closed(OpenUnder(r.parent), r.at) /\ r.pc = "closeParent" /\ r.op \in {"release", "delete"}
    BY <1>0, <1>7, CloseParentIs
  <2>2. Timed(r) /\ (\A m : Concerns(r, m)) /\ OpenUnder(r.parent) \subseteq {p \in periods : p.end = Open}
    BY <2>1 DEF Timed, Concerns, OpenUnder
  <2> QED BY <2>1, <2>2, <1>11, ClosingInOrder
<1>8. CASE CloseOrphan(q)
  <2>1. PICK x : x \in r.todo /\ periods' = Closed(OpenOf(x.member), r.since) /\ r.pc = "orphan" /\ r.op = "reconcile"
    BY <1>0, <1>8, CloseOrphanIs
  <2>2. ASSUME NEW p \in OpenOf(x.member), p.member \notin raced PROVE FALSE
    <3>1. x.member \in Members \ raced
      BY <1>1, <1>2, <2>2
    <3> QED BY <2>1, <3>1 DEF DisjointInv, NothingToRepair, Spares
  <2> QED BY <1>2, <2>1, <2>2, <1>11, ClosingInOrder
<1>9. CASE Insert(q)
  BY <1>9, InsertInOrder
<1>10. CASE Find(q) \/ FailHistory(q) \/ Reads(q) \/ EndReconcile(q)
  <2>1. periods' = periods
    BY <1>0, <1>10, FindIs, FailHistoryIs, ReadsProceed, EndReconcileIs DEF Proceeds
  <2>2. /\ Narrows(r, req'[q]) /\ \A x \in Requests \ {q} : req'[x] = req[x]
        /\ raced \subseteq raced'
    BY <1>0, AdvancesNarrow
  <2>3. \A x \in Requests, m \in Members : Timed(req'[x]) /\ Concerns(req'[x], m) =>
          Timed(req[x]) /\ Concerns(req[x], m) /\ req'[x].at = req[x].at
    BY <2>2 DEF Narrows
  <2> QED BY <1>0, <2>1, <2>2, <2>3, KeptOrder DEF InThePast
<1> QED BY <1>4, <1>5, <1>6, <1>7, <1>8, <1>9, <1>10 DEF Continues, Advances

LEMMA ContinuesDisjoint ==
    ASSUME DisjointInv, NEW q \in Requests, Continues(q)
    PROVE  OneAtATime' /\ NothingToRepair' /\ InThePast' /\ InOrder'
<1>0. Typed /\ InThePast /\ OneAtATime /\ NothingToRepair
  BY DEF DisjointInv, HistoryInv, Discipline
<1>1. /\ Narrows(req[q], req'[q]) /\ \A x \in Requests \ {q} : req'[x] = req[x]
      /\ row' = row /\ now' = now /\ raced \subseteq raced' /\ torn' \subseteq torn \cup raced'
  BY <1>0, AdvancesNarrow
<1>2. OneAtATime'
  <2>1. \A x \in Requests, m \in Members : Concerns(req'[x], m) => Concerns(req[x], m)
    BY <1>1 DEF Narrows
  <2>2. \A m \in Members \ raced' : \A x, y \in Requests : Concerns(req'[x], m) /\ Concerns(req'[y], m) => x = y
    BY <1>0, <1>1, <2>1 DEF OneAtATime
  <2>3. torn' \subseteq raced'
    BY <1>0, <1>1 DEF OneAtATime
  <2> QED BY <2>2, <2>3 DEF OneAtATime
<1>3. NothingToRepair'
  <2> SUFFICES ASSUME NEW m \in Members \ raced', NEW x \in Requests, req'[x].op = "reconcile"
               PROVE  Spares(req[x], m)'
    BY DEF NothingToRepair
  <2>1. Spares(req'[x], m)
    <3>1. CASE x = q
      BY <1>1, <3>1, AdvancesSpare
    <3>2. CASE x # q
      BY <1>0, <1>1, <3>2 DEF NothingToRepair
    <3> QED BY <3>1, <3>2
  <2> QED BY <1>1, <2>1 DEF Spares
<1>4. InOrder' /\ \A p \in periods' : Before(p, now)
  BY ContinuesInOrder
<1>5. InThePast'
  <2>1. \A x \in Requests : Past(req'[x])
    BY <1>0, <1>1 DEF InThePast, Narrows
  <2>2. \A x \in Requests : Past(req[x])'
    BY <1>1, <2>1 DEF Past
  <2>3. \A p \in periods' : Before(p, now')
    BY <1>1, <1>4
  <2> QED BY <1>0, <1>1, <2>2, <2>3 DEF InThePast
<1> QED BY <1>2, <1>3, <1>4, <1>5

\* The rows of a member nobody raced about change by the one request that it concerns.
LEMMA RowWriteDisjoint ==
    ASSUME DisjointInv, NEW q \in Requests, RowWrite(q)
    PROVE  OneAtATime' /\ NothingToRepair' /\ InThePast' /\ InOrder'
<1>0. Typed /\ InThePast /\ OneAtATime /\ NothingToRepair
  BY DEF DisjointInv, HistoryInv, Discipline
<1>1. PICK C, w : Writes(q, C, w)
  BY <1>0, RowWritesAre
<1>2. /\ C \subseteq Members /\ w \in Request /\ Shape(w) /\ w.op # "reconcile" /\ WriteRows(q, C, w)
      /\ req[q].op # "reconcile" /\ \A m \in Members \ C : row'[m] = row[m]
      /\ \A m \in Members : m \in C \/ Concerns(w, m) => Concerns(req[q], m)
      /\ w = Idle \/ w.at = now \/ (w.at = req[q].at /\ Timed(req[q]))
      /\ w = Idle \/ w.since = req[q].since
      /\ \A m \in C : row'[m].at \in {0, req[q].at}
  BY <1>1 DEF Writes
<1>3. /\ torn' = torn \cup Overlapped(q, C) /\ UNCHANGED <<now, periods, raced>>
      /\ req'[q] = w /\ \A x \in Requests : x # q => req'[x] = Noticed(req[x], C)
  BY <1>0, <1>2, WriteRowsIs
<1>4. ASSUME NEW x \in Requests, x # q
      PROVE  /\ req'[x].op = req[x].op /\ req'[x].pc = req[x].pc /\ req'[x].member = req[x].member
             /\ req'[x].at = req[x].at /\ req'[x].since = req[x].since /\ req'[x].rows = req[x].rows /\ req'[x].todo = req[x].todo
  BY <1>0, <1>2, <1>3, <1>4, RequestOf, NoticedIs
<1>5. \A x \in Requests, m \in Members : Concerns(req'[x], m) => Concerns(req[x], m)
  BY <1>2, <1>3, <1>4 DEF Concerns
<1>6. OneAtATime'
  <2>1. \A m \in Members \ raced' : \A x, y \in Requests : Concerns(req'[x], m) /\ Concerns(req'[y], m) => x = y
    BY <1>0, <1>3, <1>5 DEF OneAtATime
  <2>2. Overlapped(q, C) \subseteq raced
    <3> SUFFICES ASSUME NEW m \in C, NEW x \in Requests \ {q}, NEW k, Owes(x, m, k) PROVE m \in raced
      BY DEF Overlapped
    <3>1. Concerns(req[x], m) /\ Concerns(req[q], m) /\ m \in Members
      BY <1>2, OwesConcerns
    <3> QED BY <1>0, <3>1 DEF OneAtATime
  <2> QED BY <1>0, <1>3, <2>1, <2>2 DEF OneAtATime
<1>7. NothingToRepair'
  <2> SUFFICES ASSUME NEW m \in Members \ raced', NEW x \in Requests, req'[x].op = "reconcile"
               PROVE  Spares(req[x], m)'
    BY DEF NothingToRepair
  <2>1. x # q /\ req[x].op = "reconcile" /\ m \in Members \ raced
    BY <1>2, <1>3, <1>4
  <2>2. m \notin C
    BY <1>0, <1>2, <2>1 DEF OneAtATime, Concerns
  <2>3. row'[m] = row[m] /\ Spares(req[x], m)
    BY <1>0, <1>2, <2>1, <2>2 DEF NothingToRepair
  <2>4. Spares(req'[x], m)
    BY <1>4, <2>1, <2>3 DEF Spares, Opens, Opening, Repairing
  <2> QED BY <2>3, <2>4 DEF Spares
<1>8. InThePast'
  <2>1. now \in Nat /\ Idle.at = 0 /\ Idle.since = 0 /\ \A x \in Requests : req[x].at \in Nat /\ req[x].since \in Nat
    BY <1>0, InstantsAre DEF Idle
  <2>2. \A x \in Requests : Past(req[x])
    BY <1>0 DEF InThePast
  <2>3. ASSUME NEW x \in Requests PROVE Past(req'[x])
    <3>1. CASE x = q
      BY <1>2, <1>3, <2>1, <2>2, <3>1 DEF Past
    <3>2. CASE x # q
      BY <1>4, <2>2, <3>2 DEF Past
    <3> QED BY <3>1, <3>2
  <2>4. \A x \in Requests : Past(req[x])'
    BY <1>3, <2>3 DEF Past
  <2>5. \A m \in Members : row'[m].at <= now
    BY <1>0, <1>2, <2>1, <2>2 DEF InThePast, Past
  <2> QED BY <1>0, <1>3, <2>4, <2>5 DEF InThePast
<1>9. InOrder'
  <2>1. ASSUME NEW x \in Requests, NEW m \in Members, Timed(req'[x]), Concerns(req'[x], m)
        PROVE  \/ req'[x].at = now
               \/ Timed(req[x]) /\ Concerns(req[x], m) /\ req'[x].at = req[x].at
    <3>1. CASE x = q
      <4>1. w # Idle
        BY <1>3, <2>1, <3>1, IdleIsOne DEF Timed
      <4> QED BY <1>2, <1>3, <1>5, <2>1, <3>1, <4>1
    <3>2. CASE x # q
      BY <1>4, <1>5, <2>1, <3>2 DEF Timed
    <3> QED BY <3>1, <3>2
  <2> QED BY <1>3, <2>1, KeptOrder
<1> QED BY <1>6, <1>7, <1>8, <1>9

\* Whoever a request leaves behind that crashes is raced about from now on.
LEMMA CrashDisjoint ==
    ASSUME DisjointInv, NEW q \in Requests, Crash(q)
    PROVE  OneAtATime' /\ NothingToRepair' /\ InThePast' /\ InOrder'
<1>0. Typed /\ InThePast /\ OneAtATime /\ NothingToRepair
  BY DEF DisjointInv, HistoryInv, Discipline
<1>1. PICK D : /\ req'[q] = Idle /\ \A x \in Requests : x # q => req'[x] = Noticed(req[x], D)
               /\ UNCHANGED <<now, row, periods>>
               /\ torn' = torn \cup D /\ raced' = raced \cup Left(q) /\ D \subseteq Left(q) /\ D \subseteq Members
  BY <1>0, CrashIs
<1>2. ASSUME NEW x \in Requests, x # q
      PROVE  /\ req'[x].op = req[x].op /\ req'[x].pc = req[x].pc /\ req'[x].member = req[x].member
             /\ req'[x].at = req[x].at /\ req'[x].since = req[x].since /\ req'[x].rows = req[x].rows
             /\ req'[x].todo = req[x].todo
  BY <1>0, <1>1, <1>2, RequestOf, NoticedIs
<1>3. ASSUME NEW x \in Requests, NEW m, Concerns(req'[x], m) PROVE x # q /\ Concerns(req[x], m)
  <2>1. x # q
    BY <1>1, <1>3, IdleIsOne DEF Concerns
  <2> QED BY <1>2, <1>3, <2>1 DEF Concerns
<1>4. OneAtATime'
  <2>1. \A m \in Members \ raced' : \A x, y \in Requests : Concerns(req'[x], m) /\ Concerns(req'[y], m) => x = y
    BY <1>0, <1>1, <1>3 DEF OneAtATime
  <2>2. torn' \subseteq raced'
    BY <1>0, <1>1 DEF OneAtATime
  <2> QED BY <2>1, <2>2 DEF OneAtATime
<1>5. NothingToRepair'
  <2> SUFFICES ASSUME NEW m \in Members \ raced', NEW x \in Requests, req'[x].op = "reconcile"
               PROVE  Spares(req[x], m)'
    BY DEF NothingToRepair
  <2>1. x # q
    BY <1>1, IdleIsOne
  <2>2. Spares(req[x], m)
    BY <1>0, <1>1, <1>2, <2>1 DEF NothingToRepair
  <2>3. Spares(req'[x], m)
    BY <1>2, <2>1, <2>2 DEF Spares, Opens, Opening, Repairing
  <2> QED BY <1>1, <2>3 DEF Spares
<1>6. InThePast'
  <2>1. now \in Nat /\ Idle.at = 0 /\ Idle.since = 0 /\ \A x \in Requests : Past(req[x])
    BY <1>0, InstantsAre DEF Idle, InThePast
  <2>2. ASSUME NEW x \in Requests PROVE Past(req'[x])
    <3>1. CASE x = q
      BY <1>1, <2>1, <3>1, IdleIsOne DEF Past
    <3>2. CASE x # q
      BY <1>2, <2>1, <3>2 DEF Past
    <3> QED BY <3>1, <3>2
  <2>3. \A x \in Requests : Past(req[x])'
    BY <1>1, <2>2 DEF Past
  <2> QED BY <1>0, <1>1, <2>3 DEF InThePast
<1>7. InOrder'
  <2>1. \A x \in Requests, m \in Members : Timed(req'[x]) /\ Concerns(req'[x], m) =>
          Timed(req[x]) /\ Concerns(req[x], m) /\ req'[x].at = req[x].at
    BY <1>2, <1>3 DEF Timed
  <2> QED BY <1>1, <2>1, KeptOrder
<1> QED BY <1>4, <1>5, <1>6, <1>7

\* A request that begins while another one runs races with it about everybody it concerns.
LEMMA ArrivalDisjoint ==
    ASSUME DisjointInv, NEW q \in Requests, Arrive(q)
    PROVE  OneAtATime' /\ NothingToRepair' /\ InThePast' /\ InOrder'
<1>0. Typed /\ InThePast /\ OneAtATime /\ NothingToRepair
  BY DEF DisjointInv, HistoryInv, Discipline
<1>1. PICK w, C : /\ Became(q, w) /\ UNCHANGED <<now, row, periods, torn>>
                  /\ req[q] = Idle /\ (raced' = raced \/ raced' = raced \cup C)
                  /\ (Busy # {} => raced' = raced \cup C)
                  /\ \A m \in Members : Concerns(w, m) => m \in C
                  /\ \/ w.pc = "write" /\ w.op # "reconcile" /\ (w.op = "assign" => w.at = now)
                     \/ w.pc = "rows" /\ w.op = "reconcile"
                  /\ w.at = now \/ w.at = 0
                  /\ w.since = now \/ w.since = 0
                  /\ w.rows = {} /\ w.todo = {}
  BY <1>0, ArriveIs
<1>2. req'[q] = w /\ \A x \in Requests : x # q => req'[x] = req[x]
  BY <1>0, <1>1, BecameTyped
<1>3. OneAtATime'
  <2>1. ASSUME NEW m \in Members \ raced', NEW x \in Requests, NEW y \in Requests,
               Concerns(req'[x], m), Concerns(req'[y], m), x # y
        PROVE  FALSE
    <3>1. CASE x # q /\ y # q
      BY <1>0, <1>1, <1>2, <2>1, <3>1 DEF OneAtATime
    <3>2. ASSUME NEW z \in Requests, z # q, Concerns(req[z], m), Concerns(w, m) PROVE FALSE
      <4>1. z \in Busy
        BY <3>2 DEF Busy, Concerns
      <4> QED BY <1>1, <2>1, <3>2, <4>1
    <3> QED BY <1>2, <2>1, <3>1, <3>2
  <2>2. torn' \subseteq raced'
    BY <1>0, <1>1 DEF OneAtATime
  <2> QED BY <2>1, <2>2 DEF OneAtATime
<1>4. NothingToRepair'
  <2> SUFFICES ASSUME NEW m \in Members \ raced', NEW x \in Requests, req'[x].op = "reconcile"
               PROVE  Spares(req[x], m)'
    BY DEF NothingToRepair
  <2>1. Spares(req'[x], m)
    <3>1. CASE x = q
      BY <1>1, <1>2, <3>1 DEF Spares, Opens, Opening, Repairing
    <3>2. CASE x # q
      BY <1>0, <1>1, <1>2, <3>2 DEF NothingToRepair
    <3> QED BY <3>1, <3>2
  <2> QED BY <1>1, <2>1 DEF Spares
<1>5. InThePast'
  <2>1. now \in Nat /\ \A x \in Requests : Past(req[x])
    BY <1>0, InstantsAre DEF InThePast
  <2>2. \A x \in Requests : Past(req'[x])
    BY <1>1, <1>2, <2>1 DEF Past
  <2>3. \A x \in Requests : Past(req[x])'
    BY <1>1, <2>2 DEF Past
  <2> QED BY <1>0, <1>1, <2>3 DEF InThePast
<1>6. InOrder'
  <2>1. Timed(w) => w.at = now
    BY <1>1 DEF Timed
  <2>2. \A x \in Requests, m \in Members : Timed(req'[x]) /\ Concerns(req'[x], m) =>
          \/ req'[x].at = now
          \/ Timed(req[x]) /\ Concerns(req[x], m) /\ req'[x].at = req[x].at
    BY <1>2, <2>1
  <2> QED BY <1>1, <2>2, KeptOrder
<1> QED BY <1>3, <1>4, <1>5, <1>6

LEMMA DisjointInit == Init => DisjointInv
<1> SUFFICES ASSUME Init PROVE DisjointInv
  OBVIOUS
<1>1. \A q \in Requests : req[q] = Idle
  BY DEF Init
<1>2. OneAtATime /\ NothingToRepair /\ InOrder
  BY <1>1, IdleIsOne DEF Init, OneAtATime, NothingToRepair, InOrder, Concerns
<1>3. Idle.at = 0 /\ Idle.since = 0 /\ NoRow.at = 0
  BY DEF Idle, NoRow
<1>4. InThePast
  BY <1>1, <1>3, IdleIsOne DEF Init, InThePast, Past
<1> QED BY <1>2, <1>4, HistoryInit DEF DisjointInv

LEMMA DisjointStep == DisjointInv /\ [Next]_vars => DisjointInv'
<1> SUFFICES ASSUME DisjointInv, [Next]_vars PROVE DisjointInv'
  OBVIOUS
<1>0. HistoryInv' /\ Typed
  BY HistoryStep DEF DisjointInv, HistoryInv, Discipline
<1>1. CASE UNCHANGED vars
  BY <1>0, <1>1 DEF vars, DisjointInv, OneAtATime, NothingToRepair, InThePast, InOrder, Spares, Past
<1>2. CASE Tick
  <2>1. UNCHANGED <<row, periods, req, torn, raced>> /\ now' = now + 1
    BY <1>2 DEF Tick
  <2>2. OneAtATime' /\ NothingToRepair' /\ InOrder'
    BY <2>1 DEF DisjointInv, OneAtATime, NothingToRepair, InOrder, Spares
  <2>3. /\ now \in Nat
        /\ \A m \in Members : row[m].at \in Nat
        /\ \A p \in periods : p.start \in Nat /\ (p.end = Open \/ (p.end # Open /\ p.end \in Nat))
        /\ \A q \in Requests : /\ req[q].at \in Nat /\ req[q].since \in Nat
                               /\ \A x \in req[q].rows \cup req[q].todo : x.at \in Nat
    BY <1>0, InstantsAre
  <2>4. \A p \in periods : Before(p, now) => Before(p, now + 1)
    BY <2>3 DEF Before
  <2>5. \A q \in Requests : Past(req[q]) => Past(req[q])'
    BY <2>1, <2>3 DEF Past
  <2>6. InThePast'
    BY <2>1, <2>3, <2>4, <2>5 DEF DisjointInv, InThePast
  <2> QED BY <1>0, <2>2, <2>6 DEF DisjointInv
<1>3. ASSUME NEW q \in Requests, Continues(q) \/ RowWrite(q) \/ Arrive(q) \/ Crash(q) PROVE DisjointInv'
  BY <1>0, <1>3, ContinuesDisjoint, RowWriteDisjoint, ArrivalDisjoint, CrashDisjoint DEF DisjointInv
<1>4. ASSUME Next PROVE DisjointInv'
  BY <1>2, <1>3, <1>4, StepsOf DEF Continues, Advances, Reads, RowWrite
<1> QED BY <1>1, <1>4

LEMMA DisjointFromInv == DisjointInv => HistoryIsDisjoint
<1> SUFFICES ASSUME DisjointInv, NEW m \in Members \ raced, NEW p \in periods, NEW p2 \in periods,
                    p.member = m, p2.member = m
             PROVE  /\ p.end = Open \/ p.start <= p.end
                    /\ p # p2 => \A t \in Times : ~(Covers([from |-> p.start, to |-> p.end], t) /\
                                                    Covers([from |-> p2.start, to |-> p2.end], t))
  BY DEF HistoryIsDisjoint
<1>1. Typed
  BY DEF DisjointInv, HistoryInv, Discipline
<1>2. \A x \in periods : x.start \in Nat /\ (x.end = Open \/ (x.end # Open /\ x.end \in Nat))
  BY <1>1, InstantsAre
<1>3. Times \subseteq Nat
  BY Sorts
<1>4. ASSUME NEW x \in periods, NEW y \in periods, NEW t \in Times, Apart(x, y),
             Covers([from |-> x.start, to |-> x.end], t), Covers([from |-> y.start, to |-> y.end], t)
      PROVE  FALSE
  <2>1. x.end # Open /\ x.end <= y.start /\ t < x.end /\ y.start <= t
    BY <1>4 DEF Apart, Covers
  <2> QED BY <1>2, <1>3, <2>1
<1>5. p # p2 => Apart(p, p2) \/ Apart(p2, p)
  BY DEF DisjointInv, InOrder
<1> QED BY <1>4, <1>5 DEF DisjointInv, InOrder

\* Nobody was ever in two places at once, and no period ends before it starts, as long as no two writes
\* about the member overlapped and none failed: such a member is the business of one request at a time,
\* which takes its time from the clock after the one before it is through, and a reconciliation finds
\* nothing to repair about the member.
THEOREM Spec_HistoryIsDisjoint == Spec => []HistoryIsDisjoint
<1>1. Spec => []DisjointInv
  BY DisjointInit, DisjointStep, PTL DEF Spec
<1> QED BY <1>1, DisjointFromInv, PTL

=============================================================================
