--------------------------- MODULE ClientSeatsProofs ---------------------------
(***************************************************************************)
(* The seats and the registration links of any number of coaches, limits,    *)
(* clients and requests in flight, and the lists of a coach's clients with    *)
(* pages of any size, in whatever order the rows come.                        *)
(***************************************************************************)
EXTENDS ClientSeats, FiniteSetTheorems, TLAPS

-----------------------------------------------------------------------------
(* The calls of a request *)

LEMMA KindsAre == Kinds = {"link", "oauth", "invited", "share"}
  BY DEF Kinds, Steps

LEMMA LengthOf ==
    /\ Len(Steps["link"]) = 5 /\ Len(Steps["oauth"]) = 4
    /\ Len(Steps["invited"]) = 3 /\ Len(Steps["share"]) = 3
  BY DEF Steps

\* What a request knows at each of its calls.
ReqOK(r) ==
    /\ r.kind = "link" => /\ r.step >= 2 => r.coach # None
                          /\ r.step >= 4 => r.client # 0
                          /\ r.step <= 2 => ~r.passed
    /\ r.kind = "oauth" => /\ r.step <= 4 /\ ~r.passed
                           /\ r.step >= 2 => r.client # 0
                           /\ r.step >= 3 => r.coach # None
    /\ r.kind = "invited" => /\ r.step <= 3 /\ ~r.passed
                             /\ r.step >= 1 => r.coach # None
                             /\ r.step >= 2 => r.client # 0
    /\ r.kind = "share" => /\ r.step <= 3 /\ r.client = 0
                           /\ r.step >= 1 => r.coach # None /\ r.token # None

LEMMA CallsOf ==
    ASSUME NEW r \in Request, ReqOK(r), r.step # 0
    PROVE  LET call == Steps[r.kind][r.step]
           IN  /\ call = "resolve" => (r.kind = "link" /\ r.step = 1) \/ (r.kind = "oauth" /\ r.step = 2)
               /\ call = "check" => (r.kind = "link" /\ r.step = 2) \/ (r.kind = "share" /\ r.step = 1)
               /\ call = "identify" => (r.kind = "link" /\ r.step = 3) \/ (r.kind \in {"oauth", "invited"} /\ r.step = 1)
               /\ call = "create" => \/ r.kind \in {"link", "oauth"} /\ r.step = 4
                                     \/ r.kind = "invited" /\ r.step = 3
               /\ call = "add" => \/ r.kind = "link" /\ r.step = 5
                                  \/ r.kind = "oauth" /\ r.step = 3
                                  \/ r.kind = "invited" /\ r.step = 2
               /\ call = "find" => r.kind = "share" /\ r.step = 2
               /\ call = "insert" => r.kind = "share" /\ r.step = 3
<1>0. r.kind \in Kinds /\ r.step \in 1 .. 5
  BY DEF Request
<1>1. CASE r.kind = "link"
  BY <1>0, <1>1 DEF Steps
<1>2. CASE r.kind = "oauth"
  BY <1>0, <1>2 DEF Steps, ReqOK
<1>3. CASE r.kind = "invited"
  BY <1>0, <1>3 DEF Steps, ReqOK
<1>4. CASE r.kind = "share"
  BY <1>0, <1>4 DEF Steps, ReqOK
<1> QED BY <1>0, <1>1, <1>2, <1>3, <1>4, KindsAre

LEMMA IdleIsOne == Idle \in Request /\ ReqOK(Idle) /\ Idle.client = 0 /\ ~Idle.passed /\ Idle.kind = "share"
  BY KindsAre DEF Idle, Request, ReqOK

\* The next call, or the end.
LEMMA FurtherOf ==
    ASSUME NEW r \in Request, ReqOK(r)
    PROVE  \/ Further(r) = Idle
           \/ /\ Further(r) = [r EXCEPT !.step = r.step + 1]
              /\ r.step < 5
              /\ r.kind = "oauth" => r.step < 4
              /\ r.kind \in {"invited", "share"} => r.step < 3
<1>1. CASE r.step < Len(Steps[r.kind])
  <2>1. Further(r) = [r EXCEPT !.step = r.step + 1]
    BY <1>1 DEF Further
  <2>2. r.kind \in {"link", "oauth", "invited", "share"}
    BY KindsAre DEF Request
  <2>3. r.step < 5 /\ (r.kind = "oauth" => r.step < 4) /\ (r.kind \in {"invited", "share"} => r.step < 3)
    <3>0. r.step \in 0 .. 5
      BY DEF Request
    <3>1. CASE r.kind = "link"
      BY <1>1, <3>0, <3>1, LengthOf
    <3>2. CASE r.kind = "oauth"
      BY <1>1, <3>0, <3>2, LengthOf
    <3>3. CASE r.kind = "invited"
      BY <1>1, <3>0, <3>3, LengthOf
    <3>4. CASE r.kind = "share"
      BY <1>1, <3>0, <3>4, LengthOf
    <3> QED BY <2>2, <3>1, <3>2, <3>3, <3>4
  <2> QED BY <2>1, <2>3
<1>2. CASE ~(r.step < Len(Steps[r.kind]))
  BY <1>2 DEF Further
<1> QED BY <1>1, <1>2

-----------------------------------------------------------------------------
(* Types *)

\* The types without what a row and an account are written for, which follows from ReqOK.
Typed ==
    /\ users \subseteq Clients
    /\ rows \in [Clients -> Coaches \cup {None}]
    /\ token \in [Coaches -> Requests \cup {None}]
    /\ nextId \in 1 .. MaxClients + 1
    /\ req \in [Requests -> Request]
    /\ handed \in [Coaches -> SUBSET Requests]
    /\ checked \subseteq Clients /\ halted \subseteq Clients /\ deleted \subseteq Clients
    /\ \A q \in Requests : ReqOK(req[q])

LEMMA TypedIsEnough == Typed => SeatsTypeOK
<1> SUFFICES ASSUME Typed PROVE SeatsTypeOK
  OBVIOUS
<1>1. ASSUME NEW q \in Requests, At(q, "add") \/ At(q, "create")
      PROVE  req[q].client # 0 /\ req[q].coach # None
  <2> DEFINE r == req[q]
  <2>1. r \in Request /\ ReqOK(r) /\ r.step # 0
    BY <1>1 DEF Typed, At
  <2>2. \/ r.kind \in {"link", "oauth"} /\ r.step = 4
        \/ r.kind = "invited" /\ r.step \in {2, 3}
        \/ r.kind = "link" /\ r.step = 5
        \/ r.kind = "oauth" /\ r.step = 3
    BY <1>1, <2>1, CallsOf DEF At
  <2> QED BY <2>1, <2>2 DEF ReqOK
<1> QED BY <1>1 DEF Typed, SeatsTypeOK

\* The request that a step leaves: what it is and what it was.
Became(q, w) ==
    /\ w \in Request /\ ReqOK(w)
    /\ req' = [req EXCEPT ![q] = w]

\* Nothing is sold and no id given: the request ends, or keeps its client, its kind and whether it passed.
Same(r, w) ==
    \/ w.client = 0 /\ ~w.passed
    \/ /\ w.client = r.client /\ w.kind = r.kind
       /\ w.kind = "link" /\ w.passed => r.passed /\ w.coach = r.coach

LEMMA IdleIsSame ==
    ASSUME NEW r
    PROVE  Same(r, Idle)
  BY IdleIsOne DEF Same

\* One more step of the same request.
LEMMA NextCall ==
    ASSUME NEW r \in Request, ReqOK(r), r.step # 0,
           r.kind = "link" => (r.step >= 1 => r.coach # None) /\ (r.step >= 3 => r.client # 0)
                              /\ (r.step = 1 => ~r.passed),
           r.kind = "oauth" => (r.step >= 1 => r.client # 0) /\ (r.step >= 2 => r.coach # None),
           r.kind = "invited" => r.client # 0
    PROVE  Further(r) \in Request /\ ReqOK(Further(r)) /\ Same(r, Further(r))
<1>1. CASE Further(r) = Idle
  BY <1>1, IdleIsOne, IdleIsSame
<1>2. CASE Further(r) # Idle
  <2> DEFINE w == [r EXCEPT !.step = r.step + 1]
  <2>1. /\ Further(r) = w /\ r.step < 5
        /\ r.kind = "oauth" => r.step < 4
        /\ r.kind \in {"invited", "share"} => r.step < 3
    BY <1>2, FurtherOf
  <2>2. r.step \in 1 .. 5
    BY DEF Request
  <2>3. /\ w.kind = r.kind /\ w.coach = r.coach /\ w.token = r.token /\ w.client = r.client
        /\ w.passed = r.passed /\ w.step = r.step + 1 /\ w \in Request
    BY <2>1, <2>2 DEF Request
  <2> HIDE DEF w
  <2>4. ReqOK(w)
    BY <2>1, <2>2, <2>3 DEF ReqOK
  <2>5. Same(r, w)
    BY <2>3 DEF Same
  <2> QED BY <2>1, <2>3, <2>4, <2>5
<1> QED BY <1>1, <1>2

\* A step of one request, and what else it leaves well-typed.
LEMMA StepTyped ==
    ASSUME Typed, NEW q \in Requests, NEW w, Became(q, w),
           users' \subseteq Clients, rows' \in [Clients -> Coaches \cup {None}],
           token' \in [Coaches -> Requests \cup {None}], nextId' \in 1 .. MaxClients + 1,
           handed' \in [Coaches -> SUBSET Requests],
           checked' \subseteq Clients, halted' \subseteq Clients, deleted' \subseteq Clients
    PROVE  Typed' /\ req'[q] = w /\ \A j \in Requests : j # q => req'[j] = req[j]
<1>1. req' \in [Requests -> Request] /\ req'[q] = w /\ \A j \in Requests : j # q => req'[j] = req[j]
  BY DEF Typed, Became
<1>2. \A j \in Requests : ReqOK(req'[j])
  BY <1>1 DEF Typed, Became
<1>3. (\A j \in Requests : ReqOK(req[j]))'
  BY <1>2 DEF ReqOK
<1> QED BY <1>1, <1>3 DEF Typed

-----------------------------------------------------------------------------
(* The invariant *)

\* An id is given once, and until a signup has stored its row nobody else has one for its id.
Ids ==
    /\ \A q \in Requests : req[q].client < nextId
    /\ \A c \in checked : c < nextId
    /\ \A c \in Clients : rows[c] # None => c < nextId
    /\ \A q, j \in Requests : q # j /\ req[q].client = req[j].client => req[q].client = 0
    /\ \A q \in Requests : req[q].client \notin checked
    /\ \A q \in Requests : req[q].kind = "link" /\ req[q].client # 0 => rows[req[q].client] = None

SeatInv == Typed /\ Ids /\ SeatsNotOversold /\ LinksStayValid

LEMMA FiniteSeats ==
    ASSUME Typed, NEW k \in DOMAIN Limits
    PROVE  /\ IsFiniteSet(Requests) /\ Cardinality(Requests) \in Nat /\ Cardinality(Requests) >= 1
           /\ IsFiniteSet(Clients) /\ Limits[k] \in Nat /\ k \in Coaches
           /\ Pending(k) \subseteq Requests
           /\ CheckedSeats(k) \subseteq RowsOf(k) /\ RowsOf(k) \subseteq Clients
<1>1. IsFiniteSet(Requests) /\ Requests # {} /\ Limits[k] \in Nat /\ MaxClients \in Nat /\ k \in Coaches
  BY SeatsAssumption
<1>2. IsFiniteSet(Clients)
  BY <1>1, FS_Interval DEF Clients
<1>3. Cardinality(Requests) \in Nat /\ Cardinality(Requests) # 0
  BY <1>1, FS_CardinalityType, FS_EmptySet
<1> QED BY <1>1, <1>2, <1>3 DEF Pending, CheckedSeats, RowsOf, Typed

\* No more is sold, and no more is about to be sold.
LEMMA NoMoreSold ==
    ASSUME Typed, SeatsNotOversold, Typed',
           \A k \in DOMAIN Limits : CheckedSeats(k)' \subseteq CheckedSeats(k) /\ Pending(k)' \subseteq Pending(k)
    PROVE  SeatsNotOversold'
<1> SUFFICES ASSUME NEW k \in DOMAIN Limits
             PROVE  Cardinality(CheckedSeats(k)') + Cardinality(Pending(k)') <= Limits[k] + Cardinality(Requests) - 1
  BY DEF SeatsNotOversold
<1>1. IsFiniteSet(CheckedSeats(k)) /\ IsFiniteSet(Pending(k))
  BY FiniteSeats, FS_Subset
<1>2. /\ Cardinality(CheckedSeats(k)') <= Cardinality(CheckedSeats(k))
      /\ Cardinality(Pending(k)') <= Cardinality(Pending(k))
      /\ IsFiniteSet(CheckedSeats(k)') /\ IsFiniteSet(Pending(k)')
  BY <1>1, FS_Subset
<1>3. /\ Cardinality(CheckedSeats(k)') \in Nat /\ Cardinality(CheckedSeats(k)) \in Nat
      /\ Cardinality(Pending(k)') \in Nat /\ Cardinality(Pending(k)) \in Nat
  BY <1>1, <1>2, FS_CardinalityType
<1>4. Cardinality(CheckedSeats(k)) + Cardinality(Pending(k)) <= Limits[k] + Cardinality(Requests) - 1
  BY DEF SeatsNotOversold
<1> QED BY <1>2, <1>3, <1>4, FiniteSeats

\* A request keeps its client or loses it, and rows only go away: the ids stay as they are.
LEMMA SameIds ==
    ASSUME SeatInv, NEW q \in Requests, NEW w, w.client = 0 \/ (w.client = req[q].client /\ w.kind = req[q].kind),
           req'[q] = w, \A j \in Requests : j # q => req'[j] = req[j],
           nextId' = nextId, checked' = checked,
           \A c \in Clients : rows'[c] = rows[c] \/ rows'[c] = None
    PROVE  Ids'
<1>0. /\ nextId \in Nat /\ nextId >= 1 /\ 0 \notin checked /\ checked \subseteq Clients
      /\ \A j \in Requests : req[j].client \in Clients \cup {0}
  BY SeatsAssumption DEF SeatInv, Typed, Clients, Request
<1>1. /\ \A j \in Requests : req'[j].client < nextId
      /\ \A c \in checked : c < nextId
      /\ \A c \in Clients : rows'[c] # None => c < nextId
  BY <1>0 DEF SeatInv, Ids
<1>2. \A i, j \in Requests : i # j /\ req'[i].client = req'[j].client => req'[i].client = 0
  BY DEF SeatInv, Ids
<1>3. \A j \in Requests : req'[j].client \notin checked
  BY <1>0 DEF SeatInv, Ids
<1>4. \A j \in Requests : req'[j].kind = "link" /\ req'[j].client # 0 => rows'[req'[j].client] = None
  BY <1>0 DEF SeatInv, Ids
<1> QED BY <1>1, <1>2, <1>3, <1>4 DEF Ids

\* A request goes on or ends, rows only go away: no seat is sold.
LEMMA SameSold ==
    ASSUME SeatInv, Typed', NEW q \in Requests, NEW w, NEW r, Same(r, w),
           r.kind = req[q].kind /\ r.passed = req[q].passed /\ r.coach = req[q].coach,
           w.client = 0 => ~w.passed \/ w.kind = r.kind,
           req'[q] = w, \A j \in Requests : j # q => req'[j] = req[j],
           checked' = checked,
           \A c \in checked : rows'[c] = rows[c] \/ rows'[c] = None
    PROVE  SeatsNotOversold'
<1>1. ASSUME NEW k \in DOMAIN Limits
      PROVE  CheckedSeats(k)' \subseteq CheckedSeats(k) /\ Pending(k)' \subseteq Pending(k)
  <2>1. k \in Coaches /\ None \notin Coaches
    BY SeatsAssumption
  <2>2. CheckedSeats(k)' \subseteq CheckedSeats(k)
    BY <2>1 DEF CheckedSeats
  <2>3. Pending(k)' \subseteq Pending(k)
    BY DEF Pending, Same
  <2> QED BY <2>2, <2>3
<1> QED BY <1>1, NoMoreSold DEF SeatInv

LEMMA SameSeats ==
    ASSUME SeatInv, Typed', NEW q \in Requests, NEW w, Same(req[q], w),
           req'[q] = w, \A j \in Requests : j # q => req'[j] = req[j],
           nextId' = nextId, checked' = checked,
           \A c \in Clients : rows'[c] = rows[c] \/ rows'[c] = None
    PROVE  Ids' /\ SeatsNotOversold'
<1>1. w.client = 0 \/ (w.client = req[q].client /\ w.kind = req[q].kind)
  BY DEF Same
<1>2. checked \subseteq Clients
  BY DEF SeatInv, Typed
<1>3. w.client = 0 => ~w.passed \/ w.kind = req[q].kind
  BY DEF Same
<1> QED BY <1>1, <1>2, <1>3, SameIds, SameSold

\* Such a step of a request that changes nothing else.
LEMMA SameStep ==
    ASSUME SeatInv, NEW q \in Requests, NEW w, Became(q, w), Same(req[q], w),
           UNCHANGED <<rows, token, nextId, handed, checked>>,
           users' \subseteq Clients, halted' \subseteq Clients, deleted' \subseteq Clients
    PROVE  SeatInv'
<1>1. Typed' /\ req'[q] = w /\ \A j \in Requests : j # q => req'[j] = req[j]
  BY StepTyped DEF SeatInv, Typed
<1>2. Ids' /\ SeatsNotOversold'
  BY <1>1, SameSeats DEF Became
<1>3. LinksStayValid'
  BY DEF SeatInv, LinksStayValid
<1> QED BY <1>1, <1>2, <1>3 DEF SeatInv

-----------------------------------------------------------------------------
(* The steps *)

LEMMA Unfold ==
    ASSUME SeatInv
    PROVE  /\ req \in [Requests -> Request] /\ \A q \in Requests : ReqOK(req[q])
           /\ users \subseteq Clients /\ halted \subseteq Clients /\ deleted \subseteq Clients
           /\ \A k \in Coaches : handed[k] \subseteq Requests
  BY DEF SeatInv, Typed

\* A request with another value in one field.
LEMMA WithField ==
    ASSUME NEW r \in Request
    PROVE  /\ \A kind \in Kinds : [r EXCEPT !.kind = kind] \in Request
           /\ [r EXCEPT !.step = 1] \in Request
           /\ \A k \in Coaches \cup {None} : [r EXCEPT !.coach = k] \in Request
           /\ \A t \in Requests \cup {None} : [r EXCEPT !.token = t] \in Request
  BY DEF Request

\* A request at its first call.
LEMMA FreshIsOK ==
    ASSUME NEW w, w.step = 1, w.client = 0, ~w.passed,
           w.kind = "invited" => w.coach # None, w.kind = "share" => w.coach # None /\ w.token # None
    PROVE  ReqOK(w)
  BY DEF ReqOK

LEMMA BeginSeat ==
    ASSUME SeatInv, NEW q \in Requests, Begin(q)
    PROVE  SeatInv'
<1>1. ASSUME NEW k \in Coaches, Share(q, k) PROVE SeatInv'
  <2> DEFINE w == [Idle EXCEPT !.step = 1, !.coach = k, !.token = q]
  <2>0. w \in Request
    <3> DEFINE a == [Idle EXCEPT !.step = 1]
               b == [a EXCEPT !.coach = k]
    <3>1. a \in Request
      BY IdleIsOne, WithField
    <3>2. w = [b EXCEPT !.token = q]
      OBVIOUS
    <3> HIDE DEF a, w
    <3>3. b \in Request
      BY <3>1, WithField
    <3> HIDE DEF b
    <3> QED BY <3>2, <3>3, WithField
  <2>1. w.kind = "share" /\ w.step = 1 /\ w.coach = k /\ w.token = q /\ w.client = 0 /\ ~w.passed
    BY IdleIsOne DEF Request
  <2>2. req' = [req EXCEPT ![q] = w] /\ UNCHANGED <<users, rows, token, nextId, histories>>
    BY <1>1 DEF Share
  <2> HIDE DEF w
  <2>3. w \in Request /\ ReqOK(w) /\ w.client = 0 /\ ~w.passed
    BY <2>0, <2>1, SeatsAssumption, FreshIsOK
  <2> QED BY <2>2, <2>3, SameStep, Unfold DEF Became, Same, histories
<1>2. ASSUME NEW k \in Coaches, Invited(q, k) PROVE SeatInv'
  <2> DEFINE w == [Idle EXCEPT !.kind = "invited", !.step = 1, !.coach = k]
  <2>0. w \in Request
    <3> DEFINE a == [Idle EXCEPT !.kind = "invited"]
               b == [a EXCEPT !.step = 1]
    <3>1. a \in Request
      BY IdleIsOne, KindsAre, WithField
    <3>2. w = [b EXCEPT !.coach = k]
      OBVIOUS
    <3> HIDE DEF a, w
    <3>3. b \in Request
      BY <3>1, WithField
    <3> HIDE DEF b
    <3> QED BY <3>2, <3>3, WithField
  <2>1. w.kind = "invited" /\ w.step = 1 /\ w.coach = k /\ w.client = 0 /\ ~w.passed
    BY IdleIsOne DEF Request
  <2>2. req' = [req EXCEPT ![q] = w] /\ UNCHANGED <<users, rows, token, nextId, histories>>
    BY <1>2 DEF Invited
  <2> HIDE DEF w
  <2>3. w \in Request /\ ReqOK(w) /\ w.client = 0 /\ ~w.passed
    BY <2>0, <2>1, SeatsAssumption, FreshIsOK
  <2> QED BY <2>2, <2>3, SameStep, Unfold DEF Became, Same, histories
<1>3. ASSUME NEW kind \in Kinds, Follow(q, kind) PROVE SeatInv'
  <2>0. PICK k \in Coaches : \E t \in handed[k] :
          req' = [req EXCEPT ![q] = [Idle EXCEPT !.kind = kind, !.step = 1, !.token = t]]
    BY <1>3 DEF Follow
  <2>1. PICK t \in handed[k] :
          req' = [req EXCEPT ![q] = [Idle EXCEPT !.kind = kind, !.step = 1, !.token = t]]
    BY <2>0
  <2> DEFINE w == [Idle EXCEPT !.kind = kind, !.step = 1, !.token = t]
  <2>2. t \in Requests /\ kind \in {"link", "oauth"}
    BY <1>3, <2>1, Unfold DEF Follow
  <2>6. w \in Request
    <3> DEFINE a == [Idle EXCEPT !.kind = kind]
               b == [a EXCEPT !.step = 1]
    <3>1. a \in Request
      BY IdleIsOne, WithField
    <3>2. w = [b EXCEPT !.token = t]
      OBVIOUS
    <3> HIDE DEF a, w
    <3>3. b \in Request
      BY <3>1, WithField
    <3> HIDE DEF b
    <3> QED BY <2>2, <3>2, <3>3, WithField
  <2>5. w.kind = kind /\ w.step = 1 /\ w.client = 0 /\ ~w.passed
    BY <2>2, IdleIsOne DEF Request
  <2>4. req' = [req EXCEPT ![q] = w] /\ UNCHANGED <<users, rows, token, nextId, histories>>
    BY <1>3, <2>1 DEF Follow
  <2> HIDE DEF w
  <2>3. w \in Request /\ ReqOK(w) /\ w.client = 0 /\ ~w.passed
    BY <2>2, <2>5, <2>6, FreshIsOK
  <2> QED BY <2>3, <2>4, SameStep, Unfold DEF Became, Same, histories
<1> QED BY <1>1, <1>2, <1>3 DEF Begin

LEMMA StopSeat ==
    ASSUME SeatInv, NEW q \in Requests, Stop(q), UNCHANGED <<users, rows, token, nextId, handed, checked, deleted>>,
           halted' \subseteq Clients
    PROVE  SeatInv'
  BY IdleIsOne, IdleIsSame, SameStep, Unfold DEF Stop, Became

\* What the calls know: the request, and what it is when it takes another value.
LEMMA CallOf ==
    ASSUME SeatInv, NEW q \in Requests, NEW call, At(q, call)
    PROVE  req[q] \in Request /\ ReqOK(req[q]) /\ req[q].step # 0 /\ Steps[req[q].kind][req[q].step] = call
  BY Unfold DEF At

LEMMA ResolveSeat ==
    ASSUME SeatInv, NEW q \in Requests, Resolve(q)
    PROVE  SeatInv'
<1> DEFINE r == req[q]
           owners == {k \in Coaches : token[k] = r.token}
<1>1. UNCHANGED <<users, rows, token, nextId, handed, checked, halted, deleted>>
  BY DEF Resolve, histories
<1>2. CASE owners = {}
  <2>1. Stop(q)
    BY <1>2 DEF Resolve
  <2> QED BY <1>1, <2>1, StopSeat, Unfold
<1>3. CASE owners # {}
  <2>1. PICK k \in Coaches : req' = [req EXCEPT ![q] = Further([r EXCEPT !.coach = k])]
    BY <1>3 DEF Resolve
  <2> DEFINE s == [r EXCEPT !.coach = k]
             w == Further(s)
  <2>2. r \in Request /\ ReqOK(r) /\ ((r.kind = "link" /\ r.step = 1) \/ (r.kind = "oauth" /\ r.step = 2))
    BY CallOf, CallsOf DEF Resolve
  <2>3. k # None
    BY SeatsAssumption
  <2> HIDE DEF r
  <2>4. /\ s \in Request /\ s.kind = r.kind /\ s.step = r.step /\ s.client = r.client /\ s.passed = r.passed
        /\ s.coach = k
    BY <2>2 DEF Request
  <2> HIDE DEF s
  <2>5. ReqOK(s)
    BY <2>2, <2>3, <2>4 DEF ReqOK
  <2>6. w \in Request /\ ReqOK(w) /\ Same(s, w)
    BY <2>2, <2>3, <2>4, <2>5, NextCall DEF ReqOK
  <2> HIDE DEF w
  <2>7. Same(r, w)
    BY <2>2, <2>4, <2>6 DEF Same, ReqOK
  <2>8. Became(q, w)
    BY <2>1, <2>6 DEF Became, w, s
  <2> QED BY <1>1, <2>7, <2>8, SameStep, Unfold DEF r
<1> QED BY <1>2, <1>3

LEMMA CreateUserSeat ==
    ASSUME SeatInv, NEW q \in Requests, CreateUser(q)
    PROVE  SeatInv'
<1> DEFINE r == req[q]
<1>1. r \in Request /\ ReqOK(r) /\ ((r.kind \in {"link", "oauth"} /\ r.step = 4) \/ (r.kind = "invited" /\ r.step = 3))
  BY CallOf, CallsOf DEF CreateUser
<1>2. r.client # 0 /\ r.coach # None
  BY <1>1 DEF ReqOK
<1>3. r.client \in Clients
  BY <1>1, <1>2 DEF Request
<1>4. Further(r) \in Request /\ ReqOK(Further(r)) /\ Same(r, Further(r))
  BY <1>1, <1>2, NextCall
<1>5. Became(q, Further(r))
  BY <1>4 DEF CreateUser, Go, Became
<1>6. users' \subseteq Clients
  BY <1>3, Unfold DEF CreateUser
<1> QED BY <1>4, <1>5, <1>6, SameStep, Unfold DEF CreateUser, histories

LEMMA FindLinkSeat ==
    ASSUME SeatInv, NEW q \in Requests, FindLink(q)
    PROVE  SeatInv'
<1> DEFINE r == req[q]
           k == r.coach
<1>1. r \in Request /\ ReqOK(r) /\ r.kind = "share" /\ r.step = 2
  BY CallOf, CallsOf DEF FindLink
<1>2. k \in Coaches
  BY <1>1 DEF ReqOK, Request
<1>3. PICK w : Became(q, w) /\ Same(r, w)
  <2>1. Further(r) \in Request /\ ReqOK(Further(r)) /\ Same(r, Further(r))
    BY <1>1, NextCall
  <2>2. CASE token[k] = None
    BY <2>1, <2>2 DEF FindLink, Go, Became
  <2>3. CASE token[k] # None
    BY <2>3, IdleIsOne, IdleIsSame DEF FindLink, Stop, Became
  <2> QED BY <2>2, <2>3
<1>4. UNCHANGED <<users, rows, token, nextId, checked, halted, deleted>>
  BY DEF FindLink
<1>5. token[k] \in Requests \cup {None} /\ handed \in [Coaches -> SUBSET Requests]
  BY <1>2 DEF SeatInv, Typed
<1>6. handed' = handed \/ (token[k] # None /\ handed' = [handed EXCEPT ![k] = @ \cup {token[k]}])
  BY DEF FindLink
<1> HIDE DEF k, r
<1>7. handed' \in [Coaches -> SUBSET Requests]
  BY <1>2, <1>5, <1>6
<1>8. LinksStayValid'
  BY <1>2, <1>4, <1>5, <1>6 DEF SeatInv, LinksStayValid
<1>9. Typed' /\ req'[q] = w /\ \A j \in Requests : j # q => req'[j] = req[j]
  BY <1>3, <1>4, <1>7, StepTyped DEF SeatInv, Typed
<1>10. Ids' /\ SeatsNotOversold'
  BY <1>3, <1>4, <1>9, SameSeats DEF r
<1> QED BY <1>8, <1>9, <1>10 DEF SeatInv

\* The second insert is refused, so the token that was answered stays.
LEMMA InsertLinkSeat ==
    ASSUME SeatInv, NEW q \in Requests, InsertLink(q)
    PROVE  SeatInv'
<1> DEFINE r == req[q]
           k == r.coach
           t == r.token
<1>1. r \in Request /\ ReqOK(r) /\ r.kind = "share" /\ r.step = 3
  BY CallOf, CallsOf DEF InsertLink
<1>2. k \in Coaches /\ t \in Requests
  BY <1>1 DEF ReqOK, Request
<1>3. Became(q, Further(r)) /\ Same(r, Further(r))
  BY <1>1, NextCall DEF InsertLink, Go, Became
<1>4. UNCHANGED <<users, rows, nextId, checked, halted, deleted>>
  BY DEF InsertLink
<1>5. token \in [Coaches -> Requests \cup {None}] /\ handed \in [Coaches -> SUBSET Requests]
  BY DEF SeatInv, Typed
<1>6. \/ UNCHANGED <<token, handed>>
      \/ /\ token[k] = None /\ token' = [token EXCEPT ![k] = t]
         /\ handed' = [handed EXCEPT ![k] = @ \cup {t}]
  BY DEF InsertLink, MayInsert
<1> HIDE DEF k, t, r
<1>7. token' \in [Coaches -> Requests \cup {None}] /\ handed' \in [Coaches -> SUBSET Requests]
  BY <1>2, <1>5, <1>6
<1>8. LinksStayValid'
  <2>1. CASE UNCHANGED <<token, handed>>
    BY <2>1 DEF SeatInv, LinksStayValid
  <2>2. CASE token[k] = None /\ token' = [token EXCEPT ![k] = t] /\ handed' = [handed EXCEPT ![k] = @ \cup {t}]
    <3>1. handed[k] = {}
      BY <1>2, <1>5, <2>2, SeatsAssumption DEF SeatInv, LinksStayValid
    <3> QED BY <1>2, <1>5, <2>2, <3>1 DEF SeatInv, LinksStayValid
  <2> QED BY <1>6, <2>1, <2>2
<1>9. Typed' /\ req'[q] = Further(r) /\ \A j \in Requests : j # q => req'[j] = req[j]
  BY <1>3, <1>4, <1>7, StepTyped DEF SeatInv, Typed
<1>10. Ids' /\ SeatsNotOversold'
  BY <1>3, <1>4, <1>9, SameSeats DEF r
<1> QED BY <1>8, <1>9, <1>10 DEF SeatInv

LEMMA AbortSeat ==
    ASSUME SeatInv, NEW q \in Requests, Abort(q)
    PROVE  SeatInv'
<1>1. At(q, "create") => req[q].client \in Clients
  <2> SUFFICES ASSUME At(q, "create") PROVE req[q].client \in Clients
    OBVIOUS
  <2>1. SeatsTypeOK
    BY TypedIsEnough DEF SeatInv
  <2> QED BY <2>1 DEF SeatsTypeOK, Request
<1>2. halted' \subseteq Clients
  BY <1>1, Unfold DEF Abort
<1> QED BY <1>2, StopSeat DEF Abort

LEMMA DissociateSeat ==
    ASSUME SeatInv, NEW c \in Clients, NEW k \in Coaches, Dissociate(k, c)
    PROVE  SeatInv'
<1>1. \A d \in Clients : rows'[d] = rows[d] \/ rows'[d] = None
  BY DEF Dissociate, SeatInv, Typed
<1>2. Typed'
  BY DEF Dissociate, histories, SeatInv, Typed, ReqOK
<1>3. PICK q \in Requests : TRUE
  BY SeatsAssumption
<1>4. Same(req[q], req[q])
  BY DEF Same
<1>5. UNCHANGED <<users, token, nextId, req, handed, checked>>
  BY DEF Dissociate, histories
<1>6. Ids' /\ SeatsNotOversold'
  BY <1>1, <1>2, <1>4, <1>5, SameSeats
<1>7. LinksStayValid'
  BY <1>5 DEF SeatInv, LinksStayValid
<1> QED BY <1>2, <1>6, <1>7 DEF SeatInv

LEMMA QuietSeat ==
    ASSUME SeatInv, UNCHANGED <<rows, token, nextId, req, handed, checked>>,
           users' \subseteq Clients, halted' \subseteq Clients, deleted' \subseteq Clients
    PROVE  SeatInv'
<1>1. Typed' /\ Ids' /\ LinksStayValid'
  BY DEF SeatInv, Typed, ReqOK, Ids, LinksStayValid
<1>2. SeatsNotOversold'
  BY DEF SeatInv, SeatsNotOversold, CheckedSeats, Pending
<1> QED BY <1>1, <1>2 DEF SeatInv

LEMMA DeleteUserSeat ==
    ASSUME SeatInv, NEW c \in Clients, DeleteUser(c)
    PROVE  SeatInv'
  BY QuietSeat, Unfold DEF DeleteUser

LEMMA IdentifySeat ==
    ASSUME SeatInv, NEW q \in Requests, Identify(q)
    PROVE  SeatInv'
<1> DEFINE r == req[q]
           s == [r EXCEPT !.client = nextId]
           w == Further(s)
<1>0. /\ nextId \in Clients /\ nextId \in Nat /\ nextId >= 1 /\ nextId' = nextId + 1 /\ nextId + 1 \in 1 .. MaxClients + 1
      /\ UNCHANGED <<users, rows, token, handed, checked, halted, deleted>>
  BY SeatsAssumption DEF Identify, histories, SeatInv, Typed, Clients
<1>1. /\ r \in Request /\ ReqOK(r)
      /\ (r.kind = "link" /\ r.step = 3) \/ (r.kind \in {"oauth", "invited"} /\ r.step = 1)
  BY CallOf, CallsOf DEF Identify
<1>2. req' = [req EXCEPT ![q] = w]
  BY DEF Identify
<1> PICK n \in Clients : n = nextId
  BY <1>0
<1> HIDE DEF r
<1>3. /\ s \in Request /\ s.kind = r.kind /\ s.step = r.step /\ s.client = n /\ s.passed = r.passed
      /\ s.coach = r.coach
  BY <1>1 DEF Request
<1>4. n # 0
  BY <1>0
<1> HIDE DEF s
<1>5. ReqOK(s)
  BY <1>1, <1>3, <1>4 DEF ReqOK
<1>6. w \in Request /\ ReqOK(w) /\ Same(s, w)
  BY <1>1, <1>3, <1>4, <1>5, NextCall DEF ReqOK
<1> HIDE DEF w
<1>7. Typed' /\ req'[q] = w /\ \A j \in Requests : j # q => req'[j] = req[j]
  BY <1>0, <1>2, <1>6, StepTyped DEF Became, SeatInv, Typed
<1>8. w.client = 0 \/ w.client = n
  BY <1>3, <1>6 DEF Same
<1>9. Ids'
  <2>0. /\ \A j \in Requests : req[j].client \in Nat /\ req[j].client < n
        /\ 0 \notin checked /\ checked \subseteq Nat /\ n \notin checked
    BY <1>0 DEF SeatInv, Ids, Typed, Request, Clients
  <2>1. \A j \in Requests : req'[j].client < nextId'
    BY <1>0, <1>7, <1>8, <2>0
  <2>2. \A c \in checked : c < nextId'
    BY <1>0, <2>0 DEF SeatInv, Ids
  <2>3. \A c \in Clients : rows'[c] # None => c < nextId'
    BY <1>0 DEF SeatInv, Ids, Clients
  <2>4. \A i, j \in Requests : i # j /\ req'[i].client = req'[j].client => req'[i].client = 0
    BY <1>7, <1>8, <2>0 DEF SeatInv, Ids
  <2>5. \A j \in Requests : req'[j].client \notin checked'
    BY <1>0, <1>7, <1>8, <2>0 DEF SeatInv, Ids
  <2>6. rows[n] = None
    BY <1>0 DEF SeatInv, Ids
  <2>7. \A j \in Requests : req'[j].kind = "link" /\ req'[j].client # 0 => rows'[req'[j].client] = None
    BY <1>0, <1>7, <1>8, <2>6 DEF SeatInv, Ids
  <2> QED BY <1>0, <2>1, <2>2, <2>3, <2>4, <2>5, <2>7 DEF Ids
<1>10. SeatsNotOversold'
  BY <1>0, <1>3, <1>6, <1>7, SameSold DEF r, Same
<1>11. LinksStayValid'
  BY <1>0 DEF SeatInv, LinksStayValid
<1> QED BY <1>7, <1>9, <1>10, <1>11 DEF SeatInv

\* The check of a signup whose coach has a limit is the only step that makes a seat about to be sold:
\* less than the limit is sold, and only requests can be about to be sold.
LEMMA PassSold ==
    ASSUME SeatInv, Typed', NEW q \in Requests, NEW w, HasRoom(req[q].coach),
           w.kind = "link" => w.coach = req[q].coach,
           req'[q] = w, \A j \in Requests : j # q => req'[j] = req[j],
           UNCHANGED <<rows, checked>>
    PROVE  SeatsNotOversold'
<1> SUFFICES ASSUME NEW k \in DOMAIN Limits
             PROVE  Cardinality(CheckedSeats(k)') + Cardinality(Pending(k)') <= Limits[k] + Cardinality(Requests) - 1
  BY DEF SeatsNotOversold
<1>0. /\ IsFiniteSet(CheckedSeats(k)) /\ IsFiniteSet(Pending(k)) /\ IsFiniteSet(RowsOf(k))
      /\ IsFiniteSet(CheckedSeats(k)') /\ IsFiniteSet(Pending(k)')
      /\ Pending(k)' \subseteq Requests /\ CheckedSeats(k)' = CheckedSeats(k)
  <2>1. Pending(k)' \subseteq Requests /\ CheckedSeats(k)' = CheckedSeats(k)
    BY DEF Pending, CheckedSeats
  <2> QED BY <2>1, FiniteSeats, FS_Subset DEF SeatInv
<1>1. /\ Cardinality(CheckedSeats(k)) \in Nat /\ Cardinality(Pending(k)) \in Nat /\ Cardinality(RowsOf(k)) \in Nat
      /\ Cardinality(Pending(k)') \in Nat /\ Cardinality(Requests) \in Nat /\ Limits[k] \in Nat
  BY <1>0, FiniteSeats, FS_CardinalityType DEF SeatInv
<1>2. CASE k = req[q].coach
  <2>1. Cardinality(RowsOf(k)) < Limits[k]
    BY <1>2 DEF HasRoom, Count
  <2>2. Cardinality(CheckedSeats(k)) <= Cardinality(RowsOf(k))
    BY <1>0, FiniteSeats, FS_Subset DEF SeatInv
  <2>3. Cardinality(Pending(k)') <= Cardinality(Requests)
    BY <1>0, FiniteSeats, FS_Subset DEF SeatInv
  <2> QED BY <1>0, <1>1, <2>1, <2>2, <2>3
<1>3. CASE k # req[q].coach
  <2>1. Pending(k)' \subseteq Pending(k)
    BY <1>3 DEF Pending
  <2>2. Cardinality(Pending(k)') <= Cardinality(Pending(k))
    BY <1>0, <2>1, FS_Subset
  <2>3. Cardinality(CheckedSeats(k)) + Cardinality(Pending(k)) <= Limits[k] + Cardinality(Requests) - 1
    BY DEF SeatInv, SeatsNotOversold
  <2> QED BY <1>0, <1>1, <2>2, <2>3
<1> QED BY <1>2, <1>3

LEMMA CheckSeat ==
    ASSUME SeatInv, NEW q \in Requests, Check(q)
    PROVE  SeatInv'
<1> DEFINE r == req[q]
           k == r.coach
<1>1. r \in Request /\ ReqOK(r) /\ ((r.kind = "link" /\ r.step = 2) \/ (r.kind = "share" /\ r.step = 1))
  BY CallOf, CallsOf DEF Check
<1>2. k # None /\ UNCHANGED <<users, rows, token, nextId, handed, checked, halted, deleted>>
  BY <1>1 DEF ReqOK, Check, histories
<1>3. ASSUME NEW b \in BOOLEAN, HasRoom(k), req' = [req EXCEPT ![q] = Further([r EXCEPT !.passed = b])]
      PROVE  SeatInv'
  <2> DEFINE s == [r EXCEPT !.passed = b]
             w == Further(s)
  <2> HIDE DEF r
  <2>1. /\ s \in Request /\ s.kind = r.kind /\ s.step = r.step /\ s.client = r.client
        /\ s.coach = r.coach /\ s.token = r.token
    BY <1>1 DEF Request
  <2>2. r.kind = "link" => s.step = 2
    BY <1>1, <2>1
  <2> HIDE DEF s
  <2>3. CASE r.kind = "share"
    <3>1. ReqOK(s)
      BY <1>1, <2>1, <2>3 DEF ReqOK
    <3>2. w \in Request /\ ReqOK(w) /\ Same(s, w)
      BY <1>1, <2>1, <2>3, <3>1, NextCall
    <3> HIDE DEF w
    <3>3. Same(r, w)
      BY <2>1, <2>3, <3>2 DEF Same
    <3>4. Became(q, w)
      BY <1>3, <3>2 DEF Became, w, s
    <3> QED BY <1>2, <3>3, <3>4, SameStep, Unfold DEF r
  <2>4. CASE r.kind = "link"
    <3>0. r.step = 2
      BY <1>1, <2>4
    <3>1. w = [s EXCEPT !.step = 3]
      <4>1. Len(Steps[s.kind]) = 5
        BY <2>1, <2>4, LengthOf
      <4> QED BY <2>1, <3>0, <4>1 DEF Further
    <3> HIDE DEF w
    <3>2. /\ w \in Request /\ w.kind = "link" /\ w.step = 3 /\ w.client = r.client /\ w.coach = r.coach
      BY <2>1, <2>4, <3>1 DEF Request
    <3>3. ReqOK(w)
      BY <1>2, <3>2 DEF ReqOK, r
    <3>4. Became(q, w)
      BY <1>3, <3>2, <3>3 DEF Became, w, s
    <3>5. Typed' /\ req'[q] = w /\ \A j \in Requests : j # q => req'[j] = req[j]
      BY <1>2, <3>4, StepTyped DEF SeatInv, Typed
    <3>6. Ids'
      BY <1>2, <2>4, <3>2, <3>5, SameIds DEF r
    <3>7. SeatsNotOversold'
      BY <1>2, <1>3, <3>2, <3>5, PassSold DEF r
    <3>8. LinksStayValid'
      BY <1>2 DEF SeatInv, LinksStayValid
    <3> QED BY <3>5, <3>6, <3>7, <3>8 DEF SeatInv
  <2> QED BY <1>1, <2>3, <2>4
<1>4. CASE Go(q)
  <2>1. Further(r) \in Request /\ ReqOK(Further(r)) /\ Same(r, Further(r))
    BY <1>1, <1>2, NextCall
  <2>2. Became(q, Further(r))
    BY <1>4, <2>1 DEF Go, Became
  <2> QED BY <1>2, <2>1, <2>2, SameStep, Unfold
<1>5. CASE Stop(q)
  BY <1>2, <1>5, StopSeat, Unfold
<1>6. ASSUME HasRoom(k), req' = [req EXCEPT ![q] = Further([r EXCEPT !.passed = (k \in DOMAIN Limits)])]
      PROVE  SeatInv'
  <2>1. (k \in DOMAIN Limits) \in BOOLEAN
    OBVIOUS
  <2> DEFINE b == k \in DOMAIN Limits
  <2>2. b \in BOOLEAN /\ req' = [req EXCEPT ![q] = Further([r EXCEPT !.passed = b])]
    BY <1>6
  <2> HIDE DEF b
  <2> QED BY <1>3, <1>6, <2>2
<1> QED BY <1>4, <1>5, <1>6 DEF Check

\* A row that counts as checked takes the place of the signup that was about to store it.
LEMMA RowSold ==
    ASSUME SeatInv, Typed', NEW q \in Requests, NEW c \in Clients, c = req[q].client,
           req[q].kind = "link", req[q].passed,
           req'[q] = Idle, \A j \in Requests : j # q => req'[j] = req[j],
           checked' = checked \cup {c}, rows[c] = None,
           rows' \in {rows, [rows EXCEPT ![c] = req[q].coach]}
    PROVE  SeatsNotOversold'
<1> SUFFICES ASSUME NEW k \in DOMAIN Limits
             PROVE  Cardinality(CheckedSeats(k)') + Cardinality(Pending(k)') <= Limits[k] + Cardinality(Requests) - 1
  BY DEF SeatsNotOversold
<1> DEFINE A == CheckedSeats(k)
           P == Pending(k)
<1>0. /\ k \in Coaches /\ None \notin Coaches /\ rows \in [Clients -> Coaches \cup {None}] /\ checked \subseteq Clients
  BY SeatsAssumption DEF SeatInv, Typed
<1>1. IsFiniteSet(A) /\ IsFiniteSet(P)
  BY FiniteSeats, FS_Subset DEF SeatInv
<1>2. /\ Cardinality(A) \in Nat /\ Cardinality(P) \in Nat /\ Cardinality(Requests) \in Nat /\ Limits[k] \in Nat
      /\ Cardinality(A) + Cardinality(P) <= Limits[k] + Cardinality(Requests) - 1
  BY <1>1, FiniteSeats, FS_CardinalityType DEF SeatInv, SeatsNotOversold
<1>3. Pending(k)' \subseteq P \ {q}
  BY IdleIsOne DEF Pending
<1>4. CASE k = req[q].coach
  <2>1. q \in P
    BY <1>4 DEF Pending
  <2>2. CheckedSeats(k)' \subseteq A \cup {c}
    BY <1>0 DEF CheckedSeats
  <2> HIDE DEF A, P
  <2>3. IsFiniteSet(A \cup {c}) /\ Cardinality(A \cup {c}) <= Cardinality(A) + 1 /\ Cardinality(A \cup {c}) \in Nat
    <3>1. IsFiniteSet(A \cup {c}) /\ (Cardinality(A \cup {c}) = Cardinality(A) \/ Cardinality(A \cup {c}) = Cardinality(A) + 1)
      BY <1>1, FS_AddElement
    <3> DEFINE m == Cardinality(A)
               n == Cardinality(A \cup {c})
    <3>2. m \in Nat /\ (n = m \/ n = m + 1)
      BY <1>2, <3>1
    <3> HIDE DEF m, n
    <3>3. n <= m + 1 /\ n \in Nat
      BY <3>2
    <3> QED BY <3>1, <3>3 DEF m, n
  <2>4. IsFiniteSet(P \ {q}) /\ Cardinality(P \ {q}) = Cardinality(P) - 1
    BY <1>1, <2>1, FS_RemoveElement
  <2>5. /\ Cardinality(CheckedSeats(k)') <= Cardinality(A \cup {c}) /\ IsFiniteSet(CheckedSeats(k)')
        /\ Cardinality(Pending(k)') <= Cardinality(P \ {q}) /\ IsFiniteSet(Pending(k)')
    BY <1>3, <2>2, <2>3, <2>4, FS_Subset
  <2>6. Cardinality(CheckedSeats(k)') \in Nat /\ Cardinality(Pending(k)') \in Nat
    BY <2>5, FS_CardinalityType
  <2> QED BY <1>2, <2>3, <2>4, <2>5, <2>6
<1>5. CASE k # req[q].coach
  <2>1. CheckedSeats(k)' \subseteq A
    BY <1>0, <1>5 DEF CheckedSeats
  <2>2. Pending(k)' \subseteq P
    BY <1>3
  <2> HIDE DEF A, P
  <2>3. /\ Cardinality(CheckedSeats(k)') <= Cardinality(A) /\ IsFiniteSet(CheckedSeats(k)')
        /\ Cardinality(Pending(k)') <= Cardinality(P) /\ IsFiniteSet(Pending(k)')
    BY <1>1, <2>1, <2>2, FS_Subset
  <2>4. Cardinality(CheckedSeats(k)') \in Nat /\ Cardinality(Pending(k)') \in Nat
    BY <2>3, FS_CardinalityType
  <2> QED BY <1>2, <2>3, <2>4
<1> QED BY <1>4, <1>5

LEMMA AddCoachClientSeat ==
    ASSUME SeatInv, NEW q \in Requests, AddCoachClient(q)
    PROVE  SeatInv'
<1> DEFINE r == req[q]
           w == Further(r)
<1>1. /\ r \in Request /\ ReqOK(r)
      /\ (r.kind = "link" /\ r.step = 5) \/ (r.kind = "oauth" /\ r.step = 3) \/ (r.kind = "invited" /\ r.step = 2)
  BY CallOf, CallsOf DEF AddCoachClient
<1>2. r.client # 0 /\ r.coach # None
  BY <1>1 DEF ReqOK
<1>3. w \in Request /\ ReqOK(w) /\ Same(r, w)
  BY <1>1, <1>2, NextCall
<1>4. r.kind = "link" => w = Idle
  <2> SUFFICES ASSUME r.kind = "link" PROVE w = Idle
    OBVIOUS
  <2>1. Len(Steps[r.kind]) = 5 /\ r.step = 5
    BY <1>1, LengthOf
  <2> QED BY <2>1 DEF Further
<1>5. /\ rows' \in {rows, [rows EXCEPT ![r.client] = r.coach]}
      /\ checked' = (IF r.passed THEN checked \cup {r.client} ELSE checked)
      /\ req' = [req EXCEPT ![q] = w]
      /\ UNCHANGED <<users, token, nextId, handed, halted, deleted>>
  BY DEF AddCoachClient, Go
<1> PICK c \in Clients : c = r.client
  BY <1>1, <1>2 DEF Request
<1>6. r.coach \in Coaches
  BY <1>1, <1>2 DEF Request
<1>7. /\ rows \in [Clients -> Coaches \cup {None}] /\ checked \subseteq Clients /\ c # 0 /\ c \notin checked /\ c < nextId
      /\ \A j \in Requests : j # q => req[j].client # c
      /\ 0 \notin checked /\ nextId \in Nat /\ nextId >= 1
  BY <1>2, SeatsAssumption DEF SeatInv, Typed, Ids, Clients
<1>8. w.client = 0 \/ (w.client = c /\ w.kind = r.kind)
  BY <1>3 DEF Same
<1> HIDE DEF w
<1>9. rows' \in [Clients -> Coaches \cup {None}] /\ checked' \subseteq Clients
      /\ \A d \in Clients : d # c => rows'[d] = rows[d]
  BY <1>5, <1>6, <1>7
<1>10. Typed' /\ req'[q] = w /\ \A j \in Requests : j # q => req'[j] = req[j]
  BY <1>3, <1>5, <1>9, StepTyped DEF SeatInv, Typed, Became
<1>11. r.passed => r.kind = "link"
  BY <1>1 DEF ReqOK
<1>12. Ids'
  <2>1. \A j \in Requests : req'[j].client < nextId'
    BY <1>5, <1>7, <1>8, <1>10 DEF SeatInv, Ids
  <2>2. \A d \in checked' : d < nextId'
    BY <1>5, <1>7 DEF SeatInv, Ids
  <2>3. \A d \in Clients : rows'[d] # None => d < nextId'
    BY <1>5, <1>7, <1>9 DEF SeatInv, Ids
  <2>4. \A i, j \in Requests : i # j /\ req'[i].client = req'[j].client => req'[i].client = 0
    BY <1>7, <1>8, <1>10 DEF SeatInv, Ids
  <2>5. \A j \in Requests : req'[j].client \notin checked'
    <3>1. CASE r.passed
      <4>1. w.client = 0
        BY <1>4, <1>11, <3>1, IdleIsOne
      <4> QED BY <1>5, <1>7, <1>10, <3>1, <4>1 DEF SeatInv, Ids
    <3>2. CASE ~r.passed
      BY <1>5, <1>7, <1>8, <1>10, <3>2 DEF SeatInv, Ids
    <3> QED BY <3>1, <3>2
  <2>6. \A j \in Requests : req'[j].kind = "link" /\ req'[j].client # 0 => rows'[req'[j].client] = None
    <3>1. req'[q].kind = "link" => req'[q].client = 0
      BY <1>4, <1>8, <1>10, IdleIsOne
    <3>2. \A j \in Requests : req[j].client \in Clients \cup {0}
      BY DEF SeatInv, Typed, Request
    <3> QED BY <1>7, <1>9, <1>10, <3>1, <3>2 DEF SeatInv, Ids
  <2> QED BY <2>1, <2>2, <2>3, <2>4, <2>5, <2>6 DEF Ids
<1>13. SeatsNotOversold'
  <2>1. CASE r.passed
    <3>1. rows[c] = None
      BY <1>7, <1>11, <2>1 DEF SeatInv, Ids
    <3>2. checked' = checked \cup {c} /\ req'[q] = Idle /\ r.kind = "link" /\ rows' \in {rows, [rows EXCEPT ![c] = r.coach]}
      BY <1>4, <1>5, <1>10, <1>11, <2>1
    <3> QED BY <1>10, <2>1, <3>1, <3>2, RowSold DEF r
  <2>2. CASE ~r.passed
    <3>1. \A d \in checked : rows'[d] = rows[d]
      BY <1>7, <1>9
    <3>2. checked' = checked
      BY <1>5, <2>2
    <3>3. w.client = 0 => ~w.passed \/ w.kind = r.kind
      BY <1>3 DEF Same
    <3> QED BY <1>3, <1>10, <3>1, <3>2, <3>3, SameSold DEF r
  <2> QED BY <2>1, <2>2
<1>14. LinksStayValid'
  BY <1>5 DEF SeatInv, LinksStayValid
<1> QED BY <1>10, <1>12, <1>13, <1>14 DEF SeatInv

-----------------------------------------------------------------------------
(* The theorems *)

LEMMA InitSeatInv == Init => SeatInv
<1> SUFFICES ASSUME Init PROVE SeatInv
  OBVIOUS
<1>1. Typed
  BY IdleIsOne, SeatsAssumption DEF Init, Typed
<1>2. Ids
  BY IdleIsOne DEF Init, Ids
<1>3. LinksStayValid
  BY DEF Init, LinksStayValid
<1>4. SeatsNotOversold
  <2> SUFFICES ASSUME NEW k \in DOMAIN Limits
               PROVE  Cardinality(CheckedSeats(k)) + Cardinality(Pending(k)) <= Limits[k] + Cardinality(Requests) - 1
    BY DEF SeatsNotOversold
  <2>1. CheckedSeats(k) = {} /\ Pending(k) = {}
    BY IdleIsOne DEF Init, CheckedSeats, Pending
  <2>2. Cardinality({}) = 0
    BY FS_EmptySet
  <2>3. Limits[k] \in Nat /\ Cardinality(Requests) \in Nat /\ Cardinality(Requests) >= 1
    BY <1>1, FiniteSeats
  <2> QED BY <2>1, <2>2, <2>3
<1> QED BY <1>1, <1>2, <1>3, <1>4 DEF SeatInv

LEMMA StepSeatInv ==
    ASSUME SeatInv, [Next]_vars
    PROVE  SeatInv'
<1>1. ASSUME NEW q \in Requests, Begin(q) PROVE SeatInv'
  BY <1>1, BeginSeat
<1>2. ASSUME NEW q \in Requests, Call(q) PROVE SeatInv'
  BY <1>2, ResolveSeat, CheckSeat, IdentifySeat, CreateUserSeat, AddCoachClientSeat, FindLinkSeat,
     InsertLinkSeat, AbortSeat DEF Call
<1>3. ASSUME NEW c \in Clients, DeleteUser(c) PROVE SeatInv'
  BY <1>3, DeleteUserSeat
<1>4. ASSUME NEW c \in Clients, NEW k \in Coaches, Dissociate(k, c) PROVE SeatInv'
  BY <1>4, DissociateSeat
<1>5. CASE UNCHANGED vars
  BY <1>5, QuietSeat, Unfold DEF vars, histories
<1> QED BY <1>1, <1>2, <1>3, <1>4, <1>5 DEF Next

\* The inductive invariant: ids are given once, a request has what its call needs, a row is checked once.
THEOREM Spec_SeatInv == Spec => []SeatInv
  BY InitSeatInv, StepSeatInv, PTL DEF Spec

\* Rows and accounts are only written for a coach and an id that are known, whatever the requests.
THEOREM Spec_SeatsTypeOK == Spec => []SeatsTypeOK
<1>1. SeatInv => SeatsTypeOK
  BY TypedIsEnough DEF SeatInv
<1> QED BY <1>1, Spec_SeatInv, PTL

\* For any limits and any number of requests in flight, what is sold after a check exceeds a coach's
\* limit by less than the number of requests that can be in flight at once.
THEOREM Spec_SeatsNotOversold == Spec => []SeatsNotOversold
<1>1. SeatInv => SeatsNotOversold
  BY DEF SeatInv
<1> QED BY <1>1, Spec_SeatInv, PTL

\* A registration link that a coach was ever answered stays the coach's link.
THEOREM Spec_LinksStayValid == Spec => []LinksStayValid
<1>1. SeatInv => LinksStayValid
  BY DEF SeatInv
<1> QED BY <1>1, Spec_SeatInv, PTL

-----------------------------------------------------------------------------
(* The lists.  In a list without repetitions each client has one place, and a place is on one page. *)

\* A list that shows nobody twice.
OnceEach(s, n) == n \in Nat /\ DOMAIN s = 1 .. n /\ Len(s) = n /\ \A i, j \in 1 .. n : s[i] = s[j] => i = j

LEMMA Products ==
    /\ \A x, y \in Nat : x * y \in Nat
    /\ \A x, y, b \in Nat : x <= y => x * b <= y * b
    /\ \A x, b \in Nat : (x + 1) * b = x * b + b
  OBVIOUS

\* The page of a place.
LEMMA PlaceHasPage ==
    ASSUME NEW n \in Nat, NEW len \in Nat, 1 <= n, n <= len
    PROVE  \E p \in 1 .. PageCount(len) : (p - 1) * PageSize + 1 <= n /\ n <= p * PageSize
<1> DEFINE b == PageSize
           h == (n - 1) \div b
           g == (len + b - 1) \div b
<1>0. b \in Nat \ {0} /\ n - 1 \in Nat /\ len + b - 1 \in Nat
  BY PageAssumption
<1>1. h \in Nat /\ (n - 1) = b * h + ((n - 1) % b) /\ (n - 1) % b \in 0 .. b - 1
  BY <1>0
<1>2. g \in Nat /\ len + b - 1 = b * g + ((len + b - 1) % b) /\ (len + b - 1) % b \in 0 .. b - 1
  BY <1>0
<1>3. g = PageCount(len)
  BY DEF PageCount
<1> HIDE DEF h, g, b
<1>4. b * h \in Nat /\ b * g \in Nat /\ b * h = h * b /\ b * g = g * b
  BY <1>0, <1>1, <1>2, Products
<1>5. h * b <= n - 1 /\ n - 1 < h * b + b /\ len <= g * b
  BY <1>0, <1>1, <1>2, <1>4
<1>6. (h + 1) * b = h * b + b
  BY <1>0, <1>1, Products
<1>7. h + 1 <= g
  <2> SUFFICES ASSUME g <= h PROVE FALSE
    BY <1>1, <1>2
  <2>1. g * b <= h * b
    BY <1>0, <1>1, <1>2, Products
  <2> QED BY <1>4, <1>5, <2>1
<1>8. h + 1 \in 1 .. g /\ (h + 1) - 1 = h
  BY <1>1, <1>2, <1>7
<1>9. h * b + 1 <= n /\ n <= h * b + b
  BY <1>0, <1>4, <1>5
<1>10. ((h + 1) - 1) * b + 1 <= n /\ n <= (h + 1) * b
  BY <1>6, <1>8, <1>9
<1> QED BY <1>3, <1>8, <1>10 DEF b

LEMMA PageIsOne ==
    ASSUME NEW n \in Nat, NEW p \in Nat \ {0}, NEW q \in Nat \ {0},
           (p - 1) * PageSize + 1 <= n, n <= p * PageSize,
           (q - 1) * PageSize + 1 <= n, n <= q * PageSize
    PROVE  p = q
<1>1. ASSUME NEW x \in Nat \ {0}, NEW y \in Nat \ {0}, x < y,
             n <= x * PageSize, (y - 1) * PageSize + 1 <= n
      PROVE  FALSE
  <2>1. x <= y - 1 /\ y - 1 \in Nat /\ PageSize \in Nat
    BY <1>1, PageAssumption
  <2>2. x * PageSize <= (y - 1) * PageSize /\ x * PageSize \in Nat /\ (y - 1) * PageSize \in Nat
    BY <2>1, Products
  <2> QED BY <1>1, <2>2
<1>2. ~(p < q) /\ ~(q < p)
  BY <1>1
<1> QED BY <1>2

LEMMA OnOnePage ==
    ASSUME NEW s, NEW len, OnceEach(s, len), NEW i \in 1 .. len
    PROVE  Cardinality({p \in 1 .. PageCount(Len(s)) : s[i] \in Page(s, p)}) = 1
<1> DEFINE pages == {p \in 1 .. PageCount(Len(s)) : s[i] \in Page(s, p)}
<1>1. len \in Nat /\ i \in Nat /\ 1 <= i /\ i <= len /\ Len(s) = len /\ DOMAIN s = 1 .. len
  BY DEF OnceEach
<1>2. PICK p \in 1 .. PageCount(len) : (p - 1) * PageSize + 1 <= i /\ i <= p * PageSize
  BY <1>1, PlaceHasPage
<1>3. ASSUME NEW q \in 1 .. PageCount(len)
      PROVE  s[i] \in Page(s, q) <=> (q - 1) * PageSize + 1 <= i /\ i <= q * PageSize
  <2>1. q - 1 \in Nat /\ q \in Nat /\ PageSize \in Nat
    BY <1>3, PageAssumption
  <2>2. (q - 1) * PageSize + 1 \in Nat /\ q * PageSize \in Nat
    BY <2>1, Products
  <2>3. s[i] \in Page(s, q) <=> \E j \in ((q - 1) * PageSize + 1 .. q * PageSize) \cap (1 .. len) : s[j] = s[i]
    BY <1>1 DEF Page
  <2>4. \A j \in 1 .. len : s[j] = s[i] => j = i
    BY <1>1 DEF OnceEach
  <2> QED BY <1>1, <2>2, <2>3, <2>4
<1>4. \A q \in 1 .. PageCount(len) : q \in Nat \ {0}
  OBVIOUS
<1>5. p \in pages
  BY <1>1, <1>2, <1>3
<1>6. \A q \in pages : q = p
  BY <1>1, <1>2, <1>3, <1>4, PageIsOne
<1>7. pages = {p}
  BY <1>5, <1>6
<1> QED BY <1>7, FS_Singleton

\* The join keeps each client that has an account, at one place.
LEMMA JoinedShows ==
    ASSUME NEW s, NEW len, OnceEach(s, len), NEW accounts
    PROVE  \E m : /\ OnceEach(Joined(s, accounts), m)
                  /\ \A i \in 1 .. len : s[i] \in accounts => \E n \in 1 .. m : Joined(s, accounts)[n] = s[i]
<1> DEFINE kept == {i \in DOMAIN s : s[i] \in accounts}
           before(i) == {j \in kept : j < i}
           m == Cardinality(kept)
           f == [i \in kept |-> Cardinality(before(i))]
           t == Joined(s, accounts)
<1>0. len \in Nat /\ DOMAIN s = 1 .. len /\ \A i, j \in 1 .. len : s[i] = s[j] => i = j
  BY DEF OnceEach
<1>1. kept \in SUBSET (1 .. len) /\ IsFiniteSet(1 .. len)
  BY <1>0, FS_Interval
<1>2. IsFiniteSet(kept) /\ m \in Nat
  BY <1>1, FS_Subset, FS_CardinalityType
<1>3. ASSUME NEW i \in kept
      PROVE  /\ IsFiniteSet(before(i)) /\ Cardinality(before(i)) \in 0 .. m - 1
             /\ \A j \in kept : j < i => Cardinality(before(j)) < Cardinality(before(i))
  <2>1. before(i) \in SUBSET kept /\ i \in kept /\ i \notin before(i) /\ i \in Nat
    BY <1>1
  <2>2. IsFiniteSet(before(i)) /\ Cardinality(before(i)) \in Nat
    BY <1>2, <2>1, FS_Subset, FS_CardinalityType
  <2>3. Cardinality(before(i)) <= m /\ Cardinality(before(i)) # m
    BY <1>2, <2>1, FS_Subset
  <2>4. ASSUME NEW j \in kept, j < i PROVE Cardinality(before(j)) < Cardinality(before(i))
    <3>1. before(j) \in SUBSET before(i) /\ j \in before(i) /\ j \notin before(j)
      BY <1>1, <2>4
    <3>2. /\ Cardinality(before(j)) <= Cardinality(before(i)) /\ Cardinality(before(j)) # Cardinality(before(i))
          /\ IsFiniteSet(before(j))
      BY <2>2, <3>1, FS_Subset
    <3>3. Cardinality(before(j)) \in Nat
      BY <3>2, FS_CardinalityType
    <3> QED BY <2>2, <3>2, <3>3
  <2> QED BY <1>2, <2>2, <2>3, <2>4
<1>4. t = [n \in 1 .. m |-> s[CHOOSE i \in kept : Cardinality(before(i)) = n - 1]]
  BY DEF Joined
<1>5. \A i \in kept : f[i] = Cardinality(before(i)) /\ f[i] \in 0 .. m - 1
  BY <1>3
<1>6. f \in [kept -> 0 .. m - 1]
  BY <1>5
<1>7. \A i, j \in kept : Cardinality(before(i)) = Cardinality(before(j)) => i = j
  <2>1. \A i \in kept : i \in Nat /\ Cardinality(before(i)) \in Nat
    <3>1. \A i \in kept : i \in Nat
      BY <1>1
    <3>2. \A i \in kept : Cardinality(before(i)) \in 0 .. m - 1
      BY <1>3
    <3> HIDE DEF before, m, kept
    <3> QED BY <1>2, <3>1, <3>2
  <2>2. \A i, j \in kept : j < i => Cardinality(before(j)) < Cardinality(before(i))
    BY <1>3
  <2> HIDE DEF before, kept
  <2> QED BY <2>1, <2>2
<1>8. f \in Injection(kept, 0 .. m - 1)
  BY <1>5, <1>6, <1>7 DEF Injection, IsInjective
<1>9. IsFiniteSet(0 .. m - 1) /\ Cardinality(0 .. m - 1) = m
  <2>1. /\ IsFiniteSet(0 .. m - 1)
        /\ Cardinality(0 .. m - 1) = IF 0 > m - 1 THEN 0 ELSE (m - 1) - 0 + 1
    BY <1>2, FS_Interval
  <2> QED BY <1>2, <2>1
<1>10. \A x \in 0 .. m - 1 : \E i \in kept : f[i] = x
  <2>1. f \in Surjection(kept, 0 .. m - 1)
    <3> HIDE DEF f
    <3> QED BY <1>8, <1>9, FS_Injection
  <2> QED BY <2>1 DEF Surjection
<1> DEFINE at(n) == CHOOSE i \in kept : Cardinality(before(i)) = n - 1
<1>11. \A n \in 1 .. m : at(n) \in kept /\ Cardinality(before(at(n))) = n - 1
  <2> SUFFICES ASSUME NEW n \in 1 .. m PROVE at(n) \in kept /\ Cardinality(before(at(n))) = n - 1
    OBVIOUS
  <2>1. n - 1 \in 0 .. m - 1
    BY <1>2
  <2>2. \E i \in kept : Cardinality(before(i)) = n - 1
    BY <1>5, <1>10, <2>1
  <2> HIDE DEF before, kept
  <2> QED BY <2>2
<1>12. DOMAIN t = 1 .. m /\ Len(t) = m /\ \A n \in 1 .. m : t[n] = s[at(n)]
  <2> HIDE DEF at, m, t
  <2>1. t = [n \in 1 .. m |-> s[at(n)]]
    BY <1>4 DEF at
  <2> QED BY <1>2, <2>1
<1> HIDE DEF at, m, t, before, f
<1>13. \A n, l \in 1 .. m : t[n] = t[l] => n = l
  <2> SUFFICES ASSUME NEW n \in 1 .. m, NEW l \in 1 .. m, t[n] = t[l] PROVE n = l
    OBVIOUS
  <2>1. at(n) = at(l)
    BY <1>0, <1>1, <1>11, <1>12
  <2>2. n - 1 = l - 1
    BY <1>11, <2>1
  <2> QED BY <2>2
<1>14. \A i \in 1 .. len : s[i] \in accounts => \E n \in 1 .. m : t[n] = s[i]
  <2> SUFFICES ASSUME NEW i \in 1 .. len, s[i] \in accounts PROVE \E n \in 1 .. m : t[n] = s[i]
    OBVIOUS
  <2>0. i \in kept
    BY <1>0
  <2>1. Cardinality(before(i)) \in 0 .. m - 1
    <3> HIDE DEF kept
    <3> QED BY <1>3, <2>0
  <2> DEFINE n == Cardinality(before(i)) + 1
  <2>2. n \in 1 .. m /\ n - 1 = Cardinality(before(i))
    BY <1>2, <2>1
  <2> HIDE DEF n, kept
  <2>3. at(n) = i
    BY <1>7, <1>11, <2>0, <2>2
  <2> QED BY <1>12, <2>2, <2>3
<1> QED BY <1>2, <1>12, <1>13, <1>14 DEF OnceEach, t

\* Every client of a list that has an account stands once in each of the lists made of it.
LEMMA ShownOnce ==
    ASSUME NEW s, NEW len, OnceEach(s, len), NEW i \in 1 .. len, NEW accounts, s[i] \in accounts
    PROVE  ShownEverywhere(s, accounts, s[i])
<1> DEFINE c == s[i]
           t == Joined(s, accounts)
<1>1. PICK m : OnceEach(t, m) /\ \E n \in 1 .. m : t[n] = c
  BY JoinedShows
<1>2. Cardinality({p \in 1 .. PageCount(Len(t)) : c \in Page(t, p)}) = 1
  BY <1>1, OnOnePage
<1>3. Cardinality({p \in 1 .. PageCount(Len(s)) : c \in Page(s, p)}) = 1
  BY OnOnePage
<1>4. {p \in 1 .. PageCount(Len(s)) : c \in Page(s, p) \cap accounts}
        = {p \in 1 .. PageCount(Len(s)) : c \in Page(s, p)}
  OBVIOUS
<1>5. /\ StandsOnce(ListCoachClients, s, accounts, c)
      /\ StandsOnce(ListClientAccess, s, accounts, c)
      /\ StandsOnce(ClientsOfCoaches, s, accounts, c)
  BY <1>2 DEF StandsOnce, ListCoachClients, ListClientAccess, ClientsOfCoaches, Paged
<1>6. StandsOnce(ListCoachClientsSummary, s, accounts, c)
  BY <1>3, <1>4 DEF StandsOnce, ListCoachClientsSummary
<1>7. c \in GetAllCoachClientDetails(s, accounts) \cap GetClientIDsByCoach(s)
  BY DEF OnceEach, GetAllCoachClientDetails, GetClientIDsByCoach, ToSet
<1> QED BY <1>5, <1>6, <1>7 DEF ShownEverywhere

-----------------------------------------------------------------------------
(* The rows.  A signup through a link stores its row after the account; the others have the account  *)
(* still to store.                                                                                  *)

\* A request that has stored its row and not the account.
RowFirst(r) == (r.kind = "oauth" /\ r.step = 4) \/ (r.kind = "invited" /\ r.step = 3)

\* A signup through a link that has stored the account and not the row.
RowLast(r) == r.kind = "link" /\ r.step = 5

RowsAccounted ==
    \A c \in Clients : rows[c] # None =>
      \/ c \in users \cup deleted \cup halted
      \/ \E j \in Requests : RowFirst(req[j]) /\ req[j].client = c

LinkAdds == \A j \in Requests : RowLast(req[j]) => req[j].client \in users \cup deleted

ListInv == SeatInv /\ RowsAccounted /\ LinkAdds

\* What a step of one request may do to its row and its account.
LEMMA StepAccounted ==
    ASSUME ListInv, NEW q \in Requests, NEW w, req' = [req EXCEPT ![q] = w],
           users \subseteq users', deleted \subseteq deleted', halted \subseteq halted',
           RowFirst(req[q]) => req[q].client \in users' \cup deleted' \cup halted',
           RowLast(w) => w.client \in users' \cup deleted',
           \A c \in Clients : rows'[c] # None =>
             rows[c] # None \/ (RowFirst(w) /\ w.client = c) \/ c \in users' \cup deleted'
    PROVE  RowsAccounted' /\ LinkAdds'
<1>1. req'[q] = w /\ \A j \in Requests : j # q => req'[j] = req[j]
  BY Unfold DEF ListInv
<1>2. ASSUME NEW c \in Clients, rows'[c] # None
      PROVE  \/ c \in users' \cup deleted' \cup halted'
             \/ \E j \in Requests : RowFirst(req'[j]) /\ req'[j].client = c
  <2>1. CASE rows[c] # None
    BY <1>1, <2>1 DEF ListInv, RowsAccounted
  <2>2. CASE rows[c] = None
    BY <1>1, <1>2, <2>2
  <2> QED BY <2>1, <2>2
<1>3. ASSUME NEW j \in Requests, RowLast(req'[j]) PROVE req'[j].client \in users' \cup deleted'
  BY <1>1, <1>3 DEF ListInv, LinkAdds
<1> QED BY <1>2, <1>3 DEF RowsAccounted, LinkAdds, RowFirst, RowLast

\* A step that stores neither.
LEMMA OtherStep ==
    ASSUME ListInv, NEW q \in Requests, NEW w, req' = [req EXCEPT ![q] = w],
           UNCHANGED <<users, rows, deleted>>, halted \subseteq halted',
           RowFirst(req[q]) => req[q].client \in halted', ~RowLast(w)
    PROVE  RowsAccounted' /\ LinkAdds'
  BY StepAccounted

LEMMA IdleIsNeither == ~RowFirst(Idle) /\ ~RowLast(Idle)
  BY DEF Idle, RowFirst, RowLast

LEMMA BeginAccounted ==
    ASSUME ListInv, NEW q \in Requests, Begin(q)
    PROVE  RowsAccounted' /\ LinkAdds'
<1>1. UNCHANGED <<users, rows, deleted, halted>>
  BY DEF Begin, Share, Invited, Follow, histories
<1>2. ~RowFirst(req[q])
  BY IdleIsNeither DEF Begin, Share, Invited, Follow
<1>3. Idle \in Request
  BY IdleIsOne
<1>4. PICK w : req' = [req EXCEPT ![q] = w] /\ w.step = 1
  <2>1. \A k, t : [Idle EXCEPT !.step = 1, !.coach = k, !.token = t].step = 1
    BY <1>3 DEF Request
  <2>2. \A kind, t : [Idle EXCEPT !.kind = kind, !.step = 1, !.token = t].step = 1
    BY <1>3 DEF Request
  <2>3. \A kind, k : [Idle EXCEPT !.kind = kind, !.step = 1, !.coach = k].step = 1
    BY <1>3 DEF Request
  <2>4. ASSUME NEW k \in Coaches, Share(q, k) PROVE \E w : req' = [req EXCEPT ![q] = w] /\ w.step = 1
    <3> DEFINE w == [Idle EXCEPT !.step = 1, !.coach = k, !.token = q]
    <3>1. req' = [req EXCEPT ![q] = w]
      BY <2>4 DEF Share
    <3>2. w.step = 1
      BY <2>1
    <3> HIDE DEF w
    <3> QED BY <3>1, <3>2
  <2>5. ASSUME NEW k \in Coaches, Invited(q, k) PROVE \E w : req' = [req EXCEPT ![q] = w] /\ w.step = 1
    <3> DEFINE w == [Idle EXCEPT !.kind = "invited", !.step = 1, !.coach = k]
    <3>1. req' = [req EXCEPT ![q] = w]
      BY <2>5 DEF Invited
    <3>2. w.step = 1
      BY <2>3
    <3> HIDE DEF w
    <3> QED BY <3>1, <3>2
  <2>6. ASSUME NEW kind \in Kinds, Follow(q, kind) PROVE \E w : req' = [req EXCEPT ![q] = w] /\ w.step = 1
    <3>0. PICK k \in Coaches : \E t \in handed[k] :
            req' = [req EXCEPT ![q] = [Idle EXCEPT !.kind = kind, !.step = 1, !.token = t]]
      BY <2>6 DEF Follow
    <3>1. PICK t : req' = [req EXCEPT ![q] = [Idle EXCEPT !.kind = kind, !.step = 1, !.token = t]]
      BY <3>0
    <3> DEFINE w == [Idle EXCEPT !.kind = kind, !.step = 1, !.token = t]
    <3>2. w.step = 1
      BY <2>2
    <3> HIDE DEF w
    <3> QED BY <3>1, <3>2 DEF w
  <2> QED BY <2>4, <2>5, <2>6 DEF Begin
<1>5. ~RowLast(w)
  BY <1>4 DEF RowLast
<1> QED BY <1>1, <1>2, <1>4, <1>5, OtherStep

LEMMA ResolveAccounted ==
    ASSUME ListInv, NEW q \in Requests, Resolve(q)
    PROVE  RowsAccounted' /\ LinkAdds'
<1> DEFINE r == req[q]
<1>1. r \in Request /\ ReqOK(r) /\ ((r.kind = "link" /\ r.step = 1) \/ (r.kind = "oauth" /\ r.step = 2))
  BY CallOf, CallsOf DEF ListInv, Resolve
<1>2. UNCHANGED <<users, rows, deleted, halted>>
  BY DEF Resolve, histories
<1>0. ~RowFirst(r)
  BY <1>1 DEF RowFirst
<1>3. CASE req' = [req EXCEPT ![q] = Idle]
  BY <1>0, <1>2, <1>3, OtherStep, IdleIsNeither
<1>4. ASSUME NEW k \in Coaches, req' = [req EXCEPT ![q] = Further([r EXCEPT !.coach = k])]
      PROVE  RowsAccounted' /\ LinkAdds'
  <2> DEFINE s == [r EXCEPT !.coach = k]
  <2>1. s \in Request /\ s.kind = r.kind /\ s.step = r.step
    BY <1>1 DEF Request
  <2> HIDE DEF s
  <2>2. Further(s) = Idle \/ Further(s) = [s EXCEPT !.step = s.step + 1]
    BY DEF Further
  <2>3. ~RowLast(Further(s))
    <3>1. ASSUME Further(s) = [s EXCEPT !.step = s.step + 1] PROVE ~RowLast(Further(s))
      BY <1>1, <2>1, <3>1 DEF Request, RowLast
    <3> QED BY <2>2, <3>1, IdleIsNeither
  <2> QED BY <1>0, <1>2, <1>4, <2>3, OtherStep DEF s
<1> QED BY <1>3, <1>4 DEF Resolve, Stop

LEMMA CheckAccounted ==
    ASSUME ListInv, NEW q \in Requests, Check(q)
    PROVE  RowsAccounted' /\ LinkAdds'
<1> DEFINE r == req[q]
<1>1. r \in Request /\ ReqOK(r) /\ ((r.kind = "link" /\ r.step = 2) \/ (r.kind = "share" /\ r.step = 1))
  BY CallOf, CallsOf DEF ListInv, Check
<1>2. UNCHANGED <<users, rows, deleted, halted>>
  BY DEF Check, histories
<1>0. ~RowFirst(r)
  BY <1>1 DEF RowFirst
<1>3. CASE req' = [req EXCEPT ![q] = Idle]
  BY <1>0, <1>2, <1>3, OtherStep, IdleIsNeither
<1>4. ASSUME NEW s \in Request, s.kind = r.kind, s.step = r.step, req' = [req EXCEPT ![q] = Further(s)]
      PROVE  RowsAccounted' /\ LinkAdds'
  <2>1. Further(s) = Idle \/ Further(s) = [s EXCEPT !.step = s.step + 1]
    BY DEF Further
  <2>2. ~RowLast(Further(s))
    <3>1. ASSUME Further(s) = [s EXCEPT !.step = s.step + 1] PROVE ~RowLast(Further(s))
      BY <1>1, <1>4, <3>1 DEF Request, RowLast
    <3> QED BY <2>1, <3>1, IdleIsNeither
  <2> QED BY <1>0, <1>2, <1>4, <2>2, OtherStep
<1>5. \A p \in BOOLEAN : /\ [r EXCEPT !.passed = p] \in Request
                         /\ [r EXCEPT !.passed = p].kind = r.kind
                         /\ [r EXCEPT !.passed = p].step = r.step
  BY <1>1 DEF Request
<1>6. (r.coach \in DOMAIN Limits) \in BOOLEAN
  OBVIOUS
<1>7. \/ req' = [req EXCEPT ![q] = Further([r EXCEPT !.passed = r.coach \in DOMAIN Limits])]
      \/ req' = [req EXCEPT ![q] = Idle]
      \/ req' = [req EXCEPT ![q] = Further(r)]
  BY DEF Check, Stop, Go
<1> HIDE DEF r
<1> QED BY <1>1, <1>3, <1>4, <1>5, <1>6, <1>7

LEMMA IdentifyAccounted ==
    ASSUME ListInv, NEW q \in Requests, Identify(q)
    PROVE  RowsAccounted' /\ LinkAdds'
<1> DEFINE r == req[q]
           s == [r EXCEPT !.client = nextId]
<1>1. r \in Request /\ ReqOK(r)
      /\ ((r.kind = "link" /\ r.step = 3) \/ (r.kind \in {"oauth", "invited"} /\ r.step = 1))
  BY CallOf, CallsOf DEF ListInv, Identify
<1>2. UNCHANGED <<users, rows, deleted, halted>> /\ req' = [req EXCEPT ![q] = Further(s)]
  BY DEF Identify, histories
<1>0. ~RowFirst(r)
  BY <1>1 DEF RowFirst
<1>3. s.kind = r.kind /\ s.step = r.step /\ s = [r EXCEPT !.client = s.client]
  BY <1>1 DEF Request
<1>4. Further(s) = Idle \/ Further(s) = [s EXCEPT !.step = s.step + 1]
  BY DEF Further
<1>5. ASSUME Further(s) = [s EXCEPT !.step = s.step + 1] PROVE ~RowLast(Further(s))
  <2>1. Further(s).kind = r.kind /\ Further(s).step = r.step + 1
    BY <1>1, <1>3, <1>5 DEF Request
  <2> QED BY <1>1, <2>1 DEF RowLast
<1>6. ~RowLast(Further(s))
  BY <1>4, <1>5, IdleIsNeither
<1> QED BY <1>0, <1>2, <1>6, OtherStep

LEMMA CreateUserAccounted ==
    ASSUME ListInv, NEW q \in Requests, CreateUser(q)
    PROVE  RowsAccounted' /\ LinkAdds'
<1> DEFINE r == req[q]
<1>1. r \in Request
  BY CallOf DEF ListInv, CreateUser
<1>2. users' = users \cup {r.client} /\ UNCHANGED <<rows, deleted, halted>> /\ req' = [req EXCEPT ![q] = Further(r)]
  BY DEF CreateUser, Go, histories
<1>3. Further(r) = Idle \/ Further(r) = [r EXCEPT !.step = r.step + 1]
  BY DEF Further
<1>4. RowLast(Further(r)) => Further(r).client = r.client
  <2>1. ASSUME Further(r) = [r EXCEPT !.step = r.step + 1] PROVE Further(r).client = r.client
    BY <1>1, <2>1 DEF Request
  <2> QED BY <1>3, <2>1, IdleIsNeither
<1> QED BY <1>2, <1>4, StepAccounted

LEMMA AddCoachClientAccounted ==
    ASSUME ListInv, NEW q \in Requests, AddCoachClient(q)
    PROVE  RowsAccounted' /\ LinkAdds'
<1> DEFINE r == req[q]
           c == r.client
           w == Further(r)
<1>1. /\ r \in Request /\ ReqOK(r)
      /\ (r.kind = "link" /\ r.step = 5) \/ (r.kind = "oauth" /\ r.step = 3) \/ (r.kind = "invited" /\ r.step = 2)
  BY CallOf, CallsOf DEF ListInv, AddCoachClient
<1>2. /\ UNCHANGED <<users, deleted, halted>> /\ req' = [req EXCEPT ![q] = w]
      /\ rows' \in {rows, [rows EXCEPT ![c] = r.coach]}
  BY DEF AddCoachClient, Go
<1>3. \A d \in Clients : rows'[d] # rows[d] => d = c
  BY <1>2 DEF ListInv, SeatInv, Typed
<1>4. CASE r.kind = "link"
  <2>1. w = Idle
    BY <1>1, <1>4, LengthOf DEF Further
  <2>2. c \in users \cup deleted /\ ~RowFirst(r)
    BY <1>1, <1>4 DEF ListInv, LinkAdds, RowLast, RowFirst
  <2> HIDE DEF w, c
  <2>3. \A d \in Clients : rows'[d] # None => rows[d] # None \/ (RowFirst(w) /\ w.client = d) \/ d \in users' \cup deleted'
    BY <1>2, <1>3, <2>2
  <2> QED BY <1>2, <2>1, <2>2, <2>3, IdleIsNeither, StepAccounted
<1>5. CASE r.kind # "link"
  <2>1. r.step < Len(Steps[r.kind])
    <3>1. CASE r.kind = "oauth" /\ r.step = 3
      BY <3>1, LengthOf
    <3>2. CASE r.kind = "invited" /\ r.step = 2
      BY <3>2, LengthOf
    <3> QED BY <1>1, <1>5, <3>1, <3>2
  <2>2. w = [r EXCEPT !.step = r.step + 1]
    BY <2>1 DEF Further
  <2>0. w.kind = r.kind /\ w.step = r.step + 1 /\ w.client = c
    BY <1>1, <2>2 DEF Request
  <2>3. RowFirst(w) /\ ~RowLast(w) /\ w.client = c /\ ~RowFirst(r)
    <3>1. (w.kind = "oauth" /\ w.step = 4) \/ (w.kind = "invited" /\ w.step = 3)
      BY <1>1, <1>5, <2>0
    <3>2. RowFirst(w) /\ ~RowLast(w)
      <4> HIDE DEF w
      <4> QED BY <3>1 DEF RowFirst, RowLast
    <3>3. ~RowFirst(r)
      BY <1>1, <1>5 DEF RowFirst
    <3> QED BY <2>0, <3>2, <3>3
  <2> HIDE DEF w, c
  <2>4. \A d \in Clients : rows'[d] # None => rows[d] # None \/ (RowFirst(w) /\ w.client = d) \/ d \in users' \cup deleted'
    BY <1>3, <2>3
  <2> QED BY <1>2, <2>3, <2>4, StepAccounted
<1> QED BY <1>4, <1>5

LEMMA FindLinkAccounted ==
    ASSUME ListInv, NEW q \in Requests, FindLink(q) \/ InsertLink(q)
    PROVE  RowsAccounted' /\ LinkAdds'
<1> DEFINE r == req[q]
<1>1. r \in Request /\ ReqOK(r) /\ r.kind = "share"
  BY CallOf, CallsOf DEF ListInv, FindLink, InsertLink
<1>2. UNCHANGED <<users, rows, deleted, halted>>
  BY DEF FindLink, InsertLink
<1>3. req' = [req EXCEPT ![q] = Idle] \/ req' = [req EXCEPT ![q] = Further(r)]
  BY DEF FindLink, InsertLink, Go, Stop
<1>4. Further(r) = Idle \/ Further(r) = [r EXCEPT !.step = r.step + 1]
  BY DEF Further
<1>5. ASSUME Further(r) = [r EXCEPT !.step = r.step + 1] PROVE ~RowLast(Further(r))
  BY <1>1, <1>5 DEF Request, RowLast
<1>6. ~RowLast(Further(r)) /\ ~RowFirst(r)
  BY <1>1, <1>4, <1>5, IdleIsNeither DEF RowFirst
<1> QED BY <1>2, <1>3, <1>6, IdleIsNeither, OtherStep

LEMMA AbortAccounted ==
    ASSUME ListInv, NEW q \in Requests, Abort(q)
    PROVE  RowsAccounted' /\ LinkAdds'
<1>1. RowFirst(req[q]) => At(q, "create") /\ req[q].kind \in {"oauth", "invited"}
  BY DEF RowFirst, At, Steps
<1>2. UNCHANGED <<users, rows, deleted>> /\ req' = [req EXCEPT ![q] = Idle]
  BY DEF Abort, Stop
<1>3. halted \subseteq halted' /\ (RowFirst(req[q]) => req[q].client \in halted')
  BY <1>1 DEF Abort
<1> QED BY <1>2, <1>3, IdleIsNeither, OtherStep

LEMMA StepListInv ==
    ASSUME ListInv, [Next]_vars
    PROVE  ListInv'
<1>1. SeatInv'
  BY StepSeatInv DEF ListInv
<1>2. ASSUME NEW q \in Requests, Begin(q) \/ Call(q) PROVE RowsAccounted' /\ LinkAdds'
  BY <1>2, BeginAccounted, ResolveAccounted, CheckAccounted, IdentifyAccounted, CreateUserAccounted,
     AddCoachClientAccounted, FindLinkAccounted, AbortAccounted DEF Call
<1>3. ASSUME NEW c \in Clients, DeleteUser(c) PROVE RowsAccounted' /\ LinkAdds'
  <2>1. /\ users \cup deleted = users' \cup deleted' \/ users' \cup deleted' = users \cup deleted \cup {c}
        /\ UNCHANGED <<rows, req, halted>>
    BY <1>3 DEF DeleteUser
  <2> QED BY <2>1 DEF ListInv, RowsAccounted, LinkAdds, RowFirst, RowLast
<1>4. ASSUME NEW c \in Clients, NEW k \in Coaches, Dissociate(k, c) PROVE RowsAccounted' /\ LinkAdds'
  <2>1. /\ \A d \in Clients : rows'[d] = rows[d] \/ rows'[d] = None
        /\ UNCHANGED <<users, req, halted, deleted>>
    BY <1>4 DEF Dissociate, histories, ListInv, SeatInv, Typed
  <2> QED BY <2>1 DEF ListInv, RowsAccounted, LinkAdds, RowFirst, RowLast
<1>5. CASE UNCHANGED vars
  <2>1. UNCHANGED <<users, rows, req, halted, deleted>>
    BY <1>5 DEF vars, histories
  <2>2. RowsAccounted'
    BY <2>1 DEF ListInv, RowsAccounted, RowFirst
  <2>3. LinkAdds'
    BY <2>1 DEF ListInv, LinkAdds, RowLast
  <2> QED BY <1>1, <2>2, <2>3 DEF ListInv
<1> QED BY <1>1, <1>2, <1>3, <1>4, <1>5 DEF Next, ListInv

LEMMA InitListInv == Init => ListInv
<1> SUFFICES ASSUME Init PROVE ListInv
  OBVIOUS
<1>1. RowsAccounted /\ LinkAdds
  BY IdleIsNeither DEF Init, RowsAccounted, LinkAdds
<1> QED BY <1>1, InitSeatInv DEF ListInv

\* Any order of the rows of a coach lists each client once.
LEMMA RowsAreListedOnce ==
    ASSUME NEW k \in Coaches, NEW order \in SetToSeqs(RowsOf(k))
    PROVE  /\ OnceEach(order, Cardinality(RowsOf(k)))
           /\ ToSet(order) = RowsOf(k)
<1> DEFINE S == RowsOf(k)
           n == Cardinality(S)
<1>1. S \in SUBSET Clients /\ IsFiniteSet(Clients)
  BY FS_Interval, SeatsAssumption DEF RowsOf, Clients
<1>2. IsFiniteSet(S) /\ n \in Nat
  BY <1>1, FS_Subset, FS_CardinalityType
<1>3. IsFiniteSet(1 .. n) /\ Cardinality(1 .. n) = n
  <2>1. IsFiniteSet(1 .. n) /\ Cardinality(1 .. n) = IF 1 > n THEN 0 ELSE n - 1 + 1
    BY <1>2, FS_Interval
  <2> QED BY <1>2, <2>1
<1>4. order \in [1 .. n -> S] /\ \A i, j \in 1 .. n : order[i] = order[j] => i = j
  BY DEF SetToSeqs
<1>5. order \in Seq(S) /\ Len(order) = n
  BY <1>2, <1>4
<1>6. OnceEach(order, n)
  BY <1>2, <1>4, <1>5 DEF OnceEach
<1>7. order \in Surjection(1 .. n, S)
  <2>1. order \in Injection(1 .. n, S)
    BY <1>4 DEF Injection, IsInjective
  <2> HIDE DEF S
  <2>2. Cardinality(1 .. n) = Cardinality(S) /\ IsFiniteSet(S) /\ IsFiniteSet(1 .. n)
    BY <1>2, <1>3
  <2> QED BY <2>1, <2>2, FS_Injection
<1>8. ToSet(order) = S
  BY <1>4, <1>7 DEF ToSet, Surjection
<1> QED BY <1>6, <1>8

\* The inductive invariant with the rows: each has an account, or a reason to have none.
THEOREM Spec_SeatListInv == Spec => []ListInv
  BY InitListInv, StepListInv, PTL DEF Spec

\* For any clients, pages and orders of the rows, a client that is answered as linked to a coach stands
\* on exactly one page of every list of the coach, or there is a reason why its account is not there.
THEOREM Spec_SeatsAreClients == Spec => []SeatsAreClients
<1>1. ListInv => SeatsAreClients
  <2> SUFFICES ASSUME ListInv, NEW k \in Coaches, NEW order \in SetToSeqs(RowsOf(k)), NEW c \in Clients,
                      CheckClientLinks(order, Clients)[c]
               PROVE  \/ ShownEverywhere(order, users, c)
                      \/ c \in deleted \/ c \in halted
                      \/ \E q \in Requests : req[q].client = c /\ req[q].kind # "link" /\ At(q, "create")
    BY DEF SeatsAreClients
  <2> DEFINE n == Cardinality(RowsOf(k))
  <2>1. OnceEach(order, n) /\ ToSet(order) = RowsOf(k)
    BY RowsAreListedOnce
  <2>2. c \in ToSet(order)
    BY DEF CheckClientLinks, LinkedClientIDs
  <2>3. rows[c] # None
    BY <2>1, <2>2, SeatsAssumption DEF RowsOf
  <2>4. PICK i \in 1 .. n : order[i] = c
    BY <2>1, <2>2 DEF ToSet, OnceEach
  <2>5. CASE c \in users
    BY <2>1, <2>4, <2>5, ShownOnce
  <2>6. ASSUME NEW j \in Requests, RowFirst(req[j]), req[j].client = c
        PROVE  req[j].client = c /\ req[j].kind # "link" /\ At(j, "create")
    BY <2>6 DEF RowFirst, At, Steps
  <2> QED BY <2>3, <2>5, <2>6 DEF ListInv, RowsAccounted
<1> QED BY <1>1, Spec_SeatListInv, PTL

=============================================================================
