----------------------------- MODULE ClientSeats -----------------------------
(***************************************************************************)
(* How clients come to a coach: the coach's registration link                *)
(* (services/registration_link.go), the signups through a link, through       *)
(* Google with a link's token and by an invitation (services/auth.go), the     *)
(* coach-client rows they store (repositories/Coach.go) and the limit on        *)
(* them (CheckInvitations in services/entitlement.go).                         *)
(*                                                                         *)
(* The coach's lists of clients are those of ClientLists.                       *)
(*                                                                         *)
(* One database call is one step.  Invitations live in another service: that    *)
(* an address has one is an input here.                                       *)
(***************************************************************************)
EXTENDS ClientLists

CONSTANTS
    Coaches,
    None,
    Limits,     \* max_clients of the coaches that have one
    Requests,   \* requests in flight
    MaxClients  \* bound on the ids that the identifier hands out

ASSUME SeatsAssumption ==
    /\ None \notin Coaches \cup Requests
    /\ IsFiniteSet(Requests) /\ Requests # {}
    /\ DOMAIN Limits \subseteq Coaches
    /\ \A k \in DOMAIN Limits : Limits[k] \in Nat
    /\ MaxClients \in Nat

VARIABLES
    users,    \* the clients that have an account
    rows,     \* coach_clients: the coach of each client, or None
    token,    \* the registration link of each coach, or None
    nextId,   \* the next id of the identifier
    req,
    handed,   \* history: the tokens that were answered to each coach
    checked,  \* history: the clients whose signup was checked against the limit
    halted,   \* history: the clients whose signup stopped between the row and the account
    deleted   \* history: the clients whose account was deleted

vars == <<users, rows, token, nextId, req, handed, checked, halted, deleted>>
histories == <<handed, checked, halted, deleted>>

Clients == 1 .. MaxClients

\* Mutant of Steps: the signup through a link stores the row first, as the other ones do.
Steps_RowFirst == [link    |-> <<"resolve", "check", "identify", "add", "create">>,
                   oauth   |-> <<"identify", "resolve", "add", "create">>,
                   invited |-> <<"identify", "add", "create">>,
                   share   |-> <<"check", "find", "insert">>]

\* Mutant of Steps: so does the one above, and a Google signup stores its row before its id is known.
Steps_IdLate == [Steps_RowFirst EXCEPT !.oauth = <<"resolve", "add", "identify", "create">>]

\* The calls of each kind of request: RegisterViaLink, Google with a token, Register or Google with
\* an invitation, and GetOrCreateLink.
Steps == [link    |-> <<"resolve", "check", "identify", "create", "add">>,
          oauth   |-> <<"identify", "resolve", "add", "create">>,
          invited |-> <<"identify", "add", "create">>,
          share   |-> <<"check", "find", "insert">>]

Kinds == DOMAIN Steps
Idle == [kind |-> "share", step |-> 0, coach |-> None, token |-> None, client |-> 0, passed |-> FALSE]

\* passed: a limit was read and not reached.
Request == [kind : Kinds, step : 0 .. 5, coach : Coaches \cup {None},
            token : Requests \cup {None}, client : Clients \cup {0}, passed : BOOLEAN]

At(q, step) == req[q].step # 0 /\ Steps[req[q].kind][req[q].step] = step

\* The request after its current call.
Further(r) == IF r.step < Len(Steps[r.kind]) THEN [r EXCEPT !.step = @ + 1] ELSE Idle

Go(q) == req' = [req EXCEPT ![q] = Further(@)]
Stop(q) == req' = [req EXCEPT ![q] = Idle]

\* CountClients counts rows, whether or not the client has an account.
RowsOf(k) == {c \in Clients : rows[c] = k}
Count(k) == Cardinality(RowsOf(k))

\* A row and an account are only ever written for an id and a coach that are known.
SeatsTypeOK ==
    /\ users \subseteq Clients
    /\ rows \in [Clients -> Coaches \cup {None}]
    /\ token \in [Coaches -> Requests \cup {None}]
    /\ nextId \in 1 .. MaxClients + 1
    /\ req \in [Requests -> Request]
    /\ \A q \in Requests : At(q, "add") \/ At(q, "create") => req[q].client # 0 /\ req[q].coach # None
    /\ handed \in [Coaches -> SUBSET Requests]
    /\ checked \subseteq Clients /\ halted \subseteq Clients /\ deleted \subseteq Clients

Init ==
    /\ users = {}
    /\ rows = [c \in Clients |-> None]
    /\ token = [k \in Coaches |-> None]
    /\ nextId = 1
    /\ req = [q \in Requests |-> Idle]
    /\ handed = [k \in Coaches |-> {}]
    /\ checked = {} /\ halted = {} /\ deleted = {}

-----------------------------------------------------------------------------
(* The requests begin *)

\* A token is random; that of request q is called q.
Share(q, k) ==
    /\ req[q] = Idle
    /\ req' = [req EXCEPT ![q] = [Idle EXCEPT !.step = 1, !.coach = k, !.token = q]]
    /\ UNCHANGED <<users, rows, token, nextId, histories>>

\* Somebody follows a link that a coach was given.
Follow(q, kind) ==
    /\ req[q] = Idle
    /\ kind \in {"link", "oauth"}
    /\ \E k \in Coaches : \E t \in handed[k] :
         req' = [req EXCEPT ![q] = [Idle EXCEPT !.kind = kind, !.step = 1, !.token = t]]
    /\ UNCHANGED <<users, rows, token, nextId, histories>>

\* The invitation service says that the address has an invitation of coach k.
Invited(q, k) ==
    /\ req[q] = Idle
    /\ req' = [req EXCEPT ![q] = [Idle EXCEPT !.kind = "invited", !.step = 1, !.coach = k]]
    /\ UNCHANGED <<users, rows, token, nextId, histories>>

-----------------------------------------------------------------------------
(* Their calls *)

\* GetByToken; an unknown token is refused.
Resolve(q) ==
    /\ At(q, "resolve")
    /\ LET owners == {k \in Coaches : token[k] = req[q].token}
       IN  IF owners = {} THEN Stop(q)
             ELSE \E k \in owners : req' = [req EXCEPT ![q] = Further([@ EXCEPT !.coach = k])]
    /\ UNCHANGED <<users, rows, token, nextId, histories>>

\* Mutant of HasRoom: the last seat is given twice.
HasRoom_OffByOne(k) == k \in DOMAIN Limits => Count(k) <= Limits[k]

HasRoom(k) == k \in DOMAIN Limits => Count(k) < Limits[k]

\* CheckInvitations; when the entitlements or the rows cannot be read, the request goes on.
Check(q) ==
    LET k == req[q].coach
    IN  /\ At(q, "check")
        /\ \/ HasRoom(k) /\ req' = [req EXCEPT ![q] = Further([@ EXCEPT !.passed = k \in DOMAIN Limits])]
           \/ ~HasRoom(k) /\ Stop(q)
           \/ Go(q)
        /\ UNCHANGED <<users, rows, token, nextId, histories>>

\* GenerateId.
Identify(q) ==
    /\ At(q, "identify")
    /\ nextId <= MaxClients
    /\ nextId' = nextId + 1
    /\ req' = [req EXCEPT ![q] = Further([@ EXCEPT !.client = nextId])]
    /\ UNCHANGED <<users, rows, token, histories>>

\* A taken address or an error ends the request instead (Abort).
CreateUser(q) ==
    /\ At(q, "create")
    /\ users' = users \cup {req[q].client}
    /\ Go(q)
    /\ UNCHANGED <<rows, token, nextId, histories>>

\* Nobody looks at the error of AddCoachClient.
AddCoachClient(q) ==
    LET c == req[q].client
    IN  /\ At(q, "add")
        /\ rows' \in {rows, [rows EXCEPT ![c] = req[q].coach]}
        /\ checked' = IF req[q].passed THEN checked \cup {c} ELSE checked
        /\ Go(q)
        /\ UNCHANGED <<users, token, nextId, handed, halted, deleted>>

\* GetByCoachID: the coach's link is answered if there is one.
FindLink(q) ==
    LET k == req[q].coach
    IN  /\ At(q, "find")
        /\ handed' = IF token[k] = None THEN handed ELSE [handed EXCEPT ![k] = @ \cup {token[k]}]
        /\ IF token[k] = None THEN Go(q) ELSE Stop(q)
        /\ UNCHANGED <<users, rows, token, nextId, checked, halted, deleted>>

\* Mutant of MayInsert: an index that is not unique; the newer link is the one that is found.
MayInsert_Always(k) == TRUE

\* The index on the coach is unique: the second insert fails and its request with it.
MayInsert(k) == token[k] = None

InsertLink(q) ==
    LET k == req[q].coach
    IN  /\ At(q, "insert")
        /\ IF MayInsert(k)
             THEN /\ token' = [token EXCEPT ![k] = req[q].token]
                  /\ handed' = [handed EXCEPT ![k] = @ \cup {req[q].token}]
             ELSE UNCHANGED <<token, handed>>
        /\ Go(q)
        /\ UNCHANGED <<users, rows, nextId, checked, halted, deleted>>

\* A refusal, an error or a crash at any call; a row stored before the account remains.
Abort(q) ==
    LET c == req[q].client
    IN  /\ req[q] # Idle
        /\ halted' = IF At(q, "create") /\ req[q].kind \in {"oauth", "invited"} THEN halted \cup {c} ELSE halted
        /\ Stop(q)
        /\ UNCHANGED <<users, rows, token, nextId, handed, checked, deleted>>

-----------------------------------------------------------------------------
(* Coaches and accounts go their way *)

\* The coach removes a client: the pair must match.
Dissociate(k, c) ==
    /\ rows[c] = k
    /\ rows' = [rows EXCEPT ![c] = None]
    /\ UNCHANGED <<users, token, nextId, req, histories>>

\* DeleteUser leaves the row.
DeleteUser(c) ==
    /\ c \in users
    /\ users' = users \ {c}
    /\ deleted' = deleted \cup {c}
    /\ UNCHANGED <<rows, token, nextId, req, handed, checked, halted>>

-----------------------------------------------------------------------------

Begin(q) ==
    \/ \E k \in Coaches : Share(q, k) \/ Invited(q, k)
    \/ \E kind \in Kinds : Follow(q, kind)

Call(q) ==
    \/ Resolve(q) \/ Check(q) \/ Identify(q) \/ CreateUser(q) \/ AddCoachClient(q)
    \/ FindLink(q) \/ InsertLink(q) \/ Abort(q)

Next ==
    \/ \E q \in Requests : Begin(q) \/ Call(q)
    \/ \E c \in Clients : DeleteUser(c) \/ \E k \in Coaches : Dissociate(k, c)

Spec == Init /\ [][Next]_vars

-----------------------------------------------------------------------------
(* Properties *)

Pending(k) == {q \in Requests : req[q].kind = "link" /\ req[q].passed /\ req[q].coach = k}
CheckedSeats(k) == {c \in checked : rows[c] = k}

\* Signups that pass the check together can oversell a coach's last seat, but each only once: what
\* is sold and what is about to be sold exceeds the limit by less than the requests in flight, and
\* the excess never grows with the number of signups (CheckInvitations in RegisterViaLink).
SeatsNotOversold ==
    \A k \in DOMAIN Limits :
      Cardinality(CheckedSeats(k)) + Cardinality(Pending(k)) <= Limits[k] + Cardinality(Requests) - 1

\* Every client that counts against the limit and is answered as linked stands on exactly one page of
\* each list of the coach, in whatever order the rows are listed, unless the account was deleted, or
\* an invitation or a Google signup stopped between the row and the account or still is between them:
\* the signup through a link holds no seat for nobody, and no list cuts its pages from other rows
\* than it counts.
SeatsAreClients ==
    \A k \in Coaches : \A order \in SetToSeqs(RowsOf(k)) : \A c \in Clients :
      CheckClientLinks(order, Clients)[c] =>
        \/ ShownEverywhere(order, users, c)
        \/ c \in deleted \/ c \in halted
        \/ \E q \in Requests : req[q].client = c /\ req[q].kind # "link" /\ At(q, "create")

\* However requests for the same link race, a token that a coach was given stays the coach's link.
LinksStayValid ==
    \A k \in Coaches : handed[k] \subseteq {token[k]}

=============================================================================
