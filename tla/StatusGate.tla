----------------------------- MODULE StatusGate -----------------------------
(***************************************************************************)
(* The gate in front of every protected route (router/status_gate.go): it   *)
(* refuses inactive accounts by a cached status, coalesces the lookups of    *)
(* one user, remembers missing users, evicts the oldest entry, and serves    *)
(* an expired status while lookups fail.                                     *)
(*                                                                         *)
(* Time is kept as ages that stop at MaxStale, past which no comparison of   *)
(* the code tells them apart; so the clock never ends and "eventually" can   *)
(* be stated.  The statuses are reduced to what allow() distinguishes.       *)
(***************************************************************************)
EXTENDS Integers, Sequences

CONSTANTS
    Users,
    Requests,     \* authenticated requests in flight
    Tokens,       \* whose tokens each of them may carry
    Changing,     \* the users whose account may change
    Anyone,       \* the user of a request slot that is free
    TTL,          \* how long a status is served without a lookup
    NotFoundTTL,  \* the same for a missing user
    MaxStale,     \* how long a status is served when the lookup fails
    MaxEntries    \* capacity of the cache

ASSUME StatusGateAssumption ==
    /\ TTL \in Nat /\ NotFoundTTL \in Nat /\ MaxStale \in Nat \ {0}
    /\ TTL <= MaxStale /\ NotFoundTTL <= MaxStale
    /\ MaxEntries \in Nat \ {0}
    /\ Anyone \notin Users
    /\ Tokens \in [Requests -> SUBSET Users]
    /\ Changing \subseteq Users

VARIABLES
    stored,   \* the status of each user in the database
    entry,    \* the cached status of each user and its age
    order,    \* the cached users, in the order of their last put
    flight,   \* the lookup of each user that is running
    req,      \* the requests
    settled   \* history: how long each status has been unchanged with no older one on its way

vars == <<stored, entry, order, flight, req, settled>>

\* Missing is ErrUserNotFound.
Statuses == {"Active", "Inactive", "Missing"}
Ages == 0 .. MaxStale

Entry == [val : Statuses \cup {"None"}, age : Ages]
NoEntry == [val |-> "None", age |-> 0]

\* prev is the entry the request found, res what the lookup or the gate answered.
Request == [pc : {"idle", "miss", "waiting", "result", "answered"}, user : Users \cup {Anyone},
            prev : Entry, res : Statuses \cup {"None", "Error"}]
Idle == [pc |-> "idle", user |-> Anyone, prev |-> NoEntry, res |-> "None"]

\* "Started" is a lookup that has not reached the database yet.
Flights == Statuses \cup {"Off", "Started", "Error"}

Cached == {u \in Users : entry[u].val # "None"}

\* The map and the list of the cache agree and stay within the capacity.
GateTypeOK ==
    /\ stored \in [Users -> Statuses]
    /\ entry \in [Users -> Entry]
    /\ flight \in [Users -> Flights]
    /\ req \in [Requests -> Request]
    /\ settled \in [Users -> Ages]
    /\ order \in Seq(Users) /\ Len(order) <= MaxEntries
    /\ {order[i] : i \in DOMAIN order} = Cached
    /\ \A i, j \in DOMAIN order : order[i] = order[j] => i = j

Init ==
    /\ stored = [u \in Users |-> "Active"]
    /\ entry = [u \in Users |-> NoEntry]
    /\ order = << >>
    /\ flight = [u \in Users |-> "Off"]
    /\ req = [q \in Requests |-> Idle]
    /\ settled = [u \in Users |-> MaxStale]

At(q, step) == req[q].pc = step

\* A status that is no longer the stored one is in a lookup or in the hands of a request.
Outdated(u, val) == val \in Statuses \ {stored[u]}

Carried(u) ==
    \/ Outdated(u, flight[u])
    \/ \E q \in Requests : At(q, "result") /\ req[q].user = u /\ Outdated(u, req[q].res)

Older(age) == IF age < MaxStale THEN age + 1 ELSE age

Tick ==
    /\ entry' = [u \in Users |-> [entry[u] EXCEPT !.age = IF entry[u].val = "None" THEN 0 ELSE Older(@)]]
    /\ req' = [q \in Requests |-> [req[q] EXCEPT !.prev.age = IF req[q].prev.val = "None" THEN 0 ELSE Older(@)]]
    /\ settled' = [u \in Users |-> IF Carried(u) THEN 0 ELSE Older(settled[u])]
    /\ UNCHANGED <<stored, order, flight>>

\* An admin blocks or restores the account, or it is deleted or created.
SetStatus(u) ==
    /\ u \in Changing
    /\ \E s \in Statuses \ {stored[u]} : stored' = [stored EXCEPT ![u] = s]
    /\ settled' = [settled EXCEPT ![u] = 0]
    /\ UNCHANGED <<entry, order, flight, req>>

-----------------------------------------------------------------------------
(* status(): the cache, the coalesced lookup, the fallback *)

\* Mutant of Fresh: the statuses are compared with the staleness bound.
Fresh_LongerThanTheTTL(e) == e.val # "None" /\ e.age < MaxStale

Fresh(e) ==
    \/ e.val = "Missing" /\ e.age < NotFoundTTL
    \/ e.val \in {"Active", "Inactive"} /\ e.age < TTL

\* A fresh entry answers at once; otherwise the request remembers the entry it saw.
Enter(q, u) ==
    /\ At(q, "idle")
    /\ req' = [req EXCEPT ![q] =
                 IF Fresh(entry[u])
                   THEN [Idle EXCEPT !.pc = "answered", !.user = u, !.res = entry[u].val]
                   ELSE [Idle EXCEPT !.pc = "miss", !.user = u, !.prev = entry[u]]]
    /\ UNCHANGED <<stored, entry, order, flight, settled>>

\* singleflight.Do starts the lookup, or joins the one that is running.
Join(q) ==
    /\ At(q, "miss")
    /\ flight' = [flight EXCEPT ![req[q].user] = IF @ = "Off" THEN "Started" ELSE @]
    /\ req' = [req EXCEPT ![q].pc = "waiting"]
    /\ UNCHANGED <<stored, entry, order, settled>>

\* The database answers, or the lookup fails or passes its time limit.
Lookup(u) ==
    /\ flight[u] = "Started"
    /\ \E res \in {stored[u], "Error"} : flight' = [flight EXCEPT ![u] = res]
    /\ UNCHANGED <<stored, entry, order, req, settled>>

\* Mutant of Waiters: only one of the waiting requests is told.
Waiters_OnlyOne(u) ==
    LET all == {q \in Requests : At(q, "waiting") /\ req[q].user = u}
    IN  IF all = {} THEN {} ELSE {CHOOSE q \in all : TRUE}

Waiters(u) == {q \in Requests : At(q, "waiting") /\ req[q].user = u}

\* The lookup ends: everyone who waits for it gets its result.
Deliver(u) ==
    /\ flight[u] \in Statuses \cup {"Error"}
    /\ flight' = [flight EXCEPT ![u] = "Off"]
    /\ req' = [q \in Requests |->
                 IF q \in Waiters(u) THEN [req[q] EXCEPT !.pc = "result", !.res = flight[u]] ELSE req[q]]
    /\ UNCHANGED <<stored, entry, order, settled>>

\* Mutant of Overflow: the eviction keeps one entry too many.
Overflow_OffByOne(list) == IF Len(list) > MaxEntries + 1 THEN Len(list) - MaxEntries ELSE 0

\* How many entries put() evicts from the front of the list.
Overflow(list) == IF Len(list) > MaxEntries THEN Len(list) - MaxEntries ELSE 0

Place(u) == CHOOSE i \in DOMAIN order : order[i] = u

\* MoveToBack: the users behind u move up by one.
MovedToBack(u) ==
    [i \in DOMAIN order |-> IF i < Place(u) THEN order[i] ELSE IF i < Len(order) THEN order[i + 1] ELSE u]

\* put: the newest entry goes to the back, the oldest ones are evicted.
Put(u, val) ==
    LET list == IF u \in Cached THEN MovedToBack(u) ELSE Append(order, u)
        evicted == {list[i] : i \in 1 .. Overflow(list)}
    IN  /\ order' = SubSeq(list, Overflow(list) + 1, Len(list))
        /\ entry' = [v \in Users |-> CASE v = u -> [val |-> val, age |-> 0]
                                       [] v # u /\ v \in evicted -> NoEntry
                                       [] OTHER -> entry[v]]

\* Every waiter stores the result for itself, stamped with the time at which it does.
FinishFound(q) ==
    /\ At(q, "result")
    /\ req[q].res \in Statuses
    /\ Put(req[q].user, req[q].res)
    /\ req' = [req EXCEPT ![q] = [@ EXCEPT !.pc = "answered", !.prev = NoEntry]]
    /\ UNCHANGED <<stored, flight, settled>>

\* Mutant of Servable: a failed lookup serves whatever was known.
Servable_AnyAge(e) == e.val \in {"Active", "Inactive"}

\* What a failed lookup may serve: the status found before it, up to the staleness bound.
Servable(e) == e.val \in {"Active", "Inactive"} /\ e.age < MaxStale

FinishFailed(q) ==
    /\ At(q, "result")
    /\ req[q].res = "Error"
    /\ req' = [req EXCEPT ![q] =
                 [@ EXCEPT !.pc = "answered", !.prev = NoEntry,
                           !.res = IF Servable(req[q].prev) THEN req[q].prev.val ELSE "Error"]]
    /\ UNCHANGED <<stored, entry, order, flight, settled>>

\* allow() lets the request through for Active and refuses it otherwise.
Leave(q) ==
    /\ At(q, "answered")
    /\ req' = [req EXCEPT ![q] = Idle]
    /\ UNCHANGED <<stored, entry, order, flight, settled>>

-----------------------------------------------------------------------------

RequestStep(q) == Join(q) \/ FinishFound(q) \/ FinishFailed(q) \/ Leave(q)
LookupStep(u) == Lookup(u) \/ Deliver(u)

Next ==
    \/ Tick
    \/ \E u \in Users : SetStatus(u) \/ LookupStep(u)
    \/ \E q \in Requests : RequestStep(q) \/ \E u \in Tokens[q] : Enter(q, u)

Spec == Init /\ [][Next]_vars

\* Time passes, a goroutine that can run runs, and a lookup ends because it has a time limit.
\* Nobody has to send a request or to change a status.
Fairness ==
    /\ WF_vars(Tick)
    /\ \A q \in Requests : WF_vars(RequestStep(q))
    /\ \A u \in Users : WF_vars(LookupStep(u))

FairSpec == Spec /\ Fairness

-----------------------------------------------------------------------------
(* Properties *)

Answers(q) == req'[q].pc = "answered" /\ req[q].pc # "answered"

\* However lookups, their waiters, admins and failures interleave, an answer that contradicts the
\* database is given only within the TTL of the last moment at which the old status was still on
\* its way from a lookup into the cache, and within MaxStale of it when the own lookup failed.
WrongAnswersExpire ==
    [][\A q \in Requests :
         Answers(q) /\ Outdated(req'[q].user, req'[q].res)
           => settled[req'[q].user] < IF At(q, "idle") THEN (IF req'[q].res = "Missing" THEN NotFoundTTL ELSE TTL)
                                                       ELSE MaxStale]_vars

\* Whatever fails, a status that no longer changes is in the end the only one served: a blocked
\* account is cut off, a restored or newly created one is no longer refused as such.
EventuallyTruthful ==
    \A u \in Users, s \in Statuses :
      <>[](stored[u] = s)
        => <>[](\A q \in Requests : At(q, "answered") /\ req[q].user = u => req[q].res \in {s, "Error"})

\* No request is left waiting on a lookup that somebody else leads.
EveryRequestAnswered ==
    \A q \in Requests : At(q, "waiting") ~> At(q, "answered")

=============================================================================
