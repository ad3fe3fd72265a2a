-------------------------- MODULE MembershipPeriods --------------------------
(***************************************************************************)
(* The memberships of teams and gyms and the history kept beside them        *)
(* (repositories/team.go, repositories/gym.go,                                *)
(* repositories/membership_periods.go).  The history is written after the      *)
(* membership, without a transaction; a failure is logged, and ReconcileTeam    *)
(* aligns the teams' history when an instance starts.                          *)
(*                                                                         *)
(* One database operation is one step.  Who may change a membership is a        *)
(* question of HeadCoachTeam and Gym.                                          *)
(***************************************************************************)
EXTENDS AnalyticsScope, FiniteSets

CONSTANTS
    Coaches,   \* they have a head coach
    Heads,     \* they have a gym, and are the parents of coaches
    Gyms,
    None,
    Requests,
    MaxTime,   \* bound on the clock
    MaxWrites  \* bound on the writes and reconciliations that begin

ASSUME PeriodsAssumption ==
    /\ Times = 0 .. MaxTime
    /\ Coaches \cap Heads = {} /\ Gyms \cap (Coaches \cup Heads) = {}
    /\ None \notin Coaches \cup Heads \cup Gyms
    /\ MaxTime \in Nat /\ MaxWrites \in Nat

Members == Coaches \cup Heads
ParentsOf(m) == IF m \in Coaches THEN Heads ELSE Gyms
Parents == Heads \cup Gyms

VARIABLES
    now,
    row,      \* the parent of each member and since when, or NoRow
    periods,  \* the stored periods of both kinds
    req,
    begun,    \* how many requests have begun
    torn,     \* history: members whose row and history may differ until the next reconciliation
    raced     \* history: members about whom two writes overlapped, or one failed

vars == <<now, row, periods, req, begun, torn, raced>>

Period == [member : Members, parent : Parents, start : Times, end : Times \cup {Open}]
NoRow == [parent |-> None, at |-> 0]

\* at: the time of what is written; since: when a reconciliation began; touched, of a reconciliation: the
\* members it cannot vouch for.
Idle == [op |-> "idle", pc |-> "done", member |-> None, parent |-> None, at |-> 0, since |-> 0,
         touched |-> {}, rows |-> {}, todo |-> {}]

OpenOf(m) == {p \in periods : p.member = m /\ p.end = Open}
OpenUnder(k) == {p \in periods : p.parent = k /\ p.end = Open}
Team(k) == {m \in Members : row[m].parent = k}

\* The partial unique index allows one open period per member.
PeriodsTypeOK ==
    /\ now \in Times
    /\ row \in [Members -> [parent : Parents \cup {None}, at : Times]]
    /\ periods \subseteq Period
    /\ \A m \in Members : Cardinality(OpenOf(m)) <= 1
    /\ \A q \in Requests : req[q].touched \subseteq Members
    /\ begun \in 0 .. MaxWrites
    /\ torn \subseteq Members /\ raced \subseteq Members

Init ==
    /\ now = 0
    /\ row = [m \in Members |-> NoRow]
    /\ periods = {}
    /\ req = [q \in Requests |-> Idle]
    /\ begun = 0 /\ torn = {} /\ raced = {}

At(q, pc) == req[q].pc = pc
Goto(q, pc) == req' = [req EXCEPT ![q].pc = pc]
Done(q) == req' = [req EXCEPT ![q] = Idle]

-----------------------------------------------------------------------------
(* Bookkeeping of overlaps *)

Busy == {q \in Requests : req[q].op # "idle"}

\* A request that still has history of m to write, also when m gets parent k.
Owes(q, m, k) ==
    /\ req[q].pc \notin {"done", "write"}
    /\ \/ req[q].op \in {"assign", "remove"} /\ req[q].member = m
       \/ req[q].op \in {"release", "delete"} /\ (m \in req[q].touched \/ k = req[q].parent \/ m = req[q].parent)
       \/ req[q].op = "reconcile" /\ m \in Coaches

\* Another request owes history of a member whose row changes now.
Overlapped(q, changed) == {m \in changed : \E r \in Requests \ {q} : Owes(r, m, row'[m].parent)}

\* Reconciliations in flight cannot vouch for a member whose row changes.
Noticed(r, changed) == IF r.op = "reconcile" THEN [r EXCEPT !.touched = @ \cup changed] ELSE r

WriteRows(q, changed, next) ==
    /\ req' = [r \in Requests |-> IF r = q THEN next ELSE Noticed(req[r], changed)]
    /\ torn' = torn \cup Overlapped(q, changed)
    /\ UNCHANGED <<now, periods, raced, begun>>

\* A request that begins while others are running races with them about the members it concerns.
Begin(q, r, concerned) ==
    /\ req[q] = Idle
    /\ begun < MaxWrites
    /\ begun' = begun + 1
    /\ req' = [req EXCEPT ![q] = r]
    /\ raced' = IF Busy = {} THEN raced ELSE raced \cup concerned
    /\ UNCHANGED <<now, row, periods, torn>>

-----------------------------------------------------------------------------
(* The writes of memberships *)

\* TeamRepository.Upsert, GymRepository.AddHeadCoach: the time is taken before the write.
BeginAssign(q, m, k) ==
    /\ k \in ParentsOf(m)
    /\ Begin(q, [Idle EXCEPT !.op = "assign", !.pc = "write", !.member = m, !.parent = k, !.at = now], {m})

\* A coach's row is replaced; a head coach who has a gym is refused.
AssignRow(q) ==
    LET m == req[q].member
        refused == m \in Heads /\ row[m] # NoRow
    IN  /\ At(q, "write") /\ req[q].op = "assign"
        /\ row' = IF refused THEN row ELSE [row EXCEPT ![m] = [parent |-> req[q].parent, at |-> req[q].at]]
        /\ WriteRows(q, IF refused THEN {} ELSE {m}, IF refused THEN Idle ELSE [req[q] EXCEPT !.pc = "find"])

\* DeleteByCoach, RemoveHeadCoach, ReleaseHead.
BeginRemove(q, m) == Begin(q, [Idle EXCEPT !.op = "remove", !.pc = "write", !.member = m], {m})

RemoveRow(q) ==
    LET m == req[q].member
        there == row[m] # NoRow
    IN  /\ At(q, "write") /\ req[q].op = "remove"
        /\ row' = [row EXCEPT ![m] = NoRow]
        /\ WriteRows(q, IF there THEN {m} ELSE {},
                     IF there THEN [req[q] EXCEPT !.pc = "closeMember", !.at = now] ELSE Idle)

\* DeleteByHead, RemoveAllByGym.
BeginRelease(q, k) == Begin(q, [Idle EXCEPT !.op = "release", !.pc = "write", !.parent = k], Members)

ReleaseRows(q) ==
    LET k == req[q].parent
    IN  /\ At(q, "write") /\ req[q].op = "release"
        /\ row' = [m \in Members |-> IF m \in Team(k) THEN NoRow ELSE row[m]]
        /\ WriteRows(q, Team(k), [req[q] EXCEPT !.pc = "closeParent", !.at = now, !.touched = Team(k)])

\* DeleteByAny: the rows of a team the account was in or led, then its gym.
BeginDelete(q, u) == Begin(q, [Idle EXCEPT !.op = "delete", !.pc = "write", !.parent = u], Members)

DeleteRows(q) ==
    LET u == req[q].parent
        gone == Team(u) \cup ({u} \cap Coaches)
        changed == {m \in gone : row[m] # NoRow}
    IN  /\ At(q, "write") /\ req[q].op = "delete"
        /\ row' = [m \in Members |-> IF m \in gone THEN NoRow ELSE row[m]]
        /\ WriteRows(q, changed, [req[q] EXCEPT !.pc = IF u \in Coaches THEN "closeOwn" ELSE "closeParent",
                                               !.at = now, !.touched = changed])

DeleteGymRow(q) ==
    LET u == req[q].parent
        there == u \in Heads /\ row[u] # NoRow
    IN  /\ At(q, "gym")
        /\ row' = IF there THEN [row EXCEPT ![u] = NoRow] ELSE row
        /\ WriteRows(q, IF there THEN {u} ELSE {},
                     IF there THEN [req[q] EXCEPT !.pc = "closeMember", !.member = u, !.touched = {u}] ELSE Idle)

-----------------------------------------------------------------------------
(* The writes of the history *)

Closed(ps, at) == (periods \ ps) \cup {[p EXCEPT !.end = at] : p \in ps}

\* OpenPeriod is over; a reconciliation goes on with its next row.
Go(q) == req' = [req EXCEPT ![q] =
            IF @.op = "reconcile" THEN [@ EXCEPT !.pc = "next", !.member = None, !.parent = None, !.at = 0] ELSE Idle]

\* OpenForMember.
Find(q) ==
    LET r == req[q]
        open == OpenOf(r.member)
    IN  /\ At(q, "find")
        /\ \/ open = {} /\ Goto(q, "insert")
           \/ open # {} /\ (\E p \in open : p.parent = r.parent) /\ Go(q)
           \/ open # {} /\ (\A p \in open : p.parent # r.parent) /\ Goto(q, "close")
        /\ UNCHANGED <<now, row, periods, torn, raced, begun>>

\* Mutant of CloseFirst: the old period is closed when the write comes, not when the new one begins.
CloseFirst_ByTheClock(m, at) == Closed(OpenOf(m), now)

CloseFirst(m, at) == Closed(OpenOf(m), at)

\* OpenPeriod closes whatever period is open by now, at the time the new one begins.
CloseOther(q) ==
    /\ At(q, "close")
    /\ periods' = CloseFirst(req[q].member, req[q].at)
    /\ Goto(q, "insert")
    /\ UNCHANGED <<now, row, torn, raced, begun>>

\* Mutant of Inserted: without the index, two requests that saw no open period both insert one.
Inserted_Always(p) == periods \cup {p}

\* The unique index turns a second open period into a no-op.
Inserted(p) == IF OpenOf(p.member) = {} THEN periods \cup {p} ELSE periods

Insert(q) ==
    LET r == req[q]
    IN  /\ At(q, "insert")
        /\ periods' = Inserted([member |-> r.member, parent |-> r.parent, start |-> r.at, end |-> Open])
        /\ Go(q)
        /\ UNCHANGED <<now, row, torn, raced, begun>>

CloseMember(q) ==
    /\ At(q, "closeMember")
    /\ periods' = Closed(OpenOf(req[q].member), req[q].at)
    /\ Done(q)
    /\ UNCHANGED <<now, row, torn, raced, begun>>

\* The account's own period, whether it had a row or not.
CloseOwn(q) ==
    /\ At(q, "closeOwn")
    /\ periods' = Closed(OpenOf(req[q].parent), req[q].at)
    /\ Goto(q, "closeParent")
    /\ UNCHANGED <<now, row, torn, raced, begun>>

CloseParent(q) ==
    /\ At(q, "closeParent")
    /\ periods' = Closed(OpenUnder(req[q].parent), req[q].at)
    /\ IF req[q].op = "delete" THEN Goto(q, "gym") ELSE Done(q)
    /\ UNCHANGED <<now, row, torn, raced, begun>>

\* What a request that fails leaves unwritten.
Left(q) == {m \in Members : Owes(q, m, row[m].parent)}

\* The write of the history fails: it is logged, and the deletion of an account goes on.
FailHistory(q) ==
    /\ req[q].pc \in {"find", "close", "insert", "closeMember", "closeOwn", "closeParent"}
    /\ req[q].op # "reconcile"
    /\ CASE At(q, "closeOwn") -> Goto(q, "closeParent")
         [] At(q, "closeParent") /\ req[q].op = "delete" -> Goto(q, "gym")
         [] OTHER -> Done(q)
    /\ torn' = torn \cup Left(q)
    /\ raced' = raced \cup Left(q)
    /\ UNCHANGED <<now, row, periods, begun>>

\* What a crash leaves half done: a reconciliation, the coach it was at.
Dropped(q) == IF req[q].op = "reconcile" THEN {req[q].member} \ {None} ELSE Left(q)

\* The instance crashes, or a reconciliation runs into an error.
Crash(q) ==
    /\ req[q] # Idle
    /\ req' = [r \in Requests |-> IF r = q THEN Idle ELSE Noticed(req[r], Dropped(q))]
    /\ torn' = torn \cup Dropped(q)
    /\ raced' = raced \cup Left(q)
    /\ UNCHANGED <<now, row, periods, begun>>

-----------------------------------------------------------------------------
(* ReconcileTeam, at the start of each instance: several may run at once *)

\* Others owe history of these coaches, or go by what a row of theirs said before it changed.
Unsure == {m \in Coaches : \E r \in Requests :
             IF req[r].op = "reconcile" THEN m \in req[r].touched ELSE Owes(r, m, row[m].parent)}

\* The time at which orphans are closed is taken at the very start.
BeginReconcile(q) ==
    Begin(q, [Idle EXCEPT !.op = "reconcile", !.pc = "rows", !.since = now, !.touched = Unsure], Members)

ReadRows(q) ==
    /\ At(q, "rows")
    /\ req' = [req EXCEPT ![q].pc = "open", ![q].rows = {[member |-> m, parent |-> row[m].parent, at |-> row[m].at] :
                                                           m \in {c \in Coaches : row[c] # NoRow}}]
    /\ UNCHANGED <<now, row, periods, torn, raced, begun>>

\* openByMembers: the rows without an open period under their parent.
ReadOpen(q) ==
    /\ At(q, "open")
    /\ req' = [req EXCEPT ![q].pc = "next", ![q].rows = {},
                 ![q].todo = {r \in req[q].rows : ~ \E p \in OpenOf(r.member) : p.parent = r.parent}]
    /\ UNCHANGED <<now, row, periods, torn, raced, begun>>

\* The next row to repair (OpenPeriod with the time of the assignment), or the second part.
Repair(q) ==
    /\ At(q, "next")
    /\ IF req[q].todo = {} THEN Goto(q, "orphans")
         ELSE \E r \in req[q].todo :
                req' = [req EXCEPT ![q] = [req[q] EXCEPT !.pc = "find", !.todo = @ \ {r}, !.member = r.member,
                                                         !.parent = r.parent, !.at = r.at]]
    /\ UNCHANGED <<now, row, periods, torn, raced, begun>>

\* The open periods of the teams.
ReadOrphans(q) ==
    /\ At(q, "orphans")
    /\ req' = [req EXCEPT ![q].pc = "existing",
                 ![q].rows = {[member |-> p.member, parent |-> p.parent, at |-> 0] :
                                p \in UNION {OpenOf(c) : c \in Coaches}}]
    /\ UNCHANGED <<now, row, periods, torn, raced, begun>>

\* Mutant of Orphans: the periods of coaches that still have a row are closed too.
Orphans_All(rs) == rs

\* existingCoaches: the members of open periods that have no row.
Orphans(rs) == {r \in rs : row[r.member] = NoRow}

ReadExisting(q) ==
    /\ At(q, "existing")
    /\ req' = [req EXCEPT ![q].pc = "orphan", ![q].rows = {}, ![q].todo = Orphans(req[q].rows)]
    /\ UNCHANGED <<now, row, periods, torn, raced, begun>>

CloseOrphan(q) ==
    /\ At(q, "orphan")
    /\ req[q].todo # {}
    /\ \E r \in req[q].todo :
         /\ periods' = Closed(OpenOf(r.member), req[q].since)
         /\ req' = [req EXCEPT ![q].todo = @ \ {r}]
    /\ UNCHANGED <<now, row, torn, raced, begun>>

\* Every coach nobody interfered with is in order again.
EndReconcile(q) ==
    /\ At(q, "orphan")
    /\ req[q].todo = {}
    /\ Done(q)
    /\ torn' = torn \ (Coaches \ req[q].touched)
    /\ UNCHANGED <<now, row, periods, raced, begun>>

-----------------------------------------------------------------------------

Tick ==
    /\ now < MaxTime
    /\ now' = now + 1
    /\ UNCHANGED <<row, periods, req, torn, raced, begun>>

Arrive(q) ==
    \/ \E m \in Members, k \in Parents : BeginAssign(q, m, k)
    \/ \E m \in Members : BeginRemove(q, m)
    \/ \E k \in Parents : BeginRelease(q, k)
    \/ \E u \in Members : BeginDelete(q, u)
    \/ BeginReconcile(q)

WriteMembership(q) == AssignRow(q) \/ RemoveRow(q) \/ ReleaseRows(q) \/ DeleteRows(q) \/ DeleteGymRow(q)

WriteHistory(q) ==
    Find(q) \/ CloseOther(q) \/ Insert(q) \/ CloseMember(q) \/ CloseOwn(q) \/ CloseParent(q) \/ FailHistory(q)

Reconcile(q) ==
    ReadRows(q) \/ ReadOpen(q) \/ Repair(q) \/ ReadOrphans(q) \/ ReadExisting(q) \/ CloseOrphan(q) \/ EndReconcile(q)

Next ==
    \/ Tick
    \/ \E q \in Requests : Arrive(q) \/ WriteMembership(q) \/ WriteHistory(q) \/ Reconcile(q) \/ Crash(q)

Spec == Init /\ [][Next]_vars

-----------------------------------------------------------------------------
(* Properties *)

Quiet(m) == m \notin torn /\ \A q \in Requests : ~Owes(q, m, row[m].parent)

\* The history says where a member is, unless its last write failed or another one about the same
\* member overlapped it; and for coaches ReconcileTeam repairs both when nothing interferes.
HistoryFollowsRows ==
    \A m \in Members : Quiet(m) =>
      IF row[m] = NoRow THEN OpenOf(m) = {} ELSE \E p \in OpenOf(m) : p.parent = row[m].parent

\* However often a member is moved, nobody was in two places at once and no period ends before it
\* starts, unless writes about the member overlapped or failed: every write closes at a time that it
\* takes after the writes before it.
HistoryIsDisjoint ==
    \A m \in Members \ raced : \A p, p2 \in {x \in periods : x.member = m} :
      /\ p.end = Open \/ p.start <= p.end
      /\ p # p2 => \A t \in Times : ~(Covers([from |-> p.start, to |-> p.end], t) /\
                                      Covers([from |-> p2.start, to |-> p2.end], t))

TeamPeriods == {p \in periods : p.member \in Coaches}
GymPeriods == {p \in periods : p.member \in Heads}

\* Whatever histories arise, also overlapping ones and periods that end before they start, a gym
\* sees a coach at exactly the instants when he was in the team and his head coach in the gym.
ScopeIsTheOverlap ==
    \A g \in Gyms, h \in Heads, m \in Coaches :
      LET team == RangesOf(periods, m, h)
          gym == RangesOf(periods, h, g)
      IN  CoveredBy(IntersectPeriods(team, gym)) = CoveredBy(team) \cap CoveredBy(gym)

\* The clients an owner or a head coach can look up are those of the coaches who are there now:
\* when neither history is behind, nobody who left is current and nobody who is there is missing; and
\* a head coach's list and his scope, worked out by different code, agree even then.
CurrentScopeIsCurrent ==
    /\ \A g \in Gyms :
         (\A m \in Members : Quiet(m)) =>
           CurrentCoaches(GymScope(TeamPeriods, GymPeriods, g)) = Team(g) \cup UNION {Team(h) : h \in Team(g)}
    /\ \A h \in Heads :
         /\ (\A m \in Coaches : Quiet(m)) => HeadClientsCoaches(TeamPeriods, h) = {h} \cup Team(h)
         /\ HeadClientsCoaches(TeamPeriods, h) = CurrentCoaches(TeamScope(TeamPeriods, h, 0))

=============================================================================
