---------------------------- MODULE HeadCoachTeam ----------------------------
(***************************************************************************)
(* Head-coach teams (services/team.go): admins promote and demote head      *)
(* coaches and assign coaches to them, head coaches remove coaches, and     *)
(* accounts are blocked or deleted meanwhile.  There is no transaction:     *)
(* each request is a sequence of MongoDB operations on user documents and   *)
(* membership rows, and other requests run between two of them.             *)
(*                                                                         *)
(* Every user here has the role coach.  The audit trail and the cached      *)
(* reads are left out.                                                     *)
(***************************************************************************)

CONSTANTS
    Coaches,
    Requests,   \* requests that may be in flight at the same time
    Nobody      \* the head of a coach without a team

ASSUME HeadCoachTeamAssumption == Nobody \notin Coaches

VARIABLES
    status,   \* the account of each coach: Active, another status, or deleted
    isHead,   \* is_head_coach of each coach
    headOf,   \* coach_team_members: the head coach of each coach (unique index on coach_id)
    req,      \* the next step of each request, and the coaches it is about
    loose     \* history: heads left without repair by a rollback or by a request that stopped

vars == <<status, isHead, headOf, req, loose>>

Statuses == {"Active", "Inactive", "Gone"}

Steps == {"idle",
          "promoteCheck", "promoteSet", "promoteRecheck", "promoteRollback",
          "demoteCount", "demoteSet", "demoteRelease",
          "assignHead", "assignStore", "assignRecheck", "assignUndo",
          "unassignDelete", "removeGet",
          "purge", "releaseGym"}

\* coach: the coach the request is about; head: the head coach, where there is another one.
Request == [pc : Steps, coach : Coaches \cup {Nobody}, head : Coaches \cup {Nobody}]

Idle == [pc |-> "idle", coach |-> Nobody, head |-> Nobody]

\* What a request knows of its coaches.
RequestOK(r) ==
    /\ r.pc # "idle" => r.coach \in Coaches
    /\ r.pc \in {"assignHead", "assignStore"} => r.head \in Coaches \ {r.coach}

TypeOK ==
    /\ status \in [Coaches -> Statuses]
    /\ isHead \in [Coaches -> BOOLEAN]
    /\ headOf \in [Coaches -> Coaches \cup {Nobody}]
    /\ \A c \in Coaches : headOf[c] # c
    /\ req \in [Requests -> Request]
    /\ \A q \in Requests : RequestOK(req[q])
    /\ loose \subseteq Coaches

Init ==
    /\ status = [c \in Coaches |-> "Active"]
    /\ isHead = [c \in Coaches |-> FALSE]
    /\ headOf = [c \in Coaches |-> Nobody]
    /\ req = [q \in Requests |-> Idle]
    /\ loose = {}

At(q, step) == req[q].pc = step

Begin(q, step, c, h) == req' = [req EXCEPT ![q] = [pc |-> step, coach |-> c, head |-> h]]

Continue(q, step) == req' = [req EXCEPT ![q].pc = step]

End(q) == req' = [req EXCEPT ![q] = Idle]

\* loadUser finds the account.
Exists(c) == status[c] # "Gone"

ActiveHead(h) == status[h] = "Active" /\ isHead[h]

IsMember(c) == headOf[c] # Nobody

Team(h) == {c \in Coaches : headOf[c] = h}

\* {h} when losing the head coach h, or a request about to look at it, strands a team.
Stranded(h) == IF Team(h) = {} THEN {} ELSE {h}

\* The membership deletes: by coach_id only, by head_coach_id, and by either.
DeleteByCoach(c) == headOf' = [headOf EXCEPT ![c] = Nobody]

DeleteByHead(h) == headOf' = [c \in Coaches |-> IF headOf[c] = h THEN Nobody ELSE headOf[c]]

DeleteByAny(u) ==
    headOf' = [c \in Coaches |-> IF c = u \/ headOf[c] = u THEN Nobody ELSE headOf[c]]

\* SetHeadCoach fails with 404 when the user document is gone.
SetHeadCoach(c, flag) == isHead' = [isHead EXCEPT ![c] = flag]

-----------------------------------------------------------------------------
(* Promote *)

\* The account is loaded and must be Active; promoting a head coach again is a no-op.
PromoteLoad(q, c) ==
    /\ At(q, "idle")
    /\ status[c] = "Active"
    /\ ~isHead[c]
    /\ Begin(q, "promoteCheck", c, Nobody)
    /\ UNCHANGED <<status, isHead, headOf, loose>>

PromoteCheck(q) ==
    /\ At(q, "promoteCheck")
    /\ IF IsMember(req[q].coach) THEN End(q) ELSE Continue(q, "promoteSet")
    /\ UNCHANGED <<status, isHead, headOf, loose>>

PromoteSet(q) ==
    /\ At(q, "promoteSet")
    /\ IF Exists(req[q].coach)
         THEN /\ SetHeadCoach(req[q].coach, TRUE)
              /\ loose' = loose \ {req[q].coach}
              /\ Continue(q, "promoteRecheck")
         ELSE UNCHANGED <<isHead, loose>> /\ End(q)
    /\ UNCHANGED <<status, headOf>>

\* A concurrent Assign may have made the coach a member: then the flag is undone.
PromoteRecheck(q) ==
    /\ At(q, "promoteRecheck")
    /\ IF IsMember(req[q].coach) THEN Continue(q, "promoteRollback") ELSE End(q)
    /\ UNCHANGED <<status, isHead, headOf, loose>>

PromoteRollback(q) ==
    /\ At(q, "promoteRollback")
    /\ IF Exists(req[q].coach)
         THEN SetHeadCoach(req[q].coach, FALSE)
         ELSE UNCHANGED isHead
    /\ loose' = loose \cup Stranded(req[q].coach)
    /\ End(q)
    /\ UNCHANGED <<status, headOf>>

-----------------------------------------------------------------------------
(* Demote: cut access, release the team, leave the gym *)

DemoteLoad(q, h) ==
    /\ At(q, "idle")
    /\ Exists(h)
    /\ Begin(q, IF isHead[h] THEN "demoteSet" ELSE "demoteCount", h, Nobody)
    /\ UNCHANGED <<status, isHead, headOf, loose>>

\* The retry after a partial failure goes on only while members are left; CountByHead joins the
\* members with their users and does not count the deleted ones.
DemoteCount(q) ==
    /\ At(q, "demoteCount")
    /\ IF \E c \in Team(req[q].coach) : Exists(c) THEN Continue(q, "demoteSet") ELSE End(q)
    /\ UNCHANGED <<status, isHead, headOf, loose>>

DemoteSet(q) ==
    /\ At(q, "demoteSet")
    /\ IF Exists(req[q].coach)
         THEN SetHeadCoach(req[q].coach, FALSE) /\ Continue(q, "demoteRelease")
         ELSE UNCHANGED isHead /\ End(q)
    /\ UNCHANGED <<status, headOf, loose>>

DemoteRelease(q) ==
    /\ At(q, "demoteRelease")
    /\ DeleteByHead(req[q].coach)
    /\ loose' = loose \ {req[q].coach}
    /\ Continue(q, "releaseGym")
    /\ UNCHANGED <<status, isHead>>

-----------------------------------------------------------------------------
(* Assign and Unassign *)

\* Mutant of AssignLoad: the two ids are not compared.
AssignLoad_SameCoach(q, c, h) ==
    /\ At(q, "idle")
    /\ Exists(c)
    /\ ~isHead[c]
    /\ Begin(q, "assignHead", c, h)
    /\ UNCHANGED <<status, isHead, headOf, loose>>

\* The coach is loaded first: a head coach cannot become a member.
AssignLoad(q, c, h) ==
    /\ At(q, "idle")
    /\ c # h
    /\ Exists(c)
    /\ ~isHead[c]
    /\ Begin(q, "assignHead", c, h)
    /\ UNCHANGED <<status, isHead, headOf, loose>>

AssignHead(q) ==
    /\ At(q, "assignHead")
    /\ IF ActiveHead(req[q].head) THEN Continue(q, "assignStore") ELSE End(q)
    /\ UNCHANGED <<status, isHead, headOf, loose>>

\* Upsert replaces any other membership of the coach.
AssignStore(q) ==
    /\ At(q, "assignStore")
    /\ headOf' = [headOf EXCEPT ![req[q].coach] = req[q].head]
    /\ Continue(q, "assignRecheck")
    /\ UNCHANGED <<status, isHead, loose>>

\* Mutant of AssignRecheck: the loaded head coach is trusted.
AssignRecheck_TrustsTheLoad(q) ==
    /\ At(q, "assignRecheck")
    /\ End(q)
    /\ UNCHANGED <<status, isHead, headOf, loose>>

\* The head is loaded again; a demoted, blocked or deleted one undoes the assignment, and so does a
\* load that fails, whatever the head coach is.
AssignRecheck(q) ==
    /\ At(q, "assignRecheck")
    /\ \/ ActiveHead(req[q].head) /\ End(q)
       \/ Continue(q, "assignUndo")
    /\ UNCHANGED <<status, isHead, headOf, loose>>

AssignUndo(q) ==
    /\ At(q, "assignUndo")
    /\ DeleteByCoach(req[q].coach)
    /\ End(q)
    /\ UNCHANGED <<status, isHead, loose>>

UnassignGet(q, c) ==
    /\ At(q, "idle")
    /\ IsMember(c)
    /\ Begin(q, "unassignDelete", c, Nobody)
    /\ UNCHANGED <<status, isHead, headOf, loose>>

\* Both Unassign and RemoveMyCoach delete by coach_id.
UnassignDelete(q) ==
    /\ At(q, "unassignDelete")
    /\ DeleteByCoach(req[q].coach)
    /\ End(q)
    /\ UNCHANGED <<status, isHead, loose>>

\* RemoveMyCoach by the head coach h: requireHead, then the membership must be in its own team.
RemoveLoad(q, c, h) ==
    /\ At(q, "idle")
    /\ ActiveHead(h)
    /\ Begin(q, "removeGet", c, h)
    /\ UNCHANGED <<status, isHead, headOf, loose>>

RemoveGet(q) ==
    /\ At(q, "removeGet")
    /\ IF headOf[req[q].coach] = req[q].head THEN Continue(q, "unassignDelete") ELSE End(q)
    /\ UNCHANGED <<status, isHead, headOf, loose>>

-----------------------------------------------------------------------------
(* The account of a coach *)

\* An admin changes the status of an account: one update.
SetStatus(c) ==
    /\ Exists(c)
    /\ \E s \in {"Active", "Inactive"} \ {status[c]} : status' = [status EXCEPT ![c] = s]
    /\ UNCHANGED <<isHead, headOf, req, loose>>

\* DeleteUser removes the account, then whatever memberships it has.
DeleteUser(q, c) ==
    /\ At(q, "idle")
    /\ Exists(c)
    /\ status' = [status EXCEPT ![c] = "Gone"]
    /\ Begin(q, "purge", c, Nobody)
    /\ UNCHANGED <<isHead, headOf, loose>>

Purge(q) ==
    /\ At(q, "purge")
    /\ DeleteByAny(req[q].coach)
    /\ loose' = loose \ {req[q].coach}
    /\ Continue(q, "releaseGym")
    /\ UNCHANGED <<status, isHead>>

\* The last step of Demote and of DeleteByAny takes the head coach out of its gym: the gym row is a
\* variable of the module Gym, which adds to this action.
ReleaseGym(q) ==
    /\ At(q, "releaseGym")
    /\ End(q)
    /\ UNCHANGED <<status, isHead, headOf, loose>>

\* The request will look at the head coach h of c again, or release the whole team of h.
Repairs(r, c, h) ==
    \/ r.pc \in {"assignRecheck", "assignUndo"} /\ r.coach = c /\ r.head = h
    \/ r.pc \in {"demoteRelease", "purge"} /\ r.coach = h

\* The heads whose members a request that stops here leaves without repair.
Unrepaired(r) == {h \in Coaches : \E c \in Team(h) : Repairs(r, c, h)}

\* A database error, a cancelled request or a crash ends a request between two steps.
Abort(q) ==
    /\ ~At(q, "idle")
    /\ loose' = loose \cup Unrepaired(req[q])
    /\ End(q)
    /\ UNCHANGED <<status, isHead, headOf>>

-----------------------------------------------------------------------------

Promote(q) ==
    \/ \E c \in Coaches : PromoteLoad(q, c)
    \/ PromoteCheck(q) \/ PromoteSet(q) \/ PromoteRecheck(q) \/ PromoteRollback(q)

Demote(q) ==
    \/ \E h \in Coaches : DemoteLoad(q, h)
    \/ DemoteCount(q) \/ DemoteSet(q) \/ DemoteRelease(q)

Assign(q) ==
    \/ \E c, h \in Coaches : AssignLoad(q, c, h)
    \/ AssignHead(q) \/ AssignStore(q) \/ AssignRecheck(q) \/ AssignUndo(q)

Unassign(q) ==
    \/ \E c \in Coaches : UnassignGet(q, c)
    \/ \E c, h \in Coaches : RemoveLoad(q, c, h)
    \/ RemoveGet(q) \/ UnassignDelete(q)

Account(q) ==
    \/ \E c \in Coaches : DeleteUser(q, c)
    \/ Purge(q)

TeamStep ==
    \/ \E c \in Coaches : SetStatus(c)
    \/ \E q \in Requests :
         Promote(q) \/ Demote(q) \/ Assign(q) \/ Unassign(q) \/ Account(q) \/ Abort(q)

Next == TeamStep \/ \E q \in Requests : ReleaseGym(q)

Spec == Init /\ [][Next]_vars

-----------------------------------------------------------------------------
(* Properties *)

IsHeadCoach(h) == Exists(h) /\ isHead[h]

\* However assignments race with demotions and deletions of the head coach, nobody stays in the
\* team of an account that is no head coach: a request in flight still repairs the membership,
\* unless the repair itself was lost (a request that stopped half-way, or a rolled back promotion,
\* which takes the flag away without releasing the team).
NoOrphanedTeam ==
    \A c \in Coaches :
      IsMember(c) /\ ~IsHeadCoach(headOf[c])
        => \/ headOf[c] \in loose
           \/ \E q \in Requests : Repairs(req[q], c, headOf[c])

=============================================================================
