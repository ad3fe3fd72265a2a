--------------------------------- MODULE Gym ---------------------------------
(***************************************************************************)
(* Gyms (services/gym.go) on top of the head-coach teams: gyms are created, *)
(* archived and reactivated, coaches are invited, accept or decline, admins *)
(* add head coaches, head coaches leave or are removed.  Accepting an       *)
(* invitation makes an ordinary coach a head coach, so these requests share *)
(* the accounts, the head-coach flags and the memberships of HeadCoachTeam, *)
(* and the last step of a demotion or a deletion takes a coach out of his   *)
(* gym.  A step is again one MongoDB operation.                             *)
(*                                                                         *)
(* The invited address is the coach who has it.  The owners of a gym and    *)
(* its name, the daily limit on invitations, the clock of their expiry, the *)
(* audit trail and the membership periods are left out.                     *)
(***************************************************************************)
EXTENDS HeadCoachTeam

CONSTANTS
    Gyms,
    Invites,      \* invitations that can be stored
    GymRequests   \* gym requests that may be in flight at the same time

ASSUME GymAssumption == Nobody \notin Gyms \cup Invites

VARIABLES
    gymStatus,   \* gyms: none, active or archived
    gymOf,       \* gym_head_coaches: the gym of each coach (unique index on head_coach_id)
    invite,      \* gym_invitations
    act,         \* the next step of each gym request and what it is about
    granted,     \* history: head coaches by an admin or by an accepted invitation
    stopped      \* history: coaches whose acceptance stopped half-way

gymVars == <<gymStatus, gymOf, invite, act, stopped>>

allVars == <<vars, gymVars, granted>>

GymStatuses == {"none", "active", "archived"}

InviteStatuses == {"none", "pending", "accepted", "declined", "revoked", "expired"}

\* via: the invitation that led to the membership, Nobody when an admin added the head coach.
Membership == [gym : Gyms \cup {Nobody}, via : Invites \cup {Nobody}]

NoGym == [gym |-> Nobody, via |-> Nobody]

Invitation == [gym : Gyms \cup {Nobody}, coach : Coaches \cup {Nobody}, status : InviteStatuses]

NoInvite == [gym |-> Nobody, coach |-> Nobody, status |-> "none"]

\* A failure in one of these steps leaves the flag or the membership of an acceptance behind.
HalfWay == {"acceptRecheck", "acceptAdd", "acceptTransition", "acceptUndo", "acceptRollback"}

Accepting == HalfWay \cup {"acceptInvite", "acceptMember", "acceptGymOf", "acceptGym", "acceptSet"}

GymSteps ==
    Accepting \cup
    {"idle", "inviteStore", "declineStore", "leaveStore",
     "addHead", "addGymOf", "addStore",
     "archiveSet", "archiveRemove", "archiveRevoke", "activateStore"}

\* setFlag: the coach was no head coach when the acceptance loaded it.
GymRequest == [pc : GymSteps, gym : Gyms \cup {Nobody}, coach : Coaches \cup {Nobody},
               inv : Invites \cup {Nobody}, setFlag : BOOLEAN]

GymIdle == [pc |-> "idle", gym |-> Nobody, coach |-> Nobody, inv |-> Nobody, setFlag |-> FALSE]

InvitationOf(g, c, i) == invite[i].gym = g /\ invite[i].coach = c

\* A membership and the acceptance of an invitation are about the gym and the coach it names.
MembershipOK(c) ==
    gymOf[c] = NoGym \/ /\ gymOf[c].gym \in Gyms
                        /\ gymOf[c].via = Nobody \/ InvitationOf(gymOf[c].gym, c, gymOf[c].via)

GymRequestOK(a) ==
    /\ a.pc \in Accepting => a.inv \in Invites /\ InvitationOf(a.gym, a.coach, a.inv)
    /\ a.pc \in Accepting \cup {"inviteStore", "addHead", "addGymOf", "addStore"}
         => a.gym \in Gyms /\ a.coach \in Coaches
    /\ a.pc \in {"archiveSet", "archiveRemove", "archiveRevoke", "activateStore"} => a.gym \in Gyms
    /\ a.pc = "leaveStore" => a.coach \in Coaches
    /\ a.pc \in {"acceptSet", "acceptRecheck", "acceptRollback"} => a.setFlag
    /\ a.pc = "declineStore" => a.inv \in Invites /\ invite[a.inv] # NoInvite

InviteOK(i) ==
    invite[i] = NoInvite \/ /\ invite[i].gym \in Gyms /\ invite[i].coach \in Coaches
                            /\ invite[i].status # "none"

GymTypeOK ==
    /\ TypeOK
    /\ gymStatus \in [Gyms -> GymStatuses]
    /\ gymOf \in [Coaches -> Membership]
    /\ \A c \in Coaches : MembershipOK(c)
    /\ invite \in [Invites -> Invitation]
    /\ \A i \in Invites : InviteOK(i)
    /\ act \in [GymRequests -> GymRequest]
    /\ \A r \in GymRequests : GymRequestOK(act[r])
    /\ granted \subseteq Coaches
    /\ stopped \subseteq Coaches

GymInit ==
    /\ Init
    /\ gymStatus = [g \in Gyms |-> "none"]
    /\ gymOf = [c \in Coaches |-> NoGym]
    /\ invite = [i \in Invites |-> NoInvite]
    /\ act = [r \in GymRequests |-> GymIdle]
    /\ granted = {}
    /\ stopped = {}

Doing(r, step) == act[r].pc = step

Start(r, new) == act' = [act EXCEPT ![r] = new]

Proceed(r, step) == act' = [act EXCEPT ![r].pc = step]

Finish(r) == act' = [act EXCEPT ![r] = GymIdle]

\* What most steps of a gym request leave alone.
Unmoved == UNCHANGED <<vars, granted, stopped>>

InGym(c) == gymOf[c] # NoGym

\* AddHeadCoach inserts unless the unique index refuses, ReleaseHead deletes by the coach only.
AddHeadCoach(c, g, i) == gymOf' = [gymOf EXCEPT ![c] = [gym |-> g, via |-> i]]

ReleaseHead(c) == gymOf' = [gymOf EXCEPT ![c] = NoGym]

\* Mutant of Transition: the invitation is updated whatever its status is.
Transition_Unfiltered(i, to) == invite' = [invite EXCEPT ![i].status = to]

\* TransitionInvitation from pending; nothing is stored when the invitation was answered already.
Transition(i, to) ==
    invite' = [invite EXCEPT ![i].status = IF @ = "pending" THEN to ELSE @]

-----------------------------------------------------------------------------
(* The gyms: AdminCreateGym and the status changes of AdminUpdateGym *)

CreateGym(g) ==
    /\ gymStatus[g] = "none"
    /\ gymStatus' = [gymStatus EXCEPT ![g] = "active"]
    /\ UNCHANGED <<gymOf, invite, act>>
    /\ Unmoved

\* The gym is loaded; an archived one is archived again from the second step on.
ArchiveLoad(r, g) ==
    /\ Doing(r, "idle")
    /\ gymStatus[g] # "none"
    /\ Start(r, [GymIdle EXCEPT !.gym = g,
                   !.pc = IF gymStatus[g] = "active" THEN "archiveSet" ELSE "archiveRemove"])
    /\ UNCHANGED <<gymStatus, gymOf, invite>>
    /\ Unmoved

ArchiveSet(r) ==
    /\ Doing(r, "archiveSet")
    /\ gymStatus' = [gymStatus EXCEPT ![act[r].gym] = "archived"]
    /\ Proceed(r, "archiveRemove")
    /\ UNCHANGED <<gymOf, invite>>
    /\ Unmoved

ArchiveRemove(r) ==
    /\ Doing(r, "archiveRemove")
    /\ gymOf' = [c \in Coaches |-> IF gymOf[c].gym = act[r].gym THEN NoGym ELSE gymOf[c]]
    /\ Proceed(r, "archiveRevoke")
    /\ UNCHANGED <<gymStatus, invite>>
    /\ Unmoved

ArchiveRevoke(r) ==
    /\ Doing(r, "archiveRevoke")
    /\ invite' = [i \in Invites |->
                    IF invite[i].gym = act[r].gym /\ invite[i].status = "pending"
                      THEN [invite[i] EXCEPT !.status = "revoked"]
                      ELSE invite[i]]
    /\ Finish(r)
    /\ UNCHANGED <<gymStatus, gymOf>>
    /\ Unmoved

ActivateLoad(r, g) ==
    /\ Doing(r, "idle")
    /\ gymStatus[g] = "archived"
    /\ Start(r, [GymIdle EXCEPT !.gym = g, !.pc = "activateStore"])
    /\ UNCHANGED <<gymStatus, gymOf, invite>>
    /\ Unmoved

ActivateStore(r) ==
    /\ Doing(r, "activateStore")
    /\ gymStatus' = [gymStatus EXCEPT ![act[r].gym] = "active"]
    /\ Finish(r)
    /\ UNCHANGED <<gymOf, invite>>
    /\ Unmoved

-----------------------------------------------------------------------------
(* Invitations *)

InviteLoad(r, g, c) ==
    /\ Doing(r, "idle")
    /\ gymStatus[g] = "active"
    /\ Start(r, [GymIdle EXCEPT !.pc = "inviteStore", !.gym = g, !.coach = c])
    /\ UNCHANGED <<gymStatus, gymOf, invite>>
    /\ Unmoved

AlreadyInvited(g, c) == \E i \in Invites : invite[i] = [gym |-> g, coach |-> c, status |-> "pending"]

\* One pending invitation per gym and address (unique index).
InviteStore(r) ==
    /\ Doing(r, "inviteStore")
    /\ IF AlreadyInvited(act[r].gym, act[r].coach)
         THEN UNCHANGED invite
         ELSE \E i \in Invites :
                /\ invite[i] = NoInvite
                /\ invite' = [invite EXCEPT ![i] = [gym |-> act[r].gym, coach |-> act[r].coach,
                                                    status |-> "pending"]]
    /\ Finish(r)
    /\ UNCHANGED <<gymStatus, gymOf>>
    /\ Unmoved

\* RevokeInvitation by the gym owner, and the expiry, which ExpireDue or an answer stores.
Withdraw(i) ==
    /\ invite[i].status = "pending"
    /\ Transition(i, "revoked") \/ Transition(i, "expired")
    /\ UNCHANGED <<gymStatus, gymOf, act>>
    /\ Unmoved

\* DeclineInvitation loads the coach and the invitation ...
DeclineLoad(r, i) ==
    /\ Doing(r, "idle")
    /\ invite[i].status = "pending"
    /\ status[invite[i].coach] = "Active"
    /\ Start(r, [GymIdle EXCEPT !.pc = "declineStore", !.inv = i])
    /\ UNCHANGED <<gymStatus, gymOf, invite>>
    /\ Unmoved

\* ... and answers it, unless it was answered in between.
DeclineStore(r) ==
    /\ Doing(r, "declineStore")
    /\ Transition(act[r].inv, "declined")
    /\ Finish(r)
    /\ UNCHANGED <<gymStatus, gymOf>>
    /\ Unmoved

-----------------------------------------------------------------------------
(* AcceptInvitation *)

\* Mutant of AcceptLoad: the invitation of another coach is taken.
AcceptLoad_AnyCoach(r, i) ==
    /\ Doing(r, "idle")
    /\ invite[i] # NoInvite
    /\ \E c \in Coaches :
         /\ status[c] = "Active"
         /\ Start(r, [pc |-> "acceptInvite", gym |-> invite[i].gym, coach |-> c, inv |-> i,
                      setFlag |-> ~isHead[c]])
    /\ UNCHANGED <<gymStatus, gymOf, invite>>
    /\ Unmoved

\* requireCoach: the account is loaded, and with it the flag.  The invitation must be his own.
AcceptLoad(r, i) ==
    /\ Doing(r, "idle")
    /\ invite[i] # NoInvite
    /\ LET c == invite[i].coach
       IN  /\ status[c] = "Active"
           /\ Start(r, [pc |-> "acceptInvite", gym |-> invite[i].gym, coach |-> c, inv |-> i,
                        setFlag |-> ~isHead[c]])
    /\ UNCHANGED <<gymStatus, gymOf, invite>>
    /\ Unmoved

\* The four checks: the invitation is pending, the coach has no head coach and no gym, the gym is
\* active.
AcceptCheck(r) ==
    /\ \/ /\ Doing(r, "acceptInvite")
          /\ IF invite[act[r].inv].status = "pending" THEN Proceed(r, "acceptMember") ELSE Finish(r)
       \/ /\ Doing(r, "acceptMember")
          /\ IF IsMember(act[r].coach) THEN Finish(r) ELSE Proceed(r, "acceptGymOf")
       \/ /\ Doing(r, "acceptGymOf")
          /\ IF InGym(act[r].coach) THEN Finish(r) ELSE Proceed(r, "acceptGym")
       \/ /\ Doing(r, "acceptGym")
          /\ IF gymStatus[act[r].gym] = "active"
               THEN Proceed(r, IF act[r].setFlag THEN "acceptSet" ELSE "acceptAdd")
               ELSE Finish(r)
    /\ UNCHANGED <<gymStatus, gymOf, invite>>
    /\ Unmoved

\* An ordinary coach is promoted as by an admin.
AcceptSet(r) ==
    /\ Doing(r, "acceptSet")
    /\ IF Exists(act[r].coach)
         THEN /\ SetHeadCoach(act[r].coach, TRUE)
              /\ loose' = loose \ {act[r].coach}
              /\ Proceed(r, "acceptRecheck")
         ELSE UNCHANGED <<isHead, loose>> /\ Finish(r)
    /\ UNCHANGED <<status, headOf, req, gymStatus, gymOf, invite, granted, stopped>>

\* A concurrent Assign may have made the coach a member; a failed query is taken for that.
AcceptRecheck(r) ==
    /\ Doing(r, "acceptRecheck")
    /\ \/ ~IsMember(act[r].coach) /\ Proceed(r, "acceptAdd")
       \/ Proceed(r, "acceptRollback")
    /\ UNCHANGED <<gymStatus, gymOf, invite>>
    /\ Unmoved

\* Mutant of GiveUpAdd: the flag of a coach who got another gym stays.
GiveUpAdd_KeepsFlag(r) == Finish(r)

\* The acceptance failed: what it set is taken back.
GiveUpAdd(r) == IF act[r].setFlag THEN Proceed(r, "acceptRollback") ELSE Finish(r)

\* The unique index refuses a coach who got a gym meanwhile; a failed insert ends alike.
AcceptAdd(r) ==
    /\ Doing(r, "acceptAdd")
    /\ \/ /\ ~InGym(act[r].coach)
          /\ AddHeadCoach(act[r].coach, act[r].gym, act[r].inv)
          /\ Proceed(r, "acceptTransition")
       \/ /\ GiveUpAdd(r)
          /\ UNCHANGED gymOf
    /\ UNCHANGED <<gymStatus, invite>>
    /\ Unmoved

AcceptTransition(r) ==
    /\ Doing(r, "acceptTransition")
    /\ Transition(act[r].inv, "accepted")
    /\ IF invite[act[r].inv].status = "pending"
         THEN /\ Finish(r)
              /\ granted' = granted \cup (IF act[r].setFlag THEN {act[r].coach} ELSE {})
         ELSE /\ Proceed(r, "acceptUndo")
              /\ UNCHANGED granted
    /\ UNCHANGED <<vars, gymStatus, gymOf, stopped>>

\* Mutant of AcceptUndo: the membership of an invitation that was withdrawn is kept.
AcceptUndo_KeepsGym(r) ==
    /\ Doing(r, "acceptUndo")
    /\ GiveUpAdd(r)
    /\ UNCHANGED <<gymStatus, gymOf, invite>>
    /\ Unmoved

\* The invitation was withdrawn or answered meanwhile: whatever gym the coach is in is released.
AcceptUndo(r) ==
    /\ Doing(r, "acceptUndo")
    /\ ReleaseHead(act[r].coach)
    /\ GiveUpAdd(r)
    /\ UNCHANGED <<gymStatus, invite>>
    /\ Unmoved

\* A failure of the last two writes is answered like a refusal: of the answer to the invitation by
\* the undo, of the undo (which is only logged) by the rollback.
AcceptFails(r) ==
    /\ \/ Doing(r, "acceptTransition") /\ Proceed(r, "acceptUndo") /\ UNCHANGED stopped
       \/ Doing(r, "acceptUndo") /\ GiveUpAdd(r) /\ stopped' = stopped \cup {act[r].coach}
    /\ UNCHANGED <<vars, gymStatus, gymOf, invite, granted>>

\* rollbackFlag takes the flag away, whoever set it meanwhile, and leaves the team as it is.
AcceptRollback(r) ==
    /\ Doing(r, "acceptRollback")
    /\ IF Exists(act[r].coach)
         THEN SetHeadCoach(act[r].coach, FALSE) /\ granted' = granted \ {act[r].coach}
         ELSE UNCHANGED <<isHead, granted>>
    /\ loose' = loose \cup Stranded(act[r].coach)
    /\ Finish(r)
    /\ UNCHANGED <<status, headOf, req, gymStatus, gymOf, invite, stopped>>

-----------------------------------------------------------------------------
(* AdminAddHeadCoach, LeaveGym and the removals *)

AddLoad(r, g, c) ==
    /\ Doing(r, "idle")
    /\ gymStatus[g] = "active"
    /\ Start(r, [GymIdle EXCEPT !.pc = "addHead", !.gym = g, !.coach = c])
    /\ UNCHANGED <<gymStatus, gymOf, invite>>
    /\ Unmoved

AddCheck(r) ==
    /\ \/ /\ Doing(r, "addHead")
          /\ IF ActiveHead(act[r].coach) THEN Proceed(r, "addGymOf") ELSE Finish(r)
       \/ /\ Doing(r, "addGymOf")
          /\ IF InGym(act[r].coach) THEN Finish(r) ELSE Proceed(r, "addStore")
    /\ UNCHANGED <<gymStatus, gymOf, invite>>
    /\ Unmoved

AddStore(r) ==
    /\ Doing(r, "addStore")
    /\ IF InGym(act[r].coach) THEN UNCHANGED gymOf ELSE AddHeadCoach(act[r].coach, act[r].gym, Nobody)
    /\ Finish(r)
    /\ UNCHANGED <<gymStatus, invite>>
    /\ Unmoved

LeaveLoad(r, c) ==
    /\ Doing(r, "idle")
    /\ ActiveHead(c)
    /\ Start(r, [GymIdle EXCEPT !.pc = "leaveStore", !.coach = c])
    /\ UNCHANGED <<gymStatus, gymOf, invite>>
    /\ Unmoved

LeaveStore(r) ==
    /\ Doing(r, "leaveStore")
    /\ ReleaseHead(act[r].coach)
    /\ Finish(r)
    /\ UNCHANGED <<gymStatus, invite>>
    /\ Unmoved

\* RemoveHeadCoach by the gym owner or an admin deletes by gym and coach; the flag and the team stay.
RemoveHeadCoach(c) ==
    /\ InGym(c)
    /\ ReleaseHead(c)
    /\ UNCHANGED <<gymStatus, invite, act>>
    /\ Unmoved

\* A cancelled request or a crash.
AbortGym(r) ==
    /\ ~Doing(r, "idle")
    /\ stopped' = stopped \cup (IF act[r].pc \in HalfWay THEN {act[r].coach} ELSE {})
    /\ Finish(r)
    /\ UNCHANGED <<vars, gymStatus, gymOf, invite, granted>>

-----------------------------------------------------------------------------

Accept(r) ==
    \/ \E i \in Invites : AcceptLoad(r, i)
    \/ AcceptCheck(r) \/ AcceptSet(r) \/ AcceptRecheck(r) \/ AcceptAdd(r)
    \/ AcceptTransition(r) \/ AcceptUndo(r) \/ AcceptFails(r) \/ AcceptRollback(r)

Answer(r) ==
    \/ \E g \in Gyms, c \in Coaches : InviteLoad(r, g, c)
    \/ \E i \in Invites : DeclineLoad(r, i)
    \/ InviteStore(r) \/ DeclineStore(r)

Archive(r) ==
    \/ \E g \in Gyms : ArchiveLoad(r, g) \/ ActivateLoad(r, g)
    \/ ArchiveSet(r) \/ ArchiveRemove(r) \/ ArchiveRevoke(r) \/ ActivateStore(r)

Join(r) ==
    \/ \E g \in Gyms, c \in Coaches : AddLoad(r, g, c)
    \/ \E c \in Coaches : LeaveLoad(r, c)
    \/ AddCheck(r) \/ AddStore(r) \/ LeaveStore(r)

\* Promote and Demote change the flag too: what an admin grants, and what a demotion ends.
Granted == {c \in Coaches : isHead'[c] /\ (c \in granted \/ ~isHead[c])}

GymNext ==
    \/ TeamStep /\ granted' = Granted /\ UNCHANGED gymVars
    \/ \E q \in Requests :
         /\ ReleaseGym(q)
         /\ ReleaseHead(req[q].coach)
         /\ UNCHANGED <<gymStatus, invite, act, granted, stopped>>
    \/ \E g \in Gyms : CreateGym(g)
    \/ \E i \in Invites : Withdraw(i)
    \/ \E c \in Coaches : RemoveHeadCoach(c)
    \/ \E r \in GymRequests : Accept(r) \/ Answer(r) \/ Archive(r) \/ Join(r) \/ AbortGym(r)

GymSpec == GymInit /\ [][GymNext]_allVars

-----------------------------------------------------------------------------
(* Properties *)

\* An invitation is answered once: whichever of acceptance, refusal, revocation, expiry and
\* archiving comes first stands, even for the acceptance that had already stored the membership
\* (the status filter of TransitionInvitation).
AnsweredOnce ==
    [][\A i \in Invites :
         invite[i].status \notin {"none", "pending"} => invite'[i] = invite[i]]_allVars

\* Nobody is in a gym through an invitation he did not get through with: while the invitation of a
\* membership is not accepted, an acceptance in flight still has to answer or to undo it, unless one
\* stopped half-way.
MembershipsAreAccepted ==
    \A c \in Coaches :
      InGym(c) /\ gymOf[c].via # Nobody /\ invite[gymOf[c].via].status # "accepted"
        => \/ c \in stopped
           \/ \E r \in GymRequests :
                act[r].pc \in {"acceptTransition", "acceptUndo"} /\ act[r].inv = gymOf[c].via

\* A failed acceptance leaves no rights: a head coach was promoted by an admin or got through with
\* an invitation, unless an acceptance is in flight that will take the flag back when it fails.
RightsAreGranted ==
    \A c \in Coaches :
      IsHeadCoach(c) =>
        \/ c \in granted \cup stopped
        \/ \E r \in GymRequests : act[r].pc \in HalfWay /\ act[r].setFlag /\ act[r].coach = c

=============================================================================
