------------------------------- MODULE GymProofs -------------------------------
(***************************************************************************)
(* Proofs about teams and gyms.  First about HeadCoachTeam by itself, then   *)
(* about Gym, which runs it beside its own operations: the state of the gyms *)
(* and of the teams stays well formed together, an invitation is answered    *)
(* once, memberships and flags that an acceptance left are accounted for,    *)
(* and no team is orphaned by the promotions that gyms make and take back.   *)
(***************************************************************************)
EXTENDS Gym, TLAPS

USE HeadCoachTeamAssumption

-----------------------------------------------------------------------------
(* Teams by themselves.  Type correctness, one lemma per group of requests *)

LEMMA IdleOK == Idle \in Request /\ RequestOK(Idle)
BY DEF RequestOK, Idle, Request, Steps

LEMMA ReplacedRequest ==
    ASSUME TypeOK, NEW q \in Requests, NEW r \in Request, RequestOK(r), req' = [req EXCEPT ![q] = r]
    PROVE  /\ req' \in [Requests -> Request]
           /\ \A p \in Requests : RequestOK(req'[p])
BY DEF TypeOK

LEMMA EndOK ==
    ASSUME TypeOK, NEW q \in Requests, End(q)
    PROVE  /\ req' \in [Requests -> Request]
           /\ \A p \in Requests : RequestOK(req'[p])
BY IdleOK, ReplacedRequest DEF End

LEMMA BeginOK ==
    ASSUME TypeOK, NEW q \in Requests, NEW step \in Steps,
           NEW c \in Coaches, NEW h \in Coaches \cup {Nobody}, Begin(q, step, c, h),
           step \in {"assignHead", "assignStore"} => h \in Coaches \ {c}
    PROVE  /\ req' \in [Requests -> Request]
           /\ \A p \in Requests : RequestOK(req'[p])
<1> DEFINE r == [pc |-> step, coach |-> c, head |-> h]
<1>1. r \in Request /\ RequestOK(r)
  BY DEF RequestOK, Request
<1>. QED
  BY <1>1, ReplacedRequest DEF Begin

LEMMA ContinueOK ==
    ASSUME TypeOK, NEW q \in Requests, NEW step \in Steps, Continue(q, step), ~At(q, "idle"),
           step # "assignHead", step = "assignStore" => At(q, "assignHead")
    PROVE  /\ req' \in [Requests -> Request]
           /\ \A p \in Requests : RequestOK(req'[p])
<1> DEFINE r == [req[q] EXCEPT !.pc = step]
<1>1. r \in Request /\ RequestOK(r)
  BY DEF RequestOK, Request, TypeOK, At
<1>2. req' = [req EXCEPT ![q] = r]
  BY DEF Continue
<1>. QED
  BY <1>1, <1>2, ReplacedRequest

LEMMA PromoteType ==
    ASSUME TypeOK, NEW q \in Requests, Promote(q)
    PROVE  TypeOK'
<1>1. ASSUME NEW c \in Coaches, PromoteLoad(q, c)
      PROVE  TypeOK'
  BY <1>1, BeginOK DEF PromoteLoad, Steps, TypeOK
<1>2. CASE PromoteCheck(q)
  BY <1>2, EndOK, ContinueOK DEF PromoteCheck, At, Steps, TypeOK
<1>3. CASE PromoteSet(q)
  <2>1. isHead' \in [Coaches -> BOOLEAN] /\ loose' \subseteq Coaches
    BY <1>3 DEF PromoteSet, SetHeadCoach, TypeOK
  <2>. QED
    BY <1>3, <2>1, EndOK, ContinueOK DEF PromoteSet, At, Steps, TypeOK
<1>4. CASE PromoteRecheck(q)
  BY <1>4, EndOK, ContinueOK DEF PromoteRecheck, At, Steps, TypeOK
<1>5. CASE PromoteRollback(q)
  <2>1. req[q].coach \in Coaches
    BY <1>5 DEF PromoteRollback, At, TypeOK, RequestOK
  <2>2. isHead' \in [Coaches -> BOOLEAN] /\ loose' \subseteq Coaches
    BY <1>5, <2>1 DEF PromoteRollback, SetHeadCoach, Stranded, TypeOK
  <2>. QED
    BY <1>5, <2>2, EndOK DEF PromoteRollback, TypeOK
<1>. QED
  BY <1>1, <1>2, <1>3, <1>4, <1>5 DEF Promote

LEMMA DemoteType ==
    ASSUME TypeOK, NEW q \in Requests, Demote(q)
    PROVE  TypeOK'
<1>1. ASSUME NEW h \in Coaches, DemoteLoad(q, h)
      PROVE  TypeOK'
  BY <1>1, BeginOK DEF DemoteLoad, Steps, TypeOK
<1>2. CASE DemoteCount(q)
  BY <1>2, EndOK, ContinueOK DEF DemoteCount, At, Steps, TypeOK
<1>3. CASE DemoteSet(q)
  <2>1. isHead' \in [Coaches -> BOOLEAN]
    BY <1>3 DEF DemoteSet, SetHeadCoach, TypeOK
  <2>. QED
    BY <1>3, <2>1, EndOK, ContinueOK DEF DemoteSet, At, Steps, TypeOK
<1>4. CASE DemoteRelease(q)
  <2>1. headOf' \in [Coaches -> Coaches \cup {Nobody}] /\ \A c \in Coaches : headOf'[c] # c
    BY <1>4 DEF DemoteRelease, DeleteByHead, TypeOK
  <2>. QED
    BY <1>4, <2>1, ContinueOK DEF DemoteRelease, At, Steps, TypeOK
<1>. QED
  BY <1>1, <1>2, <1>3, <1>4 DEF Demote

\* Deleting the membership of one coach.
LEMMA DeleteByCoachType ==
    ASSUME TypeOK, NEW c, DeleteByCoach(c)
    PROVE  headOf' \in [Coaches -> Coaches \cup {Nobody}] /\ \A d \in Coaches : headOf'[d] # d
BY DEF TypeOK, DeleteByCoach

LEMMA AssignType ==
    ASSUME TypeOK, NEW q \in Requests, Assign(q)
    PROVE  TypeOK'
<1>1. ASSUME NEW c \in Coaches, NEW h \in Coaches, AssignLoad(q, c, h)
      PROVE  TypeOK'
  BY <1>1, BeginOK DEF AssignLoad, Steps, TypeOK
<1>2. CASE AssignHead(q)
  BY <1>2, EndOK, ContinueOK DEF AssignHead, At, Steps, TypeOK
<1>3. CASE AssignStore(q)
  <2>1. req[q].coach \in Coaches /\ req[q].head \in Coaches \ {req[q].coach}
    BY <1>3 DEF AssignStore, At, TypeOK, RequestOK
  <2>2. headOf' \in [Coaches -> Coaches \cup {Nobody}] /\ \A c \in Coaches : headOf'[c] # c
    BY <1>3, <2>1 DEF AssignStore, TypeOK
  <2>. QED
    BY <1>3, <2>2, ContinueOK DEF AssignStore, At, Steps, TypeOK
<1>4. CASE AssignRecheck(q)
  BY <1>4, EndOK, ContinueOK DEF AssignRecheck, At, Steps, TypeOK
<1>5. CASE AssignUndo(q)
  BY <1>5, EndOK, DeleteByCoachType DEF AssignUndo, TypeOK
<1>. QED
  BY <1>1, <1>2, <1>3, <1>4, <1>5 DEF Assign

LEMMA UnassignType ==
    ASSUME TypeOK, NEW q \in Requests, Unassign(q)
    PROVE  TypeOK'
<1>1. ASSUME NEW c \in Coaches, UnassignGet(q, c)
      PROVE  TypeOK'
  BY <1>1, BeginOK DEF UnassignGet, Steps, TypeOK
<1>2. ASSUME NEW c \in Coaches, NEW h \in Coaches, RemoveLoad(q, c, h)
      PROVE  TypeOK'
  BY <1>2, BeginOK DEF RemoveLoad, Steps, TypeOK
<1>3. CASE RemoveGet(q)
  BY <1>3, EndOK, ContinueOK DEF RemoveGet, At, Steps, TypeOK
<1>4. CASE UnassignDelete(q)
  BY <1>4, EndOK, DeleteByCoachType DEF UnassignDelete, TypeOK
<1>. QED
  BY <1>1, <1>2, <1>3, <1>4 DEF Unassign

LEMMA AccountType ==
    ASSUME TypeOK, NEW q \in Requests, Account(q)
    PROVE  TypeOK'
<1>1. ASSUME NEW c \in Coaches, DeleteUser(q, c)
      PROVE  TypeOK'
  <2>1. status' \in [Coaches -> Statuses]
    BY <1>1 DEF DeleteUser, TypeOK, Statuses
  <2>. QED
    BY <1>1, <2>1, BeginOK DEF DeleteUser, Steps, TypeOK
<1>2. CASE Purge(q)
  <2>1. headOf' \in [Coaches -> Coaches \cup {Nobody}] /\ \A c \in Coaches : headOf'[c] # c
    BY <1>2 DEF Purge, DeleteByAny, TypeOK
  <2>. QED
    BY <1>2, <2>1, ContinueOK DEF Purge, At, Steps, TypeOK
<1>. QED
  BY <1>1, <1>2 DEF Account

LEMMA AbortType ==
    ASSUME TypeOK, NEW q \in Requests, Abort(q)
    PROVE  TypeOK'
BY EndOK DEF Abort, TypeOK, Unrepaired

LEMMA ReleaseGymType ==
    ASSUME TypeOK, NEW q \in Requests, ReleaseGym(q)
    PROVE  TypeOK'
BY EndOK DEF ReleaseGym, TypeOK

LEMMA TeamStepType ==
    ASSUME TypeOK, TeamStep
    PROVE  TypeOK'
<1>1. ASSUME NEW c \in Coaches, SetStatus(c)
      PROVE  TypeOK'
  BY <1>1 DEF SetStatus, TypeOK, Statuses
<1>. QED
  BY <1>1, PromoteType, DemoteType, AssignType, UnassignType, AccountType, AbortType DEF TeamStep

LEMMA NextTypeOK == TypeOK /\ [Next]_vars => TypeOK'
<1>1. TypeOK /\ UNCHANGED vars => TypeOK'
  BY DEF vars, TypeOK
<1>. QED
  BY <1>1, ReleaseGymType, TeamStepType DEF Next

\* The team state stays well typed: in particular, no coach ever becomes its own head coach.
THEOREM TypeCorrect == Spec => []TypeOK
<1>1. Init => TypeOK
  BY IdleOK DEF Init, TypeOK, Statuses
<1>. QED
  BY <1>1, NextTypeOK, PTL DEF Spec

-----------------------------------------------------------------------------
(* No orphaned team.  NoOrphanedTeam is inductive over typed states: a request that ends or goes on *)
(* leaves every repair promised by the others in place, so only its own promise has to be followed. *)

\* The membership of c is accounted for: it is well headed, lost for a known reason, or in repair.
Accounted(c) ==
    \/ ~IsMember(c)
    \/ IsHeadCoach(headOf[c])
    \/ headOf[c] \in loose
    \/ \E q \in Requests : Repairs(req[q], c, headOf[c])

LEMMA NoOrphanedTeamByCoach == NoOrphanedTeam <=> \A c \in Coaches : Accounted(c)
BY DEF NoOrphanedTeam, Accounted

\* A step of q that changes neither the team nor its head accounts for everything but what q itself
\* promised to repair.
LEMMA OthersRepair ==
    ASSUME TypeOK, NEW q \in Requests, NEW c \in Coaches, Accounted(c),
           \A p \in Requests : p # q => req'[p] = req[p],
           headOf'[c] = headOf[c], loose \subseteq loose',
           IsMember(c) /\ IsHeadCoach(headOf[c]) => IsHeadCoach(headOf[c])',
           Repairs(req[q], c, headOf[c]) /\ IsMember(c)
             => IsHeadCoach(headOf[c])' \/ headOf[c] \in loose' \/ Repairs(req'[q], c, headOf[c])
    PROVE  Accounted(c)'
BY DEF Accounted, IsMember, Repairs

LEMMA OnlyOwnRequest ==
    ASSUME TypeOK, NEW q \in Requests,
           \/ End(q)
           \/ \E step : Continue(q, step)
           \/ \E step, c, h : Begin(q, step, c, h)
    PROVE  \A p \in Requests : p # q => req'[p] = req[p]
BY DEF TypeOK, End, Continue, Begin

\* Steps that only read, or write nothing of this model, and promise nothing before or after.
LEMMA ReadsKeepTeams ==
    ASSUME TypeOK, NEW q \in Requests, NEW c \in Coaches, Accounted(c),
           UNCHANGED <<status, isHead, headOf, loose>>,
           \A p \in Requests : p # q => req'[p] = req[p],
           req[q].pc \notin {"assignRecheck", "assignUndo", "demoteRelease", "purge"}
    PROVE  Accounted(c)'
<1>1. IsHeadCoach(headOf[c]) => IsHeadCoach(headOf[c])'
  BY DEF IsHeadCoach, Exists
<1>2. ~Repairs(req[q], c, headOf[c])
  BY DEF Repairs
<1>. QED
  BY <1>1, <1>2, OthersRepair

LEMMA PromoteKeepsTeams ==
    ASSUME TypeOK, NEW q \in Requests, Promote(q), NEW c \in Coaches, Accounted(c)
    PROVE  Accounted(c)'
<1>0. \A p \in Requests : p # q => req'[p] = req[p]
  BY OnlyOwnRequest
     DEF Promote, PromoteLoad, PromoteCheck, PromoteSet, PromoteRecheck, PromoteRollback
<1>1. CASE (\E d \in Coaches : PromoteLoad(q, d)) \/ PromoteCheck(q) \/ PromoteRecheck(q)
  BY <1>0, <1>1, ReadsKeepTeams DEF PromoteLoad, PromoteCheck, PromoteRecheck, At
<1>2. CASE PromoteSet(q)
  <2>1. CASE ~Exists(req[q].coach)
    BY <1>0, <1>2, <2>1, ReadsKeepTeams DEF PromoteSet, At
  <2>2. CASE Exists(req[q].coach) /\ headOf[c] = req[q].coach
    BY <1>2, <2>2 DEF PromoteSet, SetHeadCoach, Accounted, IsHeadCoach, Exists, TypeOK, IsMember
  <2>3. CASE Exists(req[q].coach) /\ headOf[c] # req[q].coach
    <3>1. /\ UNCHANGED <<status, headOf>>
          /\ headOf[c] \in loose => headOf[c] \in loose'
          /\ IsMember(c) /\ IsHeadCoach(headOf[c]) => IsHeadCoach(headOf[c])'
      BY <1>2, <2>3 DEF PromoteSet, SetHeadCoach, IsHeadCoach, Exists, TypeOK, IsMember
    <3>2. ~Repairs(req[q], c, headOf[c])
      BY <1>2 DEF PromoteSet, At, Repairs
    <3>. QED
      BY <1>0, <3>1, <3>2 DEF Accounted, IsMember
  <2>. QED
    BY <2>1, <2>2, <2>3
<1>3. CASE PromoteRollback(q)
  <2>1. /\ UNCHANGED <<status, headOf>> /\ loose \subseteq loose'
        /\ ~Repairs(req[q], c, headOf[c])
    BY <1>3 DEF PromoteRollback, At, Repairs
  <2>2. CASE headOf[c] = req[q].coach
    <3>1. headOf[c] \in loose'
      BY <1>3, <2>2 DEF PromoteRollback, Stranded, Team
    <3>. QED
      BY <2>1, <3>1 DEF Accounted
  <2>3. CASE headOf[c] # req[q].coach
    <3>1. IsMember(c) /\ IsHeadCoach(headOf[c]) => IsHeadCoach(headOf[c])'
      BY <1>3, <2>1, <2>3 DEF PromoteRollback, SetHeadCoach, IsHeadCoach, Exists, TypeOK, IsMember
    <3>. QED
      BY <1>0, <2>1, <3>1, OthersRepair
  <2>. QED
    BY <2>2, <2>3
<1>. QED
  BY <1>1, <1>2, <1>3 DEF Promote

LEMMA DemoteKeepsTeams ==
    ASSUME TypeOK, NEW q \in Requests, Demote(q), NEW c \in Coaches, Accounted(c)
    PROVE  Accounted(c)'
<1>0. \A p \in Requests : p # q => req'[p] = req[p]
  BY OnlyOwnRequest DEF Demote, DemoteLoad, DemoteCount, DemoteSet, DemoteRelease
<1>1. CASE (\E h \in Coaches : DemoteLoad(q, h)) \/ DemoteCount(q)
  BY <1>0, <1>1, ReadsKeepTeams DEF DemoteLoad, DemoteCount, At
<1>2. CASE DemoteSet(q)
  <2>1. CASE ~Exists(req[q].coach)
    BY <1>0, <1>2, <2>1, ReadsKeepTeams DEF DemoteSet, At
  <2>2. CASE Exists(req[q].coach)
    <3>1. /\ UNCHANGED <<status, headOf, loose>>
          /\ req'[q].pc = "demoteRelease" /\ req'[q].coach = req[q].coach
      BY <1>2, <2>2 DEF DemoteSet, Continue, TypeOK, Request
    <3>2. CASE headOf[c] = req[q].coach
      BY <3>1, <3>2 DEF Accounted, Repairs
    <3>3. CASE headOf[c] # req[q].coach
      <4>1. IsMember(c) /\ IsHeadCoach(headOf[c]) => IsHeadCoach(headOf[c])'
        BY <1>2, <3>1, <3>3 DEF DemoteSet, SetHeadCoach, IsHeadCoach, Exists, TypeOK, IsMember
      <4>2. ~Repairs(req[q], c, headOf[c])
        BY <1>2 DEF DemoteSet, At, Repairs
      <4>. QED
        BY <1>0, <3>1, <4>1, <4>2, OthersRepair
    <3>. QED
      BY <3>2, <3>3
  <2>. QED
    BY <2>1, <2>2
<1>3. CASE DemoteRelease(q)
  <2>1. UNCHANGED <<status, isHead>> /\ loose' = loose \ {req[q].coach}
    BY <1>3 DEF DemoteRelease
  <2>2. CASE headOf[c] = req[q].coach
    BY <1>3, <2>2 DEF DemoteRelease, DeleteByHead, Accounted, IsMember
  <2>3. CASE headOf[c] # req[q].coach
    <3>1. headOf'[c] = headOf[c] /\ (IsHeadCoach(headOf[c]) => IsHeadCoach(headOf[c])')
      BY <1>3, <2>1, <2>3 DEF DemoteRelease, DeleteByHead, IsHeadCoach, Exists
    <3>2. ~Repairs(req[q], c, headOf[c])
      BY <1>3, <2>3 DEF DemoteRelease, At, Repairs
    <3>. QED
      BY <1>0, <2>1, <2>3, <3>1, <3>2 DEF Accounted, IsMember
  <2>. QED
    BY <2>2, <2>3
<1>. QED
  BY <1>1, <1>2, <1>3 DEF Demote

LEMMA AssignKeepsTeams ==
    ASSUME TypeOK, NEW q \in Requests, Assign(q), NEW c \in Coaches, Accounted(c)
    PROVE  Accounted(c)'
<1>0. \A p \in Requests : p # q => req'[p] = req[p]
  BY OnlyOwnRequest
     DEF Assign, AssignLoad, AssignHead, AssignStore, AssignRecheck, AssignUndo
<1>1. CASE (\E d, h \in Coaches : AssignLoad(q, d, h)) \/ AssignHead(q)
  BY <1>0, <1>1, ReadsKeepTeams DEF AssignLoad, AssignHead, At
<1>2. CASE AssignStore(q)
  <2>1. /\ UNCHANGED <<status, isHead, loose>>
        /\ req'[q].pc = "assignRecheck"
        /\ req'[q].coach = req[q].coach /\ req'[q].head = req[q].head
    BY <1>2 DEF AssignStore, Continue, TypeOK, Request
  <2>2. CASE c = req[q].coach
    <3>1. headOf'[c] = req[q].head
      BY <1>2, <2>2 DEF AssignStore, TypeOK
    <3>. QED
      BY <2>1, <2>2, <3>1 DEF Accounted, Repairs
  <2>3. CASE c # req[q].coach
    <3>1. headOf'[c] = headOf[c] /\ (IsHeadCoach(headOf[c]) => IsHeadCoach(headOf[c])')
      BY <1>2, <2>1, <2>3 DEF AssignStore, IsHeadCoach, Exists, TypeOK
    <3>2. ~Repairs(req[q], c, headOf[c])
      BY <1>2 DEF AssignStore, At, Repairs
    <3>. QED
      BY <1>0, <2>1, <3>1, <3>2, OthersRepair
  <2>. QED
    BY <2>2, <2>3
<1>3. CASE AssignRecheck(q)
  <2>1. UNCHANGED <<status, isHead, headOf, loose>> /\ At(q, "assignRecheck")
    BY <1>3 DEF AssignRecheck
  <2>2. IsHeadCoach(headOf[c]) => IsHeadCoach(headOf[c])'
    BY <2>1 DEF IsHeadCoach, Exists
  <2>3. CASE ActiveHead(req[q].head) /\ End(q)
    <3>1. Repairs(req[q], c, headOf[c]) => IsHeadCoach(headOf[c])
      BY <2>1, <2>3 DEF Repairs, At, ActiveHead, IsHeadCoach, Exists
    <3>. QED
      BY <1>0, <2>1, <2>2, <3>1, OthersRepair
  <2>4. CASE Continue(q, "assignUndo")
    <3>1. /\ req'[q].pc = "assignUndo"
          /\ req'[q].coach = req[q].coach /\ req'[q].head = req[q].head
      BY <2>1, <2>4 DEF Continue, At, TypeOK, Request
    <3>2. Repairs(req[q], c, headOf[c]) => Repairs(req'[q], c, headOf[c])
      BY <2>1, <3>1 DEF Repairs, At
    <3>. QED
      BY <1>0, <2>1, <2>2, <3>2, OthersRepair
  <2>. QED
    BY <1>3, <2>3, <2>4 DEF AssignRecheck
<1>4. CASE AssignUndo(q)
  <2>1. UNCHANGED <<status, isHead, loose>> /\ At(q, "assignUndo")
    BY <1>4 DEF AssignUndo
  <2>2. CASE c = req[q].coach
    BY <1>4, <2>2 DEF AssignUndo, DeleteByCoach, TypeOK, Accounted, IsMember
  <2>3. CASE c # req[q].coach
    <3>1. headOf'[c] = headOf[c] /\ (IsHeadCoach(headOf[c]) => IsHeadCoach(headOf[c])')
      BY <1>4, <2>1, <2>3 DEF AssignUndo, DeleteByCoach, IsHeadCoach, Exists, TypeOK
    <3>2. ~Repairs(req[q], c, headOf[c])
      BY <2>1, <2>3 DEF At, Repairs
    <3>. QED
      BY <1>0, <2>1, <3>1, <3>2, OthersRepair
  <2>. QED
    BY <2>2, <2>3
<1>. QED
  BY <1>1, <1>2, <1>3, <1>4 DEF Assign

LEMMA UnassignKeepsTeams ==
    ASSUME TypeOK, NEW q \in Requests, Unassign(q), NEW c \in Coaches, Accounted(c)
    PROVE  Accounted(c)'
<1>0. \A p \in Requests : p # q => req'[p] = req[p]
  BY OnlyOwnRequest DEF Unassign, UnassignGet, RemoveLoad, RemoveGet, UnassignDelete
<1>1. CASE \/ \E d \in Coaches : UnassignGet(q, d)
           \/ \E d, h \in Coaches : RemoveLoad(q, d, h)
           \/ RemoveGet(q)
  BY <1>0, <1>1, ReadsKeepTeams DEF UnassignGet, RemoveLoad, RemoveGet, At
<1>2. CASE UnassignDelete(q)
  <2>1. UNCHANGED <<status, isHead, loose>> /\ ~Repairs(req[q], c, headOf[c])
    BY <1>2 DEF UnassignDelete, At, Repairs
  <2>2. CASE c = req[q].coach
    BY <1>2, <2>2 DEF UnassignDelete, DeleteByCoach, TypeOK, Accounted, IsMember
  <2>3. CASE c # req[q].coach
    <3>1. headOf'[c] = headOf[c] /\ (IsHeadCoach(headOf[c]) => IsHeadCoach(headOf[c])')
      BY <1>2, <2>1, <2>3 DEF UnassignDelete, DeleteByCoach, IsHeadCoach, Exists, TypeOK
    <3>. QED
      BY <1>0, <2>1, <3>1, OthersRepair
  <2>. QED
    BY <2>2, <2>3
<1>. QED
  BY <1>1, <1>2 DEF Unassign

LEMMA AccountKeepsTeams ==
    ASSUME TypeOK, NEW q \in Requests, Account(q), NEW c \in Coaches, Accounted(c)
    PROVE  Accounted(c)'
<1>0. \A p \in Requests : p # q => req'[p] = req[p]
  BY OnlyOwnRequest DEF Account, DeleteUser, Purge
<1>1. ASSUME NEW u \in Coaches, DeleteUser(q, u)
      PROVE  Accounted(c)'
  <2>1. /\ UNCHANGED <<isHead, headOf, loose>>
        /\ req'[q].pc = "purge" /\ req'[q].coach = u
    BY <1>1 DEF DeleteUser, Begin, TypeOK
  <2>2. CASE headOf[c] = u
    BY <2>1, <2>2 DEF Accounted, Repairs
  <2>3. CASE headOf[c] # u
    <3>1. IsMember(c) /\ IsHeadCoach(headOf[c]) => IsHeadCoach(headOf[c])'
      BY <1>1, <2>1, <2>3 DEF DeleteUser, IsHeadCoach, Exists, TypeOK, IsMember
    <3>2. ~Repairs(req[q], c, headOf[c])
      BY <1>1 DEF DeleteUser, At, Repairs
    <3>. QED
      BY <1>0, <2>1, <3>1, <3>2, OthersRepair
  <2>. QED
    BY <2>2, <2>3
<1>2. CASE Purge(q)
  <2>1. UNCHANGED <<status, isHead>> /\ loose' = loose \ {req[q].coach}
    BY <1>2 DEF Purge
  <2>2. CASE headOf[c] = req[q].coach \/ c = req[q].coach
    BY <1>2, <2>2 DEF Purge, DeleteByAny, Accounted, IsMember
  <2>3. CASE headOf[c] # req[q].coach /\ c # req[q].coach
    <3>1. headOf'[c] = headOf[c] /\ (IsHeadCoach(headOf[c]) => IsHeadCoach(headOf[c])')
      BY <1>2, <2>1, <2>3 DEF Purge, DeleteByAny, IsHeadCoach, Exists
    <3>2. ~Repairs(req[q], c, headOf[c])
      BY <1>2, <2>3 DEF Purge, At, Repairs
    <3>. QED
      BY <1>0, <2>1, <2>3, <3>1, <3>2 DEF Accounted, IsMember
  <2>. QED
    BY <2>2, <2>3
<1>. QED
  BY <1>1, <1>2 DEF Account

LEMMA AbortKeepsTeams ==
    ASSUME TypeOK, NEW q \in Requests, Abort(q), NEW c \in Coaches, Accounted(c)
    PROVE  Accounted(c)'
<1>1. \A p \in Requests : p # q => req'[p] = req[p]
  BY OnlyOwnRequest DEF Abort
<1>2. UNCHANGED <<status, isHead, headOf>> /\ loose' = loose \cup Unrepaired(req[q])
  BY DEF Abort
<1>3. IsHeadCoach(headOf[c]) => IsHeadCoach(headOf[c])'
  BY <1>2 DEF IsHeadCoach, Exists
<1>4. Repairs(req[q], c, headOf[c]) /\ IsMember(c) => headOf[c] \in loose'
  BY <1>2 DEF Unrepaired, Team, IsMember, TypeOK
<1>. QED
  BY <1>1, <1>2, <1>3, <1>4, OthersRepair

LEMMA ReleaseGymKeepsTeams ==
    ASSUME TypeOK, NEW q \in Requests, ReleaseGym(q), NEW c \in Coaches, Accounted(c)
    PROVE  Accounted(c)'
BY OnlyOwnRequest, ReadsKeepTeams DEF ReleaseGym, At

LEMMA TeamStepKeepsTeams ==
    ASSUME TypeOK, TeamStep, NEW c \in Coaches, Accounted(c)
    PROVE  Accounted(c)'
<1>1. ASSUME NEW d \in Coaches, SetStatus(d)
      PROVE  Accounted(c)'
  <2>1. UNCHANGED <<isHead, headOf, req, loose>>
    BY <1>1 DEF SetStatus
  <2>2. IsMember(c) /\ IsHeadCoach(headOf[c]) => IsHeadCoach(headOf[c])'
    BY <1>1 DEF SetStatus, IsHeadCoach, Exists, TypeOK, IsMember
  <2>. QED
    BY <2>1, <2>2 DEF Accounted, IsMember
<1>. QED
  BY <1>1, PromoteKeepsTeams, DemoteKeepsTeams, AssignKeepsTeams, UnassignKeepsTeams,
     AccountKeepsTeams, AbortKeepsTeams DEF TeamStep

LEMMA NextKeepsTeams == TypeOK /\ NoOrphanedTeam /\ [Next]_vars => NoOrphanedTeam'
<1> SUFFICES ASSUME TypeOK, \A c \in Coaches : Accounted(c), [Next]_vars, NEW c \in Coaches
             PROVE  Accounted(c)'
  BY NoOrphanedTeamByCoach DEF NoOrphanedTeam, Accounted
<1>1. CASE UNCHANGED vars
  BY <1>1 DEF vars, Accounted, IsMember, IsHeadCoach, Exists
<1>. QED
  BY <1>1, TeamStepKeepsTeams, ReleaseGymKeepsTeams DEF Next

\* For any number of coaches and of concurrent requests, nobody is left in the team of an account
\* that is no head coach, except by a lost repair: the recheck of Assign and the flag-first order of
\* Demote and DeleteUser close every race between them.
THEOREM TeamsAreHeaded == Spec => []NoOrphanedTeam
<1>1. Init => NoOrphanedTeam
  BY DEF Init, NoOrphanedTeam, IsMember
<1>. QED
  BY <1>1, TypeCorrect, NextKeepsTeams, PTL DEF Spec

-----------------------------------------------------------------------------
(* What every step of the gyms keeps *)

\* Stored invitations stay about the same gym and the same coach.
InvitesKept ==
    \A i \in Invites : invite[i] # NoInvite =>
      invite'[i] # NoInvite /\ invite'[i].gym = invite[i].gym /\ invite'[i].coach = invite[i].coach

LEMMA RequestStays ==
    ASSUME GymTypeOK, InvitesKept, NEW a, GymRequestOK(a)
    PROVE  GymRequestOK(a)'
<1>1. \A i \in Invites : InvitationOf(a.gym, a.coach, i) /\ a.gym \in Gyms
                           => InvitationOf(a.gym, a.coach, i)'
  BY GymAssumption DEF InvitationOf, InvitesKept, NoInvite
<1>2. a.pc \in Accepting => a.gym \in Gyms
  BY DEF GymRequestOK
<1>. QED
  BY <1>1, <1>2 DEF GymRequestOK, InvitesKept

LEMMA MembershipStays ==
    ASSUME GymTypeOK, InvitesKept, NEW c \in Coaches, gymOf'[c] \in {gymOf[c], NoGym}
    PROVE  MembershipOK(c)'
<1>1. CASE gymOf'[c] = NoGym
  BY <1>1 DEF MembershipOK
<1>2. CASE gymOf'[c] = gymOf[c] /\ gymOf[c] # NoGym
  <2>1. /\ gymOf[c].gym \in Gyms
        /\ gymOf[c].via \in Invites \cup {Nobody}
        /\ gymOf[c].via = Nobody \/ InvitationOf(gymOf[c].gym, c, gymOf[c].via)
    BY <1>2 DEF GymTypeOK, MembershipOK, Membership
  <2>2. CASE gymOf[c].via = Nobody
    BY <1>2, <2>1, <2>2 DEF MembershipOK
  <2>3. CASE gymOf[c].via # Nobody
    BY <1>2, <2>1, <2>3, GymAssumption DEF InvitationOf, InvitesKept, NoInvite, MembershipOK
  <2>. QED
    BY <2>2, <2>3
<1>. QED
  BY <1>1, <1>2

\* A gym request that takes one step keeps the types when what it writes and goes on with does.
LEMMA StepType ==
    ASSUME GymTypeOK, TypeOK',
           gymStatus' \in [Gyms -> GymStatuses],
           gymOf' \in [Coaches -> Membership],
           \A c \in Coaches : gymOf'[c] \in {gymOf[c], NoGym} \/ MembershipOK(c)',
           invite' \in [Invites -> Invitation], \A i \in Invites : InviteOK(i)', InvitesKept,
           NEW r \in GymRequests,
           act' \in [GymRequests -> GymRequest], \A p \in GymRequests : p # r => act'[p] = act[p],
           GymRequestOK(act[r])',
           granted' \subseteq Coaches, stopped' \subseteq Coaches
    PROVE  GymTypeOK'
<1>1. \A p \in GymRequests : GymRequestOK(act[p])'
  BY RequestStays DEF GymTypeOK
<1>2. \A c \in Coaches : MembershipOK(c)'
  BY MembershipStays
<1>. QED
  BY <1>1, <1>2 DEF GymTypeOK

LEMMA FinishOK ==
    ASSUME GymTypeOK, NEW r \in GymRequests, Finish(r)
    PROVE  /\ act' \in [GymRequests -> GymRequest]
           /\ \A p \in GymRequests : p # r => act'[p] = act[p]
           /\ GymRequestOK(act[r])'
<1>1. GymIdle \in GymRequest
  BY DEF GymIdle, GymRequest, GymSteps
<1>2. act'[r] = GymIdle
  BY DEF Finish, GymTypeOK
<1>3. GymRequestOK(act[r])'
  BY <1>2 DEF GymRequestOK, GymIdle, Accepting, HalfWay
<1>. QED
  BY <1>1, <1>3 DEF Finish, GymTypeOK

\* From one step of an operation to the next one.
LEMMA ProceedOK ==
    ASSUME GymTypeOK, NEW r \in GymRequests, NEW step \in GymSteps, Proceed(r, step),
           InvitesKept,
           \/ act[r].pc \in Accepting /\ step \in Accepting
           \/ /\ act[r].pc \in {"archiveSet", "archiveRemove", "archiveRevoke"}
              /\ step \in {"archiveSet", "archiveRemove", "archiveRevoke"}
           \/ /\ act[r].pc \in {"addHead", "addGymOf", "addStore"}
              /\ step \in {"addHead", "addGymOf", "addStore"},
           step \in {"acceptSet", "acceptRecheck", "acceptRollback"} => act[r].setFlag
    PROVE  /\ act' \in [GymRequests -> GymRequest]
           /\ \A p \in GymRequests : p # r => act'[p] = act[p]
           /\ GymRequestOK(act[r])'
<1>1. act'[r] = [act[r] EXCEPT !.pc = step] /\ act[r] \in GymRequest
  BY DEF Proceed, GymTypeOK
<1>2. /\ act'[r].pc = step /\ act'[r].gym = act[r].gym /\ act'[r].coach = act[r].coach
      /\ act'[r].inv = act[r].inv /\ act'[r].setFlag = act[r].setFlag
  BY <1>1 DEF GymRequest
<1>3. GymRequestOK(act[r])
  BY DEF GymTypeOK
<1>4. GymRequestOK(act'[r])
  BY <1>2, <1>3 DEF GymRequestOK, Accepting, HalfWay
<1>5. GymRequestOK(act[r])'
  BY <1>4, RequestStays DEF GymRequestOK, InvitationOf
<1>. QED
  BY <1>1, <1>5 DEF Proceed, GymTypeOK, GymRequest

LEMMA StartOK ==
    ASSUME GymTypeOK, NEW r \in GymRequests, NEW new \in GymRequest, Start(r, new),
           GymRequestOK(new), InvitesKept
    PROVE  /\ act' \in [GymRequests -> GymRequest]
           /\ \A p \in GymRequests : p # r => act'[p] = act[p]
           /\ GymRequestOK(act[r])'
<1>1. act'[r] = new
  BY DEF Start, GymTypeOK
<1>2. GymRequestOK(act[r])'
  BY <1>1, RequestStays DEF GymRequestOK, InvitationOf
<1>. QED
  BY <1>2 DEF Start, GymTypeOK

\* The steps that write only their own request.
LEMMA ReadType ==
    ASSUME GymTypeOK, NEW r \in GymRequests,
           UNCHANGED <<vars, gymStatus, gymOf, invite, granted>>, stopped' \subseteq Coaches,
           act' \in [GymRequests -> GymRequest], \A p \in GymRequests : p # r => act'[p] = act[p],
           GymRequestOK(act[r])'
    PROVE  GymTypeOK'
<1>1. InvitesKept /\ \A i \in Invites : InviteOK(i)'
  BY DEF InvitesKept, GymTypeOK, InviteOK
<1>2. TypeOK'
  BY DEF GymTypeOK, TypeOK, vars
<1>. QED
  BY <1>1, <1>2, StepType DEF GymTypeOK

LEMMA TransitionOK ==
    ASSUME GymTypeOK, NEW i \in Invites, invite[i] # NoInvite,
           NEW to \in InviteStatuses \ {"none"}, Transition(i, to)
    PROVE  /\ invite' \in [Invites -> Invitation] /\ \A j \in Invites : InviteOK(j)' /\ InvitesKept
<1>1. \A j \in Invites : j # i => invite'[j] = invite[j]
  BY DEF Transition, GymTypeOK
<1>2. /\ invite[i].gym \in Gyms /\ invite[i].coach \in Coaches /\ invite[i].status # "none"
      /\ invite[i] \in Invitation
  BY DEF GymTypeOK, InviteOK
<1>3. invite'[i] = [invite[i] EXCEPT !.status = IF invite[i].status = "pending" THEN to
                                                ELSE invite[i].status]
  BY DEF Transition, GymTypeOK
<1>4. /\ invite'[i] \in Invitation
      /\ invite'[i].gym = invite[i].gym /\ invite'[i].coach = invite[i].coach
      /\ invite'[i].status # "none"
  BY <1>2, <1>3 DEF Invitation
<1>5. invite' \in [Invites -> Invitation]
  BY <1>4 DEF Transition, GymTypeOK
<1>6. invite'[i] # NoInvite
  BY <1>4 DEF NoInvite
<1>. QED
  BY <1>1, <1>2, <1>4, <1>5, <1>6 DEF InviteOK, InvitesKept, GymTypeOK

-----------------------------------------------------------------------------
(* Type correctness *)

LEMMA ArchiveType ==
    ASSUME GymTypeOK, NEW r \in GymRequests, Archive(r)
    PROVE  GymTypeOK'
<1>1. ASSUME NEW g \in Gyms, ArchiveLoad(r, g) \/ ActivateLoad(r, g)
      PROVE  GymTypeOK'
  <2>1. UNCHANGED <<vars, gymStatus, gymOf, invite, granted, stopped>> /\ InvitesKept
    BY <1>1 DEF ArchiveLoad, ActivateLoad, Unmoved, InvitesKept
  <2>2. PICK step \in {"archiveSet", "archiveRemove", "activateStore"} :
          Start(r, [GymIdle EXCEPT !.gym = g, !.pc = step])
    BY <1>1 DEF ArchiveLoad, ActivateLoad
  <2> DEFINE new == [GymIdle EXCEPT !.gym = g, !.pc = step]
  <2>3. new \in GymRequest /\ GymRequestOK(new)
    BY DEF GymIdle, GymRequest, GymRequestOK, GymSteps, Accepting, HalfWay
  <2>. QED
    BY <2>1, <2>2, <2>3, StartOK, ReadType DEF GymTypeOK
<1>2. CASE ArchiveSet(r) \/ ActivateStore(r)
  <2>1. act[r].gym \in Gyms
    BY <1>2 DEF ArchiveSet, ActivateStore, Doing, GymTypeOK, GymRequestOK
  <2>2. /\ UNCHANGED <<vars, gymOf, invite, granted, stopped>>
        /\ gymStatus' \in [Gyms -> GymStatuses]
    BY <1>2, <2>1 DEF ArchiveSet, ActivateStore, Unmoved, GymTypeOK, GymStatuses
  <2>3. InvitesKept /\ (\A i \in Invites : InviteOK(i)') /\ TypeOK'
    BY <2>2 DEF InvitesKept, GymTypeOK, InviteOK, TypeOK, vars
  <2>4. /\ act' \in [GymRequests -> GymRequest] /\ GymRequestOK(act[r])'
        /\ \A p \in GymRequests : p # r => act'[p] = act[p]
    BY <1>2, <2>3, FinishOK, ProceedOK DEF ArchiveSet, ActivateStore, Doing, GymSteps
  <2>. QED
    BY <2>2, <2>3, <2>4, StepType DEF GymTypeOK
<1>3. CASE ArchiveRemove(r)
  <2>1. /\ UNCHANGED <<vars, gymStatus, invite, granted, stopped>>
        /\ \A c \in Coaches : gymOf'[c] \in {gymOf[c], NoGym}
        /\ gymOf' \in [Coaches -> Membership]
    BY <1>3 DEF ArchiveRemove, Unmoved, GymTypeOK, NoGym, Membership
  <2>2. InvitesKept /\ (\A i \in Invites : InviteOK(i)') /\ TypeOK'
    BY <2>1 DEF InvitesKept, GymTypeOK, InviteOK, TypeOK, vars
  <2>3. /\ act' \in [GymRequests -> GymRequest] /\ GymRequestOK(act[r])'
        /\ \A p \in GymRequests : p # r => act'[p] = act[p]
    BY <1>3, <2>2, ProceedOK DEF ArchiveRemove, Doing, GymSteps
  <2>. QED
    BY <2>1, <2>2, <2>3, StepType DEF GymTypeOK
<1>4. CASE ArchiveRevoke(r)
  <2>1. /\ UNCHANGED <<vars, gymStatus, gymOf, granted, stopped>>
        /\ \A i \in Invites : \/ invite'[i] = invite[i]
                              \/ /\ invite'[i] = [invite[i] EXCEPT !.status = "revoked"]
                                 /\ invite[i].status = "pending"
        /\ DOMAIN invite' = Invites /\ invite' = [i \in Invites |-> invite'[i]]
    BY <1>4 DEF ArchiveRevoke, Unmoved
  <2>2. \A i \in Invites : /\ invite'[i] \in Invitation /\ InviteOK(i)'
                           /\ invite[i] # NoInvite => /\ invite'[i] # NoInvite
                                                      /\ invite'[i].gym = invite[i].gym
                                                      /\ invite'[i].coach = invite[i].coach
    <3> SUFFICES ASSUME NEW i \in Invites
                 PROVE  /\ invite'[i] \in Invitation /\ InviteOK(i)'
                        /\ invite[i] # NoInvite => /\ invite'[i] # NoInvite
                                                   /\ invite'[i].gym = invite[i].gym
                                                   /\ invite'[i].coach = invite[i].coach
      OBVIOUS
    <3>1. invite[i] \in Invitation /\ InviteOK(i)
      BY DEF GymTypeOK
    <3>2. CASE invite'[i] = invite[i]
      BY <3>1, <3>2 DEF InviteOK
    <3>3. CASE invite'[i] = [invite[i] EXCEPT !.status = "revoked"] /\ invite[i].status = "pending"
      BY <3>1, <3>3 DEF InviteOK, Invitation, NoInvite, InviteStatuses
    <3>. QED
      BY <2>1, <3>2, <3>3
  <2>3. InvitesKept /\ invite' \in [Invites -> Invitation] /\ TypeOK'
    BY <2>1, <2>2 DEF InvitesKept, GymTypeOK, TypeOK, vars
  <2>4. /\ act' \in [GymRequests -> GymRequest] /\ GymRequestOK(act[r])'
        /\ \A p \in GymRequests : p # r => act'[p] = act[p]
    BY <1>4, FinishOK DEF ArchiveRevoke
  <2>. QED
    BY <2>1, <2>2, <2>3, <2>4, StepType DEF GymTypeOK
<1>. QED
  BY <1>1, <1>2, <1>3, <1>4 DEF Archive

LEMMA AnswerType ==
    ASSUME GymTypeOK, NEW r \in GymRequests, Answer(r)
    PROVE  GymTypeOK'
<1>1. ASSUME NEW g \in Gyms, NEW c \in Coaches, InviteLoad(r, g, c)
      PROVE  GymTypeOK'
  <2> DEFINE new == [GymIdle EXCEPT !.pc = "inviteStore", !.gym = g, !.coach = c]
  <2>1. UNCHANGED <<vars, gymStatus, gymOf, invite, granted, stopped>> /\ InvitesKept /\ Start(r, new)
    BY <1>1 DEF InviteLoad, Unmoved, InvitesKept
  <2>2. new \in GymRequest /\ GymRequestOK(new)
    BY DEF GymIdle, GymRequest, GymRequestOK, GymSteps, Accepting, HalfWay
  <2>. QED
    BY <2>1, <2>2, StartOK, ReadType DEF GymTypeOK
<1>2. ASSUME NEW i \in Invites, DeclineLoad(r, i)
      PROVE  GymTypeOK'
  <2> DEFINE new == [GymIdle EXCEPT !.pc = "declineStore", !.inv = i]
  <2>1. UNCHANGED <<vars, gymStatus, gymOf, invite, granted, stopped>> /\ InvitesKept /\ Start(r, new)
    BY <1>2 DEF DeclineLoad, Unmoved, InvitesKept
  <2>2. invite[i] # NoInvite
    BY <1>2 DEF DeclineLoad, NoInvite
  <2>3. new \in GymRequest /\ new.pc = "declineStore" /\ new.inv = i
    BY DEF GymIdle, GymRequest, GymSteps
  <2>4. GymRequestOK(new)
    BY <2>2, <2>3 DEF GymRequestOK, Accepting, HalfWay
  <2>. QED
    BY <2>1, <2>3, <2>4, StartOK, ReadType DEF GymTypeOK
<1>3. CASE InviteStore(r)
  <2>1. UNCHANGED <<vars, gymStatus, gymOf, granted, stopped>> /\ TypeOK'
    BY <1>3 DEF InviteStore, Unmoved, GymTypeOK, TypeOK, vars
  <2>2. act[r].gym \in Gyms /\ act[r].coach \in Coaches
    BY <1>3 DEF InviteStore, Doing, GymTypeOK, GymRequestOK
  <2>3. InvitesKept /\ (\A i \in Invites : InviteOK(i)') /\ invite' \in [Invites -> Invitation]
    <3>1. CASE UNCHANGED invite
      BY <3>1 DEF InvitesKept, GymTypeOK, InviteOK
    <3>2. ASSUME NEW i \in Invites, invite[i] = NoInvite,
                 invite' = [invite EXCEPT ![i] = [gym |-> act[r].gym, coach |-> act[r].coach,
                                                  status |-> "pending"]]
          PROVE  InvitesKept /\ (\A j \in Invites : InviteOK(j)') /\ invite' \in [Invites -> Invitation]
      BY <2>2, <3>2 DEF InvitesKept, GymTypeOK, InviteOK, Invitation, InviteStatuses
    <3>. QED
      BY <1>3, <3>1, <3>2 DEF InviteStore
  <2>4. /\ act' \in [GymRequests -> GymRequest] /\ GymRequestOK(act[r])'
        /\ \A p \in GymRequests : p # r => act'[p] = act[p]
    BY <1>3, FinishOK DEF InviteStore
  <2>. QED
    BY <2>1, <2>3, <2>4, StepType DEF GymTypeOK
<1>4. CASE DeclineStore(r)
  <2>1. UNCHANGED <<vars, gymStatus, gymOf, granted, stopped>> /\ TypeOK'
    BY <1>4 DEF DeclineStore, Unmoved, GymTypeOK, TypeOK, vars
  <2>2. act[r].inv \in Invites /\ invite[act[r].inv] # NoInvite
    BY <1>4 DEF DeclineStore, Doing, GymTypeOK, GymRequestOK
  <2>3. InvitesKept /\ (\A i \in Invites : InviteOK(i)') /\ invite' \in [Invites -> Invitation]
    BY <1>4, <2>2, TransitionOK DEF DeclineStore, InviteStatuses
  <2>4. /\ act' \in [GymRequests -> GymRequest] /\ GymRequestOK(act[r])'
        /\ \A p \in GymRequests : p # r => act'[p] = act[p]
    BY <1>4, FinishOK DEF DeclineStore
  <2>. QED
    BY <2>1, <2>3, <2>4, StepType DEF GymTypeOK
<1>. QED
  BY <1>1, <1>2, <1>3, <1>4 DEF Answer

\* The gym membership of a coach is set to what the request knows of him, or dropped.
LEMMA ReleaseOK ==
    ASSUME GymTypeOK, NEW c, ReleaseHead(c)
    PROVE  /\ gymOf' \in [Coaches -> Membership]
           /\ \A d \in Coaches : gymOf'[d] \in {gymOf[d], NoGym}
BY DEF ReleaseHead, GymTypeOK, NoGym, Membership

LEMMA AddOK ==
    ASSUME GymTypeOK, NEW c \in Coaches, NEW g \in Gyms, NEW i \in Invites \cup {Nobody},
           AddHeadCoach(c, g, i), i = Nobody \/ InvitationOf(g, c, i), UNCHANGED invite
    PROVE  /\ gymOf' \in [Coaches -> Membership]
           /\ \A d \in Coaches : gymOf'[d] \in {gymOf[d], NoGym} \/ MembershipOK(d)'
<1>1. gymOf' \in [Coaches -> Membership]
  BY DEF AddHeadCoach, GymTypeOK, Membership
<1>2. gymOf'[c] = [gym |-> g, via |-> i] /\ \A d \in Coaches : d # c => gymOf'[d] = gymOf[d]
  BY DEF AddHeadCoach, GymTypeOK
<1>3. MembershipOK(c)'
  BY <1>2 DEF MembershipOK, InvitationOf
<1>. QED
  BY <1>1, <1>2, <1>3

LEMMA JoinType ==
    ASSUME GymTypeOK, NEW r \in GymRequests, Join(r)
    PROVE  GymTypeOK'
<1>1. ASSUME NEW g \in Gyms, NEW c \in Coaches, AddLoad(r, g, c)
      PROVE  GymTypeOK'
  <2> DEFINE new == [GymIdle EXCEPT !.pc = "addHead", !.gym = g, !.coach = c]
  <2>1. UNCHANGED <<vars, gymStatus, gymOf, invite, granted, stopped>> /\ InvitesKept /\ Start(r, new)
    BY <1>1 DEF AddLoad, Unmoved, InvitesKept
  <2>2. new \in GymRequest /\ GymRequestOK(new)
    BY DEF GymIdle, GymRequest, GymRequestOK, GymSteps, Accepting, HalfWay
  <2>. QED
    BY <2>1, <2>2, StartOK, ReadType DEF GymTypeOK
<1>2. ASSUME NEW c \in Coaches, LeaveLoad(r, c)
      PROVE  GymTypeOK'
  <2> DEFINE new == [GymIdle EXCEPT !.pc = "leaveStore", !.coach = c]
  <2>1. UNCHANGED <<vars, gymStatus, gymOf, invite, granted, stopped>> /\ InvitesKept /\ Start(r, new)
    BY <1>2 DEF LeaveLoad, Unmoved, InvitesKept
  <2>2. new \in GymRequest /\ GymRequestOK(new)
    BY DEF GymIdle, GymRequest, GymRequestOK, GymSteps, Accepting, HalfWay
  <2>. QED
    BY <2>1, <2>2, StartOK, ReadType DEF GymTypeOK
<1>3. CASE AddCheck(r)
  <2>1. UNCHANGED <<vars, gymStatus, gymOf, invite, granted, stopped>> /\ InvitesKept
    BY <1>3 DEF AddCheck, Unmoved, InvitesKept
  <2>2. /\ act' \in [GymRequests -> GymRequest] /\ GymRequestOK(act[r])'
        /\ \A p \in GymRequests : p # r => act'[p] = act[p]
    BY <1>3, <2>1, FinishOK, ProceedOK DEF AddCheck, Doing, GymSteps
  <2>. QED
    BY <2>1, <2>2, ReadType DEF GymTypeOK
<1>4. CASE AddStore(r) \/ LeaveStore(r)
  <2>1. /\ UNCHANGED <<vars, gymStatus, invite, granted, stopped>>
        /\ InvitesKept /\ (\A i \in Invites : InviteOK(i)') /\ TypeOK'
    BY <1>4 DEF AddStore, LeaveStore, Unmoved, InvitesKept, GymTypeOK, InviteOK, TypeOK, vars
  <2>2. act[r].coach \in Coaches /\ (AddStore(r) => act[r].gym \in Gyms)
    BY <1>4 DEF AddStore, LeaveStore, Doing, GymTypeOK, GymRequestOK
  <2>3. /\ gymOf' \in [Coaches -> Membership]
        /\ \A c \in Coaches : gymOf'[c] \in {gymOf[c], NoGym} \/ MembershipOK(c)'
    <3>1. CASE UNCHANGED gymOf
      BY <3>1 DEF GymTypeOK
    <3>2. CASE ReleaseHead(act[r].coach)
      BY <3>2, ReleaseOK
    <3>3. CASE AddStore(r) /\ AddHeadCoach(act[r].coach, act[r].gym, Nobody)
      BY <2>1, <2>2, <3>3, AddOK
    <3>. QED
      BY <1>4, <3>1, <3>2, <3>3 DEF AddStore, LeaveStore
  <2>4. /\ act' \in [GymRequests -> GymRequest] /\ GymRequestOK(act[r])'
        /\ \A p \in GymRequests : p # r => act'[p] = act[p]
    BY <1>4, FinishOK DEF AddStore, LeaveStore
  <2>. QED
    BY <2>1, <2>3, <2>4, StepType DEF GymTypeOK
<1>. QED
  BY <1>1, <1>2, <1>3, <1>4 DEF Join

\* Giving up an acceptance goes on with the rollback only when the flag was set.
LEMMA GiveUpOK ==
    ASSUME GymTypeOK, NEW r \in GymRequests, act[r].pc \in Accepting, GiveUpAdd(r), InvitesKept
    PROVE  /\ act' \in [GymRequests -> GymRequest]
           /\ \A p \in GymRequests : p # r => act'[p] = act[p]
           /\ GymRequestOK(act[r])'
<1>1. CASE act[r].setFlag
  BY <1>1, ProceedOK DEF GiveUpAdd, GymSteps, Accepting, HalfWay
<1>2. CASE ~act[r].setFlag
  BY <1>2, FinishOK DEF GiveUpAdd
<1>. QED
  BY <1>1, <1>2

\* What an acceptance in flight is about.
LEMMA Accepted ==
    ASSUME GymTypeOK, NEW r \in GymRequests, act[r].pc \in Accepting
    PROVE  /\ act[r].gym \in Gyms /\ act[r].coach \in Coaches /\ act[r].inv \in Invites
           /\ InvitationOf(act[r].gym, act[r].coach, act[r].inv)
           /\ invite[act[r].inv] # NoInvite
<1>1. /\ act[r].gym \in Gyms /\ act[r].coach \in Coaches /\ act[r].inv \in Invites
      /\ InvitationOf(act[r].gym, act[r].coach, act[r].inv)
  BY DEF GymTypeOK, GymRequestOK
<1>. QED
  BY <1>1, GymAssumption DEF InvitationOf, NoInvite

LEMMA AcceptLoadType ==
    ASSUME GymTypeOK, NEW r \in GymRequests, NEW i \in Invites, AcceptLoad(r, i)
    PROVE  GymTypeOK'
<1> DEFINE c == invite[i].coach
           new == [pc |-> "acceptInvite", gym |-> invite[i].gym, coach |-> c, inv |-> i,
                   setFlag |-> ~isHead[c]]
<1>1. /\ UNCHANGED <<vars, gymStatus, gymOf, invite, granted, stopped>>
      /\ InvitesKept /\ Start(r, new)
  BY DEF AcceptLoad, Unmoved, InvitesKept
<1>2. invite[i].gym \in Gyms /\ c \in Coaches
  BY DEF AcceptLoad, GymTypeOK, InviteOK
<1>3. isHead[c] \in BOOLEAN
  BY <1>2 DEF GymTypeOK, TypeOK
<1>4. new \in GymRequest
  BY <1>2, <1>3 DEF GymRequest, GymSteps, Accepting
<1>5. GymRequestOK(new)
  BY <1>2 DEF GymRequestOK, InvitationOf, Accepting, HalfWay
<1>. QED
  BY <1>1, <1>4, <1>5, StartOK, ReadType DEF GymTypeOK

LEMMA AcceptCheckType ==
    ASSUME GymTypeOK, NEW r \in GymRequests, AcceptCheck(r)
    PROVE  GymTypeOK'
<1>1. UNCHANGED <<vars, gymStatus, gymOf, invite, granted, stopped>> /\ InvitesKept
  BY DEF AcceptCheck, Unmoved, InvitesKept
<1>2. act[r].pc \in Accepting
  BY DEF AcceptCheck, Doing, Accepting
<1>3. \/ Finish(r)
      \/ \E step \in {"acceptMember", "acceptGymOf", "acceptGym", "acceptSet", "acceptAdd"} :
           Proceed(r, step) /\ (step = "acceptSet" => act[r].setFlag)
  BY DEF AcceptCheck
<1>4. /\ act' \in [GymRequests -> GymRequest] /\ GymRequestOK(act[r])'
      /\ \A p \in GymRequests : p # r => act'[p] = act[p]
  BY <1>1, <1>2, <1>3, FinishOK, ProceedOK DEF GymSteps, Accepting, HalfWay
<1>. QED
  BY <1>1, <1>4, ReadType DEF GymTypeOK

\* The steps of an acceptance that write the flag of the coach.
LEMMA AcceptFlagType ==
    ASSUME GymTypeOK, NEW r \in GymRequests, AcceptSet(r) \/ AcceptRollback(r)
    PROVE  GymTypeOK'
<1>1. act[r].pc \in Accepting /\ act[r].setFlag
  BY DEF AcceptSet, AcceptRollback, Doing, GymTypeOK, GymRequestOK, Accepting, HalfWay
<1>2. UNCHANGED <<status, headOf, req, gymStatus, gymOf, invite, stopped>>
  BY DEF AcceptSet, AcceptRollback
<1>3. InvitesKept /\ (\A i \in Invites : InviteOK(i)')
  BY <1>2 DEF InvitesKept, GymTypeOK, InviteOK
<1>4. isHead' \in [Coaches -> BOOLEAN] /\ loose' \subseteq Coaches /\ granted' \subseteq Coaches
  BY <1>1, Accepted
     DEF AcceptSet, AcceptRollback, SetHeadCoach, Stranded, GymTypeOK, TypeOK
<1>5. TypeOK'
  BY <1>2, <1>4 DEF GymTypeOK, TypeOK
<1>6. /\ act' \in [GymRequests -> GymRequest] /\ GymRequestOK(act[r])'
      /\ \A p \in GymRequests : p # r => act'[p] = act[p]
  BY <1>1, <1>3, FinishOK, ProceedOK
     DEF AcceptSet, AcceptRollback, GymSteps, Accepting, HalfWay
<1>. QED
  BY <1>2, <1>3, <1>4, <1>5, <1>6, StepType DEF GymTypeOK

LEMMA AcceptStoreType ==
    ASSUME GymTypeOK, NEW r \in GymRequests, AcceptAdd(r) \/ AcceptUndo(r)
    PROVE  GymTypeOK'
<1>1. act[r].pc \in Accepting
  BY DEF AcceptAdd, AcceptUndo, Doing, Accepting, HalfWay
<1>2. UNCHANGED <<vars, gymStatus, invite, granted, stopped>>
  BY DEF AcceptAdd, AcceptUndo, Unmoved
<1>3. InvitesKept /\ (\A i \in Invites : InviteOK(i)') /\ TypeOK'
  BY <1>2 DEF InvitesKept, GymTypeOK, InviteOK, TypeOK, vars
<1>4. /\ gymOf' \in [Coaches -> Membership]
      /\ \A c \in Coaches : gymOf'[c] \in {gymOf[c], NoGym} \/ MembershipOK(c)'
  <2>1. CASE UNCHANGED gymOf
    BY <2>1 DEF GymTypeOK
  <2>2. CASE ReleaseHead(act[r].coach)
    BY <2>2, ReleaseOK
  <2>3. CASE AddHeadCoach(act[r].coach, act[r].gym, act[r].inv)
    BY <1>1, <1>2, <2>3, Accepted, AddOK
  <2>. QED
    BY <2>1, <2>2, <2>3 DEF AcceptAdd, AcceptUndo
<1>5. GiveUpAdd(r) \/ Proceed(r, "acceptTransition")
  BY DEF AcceptAdd, AcceptUndo
<1>6. /\ act' \in [GymRequests -> GymRequest] /\ GymRequestOK(act[r])'
      /\ \A p \in GymRequests : p # r => act'[p] = act[p]
  BY <1>1, <1>3, <1>5, GiveUpOK, ProceedOK DEF GymSteps, Accepting, HalfWay
<1>. QED
  BY <1>2, <1>3, <1>4, <1>6, StepType DEF GymTypeOK

LEMMA AcceptTransitionType ==
    ASSUME GymTypeOK, NEW r \in GymRequests, AcceptTransition(r)
    PROVE  GymTypeOK'
<1>1. act[r].pc \in Accepting
  BY DEF AcceptTransition, Doing, Accepting, HalfWay
<1>2. UNCHANGED <<vars, gymStatus, gymOf, stopped>> /\ TypeOK'
  BY DEF AcceptTransition, GymTypeOK, TypeOK, vars
<1>3. InvitesKept /\ (\A i \in Invites : InviteOK(i)') /\ invite' \in [Invites -> Invitation]
  BY <1>1, Accepted, TransitionOK DEF AcceptTransition, InviteStatuses
<1>4. granted' \subseteq Coaches
  BY <1>1, Accepted DEF AcceptTransition, GymTypeOK
<1>5. /\ act' \in [GymRequests -> GymRequest] /\ GymRequestOK(act[r])'
      /\ \A p \in GymRequests : p # r => act'[p] = act[p]
  BY <1>1, <1>3, FinishOK, ProceedOK DEF AcceptTransition, GymSteps, Accepting, HalfWay
<1>. QED
  BY <1>2, <1>3, <1>4, <1>5, StepType DEF GymTypeOK

LEMMA AcceptType ==
    ASSUME GymTypeOK, NEW r \in GymRequests, Accept(r)
    PROVE  GymTypeOK'
<1>1. CASE AcceptRecheck(r)
  <2>1. /\ UNCHANGED <<vars, gymStatus, gymOf, invite, granted, stopped>> /\ InvitesKept
        /\ act[r].pc = "acceptRecheck"
    BY <1>1 DEF AcceptRecheck, Unmoved, InvitesKept, Doing
  <2>2. act[r].setFlag
    BY <2>1 DEF GymTypeOK, GymRequestOK
  <2>3. /\ act' \in [GymRequests -> GymRequest] /\ GymRequestOK(act[r])'
        /\ \A p \in GymRequests : p # r => act'[p] = act[p]
    BY <1>1, <2>1, <2>2, ProceedOK DEF AcceptRecheck, GymSteps, Accepting, HalfWay
  <2>. QED
    BY <2>1, <2>3, ReadType DEF GymTypeOK
<1>2. CASE AcceptFails(r)
  <2>1. UNCHANGED <<vars, gymStatus, gymOf, invite, granted>> /\ InvitesKept
    BY <1>2 DEF AcceptFails, InvitesKept
  <2>2. act[r].pc \in Accepting
    BY <1>2 DEF AcceptFails, Doing, Accepting, HalfWay
  <2>3. stopped' \subseteq Coaches
    BY <1>2, <2>2, Accepted DEF AcceptFails, GymTypeOK
  <2>4. /\ act' \in [GymRequests -> GymRequest] /\ GymRequestOK(act[r])'
        /\ \A p \in GymRequests : p # r => act'[p] = act[p]
    BY <1>2, <2>1, <2>2, GiveUpOK, ProceedOK DEF AcceptFails, GymSteps, Accepting, HalfWay
  <2>. QED
    BY <2>1, <2>3, <2>4, ReadType
<1>. QED
  BY <1>1, <1>2, AcceptLoadType, AcceptCheckType, AcceptFlagType, AcceptStoreType,
     AcceptTransitionType DEF Accept

\* A step that only takes coaches out of their gyms.
LEMMA LeaveType ==
    ASSUME GymTypeOK, NEW c \in Coaches, ReleaseHead(c), TypeOK',
           UNCHANGED <<gymStatus, invite, act, granted, stopped>>
    PROVE  GymTypeOK'
<1>1. InvitesKept /\ \A i \in Invites : InviteOK(i)'
  BY DEF InvitesKept, GymTypeOK, InviteOK
<1>2. \A d \in Coaches : MembershipOK(d)'
  BY <1>1, ReleaseOK, MembershipStays DEF MembershipOK, GymTypeOK
<1>3. \A r \in GymRequests : GymRequestOK(act[r])'
  BY <1>1, RequestStays DEF GymTypeOK
<1>. QED
  BY <1>1, <1>2, <1>3, ReleaseOK DEF GymTypeOK

LEMMA TeamStepGymType ==
    ASSUME GymTypeOK, TeamStep, granted' = Granted, UNCHANGED gymVars
    PROVE  GymTypeOK'
<1>1. TypeOK'
  BY TeamStepType DEF GymTypeOK
<1>2. UNCHANGED <<gymStatus, gymOf, invite, act, stopped>>
  BY DEF gymVars
<1>3. granted' \subseteq Coaches
  BY DEF Granted
<1>4. /\ \A c \in Coaches : MembershipOK(c)'
      /\ \A i \in Invites : InviteOK(i)'
      /\ \A r \in GymRequests : GymRequestOK(act[r])'
  BY <1>2 DEF GymTypeOK, MembershipOK, InviteOK, GymRequestOK, InvitationOf
<1>. QED
  BY <1>1, <1>2, <1>3, <1>4 DEF GymTypeOK

LEMMA GymNextType == GymTypeOK /\ [GymNext]_allVars => GymTypeOK'
<1> SUFFICES ASSUME GymTypeOK, [GymNext]_allVars
             PROVE  GymTypeOK'
  OBVIOUS
<1>1. CASE UNCHANGED allVars
  <2>1. UNCHANGED <<vars, gymStatus, gymOf, invite, act, stopped, granted>>
    BY <1>1 DEF allVars, gymVars
  <2>2. TypeOK'
    BY <2>1 DEF GymTypeOK, TypeOK, vars
  <2>. QED
    BY <2>1, <2>2 DEF GymTypeOK, MembershipOK, InviteOK, GymRequestOK, InvitationOf
<1>2. ASSUME NEW q \in Requests, ReleaseGym(q), ReleaseHead(req[q].coach),
             UNCHANGED <<gymStatus, invite, act, granted, stopped>>
      PROVE  GymTypeOK'
  <2>1. TypeOK'
    BY <1>2, ReleaseGymType DEF GymTypeOK
  <2>2. req[q].coach \in Coaches
    BY <1>2 DEF ReleaseGym, At, GymTypeOK, TypeOK, RequestOK
  <2>. QED
    BY <1>2, <2>1, <2>2, LeaveType
<1>3. ASSUME NEW g \in Gyms, CreateGym(g)
      PROVE  GymTypeOK'
  <2>1. /\ UNCHANGED <<vars, gymOf, invite, act, granted, stopped>>
        /\ gymStatus' \in [Gyms -> GymStatuses]
    BY <1>3 DEF CreateGym, Unmoved, GymTypeOK, GymStatuses
  <2>2. TypeOK'
    BY <2>1 DEF GymTypeOK, TypeOK, vars
  <2>. QED
    BY <2>1, <2>2 DEF GymTypeOK, MembershipOK, InviteOK, GymRequestOK, InvitationOf
<1>4. ASSUME NEW i \in Invites, Withdraw(i)
      PROVE  GymTypeOK'
  <2>1. UNCHANGED <<vars, gymStatus, gymOf, act, granted, stopped>> /\ TypeOK'
    BY <1>4 DEF Withdraw, Unmoved, GymTypeOK, TypeOK, vars
  <2>2. invite[i] # NoInvite
    BY <1>4 DEF Withdraw, NoInvite
  <2>3. InvitesKept /\ (\A j \in Invites : InviteOK(j)') /\ invite' \in [Invites -> Invitation]
    BY <1>4, <2>2, TransitionOK DEF Withdraw, InviteStatuses
  <2>4. \A c \in Coaches : MembershipOK(c)'
    BY <2>1, <2>3, MembershipStays
  <2>5. \A r \in GymRequests : GymRequestOK(act[r])'
    BY <2>1, <2>3, RequestStays DEF GymTypeOK
  <2>. QED
    BY <2>1, <2>3, <2>4, <2>5 DEF GymTypeOK
<1>5. ASSUME NEW c \in Coaches, RemoveHeadCoach(c)
      PROVE  GymTypeOK'
  <2>1. UNCHANGED <<vars, gymStatus, invite, act, granted, stopped>> /\ ReleaseHead(c)
    BY <1>5 DEF RemoveHeadCoach, Unmoved
  <2>2. TypeOK'
    BY <2>1 DEF GymTypeOK, TypeOK, vars
  <2>. QED
    BY <2>1, <2>2, LeaveType
<1>6. ASSUME NEW r \in GymRequests, AbortGym(r)
      PROVE  GymTypeOK'
  <2>1. UNCHANGED <<vars, gymStatus, gymOf, invite, granted>>
    BY <1>6 DEF AbortGym
  <2>2. act[r].pc \in HalfWay => act[r].coach \in Coaches
    BY Accepted DEF Accepting
  <2>3. stopped' \subseteq Coaches
    BY <1>6, <2>2 DEF AbortGym, GymTypeOK
  <2>4. /\ act' \in [GymRequests -> GymRequest] /\ GymRequestOK(act[r])'
        /\ \A p \in GymRequests : p # r => act'[p] = act[p]
    BY <1>6, FinishOK DEF AbortGym
  <2>. QED
    BY <2>1, <2>3, <2>4, ReadType
<1>. QED
  BY <1>1, <1>2, <1>3, <1>4, <1>5, <1>6, TeamStepGymType, AcceptType, AnswerType, ArchiveType,
     JoinType DEF GymNext

\* For any number of coaches, gyms, invitations and requests in flight, memberships and acceptances
\* stay about the gym and the coach that their invitation names.
THEOREM GymTypeCorrect == GymSpec => []GymTypeOK
<1>1. GymInit => GymTypeOK
  <2> SUFFICES ASSUME GymInit
               PROVE  GymTypeOK
    OBVIOUS
  <2>1. TypeOK
    BY IdleOK, HeadCoachTeamAssumption DEF GymInit, Init, TypeOK, Statuses
  <2>2. gymOf \in [Coaches -> Membership] /\ \A c \in Coaches : MembershipOK(c)
    BY DEF GymInit, NoGym, Membership, MembershipOK
  <2>3. invite \in [Invites -> Invitation] /\ \A i \in Invites : InviteOK(i)
    BY DEF GymInit, NoInvite, Invitation, InviteStatuses, InviteOK
  <2>4. act \in [GymRequests -> GymRequest] /\ \A r \in GymRequests : GymRequestOK(act[r])
    BY DEF GymInit, GymIdle, GymRequest, GymSteps, GymRequestOK, Accepting, HalfWay
  <2>. QED
    BY <2>1, <2>2, <2>3, <2>4 DEF GymInit, GymTypeOK, GymStatuses
<1>. QED
  BY <1>1, GymNextType, PTL DEF GymSpec

-----------------------------------------------------------------------------
(* Teams: the flag that an acceptance sets and takes back, and no other step of the gyms, matters *)

LEMMA AcceptSetKeepsTeams ==
    ASSUME GymTypeOK, NEW r \in GymRequests, AcceptSet(r), NEW c \in Coaches, Accounted(c)
    PROVE  Accounted(c)'
<1>1. UNCHANGED <<status, headOf, req>>
  BY DEF AcceptSet
<1>2. CASE ~Exists(act[r].coach)
  BY <1>1, <1>2 DEF AcceptSet, Accounted, IsMember, IsHeadCoach, Exists
<1>3. CASE Exists(act[r].coach) /\ headOf[c] = act[r].coach /\ IsMember(c)
  <2>1. IsHeadCoach(headOf[c])'
    BY <1>1, <1>3 DEF AcceptSet, SetHeadCoach, IsHeadCoach, Exists, GymTypeOK, TypeOK, IsMember
  <2>. QED
    BY <1>1, <2>1 DEF Accounted
<1>4. CASE Exists(act[r].coach) /\ ~(headOf[c] = act[r].coach /\ IsMember(c))
  <2>1. /\ headOf[c] \in loose /\ IsMember(c) => headOf[c] \in loose'
        /\ IsMember(c) /\ IsHeadCoach(headOf[c]) => IsHeadCoach(headOf[c])'
    BY <1>1, <1>4 DEF AcceptSet, SetHeadCoach, IsHeadCoach, Exists, GymTypeOK, TypeOK, IsMember
  <2>. QED
    BY <1>1, <2>1 DEF Accounted, IsMember
<1>. QED
  BY <1>2, <1>3, <1>4

LEMMA AcceptRollbackKeepsTeams ==
    ASSUME GymTypeOK, NEW r \in GymRequests, AcceptRollback(r), NEW c \in Coaches, Accounted(c)
    PROVE  Accounted(c)'
<1>1. UNCHANGED <<status, headOf, req>> /\ loose' = loose \cup Stranded(act[r].coach)
  BY DEF AcceptRollback
<1>2. CASE headOf[c] = act[r].coach
  BY <1>1, <1>2 DEF Stranded, Team, Accounted
<1>3. CASE headOf[c] # act[r].coach
  <2>1. IsMember(c) /\ IsHeadCoach(headOf[c]) => IsHeadCoach(headOf[c])'
    BY <1>1, <1>3
       DEF AcceptRollback, SetHeadCoach, IsHeadCoach, Exists, GymTypeOK, TypeOK, IsMember
  <2>. QED
    BY <1>1, <2>1 DEF Accounted, IsMember
<1>. QED
  BY <1>2, <1>3

LEMMA TeamsUnmoved ==
    ASSUME UNCHANGED vars, NEW c \in Coaches, Accounted(c)
    PROVE  Accounted(c)'
BY DEF vars, Accounted, IsMember, IsHeadCoach, Exists

\* The steps that leave the state of HeadCoachTeam alone.
LEMMA GymStepsUnmoved ==
    ASSUME NEW r \in GymRequests,
           \/ Accept(r) /\ ~AcceptSet(r) /\ ~AcceptRollback(r)
           \/ Answer(r) \/ Archive(r) \/ Join(r) \/ AbortGym(r)
    PROVE  UNCHANGED vars
<1>1. CASE Accept(r) /\ ~AcceptSet(r) /\ ~AcceptRollback(r)
  BY <1>1 DEF Accept, AcceptLoad, AcceptCheck, AcceptRecheck, AcceptAdd, AcceptTransition, AcceptUndo,
              AcceptFails, Unmoved
<1>2. CASE Answer(r)
  BY <1>2 DEF Answer, InviteLoad, InviteStore, DeclineLoad, DeclineStore, Unmoved
<1>3. CASE Archive(r)
  BY <1>3 DEF Archive, ArchiveLoad, ArchiveSet, ArchiveRemove, ArchiveRevoke, ActivateLoad,
              ActivateStore, Unmoved
<1>4. CASE Join(r)
  BY <1>4 DEF Join, AddLoad, AddCheck, AddStore, LeaveLoad, LeaveStore, Unmoved
<1>5. CASE AbortGym(r)
  BY <1>5 DEF AbortGym
<1>. QED
  BY <1>1, <1>2, <1>3, <1>4, <1>5

LEMMA GymNextKeepsTeams == GymTypeOK /\ NoOrphanedTeam /\ [GymNext]_allVars => NoOrphanedTeam'
<1> SUFFICES ASSUME GymTypeOK, \A c \in Coaches : Accounted(c), [GymNext]_allVars, NEW c \in Coaches
             PROVE  Accounted(c)'
  BY NoOrphanedTeamByCoach DEF NoOrphanedTeam, Accounted
<1>0. TypeOK
  BY DEF GymTypeOK
<1>1. CASE UNCHANGED allVars
  BY <1>1, TeamsUnmoved DEF allVars
<1>2. CASE TeamStep
  BY <1>0, <1>2, TeamStepKeepsTeams
<1>3. ASSUME NEW q \in Requests, ReleaseGym(q)
      PROVE  Accounted(c)'
  BY <1>0, <1>3, ReleaseGymKeepsTeams
<1>4. CASE \/ \E g \in Gyms : CreateGym(g)
           \/ \E i \in Invites : Withdraw(i)
           \/ \E d \in Coaches : RemoveHeadCoach(d)
  BY <1>4, TeamsUnmoved DEF CreateGym, Withdraw, RemoveHeadCoach, Unmoved
<1>5. ASSUME NEW r \in GymRequests,
             Accept(r) \/ Answer(r) \/ Archive(r) \/ Join(r) \/ AbortGym(r)
      PROVE  Accounted(c)'
  BY <1>5, AcceptSetKeepsTeams, AcceptRollbackKeepsTeams, GymStepsUnmoved, TeamsUnmoved
<1>. QED
  BY <1>1, <1>2, <1>3, <1>4, <1>5 DEF GymNext

\* Promotions by an accepted invitation, and taking them back, orphan no team either: whoever is in
\* the team of an account that is no head coach was left there by a lost repair.
THEOREM TeamsStayHeaded == GymSpec => []NoOrphanedTeam
<1>1. GymInit => NoOrphanedTeam
  BY DEF GymInit, Init, NoOrphanedTeam, IsMember
<1>. QED
  BY <1>1, GymTypeCorrect, GymNextKeepsTeams, PTL DEF GymSpec

-----------------------------------------------------------------------------
(* Invitations are answered once *)

AnswersKept ==
    \A i \in Invites : invite[i].status \notin {"none", "pending"} => invite'[i] = invite[i]

LEMMA TransitionKeepsAnswers ==
    ASSUME GymTypeOK, NEW i, NEW to, Transition(i, to)
    PROVE  AnswersKept
<1> SUFFICES ASSUME NEW j \in Invites, invite[j].status \notin {"none", "pending"}
             PROVE  invite'[j] = invite[j]
  BY DEF AnswersKept
<1>1. CASE i # j
  BY <1>1 DEF Transition, GymTypeOK
<1>2. CASE i = j
  BY <1>2 DEF Transition, GymTypeOK, Invitation
<1>. QED
  BY <1>1, <1>2

LEMMA GymNextKeepsAnswers == GymTypeOK /\ [GymNext]_allVars => AnswersKept
<1> SUFFICES ASSUME GymTypeOK, [GymNext]_allVars
             PROVE  AnswersKept
  OBVIOUS
<1>1. CASE UNCHANGED invite
  BY <1>1 DEF AnswersKept
<1>2. ASSUME NEW i, NEW to, Transition(i, to)
      PROVE  AnswersKept
  BY <1>2, TransitionKeepsAnswers
<1>3. ASSUME NEW r \in GymRequests, InviteStore(r)
      PROVE  AnswersKept
  <2>1. CASE UNCHANGED invite
    BY <2>1 DEF AnswersKept
  <2>2. ASSUME NEW i \in Invites, invite[i] = NoInvite, NEW new, invite' = [invite EXCEPT ![i] = new]
        PROVE  AnswersKept
    BY <2>2 DEF AnswersKept, NoInvite, GymTypeOK
  <2>. QED
    BY <1>3, <2>1, <2>2 DEF InviteStore
<1>4. ASSUME NEW r \in GymRequests, ArchiveRevoke(r)
      PROVE  AnswersKept
  BY <1>4 DEF ArchiveRevoke, AnswersKept
<1>5. ASSUME NEW r \in GymRequests, Accept(r)
      PROVE  AnswersKept
  <2>1. CASE AcceptTransition(r)
    BY <1>2, <2>1 DEF AcceptTransition
  <2>2. CASE ~AcceptTransition(r)
    BY <1>1, <1>5, <2>2 DEF Accept, AcceptLoad, AcceptCheck, AcceptSet, AcceptRecheck, AcceptAdd,
                            AcceptUndo, AcceptFails, AcceptRollback
  <2>. QED
    BY <2>1, <2>2
<1>6. ASSUME NEW r \in GymRequests, Answer(r)
      PROVE  AnswersKept
  BY <1>1, <1>2, <1>3, <1>6 DEF Answer, InviteLoad, DeclineLoad, DeclineStore
<1>7. ASSUME NEW r \in GymRequests, Archive(r) \/ Join(r) \/ AbortGym(r)
      PROVE  AnswersKept
  BY <1>1, <1>4, <1>7 DEF Archive, ArchiveLoad, ArchiveSet, ArchiveRemove, ActivateLoad,
     ActivateStore, Join, AddLoad, AddCheck, AddStore, LeaveLoad, LeaveStore, AbortGym
<1>8. ASSUME NEW i \in Invites, Withdraw(i)
      PROVE  AnswersKept
  BY <1>2, <1>8 DEF Withdraw
<1>. QED
  BY <1>1, <1>5, <1>6, <1>7, <1>8 DEF GymNext, CreateGym, RemoveHeadCoach, allVars, gymVars

\* For any number of requests that accept, decline, revoke, expire or archive at the same time, the
\* first answer to an invitation is the last one.
THEOREM InvitationsAreAnsweredOnce == GymSpec => AnsweredOnce
<1>1. GymTypeOK /\ [GymNext]_allVars
        => [\A i \in Invites :
             invite[i].status \notin {"none", "pending"} => invite'[i] = invite[i]]_allVars
  BY GymNextKeepsAnswers DEF AnswersKept
<1>. QED
  BY <1>1, GymTypeCorrect, PTL DEF GymSpec, AnsweredOnce

-----------------------------------------------------------------------------
(* Memberships through an invitation.  The acceptance that stored one is the only request that owes  *)
(* it an answer, and the membership names the same coach as the invitation, so what the undo releases *)
(* is the membership that was stored.                                                                *)

Answering(r, i) == act[r].pc \in {"acceptTransition", "acceptUndo"} /\ act[r].inv = i

Backed(c) ==
    InGym(c) /\ gymOf[c].via # Nobody /\ invite[gymOf[c].via].status # "accepted"
      => c \in stopped \/ \E r \in GymRequests : Answering(r, gymOf[c].via)

GymStep(r) == Accept(r) \/ Answer(r) \/ Archive(r) \/ Join(r) \/ AbortGym(r)

LEMMA OwnRequest ==
    ASSUME GymTypeOK, NEW r \in GymRequests, GymStep(r)
    PROVE  \A p \in GymRequests : p # r => act'[p] = act[p]
<1>1. ASSUME \/ \E new : Start(r, new)
             \/ \E step : Proceed(r, step)
             \/ Finish(r)
             \/ GiveUpAdd(r)
      PROVE  \A p \in GymRequests : p # r => act'[p] = act[p]
  BY <1>1 DEF Start, Proceed, Finish, GiveUpAdd, GymTypeOK
<1>2. CASE Accept(r)
  <2>1. CASE AcceptCheck(r) \/ AcceptSet(r) \/ AcceptRecheck(r)
    BY <1>1, <2>1 DEF AcceptCheck, AcceptSet, AcceptRecheck
  <2>2. CASE ~(AcceptCheck(r) \/ AcceptSet(r) \/ AcceptRecheck(r))
    BY <1>1, <1>2, <2>2 DEF Accept, AcceptLoad, AcceptAdd, AcceptTransition, AcceptUndo,
                            AcceptFails, AcceptRollback
  <2>. QED
    BY <2>1, <2>2
<1>3. CASE Answer(r)
  BY <1>1, <1>3 DEF Answer, InviteLoad, InviteStore, DeclineLoad, DeclineStore
<1>4. CASE Archive(r)
  BY <1>1, <1>4 DEF Archive, ArchiveLoad, ArchiveSet, ArchiveRemove, ArchiveRevoke, ActivateLoad,
                    ActivateStore
<1>5. CASE Join(r)
  BY <1>1, <1>5 DEF Join, AddLoad, AddCheck, AddStore, LeaveLoad, LeaveStore
<1>6. CASE AbortGym(r)
  BY <1>1, <1>6 DEF AbortGym
<1>. QED
  BY <1>2, <1>3, <1>4, <1>5, <1>6 DEF GymStep

\* Only the two inserts put a coach into a gym.
LEMMA GymOfFalls ==
    ASSUME GymTypeOK, NEW r \in GymRequests, GymStep(r), ~AcceptAdd(r), ~AddStore(r),
           NEW c \in Coaches
    PROVE  gymOf'[c] \in {gymOf[c], NoGym}
<1>1. ASSUME NEW d, ReleaseHead(d)
      PROVE  gymOf'[c] \in {gymOf[c], NoGym}
  BY <1>1, ReleaseOK
<1>2. CASE ArchiveRemove(r)
  BY <1>2 DEF ArchiveRemove
<1>3. CASE Accept(r)
  BY <1>1, <1>3 DEF Accept, AcceptLoad, AcceptCheck, AcceptSet, AcceptRecheck, AcceptTransition,
                    AcceptUndo, AcceptFails, AcceptRollback
<1>4. CASE Answer(r) \/ (Archive(r) /\ ~ArchiveRemove(r)) \/ AbortGym(r)
  BY <1>4 DEF Answer, InviteLoad, InviteStore, DeclineLoad, DeclineStore, Archive, ArchiveLoad,
              ArchiveSet, ArchiveRevoke, ActivateLoad, ActivateStore, AbortGym
<1>5. CASE Join(r)
  BY <1>1, <1>5 DEF Join, AddLoad, AddCheck, LeaveLoad, LeaveStore
<1>. QED
  BY <1>2, <1>3, <1>4, <1>5 DEF GymStep

LEMMA StoppedGrows ==
    ASSUME NEW r \in GymRequests, GymStep(r)
    PROVE  stopped \subseteq stopped'
<1>1. CASE Accept(r)
  BY <1>1 DEF Accept, AcceptLoad, AcceptCheck, AcceptSet, AcceptRecheck, AcceptAdd, AcceptTransition,
              AcceptUndo, AcceptFails, AcceptRollback, Unmoved
<1>2. CASE Answer(r) \/ Archive(r) \/ Join(r) \/ AbortGym(r)
  BY <1>2 DEF Answer, InviteLoad, InviteStore, DeclineLoad, DeclineStore, Archive, ArchiveLoad,
              ArchiveSet, ArchiveRemove, ArchiveRevoke, ActivateLoad, ActivateStore, Join, AddLoad,
              AddCheck, AddStore, LeaveLoad, LeaveStore, AbortGym, Unmoved
<1>. QED
  BY <1>1, <1>2 DEF GymStep

\* A membership through an invitation is that of the coach whom the invitation names.
LEMMA ViaNamesTheCoach ==
    ASSUME GymTypeOK, NEW c \in Coaches, InGym(c), gymOf[c].via # Nobody
    PROVE  gymOf[c].via \in Invites /\ invite[gymOf[c].via].coach = c
BY DEF GymTypeOK, MembershipOK, Membership, InGym, InvitationOf

\* A step of r backs what was backed, if r still answers for what it answered for.
LEMMA OthersBack ==
    ASSUME GymTypeOK, AnswersKept, NEW r \in GymRequests, NEW c \in Coaches, Backed(c),
           \A p \in GymRequests : p # r => act'[p] = act[p],
           gymOf'[c] \in {gymOf[c], NoGym}, stopped \subseteq stopped',
           InGym(c) /\ gymOf[c].via # Nobody /\ Answering(r, gymOf[c].via)
             => \/ c \in stopped' \/ Answering(r, gymOf[c].via)'
                \/ invite'[gymOf[c].via].status = "accepted" \/ gymOf'[c] = NoGym
    PROVE  Backed(c)'
<1>1. CASE gymOf'[c] = NoGym
  BY <1>1 DEF Backed, InGym
<1>2. CASE gymOf'[c] = gymOf[c] /\ gymOf[c] # NoGym /\ gymOf[c].via # Nobody
  <2>1. gymOf[c].via \in Invites
    BY <1>2, ViaNamesTheCoach DEF InGym
  <2>2. invite[gymOf[c].via].status = "accepted" => invite'[gymOf[c].via].status = "accepted"
    BY <2>1 DEF AnswersKept
  <2>3. \A p \in GymRequests : p # r /\ Answering(p, gymOf[c].via) => Answering(p, gymOf[c].via)'
    BY <1>2 DEF Answering
  <2>4. Answering(r, gymOf[c].via)' => \E p \in GymRequests : Answering(p, gymOf[c].via)'
    OBVIOUS
  <2>. QED
    BY <1>2, <2>2, <2>3, <2>4 DEF Backed, InGym
<1>3. CASE gymOf'[c] = gymOf[c] /\ gymOf[c].via = Nobody
  BY <1>3 DEF Backed
<1>. QED
  BY <1>1, <1>2, <1>3

LEMMA AnsweringStepBacks ==
    ASSUME GymTypeOK, AnswersKept, NEW r \in GymRequests, NEW c \in Coaches, Backed(c),
           AcceptTransition(r) \/ AcceptUndo(r) \/ AcceptFails(r) \/ AbortGym(r)
    PROVE  Backed(c)'
<1>1. /\ \A p \in GymRequests : p # r => act'[p] = act[p]
      /\ stopped \subseteq stopped'
  BY OwnRequest, StoppedGrows DEF GymStep, Accept
<1>2. gymOf'[c] \in {gymOf[c], NoGym}
  BY ReleaseOK DEF AcceptTransition, AcceptUndo, AcceptFails, AbortGym
<1>3. ASSUME InGym(c), gymOf[c].via # Nobody, Answering(r, gymOf[c].via)
      PROVE  \/ c \in stopped' \/ Answering(r, gymOf[c].via)'
             \/ invite'[gymOf[c].via].status = "accepted" \/ gymOf'[c] = NoGym
  <2>1. gymOf[c].via \in Invites /\ act[r].inv = gymOf[c].via /\ act[r].coach = c
    <3>1. InvitationOf(act[r].gym, act[r].coach, act[r].inv)
      BY <1>3, Accepted DEF Answering, Accepting, HalfWay
    <3>. QED
      BY <1>3, <3>1, ViaNamesTheCoach DEF Answering, InvitationOf
  <2>2. CASE AcceptTransition(r)
    <3>1. CASE invite[act[r].inv].status = "pending"
      BY <2>1, <2>2, <3>1 DEF AcceptTransition, Transition, GymTypeOK, Invitation
    <3>2. CASE invite[act[r].inv].status # "pending"
      BY <2>1, <2>2, <3>2 DEF AcceptTransition, Proceed, Answering, GymTypeOK, GymRequest
    <3>. QED
      BY <3>1, <3>2
  <2>3. CASE AcceptUndo(r)
    BY <2>1, <2>3 DEF AcceptUndo, ReleaseHead, GymTypeOK
  <2>4. CASE AcceptFails(r)
    <3>1. CASE Proceed(r, "acceptUndo") /\ UNCHANGED gymOf
      BY <2>1, <3>1 DEF Proceed, Answering, GymTypeOK, GymRequest
    <3>. QED
      BY <2>1, <2>4, <3>1 DEF AcceptFails
  <2>5. CASE AbortGym(r)
    BY <1>3, <2>1, <2>5 DEF AbortGym, Answering, HalfWay
  <2>. QED
    BY <2>2, <2>3, <2>4, <2>5
<1>. QED
  BY <1>1, <1>2, <1>3, OthersBack

\* A step that puts a coach into a gym does it for an acceptance that still has to answer, or
\* without an invitation.
LEMMA AddingStepBacks ==
    ASSUME GymTypeOK, AnswersKept, NEW r \in GymRequests, NEW c \in Coaches, Backed(c),
           AcceptAdd(r) \/ AddStore(r)
    PROVE  Backed(c)'
<1>1. /\ \A p \in GymRequests : p # r => act'[p] = act[p]
      /\ stopped \subseteq stopped' /\ invite' = invite
  BY OwnRequest, StoppedGrows DEF GymStep, Accept, Join, AcceptAdd, AddStore
<1>2. ~Answering(r, gymOf[c].via)
  BY DEF AcceptAdd, AddStore, Doing, Answering
<1>3. CASE gymOf'[c] = gymOf[c]
  BY <1>1, <1>2, <1>3, OthersBack
<1>4. CASE gymOf'[c] # gymOf[c] /\ AcceptAdd(r)
  <2>1. /\ AddHeadCoach(act[r].coach, act[r].gym, act[r].inv)
        /\ Proceed(r, "acceptTransition")
    BY <1>4 DEF AcceptAdd
  <2>2. gymOf'[c].via = act[r].inv
    BY <1>4, <2>1 DEF AddHeadCoach, GymTypeOK
  <2>3. act'[r].pc = "acceptTransition" /\ act'[r].inv = act[r].inv
    BY <2>1 DEF Proceed, GymTypeOK, GymRequest
  <2>. QED
    BY <2>1, <2>2, <2>3 DEF Backed, Answering
<1>5. CASE gymOf'[c] # gymOf[c] /\ AddStore(r)
  <2>1. gymOf'[c].via = Nobody
    BY <1>5 DEF AddStore, AddHeadCoach, GymTypeOK
  <2>. QED
    BY <2>1 DEF Backed
<1>. QED
  BY <1>3, <1>4, <1>5

LEMMA GymStepBacks ==
    ASSUME GymTypeOK, AnswersKept, NEW r \in GymRequests, NEW c \in Coaches, Backed(c), GymStep(r)
    PROVE  Backed(c)'
<1>1. CASE AcceptTransition(r) \/ AcceptUndo(r) \/ AcceptFails(r) \/ AbortGym(r)
  BY <1>1, AnsweringStepBacks
<1>2. CASE AcceptAdd(r) \/ AddStore(r)
  BY <1>2, AddingStepBacks
<1>3. CASE ~(\/ AcceptTransition(r) \/ AcceptUndo(r) \/ AcceptFails(r) \/ AbortGym(r)
             \/ AcceptAdd(r) \/ AddStore(r))
  <2>1. /\ \A p \in GymRequests : p # r => act'[p] = act[p]
        /\ stopped \subseteq stopped' /\ gymOf'[c] \in {gymOf[c], NoGym}
    BY <1>3, OwnRequest, StoppedGrows, GymOfFalls
  <2>2. act[r].pc \notin {"acceptTransition", "acceptUndo"}
    <3>1. CASE Accept(r)
      BY <1>3, <3>1 DEF Accept, AcceptLoad, AcceptCheck, AcceptSet, AcceptRecheck, AcceptRollback,
                        Doing
    <3>2. CASE Answer(r) \/ Archive(r)
      BY <3>2 DEF Answer, InviteLoad, InviteStore, DeclineLoad, DeclineStore, Archive, ArchiveLoad,
                  ArchiveSet, ArchiveRemove, ArchiveRevoke, ActivateLoad, ActivateStore, Doing
    <3>3. CASE Join(r)
      BY <3>3 DEF Join, AddLoad, AddCheck, AddStore, LeaveLoad, LeaveStore, Doing
    <3>. QED
      BY <1>3, <3>1, <3>2, <3>3 DEF GymStep
  <2>. QED
    BY <2>1, <2>2, OthersBack DEF Answering
<1>. QED
  BY <1>1, <1>2, <1>3

\* The steps of no gym request.
LEMMA OutsideStepBacks ==
    ASSUME GymTypeOK, AnswersKept, NEW c \in Coaches, Backed(c), UNCHANGED <<act, stopped>>,
           gymOf'[c] \in {gymOf[c], NoGym}
    PROVE  Backed(c)'
<1>1. CASE gymOf'[c] = NoGym
  BY <1>1 DEF Backed, InGym
<1>2. CASE gymOf'[c] = gymOf[c] /\ InGym(c) /\ gymOf[c].via # Nobody
  <2>1. invite[gymOf[c].via].status = "accepted" => invite'[gymOf[c].via].status = "accepted"
    BY <1>2, ViaNamesTheCoach DEF AnswersKept
  <2>. QED
    BY <1>2, <2>1 DEF Backed, Answering
<1>. QED
  BY <1>1, <1>2 DEF Backed, InGym

LEMMA GymNextBacks ==
    GymTypeOK /\ MembershipsAreAccepted /\ [GymNext]_allVars => MembershipsAreAccepted'
<1>0. MembershipsAreAccepted <=> \A c \in Coaches : Backed(c)
  BY DEF MembershipsAreAccepted, Backed, Answering
<1> SUFFICES ASSUME GymTypeOK, \A c \in Coaches : Backed(c), [GymNext]_allVars, NEW c \in Coaches
             PROVE  Backed(c)'
  BY <1>0 DEF MembershipsAreAccepted, Backed, Answering
<1>1. AnswersKept
  BY GymNextKeepsAnswers
<1>2. ASSUME UNCHANGED <<act, stopped>>, gymOf'[c] \in {gymOf[c], NoGym}
      PROVE  Backed(c)'
  BY <1>1, <1>2, OutsideStepBacks
<1>3. CASE \/ UNCHANGED allVars
           \/ TeamStep /\ UNCHANGED gymVars
           \/ \E g \in Gyms : CreateGym(g)
           \/ \E i \in Invites : Withdraw(i)
  BY <1>2, <1>3 DEF allVars, gymVars, CreateGym, Withdraw, Unmoved
<1>4. CASE \/ \E d \in Coaches : RemoveHeadCoach(d)
           \/ \E q \in Requests : ReleaseHead(req[q].coach) /\ UNCHANGED <<act, stopped>>
  BY <1>2, <1>4, ReleaseOK DEF RemoveHeadCoach, Unmoved
<1>5. ASSUME NEW r \in GymRequests, GymStep(r)
      PROVE  Backed(c)'
  BY <1>1, <1>5, GymStepBacks
<1>. QED
  BY <1>3, <1>4, <1>5 DEF GymNext, GymStep

\* However acceptances race with revocations, expiries, archiving and each other, a coach who is in a
\* gym through an invitation that was not accepted in the end is about to be taken out, unless an
\* acceptance stopped half-way.
THEOREM MembershipsAreBacked == GymSpec => []MembershipsAreAccepted
<1>1. GymInit => MembershipsAreAccepted
  BY DEF GymInit, MembershipsAreAccepted, InGym
<1>. QED
  BY <1>1, GymTypeCorrect, GymNextBacks, PTL DEF GymSpec

-----------------------------------------------------------------------------
(* The rights of a head coach *)

Promoting(r, c) == act[r].pc \in HalfWay /\ act[r].setFlag /\ act[r].coach = c

Entitled(c) ==
    IsHeadCoach(c) => c \in granted \cup stopped \/ \E r \in GymRequests : Promoting(r, c)

\* A step of r takes no right from the others' promotions, and none from its own without ending it.
LEMMA OthersPromote ==
    ASSUME GymTypeOK, NEW r \in GymRequests, NEW c \in Coaches, Entitled(c),
           \A p \in GymRequests : p # r => act'[p] = act[p],
           stopped \subseteq stopped',
           IsHeadCoach(c)' =>
             /\ IsHeadCoach(c) \/ Promoting(r, c)'
             /\ c \in granted => c \in granted'
             /\ Promoting(r, c) => c \in granted' \cup stopped' \/ Promoting(r, c)'
    PROVE  Entitled(c)'
<1>1. \A p \in GymRequests : p # r /\ Promoting(p, c) => Promoting(p, c)'
  BY DEF Promoting
<1>. QED
  BY <1>1 DEF Entitled

\* Deleted accounts are not restored by a request about teams.
LEMMA TeamStepRestoresNobody ==
    ASSUME TypeOK, TeamStep, NEW c \in Coaches, Exists(c)'
    PROVE  Exists(c)
<1>1. ASSUME NEW d \in Coaches, SetStatus(d)
      PROVE  Exists(c)
  BY <1>1 DEF SetStatus, Exists, TypeOK
<1>2. ASSUME NEW q \in Requests, NEW d \in Coaches, DeleteUser(q, d)
      PROVE  Exists(c)
  BY <1>2 DEF DeleteUser, Exists, TypeOK
<1>3. CASE UNCHANGED status
  BY <1>3 DEF Exists
<1>4. ASSUME NEW q \in Requests, Promote(q) \/ Demote(q)
      PROVE  UNCHANGED status
  BY <1>4 DEF Promote, PromoteLoad, PromoteCheck, PromoteSet, PromoteRecheck, PromoteRollback,
              Demote, DemoteLoad, DemoteCount, DemoteSet, DemoteRelease
<1>5. ASSUME NEW q \in Requests, Assign(q) \/ Unassign(q) \/ Purge(q) \/ Abort(q)
      PROVE  UNCHANGED status
  BY <1>5 DEF Assign, AssignLoad, AssignHead, AssignStore, AssignRecheck, AssignUndo, Unassign,
              UnassignGet, UnassignDelete, RemoveLoad, RemoveGet, Purge, Abort
<1>. QED
  BY <1>1, <1>2, <1>3, <1>4, <1>5 DEF TeamStep, Account

LEMMA TeamStepEntitles ==
    ASSUME GymTypeOK, TeamStep, granted' = Granted, UNCHANGED gymVars,
           NEW c \in Coaches, Entitled(c)
    PROVE  Entitled(c)'
<1> SUFFICES ASSUME IsHeadCoach(c)'
             PROVE  c \in granted' \cup stopped' \/ \E r \in GymRequests : Promoting(r, c)'
  BY DEF Entitled
<1>1. CASE ~isHead[c]
  BY <1>1 DEF Granted, IsHeadCoach
<1>2. CASE isHead[c]
  <2>1. IsHeadCoach(c)
    BY <1>2, TeamStepRestoresNobody DEF IsHeadCoach, GymTypeOK
  <2>2. c \in granted => c \in granted'
    BY DEF Granted, IsHeadCoach
  <2>3. \A r \in GymRequests : Promoting(r, c) => Promoting(r, c)'
    BY DEF gymVars, Promoting
  <2>4. c \in stopped => c \in stopped'
    BY DEF gymVars
  <2>. QED
    BY <2>1, <2>2, <2>3, <2>4 DEF Entitled
<1>. QED
  BY <1>1, <1>2

\* The steps of a request that is not half-way through an acceptance.
LEMMA OtherStepEntitles ==
    ASSUME GymTypeOK, NEW r \in GymRequests, GymStep(r), act[r].pc \notin HalfWay, ~AcceptSet(r),
           NEW c \in Coaches, Entitled(c)
    PROVE  Entitled(c)'
<1>1. UNCHANGED <<vars, granted>>
  <2>1. ~AcceptTransition(r) /\ ~AcceptRollback(r)
    BY DEF AcceptTransition, AcceptRollback, Doing, HalfWay
  <2>2. CASE Accept(r)
    BY <2>1, <2>2 DEF Accept, AcceptLoad, AcceptCheck, AcceptRecheck, AcceptAdd, AcceptUndo,
                      AcceptFails, Unmoved
  <2>3. CASE Answer(r) \/ Archive(r)
    BY <2>3 DEF Answer, InviteLoad, InviteStore, DeclineLoad, DeclineStore, Archive, ArchiveLoad,
                ArchiveSet, ArchiveRemove, ArchiveRevoke, ActivateLoad, ActivateStore, Unmoved
  <2>4. CASE Join(r) \/ AbortGym(r)
    BY <2>4 DEF Join, AddLoad, AddCheck, AddStore, LeaveLoad, LeaveStore, AbortGym, Unmoved
  <2>. QED
    BY <2>2, <2>3, <2>4 DEF GymStep
<1>2. IsHeadCoach(c)' => IsHeadCoach(c)
  BY <1>1 DEF vars, IsHeadCoach, Exists
<1>3. ~Promoting(r, c)
  BY DEF Promoting
<1>. QED
  BY <1>1, <1>2, <1>3, OwnRequest, StoppedGrows, OthersPromote

\* The steps of an acceptance that may set, keep or take back the flag.
LEMMA PromotionEntitles ==
    ASSUME GymTypeOK, NEW r \in GymRequests, GymStep(r), act[r].pc \in HalfWay \/ AcceptSet(r),
           NEW c \in Coaches, Entitled(c)
    PROVE  Entitled(c)'
<1>0. (\A p \in GymRequests : p # r => act'[p] = act[p]) /\ stopped \subseteq stopped'
  BY OwnRequest, StoppedGrows
<1>1. CASE AcceptSet(r)
  <2>1. act[r].setFlag /\ ~Promoting(r, c) /\ UNCHANGED <<status, granted>>
    BY <1>1 DEF AcceptSet, Doing, GymTypeOK, GymRequestOK, Promoting, HalfWay
  <2>2. CASE Exists(act[r].coach) /\ c = act[r].coach
    <3>1. Promoting(r, c)'
      BY <1>1, <2>1, <2>2 DEF AcceptSet, Proceed, Promoting, HalfWay, GymTypeOK, GymRequest
    <3>. QED
      BY <1>0, <2>1, <3>1, OthersPromote
  <2>3. CASE ~(Exists(act[r].coach) /\ c = act[r].coach)
    <3>1. IsHeadCoach(c)' => IsHeadCoach(c)
      BY <1>1, <2>1, <2>3 DEF AcceptSet, SetHeadCoach, IsHeadCoach, Exists, GymTypeOK, TypeOK
    <3>. QED
      BY <1>0, <2>1, <3>1, OthersPromote
  <2>. QED
    BY <2>2, <2>3
<1>2. CASE AcceptRollback(r)
  <2>1. IsHeadCoach(c)' => c # act[r].coach /\ IsHeadCoach(c)
    BY <1>2 DEF AcceptRollback, SetHeadCoach, IsHeadCoach, Exists, GymTypeOK, TypeOK
  <2>2. c # act[r].coach => ~Promoting(r, c) /\ (c \in granted => c \in granted')
    BY <1>2 DEF AcceptRollback, Promoting
  <2>. QED
    BY <1>0, <2>1, <2>2, OthersPromote
<1>3. CASE \/ AcceptRecheck(r) \/ AcceptAdd(r) \/ AcceptTransition(r) \/ AcceptUndo(r)
           \/ AcceptFails(r) \/ AbortGym(r)
  <2>1. UNCHANGED vars /\ granted \subseteq granted'
    BY <1>3 DEF AcceptRecheck, AcceptAdd, AcceptTransition, AcceptUndo, AcceptFails, AbortGym, Unmoved
  <2>2. IsHeadCoach(c)' => IsHeadCoach(c)
    BY <2>1 DEF vars, IsHeadCoach, Exists
  <2>3. ASSUME NEW step \in HalfWay, Proceed(r, step), Promoting(r, c)
        PROVE  Promoting(r, c)'
    BY <2>3 DEF Proceed, Promoting, GymTypeOK, GymRequest
  <2>4. Promoting(r, c) => c \in granted' \cup stopped' \/ Promoting(r, c)'
    <3>1. CASE AcceptRecheck(r) \/ AcceptAdd(r) \/ AcceptUndo(r) \/ AcceptFails(r)
      BY <2>3, <3>1 DEF AcceptRecheck, AcceptAdd, AcceptUndo, AcceptFails, GiveUpAdd, Promoting, HalfWay
    <3>2. CASE AcceptTransition(r)
      BY <2>3, <3>2 DEF AcceptTransition, Promoting, HalfWay
    <3>3. CASE AbortGym(r)
      BY <3>3 DEF AbortGym, Promoting
    <3>. QED
      BY <1>3, <3>1, <3>2, <3>3
  <2>. QED
    BY <1>0, <2>1, <2>2, <2>4, OthersPromote
<1>4. \/ AcceptSet(r) \/ AcceptRollback(r) \/ AcceptRecheck(r) \/ AcceptAdd(r)
      \/ AcceptTransition(r) \/ AcceptUndo(r) \/ AcceptFails(r) \/ AbortGym(r)
  <2>1. act[r].pc \in HalfWay => /\ ~(\E i \in Invites : AcceptLoad(r, i)) /\ ~AcceptCheck(r)
                                 /\ ~Answer(r) /\ ~Archive(r) /\ ~Join(r)
    BY DEF HalfWay, Doing, AcceptLoad, AcceptCheck, Answer, InviteLoad, InviteStore, DeclineLoad,
           DeclineStore, Archive, ArchiveLoad, ArchiveSet, ArchiveRemove, ArchiveRevoke,
           ActivateLoad, ActivateStore, Join, AddLoad, AddCheck, AddStore, LeaveLoad, LeaveStore
  <2>. QED
    BY <2>1 DEF GymStep, Accept
<1>. QED
  BY <1>1, <1>2, <1>3, <1>4

LEMMA GymNextEntitles == GymTypeOK /\ RightsAreGranted /\ [GymNext]_allVars => RightsAreGranted'
<1>0. RightsAreGranted <=> \A c \in Coaches : Entitled(c)
  BY DEF RightsAreGranted, Entitled, Promoting
<1> SUFFICES ASSUME GymTypeOK, \A c \in Coaches : Entitled(c), [GymNext]_allVars, NEW c \in Coaches
             PROVE  Entitled(c)'
  BY <1>0 DEF RightsAreGranted, Entitled, Promoting
<1>1. ASSUME UNCHANGED <<status, isHead, act, granted, stopped>>
      PROVE  Entitled(c)'
  BY <1>1 DEF Entitled, Promoting, IsHeadCoach, Exists
<1>2. CASE UNCHANGED allVars
  BY <1>1, <1>2 DEF allVars, vars, gymVars
<1>3. CASE \/ \E g \in Gyms : CreateGym(g)
           \/ \E i \in Invites : Withdraw(i)
           \/ \E d \in Coaches : RemoveHeadCoach(d)
  BY <1>1, <1>3 DEF CreateGym, Withdraw, RemoveHeadCoach, Unmoved, vars
<1>4. ASSUME NEW q \in Requests, ReleaseGym(q), UNCHANGED <<act, granted, stopped>>
      PROVE  Entitled(c)'
  BY <1>1, <1>4 DEF ReleaseGym
<1>5. ASSUME NEW r \in GymRequests, GymStep(r)
      PROVE  Entitled(c)'
  BY <1>5, OtherStepEntitles, PromotionEntitles
<1>. QED
  BY <1>2, <1>3, <1>4, <1>5, TeamStepEntitles DEF GymNext, GymStep

\* Nobody keeps the rights of a head coach from an acceptance that failed: they come from an admin or
\* from an accepted invitation, or the acceptance that set the flag is still in flight or stopped.
THEOREM RightsComeFromAGrant == GymSpec => []RightsAreGranted
<1>1. GymInit => RightsAreGranted
  BY DEF GymInit, Init, RightsAreGranted, IsHeadCoach
<1>. QED
  BY <1>1, GymTypeCorrect, GymNextEntitles, PTL DEF GymSpec

=============================================================================
