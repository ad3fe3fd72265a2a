-------------------------- MODULE EntitlementRules --------------------------
(***************************************************************************)
(* How the feature access of a user is computed from its layers and how a   *)
(* patch changes a layer (services/entitlement.go, the registry of           *)
(* services/entitlement_registry.go).                                       *)
(*                                                                         *)
(* A feature has one limit here, standing for each of its limits: they are   *)
(* merged and capped key by key.  The source of a value is kept only where    *)
(* the code decides by it: whether the feature applies to the role at all.    *)
(***************************************************************************)
EXTENDS Integers

CONSTANTS
    Features,
    ParentOf,        \* the master switch of a feature, or NoFeature
    NoFeature,
    ClientFeatures,  \* the features that apply to clients; all of them apply to coaches
    Limited,         \* the features with a limit
    MaxLimit

ASSUME RulesAssumption ==
    /\ MaxLimit \in Nat
    /\ NoFeature \notin Features
    /\ ParentOf \in [Features -> Features \cup {NoFeature}]
    /\ ClientFeatures \subseteq Features /\ Limited \subseteq Features
    \* A parent is no child, and applies to whom its children apply to (child() in the registry).
    /\ \A f \in Features : ParentOf[f] # NoFeature =>
         /\ ParentOf[ParentOf[f]] = NoFeature
         /\ f \in ClientFeatures <=> ParentOf[f] \in ClientFeatures

\* A nil limit is unlimited: above every limit, so that the lower of two limits is the minimum.
Unlimited == MaxLimit + 1
Inherit == -1
Keep == -2

Lower(m, n) == IF m < n THEN m ELSE n

\* The effective state of a feature, and what a layer (a default or a grant) says of it.
FeatureState == [applies : BOOLEAN, enabled : BOOLEAN, limit : 0 .. Unlimited]
FeatureGrant == [enabled : {"on", "off", "inherit"}, limit : {Inherit} \cup 0 .. MaxLimit]

Layer == [Features -> FeatureGrant]
Silent == [enabled |-> "inherit", limit |-> Inherit]
EmptyLayer == [f \in Features |-> Silent]

Applies(f, role) == role = "coach" \/ f \in ClientFeatures

\* newFeatureState: every registered feature is on and unlimited by default.
InitialState(f, role) ==
    [applies |-> Applies(f, role), enabled |-> Applies(f, role), limit |-> Unlimited]

\* applyLayer: each field is overridden independently, a limit only where the feature has one.
ApplyLayer(st, f, g) ==
    [st EXCEPT !.enabled = IF g.enabled = "inherit" THEN @ ELSE g.enabled = "on",
               !.limit = IF g.limit # Inherit /\ f \in Limited THEN g.limit ELSE @]

\* The role default, the plan's default and the grant, in this order.
Layered(role, default, plan, grant) ==
    [f \in Features |->
       IF Applies(f, role)
         THEN ApplyLayer(ApplyLayer(ApplyLayer(InitialState(f, role), f, default[f]), f, plan[f]), f, grant[f])
         ELSE InitialState(f, role)]

\* A child is enabled only while its parent is; this comes before the coach's cap.
UnderParents(out) ==
    [f \in Features |->
       LET p == ParentOf[f]
       IN  IF p # NoFeature /\ out[f].applies /\ out[p].applies /\ ~out[p].enabled
             THEN [out[f] EXCEPT !.enabled = FALSE] ELSE out[f]]

\* Mutant of CapByCoach: only the switch is capped.
CapByCoach_SwitchOnly(st, coach) ==
    IF st.applies /\ coach.applies THEN [st EXCEPT !.enabled = @ /\ coach.enabled] ELSE st

\* capByCoach: on only when the coach's is on, limited at least as much as the coach.
CapByCoach(st, coach) ==
    IF st.applies /\ coach.applies
      THEN [st EXCEPT !.enabled = @ /\ coach.enabled, !.limit = Lower(@, coach.limit)] ELSE st

CoachAccess(default, plan, grant) == UnderParents(Layered("coach", default, plan, grant))

\* coach is the effective access of the client's coach; without a coach nothing is capped.
ClientAccess(default, plan, grant, coach) ==
    LET own == UnderParents(Layered("client", default, plan, grant))
    IN  [f \in Features |-> CapByCoach(own[f], coach[f])]

UncappedClientAccess(default, plan, grant) == UnderParents(Layered("client", default, plan, grant))

-----------------------------------------------------------------------------
(* Patches *)

FeaturePatch == [enabled : {"keep", "on", "off", "inherit"}, limit : {Keep, Inherit} \cup 0 .. MaxLimit]

\* applyPatch on a layer; limits are validated against the feature.
ApplyPatch(layer, patch) ==
    [f \in Features |->
       IF f \notin DOMAIN patch THEN layer[f]
         ELSE [enabled |-> IF patch[f].enabled = "keep" THEN layer[f].enabled ELSE patch[f].enabled,
               limit |-> IF patch[f].limit = Keep THEN layer[f].limit ELSE patch[f].limit]]

ValidPatch(patch, role) ==
    /\ patch # << >>
    /\ \A f \in DOMAIN patch : Applies(f, role) /\ (patch[f].limit # Keep => f \in Limited)

\* checkGrantable: the patch gives nothing that the coach does not have.
Grantable(patch, coach) ==
    \A f \in DOMAIN patch : coach[f].applies =>
      /\ patch[f].enabled = "on" => coach[f].enabled
      /\ patch[f].limit <= coach[f].limit

-----------------------------------------------------------------------------
(* What the rules promise *)

ParentsRule(access) ==
    \A f \in Features : access[f].enabled /\ ParentOf[f] # NoFeature => access[ParentOf[f]].enabled

\* client has nothing that coach does not have.
Within(client, coach) ==
    \A f \in ClientFeatures : /\ client[f].enabled => coach[f].enabled
                              /\ client[f].limit <= coach[f].limit

=============================================================================
