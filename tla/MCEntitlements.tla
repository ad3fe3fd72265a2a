--------------------------- MODULE MCEntitlements ---------------------------
(***************************************************************************)
(* Entitlements for TLC: a master switch with a limit, its child, and a      *)
(* feature that only coaches have.                                           *)
(***************************************************************************)
EXTENDS Entitlements, TLC

CONSTANTS workouts, exercises, invitations

MCParentOf == (workouts :> NoFeature) @@ (exercises :> workouts) @@ (invitations :> NoFeature)

\* The parent is switched off and limited, its child switched on: the child stays off, and once the
\* coach's access is like this the patch gives a client more than the coach has.  The other one is for
\* coaches only: two writes of a coach's grant can be told apart by it.
MCSwitchOff == (workouts :> [enabled |-> "off", limit |-> 0]) @@ (exercises :> [enabled |-> "on", limit |-> Keep])
MCDefaultPatches == {MCSwitchOff}
MCPatches == {MCSwitchOff, invitations :> [enabled |-> "on", limit |-> Keep]}

=============================================================================
