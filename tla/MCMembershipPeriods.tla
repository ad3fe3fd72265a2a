------------------------- MODULE MCMembershipPeriods -------------------------
(***************************************************************************)
(* One coach, two head coaches and a gym, for TLC.                           *)
(***************************************************************************)
EXTENDS MembershipPeriods, TLC

MCSymmetry == Permutations(Heads) \cup Permutations(Requests)

=============================================================================
