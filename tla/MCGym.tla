--------------------------------- MODULE MCGym ---------------------------------
(***************************************************************************)
(* Gym for TLC: coaches, requests and invitations are interchangeable.      *)
(***************************************************************************)
EXTENDS Gym, TLC

GymSymmetry == Permutations(Coaches) \cup Permutations(GymRequests) \cup Permutations(Invites)

=============================================================================
