---------------------------- MODULE MCClientSeats ----------------------------
(***************************************************************************)
(* One coach with a single seat, for TLC.                                    *)
(***************************************************************************)
EXTENDS ClientSeats, TLC

CONSTANT k1

MCLimits == k1 :> 1

MCRequests == Permutations(Requests)

=============================================================================
