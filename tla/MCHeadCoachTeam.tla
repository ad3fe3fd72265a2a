--------------------------- MODULE MCHeadCoachTeam ---------------------------
(***************************************************************************)
(* HeadCoachTeam for TLC: coaches and requests are interchangeable.         *)
(***************************************************************************)
EXTENDS HeadCoachTeam, TLC

TeamSymmetry == Permutations(Coaches) \cup Permutations(Requests)

=============================================================================
