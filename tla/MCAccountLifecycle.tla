-------------------------- MODULE MCAccountLifecycle --------------------------
(***************************************************************************)
(* AccountLifecycle for TLC: the requests are interchangeable.              *)
(***************************************************************************)
EXTENDS AccountLifecycle, TLC

RequestSymmetry == Permutations(Requests)

=============================================================================
