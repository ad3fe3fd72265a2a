-------------------------- MODULE MCTaxRegistration --------------------------
(***************************************************************************)
(* TaxRegistration for TLC.                                                  *)
(***************************************************************************)
EXTENDS TaxRegistration, TLC

MCSymmetry == Permutations(Applicants) \cup Permutations(Numbers)

=============================================================================
