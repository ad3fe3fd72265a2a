--------------------------- MODULE MCResetPassword ---------------------------
(***************************************************************************)
(* ResetPassword for TLC.  One unit of the clock stands for the cooldown;  *)
(* the lockout and the validity of a code are equal, as in the code, and   *)
(* lie between the cooldown and the window.                                *)
(***************************************************************************)
EXTENDS ResetPassword, TLC

RequestSymmetry == Permutations(Requests)

=============================================================================
