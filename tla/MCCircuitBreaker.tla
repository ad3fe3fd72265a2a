--------------------------- MODULE MCCircuitBreaker ---------------------------
(***************************************************************************)
(* Three calls at a time and a low threshold, for TLC.                       *)
(***************************************************************************)
EXTENDS CircuitBreaker

=============================================================================
