---------------------------- MODULE MCStatusGate ----------------------------
(***************************************************************************)
(* StatusGate for TLC.  No symmetry: the instance checks liveness.           *)
(***************************************************************************)
EXTENDS StatusGate, TLC

CONSTANTS u1, u2, q1, q2

\* Two requests race over one account, and one of them may be for the other account.
MCTokens == (q1 :> {u1}) @@ (q2 :> {u1, u2})

=============================================================================
