--------------------------- MODULE MCUsageCounters ---------------------------
(***************************************************************************)
(* The messages of a month and the two counters of the storage, for TLC.     *)
(***************************************************************************)
EXTENDS UsageCounters, TLC

CONSTANTS messages, uploads, bytes

MCLimits == (messages :> 2) @@ (bytes :> 2)
\* A message, and an upload of two bytes; the number of uploads has no limit here.
MCUses == {messages :> 1, (uploads :> 1) @@ (bytes :> 2)}

MCRequests == Permutations(Requests)

=============================================================================
