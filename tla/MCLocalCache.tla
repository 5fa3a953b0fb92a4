---------------------------- MODULE MCLocalCache ----------------------------
(* Small instances of LocalCache for TLC. *)
EXTENDS LocalCache, TLC

CONSTANTS small, large

\* The large value is the one that Set compresses.
MCSize == (small :> 1) @@ (large :> 2)
MCLargeSize == large :> 2
=============================================================================
