---------------------------- MODULE MCMIGManager ----------------------------
(* Small instances of MIGManager for TLC. *)
EXTENDS MIGAllocation
=============================================================================
