---------------------------- MODULE MCMPSManager ----------------------------
(* Small instances of MPSManager for TLC. *)
EXTENDS MPSManager, TLC

CONSTANTS p1, p2, g1, g2, g3

\* Two pools that share nothing.
MCDisjoint == (p1 :> {g1}) @@ (p2 :> {g2, g3})
=============================================================================
