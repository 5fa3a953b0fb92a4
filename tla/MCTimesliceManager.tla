------------------------- MODULE MCTimesliceManager -------------------------
(* Small instances of TimesliceManager for TLC. *)
EXTENDS TimesliceManager, TLC

CONSTANTS p1, g1, g2

\* Weights -1, 1 and, by overflow, the least int32.
MCPriorities == {-2, 0, 3}

MCTwoGPUs == p1 :> {g1, g2}
=============================================================================
