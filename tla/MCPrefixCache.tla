---------------------------- MODULE MCPrefixCache ----------------------------
(* Small instances of PrefixCache for TLC. *)
EXTENDS PrefixCache, TLC

Symmetry == Permutations(Threads) \cup Permutations(Keys)
=============================================================================
