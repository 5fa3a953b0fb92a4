---------------------------- MODULE MCPrefixTree ----------------------------
(* Small instances of PrefixTree for TLC. *)
EXTENDS PrefixTree, TLC

Symmetry == Permutations(Writers) \cup Permutations(Tokens)
=============================================================================
