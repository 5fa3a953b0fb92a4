--------------------------- MODULE MCCacheManager ---------------------------
(* Small instances of CacheManager for TLC. *)
EXTENDS CacheManager, TLC

Symmetry == Permutations(Callers)
=============================================================================
