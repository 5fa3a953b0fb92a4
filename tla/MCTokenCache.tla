---------------------------- MODULE MCTokenCache ----------------------------
(* Small instances of TokenCache for TLC. *)
EXTENDS TokenCache

CONSTANTS name

\* All TokenCaches have the same name, each in a namespace of its own.
MCNameOf == [c \in Caches |-> name]

Managed == [Valid |-> TRUE, Supported |-> TRUE, Redis |-> "managed", Local |-> "disk"]
External == [Valid |-> TRUE, Supported |-> TRUE, Redis |-> "external", Local |-> "none"]
Memcached == [Valid |-> TRUE, Supported |-> FALSE, Redis |-> "none", Local |-> "none"]
NoTiers == [Valid |-> FALSE, Supported |-> TRUE, Redis |-> "none", Local |-> "none"]
MCSpecs == {Managed, External, Memcached, NoTiers}
=============================================================================
