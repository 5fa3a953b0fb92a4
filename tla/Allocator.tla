----------------------------- MODULE Allocator -----------------------------
(***************************************************************************)
(* What an allocator of exclusive resources promises its users, apart from *)
(* how it keeps its books: a resource that is granted was free, and it     *)
(* stays with the service until the service asks for its release.  No      *)
(* other call takes anything away.  (internal/gpu: Manager's Allocate and  *)
(* Release.)                                                               *)
(***************************************************************************)
CONSTANTS Services, Resources

VARIABLE granted  \* what each service has been granted and has not released

Init == granted = [s \in Services |-> {}]

Free == Resources \ UNION {granted[s] : s \in Services}

\* A request is answered with free resources, none of which it had before.
Grant(s, R) ==
  /\ R \subseteq Free
  /\ granted' = [granted EXCEPT ![s] = granted[s] \cup R]

\* A release gives back all the service has.
Revoke(s) == granted' = [granted EXCEPT ![s] = {}]

Next == \E s \in Services : Revoke(s) \/ \E R \in SUBSET Free : Grant(s, R)

Spec == Init /\ [][Next]_granted
=============================================================================
