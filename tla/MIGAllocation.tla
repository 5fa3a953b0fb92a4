--------------------------- MODULE MIGAllocation ---------------------------
(***************************************************************************)
(* The MIG manager as an implementation of Allocator.  The resources are   *)
(* the MIGInstanceInfo objects, identified by their place in the heap, and *)
(* not their IDs: IDs collide, see ReportedInstancesExclusive in Operator. *)
(***************************************************************************)
EXTENDS MIGManager

allocator == INSTANCE Allocator WITH Resources <- Refs, granted <- held

\* Whatever reconfigurations, cleanups and destructions come in between, the
\* calls of MIGManager are those of an exclusive allocator: Allocate answers
\* with objects nobody holds, and only the service's own Release takes them
\* away (mig.go, Allocate, Release, ConfigurePool, CleanupPool and
\* DestroyInstance).
ImplementsAllocator == allocator!Spec
=============================================================================
