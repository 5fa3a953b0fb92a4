-------------------------- MODULE LocalCacheProofs --------------------------
(***************************************************************************)
(* Proofs about LocalCache, for every number of goroutines, every set of   *)
(* keys and values and every limit: the type invariant, that no eviction   *)
(* request is lost, and that the entries counter never overstates.         *)
(***************************************************************************)
EXTENDS LocalCache, FiniteSetTheorems, TLAPS

\* What a goroutine carries from one critical section of its call to the next.
ThreadsKnow ==
  \A t \in Threads :
    /\ thread[t].pc \in {"read", "purge"} => thread[t].key \in Keys /\ thread[t].entry \in Entry
    /\ thread[t].pc = "index" => thread[t].key \in Keys /\ thread[t].val \in Values

\* The inductive invariant behind TypeOK.
TInv == TypeOK /\ ThreadsKnow

PCs == {"idle", "read", "purge", "index", "check"}
ThreadType == [pc : PCs, key : Keys \cup {EmptyKey}, val : Values \cup {NoEntry},
               entry : Entry \cup {NoEntry}]

\* A goroutine between two calls is well typed.
LEMMA IdleType == Idle \in ThreadType /\ Idle.pc = "idle"
BY DEF Idle, ThreadType, PCs

\* Moving one goroutine to a state of the right type keeps the types of all.
LEMMA MoveThread ==
  ASSUME thread \in [Threads -> ThreadType], ThreadsKnow, NEW t \in Threads,
         NEW r \in ThreadType, thread' = [thread EXCEPT ![t] = r],
         r.pc \in {"read", "purge"} => r.key \in Keys /\ r.entry \in Entry,
         r.pc = "index" => r.key \in Keys /\ r.val \in Values
  PROVE  thread' \in [Threads -> ThreadType] /\ ThreadsKnow'
BY DEF ThreadsKnow

\* The same for a step within a call.
LEMMA GotoThread ==
  ASSUME thread \in [Threads -> ThreadType], ThreadsKnow, NEW t \in Threads,
         NEW pc \in PCs, Goto(t, pc),
         pc \in {"read", "purge"} => thread[t].pc \in {"read", "purge"},
         pc = "index" => thread[t].pc = "index"
  PROVE  thread' \in [Threads -> ThreadType] /\ ThreadsKnow'
<1>1. thread' = [thread EXCEPT ![t] = [thread[t] EXCEPT !.pc = pc]]
  BY DEF Goto
<1>2. [thread[t] EXCEPT !.pc = pc] \in ThreadType
  BY DEF ThreadType
<1>3. thread[t] \in ThreadType
  OBVIOUS
<1>4. /\ [thread[t] EXCEPT !.pc = pc].pc = pc
      /\ [thread[t] EXCEPT !.pc = pc].key = thread[t].key
      /\ [thread[t] EXCEPT !.pc = pc].val = thread[t].val
      /\ [thread[t] EXCEPT !.pc = pc].entry = thread[t].entry
  BY <1>3 DEF ThreadType
<1> QED BY <1>1, <1>2, <1>4, MoveThread DEF ThreadsKnow

\* A call that returns leaves its goroutine idle.
LEMMA ReturnThread ==
  ASSUME thread \in [Threads -> ThreadType], ThreadsKnow, NEW t \in Threads, Return(t)
  PROVE  thread' \in [Threads -> ThreadType] /\ ThreadsKnow'
BY IdleType, MoveThread DEF Return

\* An entry takes a natural number of bytes.
LEMMA EntrySizeNat == ASSUME NEW e \in Entry PROVE EntrySize(e) \in Nat
BY LocalCacheAssumption DEF Entry, EntrySize

\* deleteEntry keeps the types of what it changes.
LEMMA DeleteType ==
  ASSUME TypeOK, NEW k, NEW e \in Entry, deleteEntry(k, e)
  PROVE  /\ DOMAIN index' \subseteq Keys /\ index' \in [DOMAIN index' -> Entry]
         /\ DOMAIN files' \subseteq Keys /\ files' \in [DOMAIN files' -> Values \cup {Torn}]
         /\ usedSize' \in Int
         /\ entries' \in Int
         /\ usedSize' <= usedSize
BY EntrySizeNat DEF TypeOK, deleteEntry, Without

\* Storing under a key keeps a map's type.
LEMMA WithType ==
  ASSUME NEW V, NEW m, DOMAIN m \subseteq Keys, m \in [DOMAIN m -> V],
         NEW k \in Keys, NEW v \in V
  PROVE  DOMAIN With(m, k, v) \subseteq Keys /\ With(m, k, v) \in [DOMAIN With(m, k, v) -> V]
BY DEF With

\* The type invariant and what goroutines carry is kept by every step.
LEMMA TInvStep == TInv /\ [Next]_vars => TInv'
<1> SUFFICES ASSUME TypeOK, ThreadsKnow, [Next]_vars
             PROVE  TypeOK' /\ ThreadsKnow'
  BY DEF TInv
<1> USE DEF loops, counters
<1>0. thread \in [Threads -> ThreadType]
  BY DEF TypeOK, ThreadType, PCs
<1>u. ASSUME thread' = thread PROVE thread' \in [Threads -> ThreadType] /\ ThreadsKnow'
  BY <1>0, <1>u DEF ThreadsKnow
<1>t. thread' \in [Threads -> ThreadType] =>
        thread' \in [Threads -> [pc : {"idle", "read", "purge", "index", "check"},
                             key : Keys \cup {EmptyKey},
                             val : Values \cup {NoEntry},
                             entry : Entry \cup {NoEntry}]]
  BY DEF ThreadType, PCs
<1>1. ASSUME NEW t \in Threads, NEW k \in Keys, GetLookup(t, k) PROVE TypeOK' /\ ThreadsKnow'
  <2> DEFINE r == [pc |-> IF index[k].expired THEN "purge" ELSE "read",
                   key |-> k, val |-> NoEntry, entry |-> index[k]]
  <2>1. index[k] \in Entry
    BY <1>1 DEF GetLookup, TypeOK
  <2>2. r \in ThreadType /\ r.key \in Keys /\ r.entry \in Entry /\ r.pc # "index"
    BY <2>1 DEF ThreadType, PCs
  <2>3. thread' = [thread EXCEPT ![t] = r]
    BY <1>1 DEF GetLookup
  <2>4. thread' \in [Threads -> ThreadType] /\ ThreadsKnow'
    <3> HIDE DEF r
    <3> QED BY <1>0, <2>2, <2>3, MoveThread
  <2> QED BY <1>1, <1>t, <2>4 DEF GetLookup, TypeOK
<1>2. ASSUME NEW t \in Threads, GetRead(t) PROVE TypeOK' /\ ThreadsKnow'
  <2>1. thread' \in [Threads -> ThreadType] /\ ThreadsKnow'
    BY <1>0, <1>2, ReturnThread, GotoThread DEF GetRead, PCs
  <2> QED BY <1>2, <1>t, <2>1 DEF GetRead, TypeOK
<1>3. ASSUME NEW t \in Threads, GetPurge(t) PROVE TypeOK' /\ ThreadsKnow'
  <2>1. thread' \in [Threads -> ThreadType] /\ ThreadsKnow'
    BY <1>0, <1>3, ReturnThread DEF GetPurge
  <2>2. thread[t].entry \in Entry
    BY <1>3 DEF GetPurge, ThreadsKnow
  <2> QED BY <1>3, <1>t, <2>1, <2>2, DeleteType DEF GetPurge, TypeOK
<1>4. ASSUME NEW t \in Threads, NEW k \in Keys, NEW v \in Values, SetWrite(t, k, v)
      PROVE  TypeOK' /\ ThreadsKnow'
  <2> DEFINE r == [pc |-> "index", key |-> k, val |-> v, entry |-> NoEntry]
  <2>1. r \in ThreadType /\ r.key \in Keys /\ r.val \in Values /\ r.pc = "index"
    BY DEF ThreadType, PCs
  <2>2. thread' = [thread EXCEPT ![t] = r]
    BY <1>4 DEF SetWrite
  <2>3. thread' \in [Threads -> ThreadType] /\ ThreadsKnow'
    <3> HIDE DEF r
    <3> QED BY <1>0, <2>1, <2>2, MoveThread
  <2>4. DOMAIN files' \subseteq Keys /\ files' \in [DOMAIN files' -> Values \cup {Torn}]
    BY <1>4, WithType DEF SetWrite, TypeOK
  <2> QED BY <1>4, <1>t, <2>3, <2>4 DEF SetWrite, TypeOK
<1>5. ASSUME NEW t \in Threads, NEW k \in Keys, SetWriteError(t, k) PROVE TypeOK' /\ ThreadsKnow'
  <2>1. DOMAIN files' \subseteq Keys /\ files' \in [DOMAIN files' -> Values \cup {Torn}]
    BY <1>5, WithType DEF SetWriteError, TypeOK
  <2> QED BY <1>5, <1>u, <1>t, <2>1 DEF SetWriteError, TypeOK
<1>6. ASSUME NEW t \in Threads, SetIndex(t) PROVE TypeOK' /\ ThreadsKnow'
  <2>1. thread' \in [Threads -> ThreadType] /\ ThreadsKnow'
    BY <1>0, <1>6, GotoThread DEF SetIndex, PCs
  <2>2. thread[t].key \in Keys /\ thread[t].val \in Values
    BY <1>6 DEF SetIndex, ThreadsKnow
  <2>3. [val |-> thread[t].val, expired |-> FALSE] \in Entry
    BY <2>2 DEF Entry
  <2>4. DOMAIN index' \subseteq Keys /\ index' \in [DOMAIN index' -> Entry]
    BY <1>6, <2>2, <2>3, WithType DEF SetIndex, TypeOK
  <2>5. usedSize' \in Int /\ entries' \in Int
    <3>1. Size[thread[t].val] \in Int
      BY <2>2, LocalCacheAssumption
    <3>2. thread[t].key \in DOMAIN index => EntrySize(index[thread[t].key]) \in Int
      BY EntrySizeNat DEF TypeOK
    <3> QED BY <1>6, <3>1, <3>2 DEF SetIndex, TypeOK
  <2> QED BY <1>6, <1>t, <2>1, <2>4, <2>5 DEF SetIndex, TypeOK
<1>7. ASSUME NEW t \in Threads, SetCheck(t) PROVE TypeOK' /\ ThreadsKnow'
  <2>1. thread' \in [Threads -> ThreadType] /\ ThreadsKnow'
    BY <1>0, <1>7, ReturnThread DEF SetCheck
  <2>2. evictCh' \in BOOLEAN
    BY <1>7 DEF SetCheck
  <2> QED BY <1>7, <1>t, <2>1, <2>2 DEF SetCheck, TypeOK
<1>8. ASSUME NEW k \in Keys, Delete(k) PROVE TypeOK' /\ ThreadsKnow'
  <2>1. index[k] \in Entry
    BY <1>8 DEF Delete, TypeOK
  <2> QED BY <1>8, <1>u, <1>t, <2>1, DeleteType DEF Delete, TypeOK
<1>9. ASSUME NEW k \in Keys, Expire(k) PROVE TypeOK' /\ ThreadsKnow'
  <2>1. index[k] \in Entry /\ [index[k] EXCEPT !.expired = TRUE] \in Entry
    BY <1>9 DEF Expire, TypeOK, Entry
  <2>2. index' = [index EXCEPT ![k] = [index[k] EXCEPT !.expired = TRUE]]
    BY <1>9 DEF Expire
  <2>3. DOMAIN index' \subseteq Keys /\ index' \in [DOMAIN index' -> Entry]
    BY <2>1, <2>2 DEF TypeOK
  <2> QED BY <1>9, <1>u, <1>t, <2>3 DEF Expire, TypeOK
<1>10. ASSUME Clear PROVE TypeOK' /\ ThreadsKnow'
  BY <1>10, <1>u, <1>t DEF Clear, TypeOK
<1>11. ASSUME ClearError PROVE TypeOK' /\ ThreadsKnow'
  <2>1. PICK K \in SUBSET DOMAIN files : files' = Without(files, K)
    BY <1>11 DEF ClearError
  <2>2. DOMAIN files' \subseteq Keys /\ files' \in [DOMAIN files' -> Values \cup {Torn}]
    BY <2>1 DEF Without, TypeOK
  <2> QED BY <1>11, <1>u, <1>t, <2>2 DEF ClearError, TypeOK
<1>12. ASSUME NEW k \in Keys, CleanupOne(k) \/ EvictOne(k) PROVE TypeOK' /\ ThreadsKnow'
  <2>1. index[k] \in Entry /\ deleteEntry(k, index[k])
    BY <1>12 DEF CleanupOne, EvictOne, TypeOK
  <2>2. UNCHANGED <<loops, thread>>
    BY <1>12 DEF CleanupOne, EvictOne
  <2> QED BY <2>1, <2>2, <1>u, <1>t, DeleteType DEF TypeOK
<1>13. ASSUME CleanupStart \/ CleanupDone PROVE TypeOK' /\ ThreadsKnow'
  BY <1>13, <1>u, <1>t DEF CleanupStart, CleanupDone, TypeOK
<1>14. ASSUME EvictReceive \/ EvictLock \/ EvictDone PROVE TypeOK' /\ ThreadsKnow'
  BY <1>14, <1>u, <1>t DEF EvictReceive, EvictLock, EvictDone, TypeOK
<1>15. ASSUME UNCHANGED vars PROVE TypeOK' /\ ThreadsKnow'
  BY <1>15, <1>u, <1>t DEF vars, TypeOK
<1> QED BY <1>1, <1>2, <1>3, <1>4, <1>5, <1>6, <1>7, <1>8, <1>9, <1>10, <1>11, <1>12, <1>13,
           <1>14, <1>15 DEF Next, Call, Evictor, Cleaner

\* The cache starts well typed.
LEMMA TInvInit == Init => TInv
<1> SUFFICES ASSUME Init PROVE TypeOK /\ ThreadsKnow
  BY DEF TInv
<1>1. thread \in [Threads -> ThreadType] /\ \A t \in Threads : thread[t].pc = "idle"
  BY IdleType DEF Init
<1>2. ThreadsKnow
  BY <1>1 DEF ThreadsKnow
<1>3. /\ DOMAIN index \subseteq Keys /\ index \in [DOMAIN index -> Entry]
      /\ DOMAIN files \subseteq Keys /\ files \in [DOMAIN files -> Values \cup {Torn}]
  BY DEF Init
<1>4. evictCh \in BOOLEAN /\ cleaning \in BOOLEAN
  BY DEF Init
<1>5. thread \in [Threads -> [pc : {"idle", "read", "purge", "index", "check"},
                             key : Keys \cup {EmptyKey},
                             val : Values \cup {NoEntry},
                             entry : Entry \cup {NoEntry}]]
  BY <1>1 DEF ThreadType, PCs
<1> QED BY <1>2, <1>3, <1>4, <1>5 DEF Init, TypeOK

\* Every state of the disk tier is well typed: in particular every goroutine
\* that is about to delete or to index an entry has one in its hands (local.go).
THEOREM TypeOKTheorem == Spec => []TypeOK
<1>1. TInv => TypeOK
  BY DEF TInv
<1> QED BY <1>1, TInvInit, TInvStep, PTL DEF Spec

-----------------------------------------------------------------------------
(* No eviction is lost. *)

\* The two thresholds: evict goes below the one that Set compares with.
LEMMA TargetBelowHigh == Target \in Int /\ High \in Int /\ Target <= High
BY LocalCacheAssumption DEF Target, High

\* A deletion can only make the cache less full.
LEMMA DeleteFrees ==
  ASSUME TypeOK, NEW k, NEW e \in Entry, deleteEntry(k, e), OverFull'
  PROVE  OverFull
<1>1. DOMAIN index' \subseteq DOMAIN index
  BY DEF deleteEntry, Without
<1>2. usedSize' <= usedSize /\ usedSize \in Int /\ usedSize' \in Int
  BY DeleteType DEF TypeOK
<1> QED BY <1>1, <1>2, TargetBelowHigh DEF OverFull

\* One step keeps NoLostEviction, given the types.
LEMMA NoLostEvictionStep == TInv /\ NoLostEviction /\ [Next]_vars => NoLostEviction'
<1> SUFFICES ASSUME TInv, NoLostEviction, [Next]_vars, OverFull'
             PROVE  evictCh' \/ evictor' # "idle" \/ \E t \in Threads : thread'[t].pc = "check"
  BY DEF NoLostEviction, OverFull, High
<1> USE DEF loops, counters
<1>0. /\ TypeOK /\ ThreadsKnow /\ thread \in [Threads -> ThreadType]
      /\ OverFull => evictCh \/ evictor # "idle" \/ \E t \in Threads : thread[t].pc = "check"
  BY DEF TInv, TypeOK, ThreadType, PCs, NoLostEviction
<1> DEFINE Goal == evictCh' \/ evictor' # "idle" \/ \E t \in Threads : thread'[t].pc = "check"
<1>i. ASSUME NEW t \in Threads, thread[t].pc # "check", NEW r, thread' = [thread EXCEPT ![t] = r],
             UNCHANGED <<evictCh, evictor>>, OverFull
      PROVE  Goal
  BY <1>0, <1>i
<1>1. ASSUME NEW t \in Threads, NEW k \in Keys, GetLookup(t, k) PROVE Goal
  BY <1>1, <1>i DEF GetLookup, OverFull
<1>2. ASSUME NEW t \in Threads, GetRead(t) PROVE Goal
  <2>1. OverFull
    BY <1>2 DEF GetRead, OverFull
  <2>2. PICK r : thread' = [thread EXCEPT ![t] = r]
    BY <1>2 DEF GetRead, Return, Goto
  <2> QED BY <1>2, <1>i, <2>1, <2>2 DEF GetRead
<1>3. ASSUME NEW t \in Threads, GetPurge(t) PROVE Goal
  <2>1. OverFull
    BY <1>0, <1>3, DeleteFrees DEF GetPurge, ThreadsKnow
  <2> QED BY <1>3, <1>i, <2>1 DEF GetPurge, Return
<1>4. ASSUME NEW t \in Threads, NEW k \in Keys, NEW v \in Values, SetWrite(t, k, v) PROVE Goal
  BY <1>4, <1>i DEF SetWrite, OverFull
<1>5. ASSUME NEW t \in Threads, NEW k \in Keys, SetWriteError(t, k) PROVE Goal
  BY <1>5, <1>0 DEF SetWriteError, OverFull
<1>6. ASSUME NEW t \in Threads, SetIndex(t) PROVE Goal
  <2>1. thread' = [thread EXCEPT ![t] = [thread[t] EXCEPT !.pc = "check"]] /\ thread[t] \in ThreadType
    BY <1>6, <1>0 DEF SetIndex, Goto
  <2>2. [thread[t] EXCEPT !.pc = "check"].pc = "check"
    BY <2>1 DEF ThreadType
  <2>3. thread'[t].pc = "check"
    BY <1>0, <2>1, <2>2
  <2> QED BY <2>3
<1>7. ASSUME NEW t \in Threads, SetCheck(t) PROVE Goal
  BY <1>7 DEF SetCheck, OverFull
<1>8. ASSUME NEW k \in Keys, Delete(k) \/ CleanupOne(k) \/ EvictOne(k) PROVE Goal
  <2>1. index[k] \in Entry /\ deleteEntry(k, index[k])
    BY <1>0, <1>8 DEF Delete, CleanupOne, EvictOne, TypeOK
  <2>2. OverFull
    BY <1>0, <2>1, DeleteFrees
  <2> QED BY <1>0, <1>8, <2>2 DEF Delete, CleanupOne, EvictOne
<1>9. ASSUME NEW k \in Keys, Expire(k) PROVE Goal
  <2>1. OverFull
    BY <1>9 DEF Expire, OverFull
  <2> QED BY <1>0, <1>9, <2>1 DEF Expire
<1>10. ASSUME Clear PROVE Goal
  <2>1. DOMAIN index' = {}
    BY <1>10 DEF Clear
  <2> QED BY <2>1 DEF OverFull
<1>11. ASSUME ClearError \/ CleanupStart \/ CleanupDone \/ UNCHANGED vars PROVE Goal
  BY <1>11, <1>0 DEF ClearError, CleanupStart, CleanupDone, vars, OverFull
<1>12. ASSUME EvictReceive \/ EvictLock PROVE Goal
  BY <1>12 DEF EvictReceive, EvictLock
<1>13. ASSUME EvictDone PROVE Goal
  <2>1. ~ OverFull'
    BY <1>13, <1>0, TargetBelowHigh DEF EvictDone, OverFull, TypeOK
  <2> QED BY <2>1
<1> QED BY <1>1, <1>2, <1>3, <1>4, <1>5, <1>6, <1>7, <1>8, <1>9, <1>10, <1>11, <1>12, <1>13
        DEF Next, Call, Evictor, Cleaner

\* An over-full cache always has an eviction coming, whatever calls interleave
\* and however full the channel is (local.go, Set and evictionLoop).
THEOREM NoLostEvictionTheorem == Spec => []NoLostEviction
<1>1. Init => NoLostEviction
  <2> SUFFICES ASSUME Init PROVE ~ OverFull
    BY DEF NoLostEviction
  <2>1. DOMAIN index = {}
    BY DEF Init
  <2> QED BY <2>1 DEF OverFull
<1> QED BY <1>1, TInvInit, TInvStep, NoLostEvictionStep, PTL DEF Spec

-----------------------------------------------------------------------------
(* The entries counter. *)

FiniteIndex == IsFiniteSet(DOMAIN index)

\* Without takes at most one entry away for one key, and none for an absent one.
LEMMA WithoutCardinality ==
  ASSUME NEW m, IsFiniteSet(DOMAIN m), NEW k
  PROVE  /\ IsFiniteSet(DOMAIN Without(m, {k}))
         /\ Cardinality(DOMAIN Without(m, {k})) \in Nat
         /\ Cardinality(DOMAIN m) \in Nat
         /\ Cardinality(DOMAIN m) - 1 <= Cardinality(DOMAIN Without(m, {k}))
<1>1. DOMAIN Without(m, {k}) = DOMAIN m \ {k}
  BY DEF Without
<1> QED BY <1>1, FS_RemoveElement, FS_CardinalityType

\* With adds one entry for a new key, and none for a known one.
LEMMA WithCardinality ==
  ASSUME NEW m, IsFiniteSet(DOMAIN m), NEW k, NEW v
  PROVE  /\ IsFiniteSet(DOMAIN With(m, k, v))
         /\ Cardinality(DOMAIN m) \in Nat
         /\ Cardinality(DOMAIN With(m, k, v)) =
              IF k \in DOMAIN m THEN Cardinality(DOMAIN m) ELSE Cardinality(DOMAIN m) + 1
<1>1. DOMAIN With(m, k, v) = DOMAIN m \cup {k}
  BY DEF With
<1> QED BY <1>1, FS_AddElement, FS_CardinalityType

\* A deletion takes one off the counter and at most one out of the index.
LEMMA DeleteCounts ==
  ASSUME TypeOK, FiniteIndex, EntriesNotOverstated, NEW k, NEW e, deleteEntry(k, e)
  PROVE  FiniteIndex' /\ EntriesNotOverstated'
<1>1. index' = Without(index, {k}) /\ entries' = entries - 1 /\ entries \in Int
  BY DEF TypeOK, deleteEntry
<1>2. /\ IsFiniteSet(DOMAIN index')
      /\ Cardinality(DOMAIN index') \in Nat /\ Cardinality(DOMAIN index) \in Nat
      /\ Cardinality(DOMAIN index) - 1 <= Cardinality(DOMAIN index')
  BY <1>1, WithoutCardinality DEF FiniteIndex
<1> QED BY <1>1, <1>2 DEF FiniteIndex, EntriesNotOverstated

\* One step keeps the counter below the size of the index.
LEMMA EntriesStep ==
  TInv /\ FiniteIndex /\ EntriesNotOverstated /\ [Next]_vars => FiniteIndex' /\ EntriesNotOverstated'
<1> SUFFICES ASSUME TypeOK, FiniteIndex, EntriesNotOverstated, [Next]_vars
             PROVE  FiniteIndex' /\ EntriesNotOverstated'
  BY DEF TInv
<1> USE DEF loops, counters
<1>1. ASSUME NEW t \in Threads, GetPurge(t) PROVE FiniteIndex' /\ EntriesNotOverstated'
  BY <1>1, DeleteCounts DEF GetPurge
<1>2. ASSUME NEW k \in Keys, Delete(k) \/ CleanupOne(k) \/ EvictOne(k)
      PROVE  FiniteIndex' /\ EntriesNotOverstated'
  BY <1>2, DeleteCounts DEF Delete, CleanupOne, EvictOne
<1>3. ASSUME NEW t \in Threads, SetIndex(t) PROVE FiniteIndex' /\ EntriesNotOverstated'
  <2>1. PICK k, v : /\ index' = With(index, k, v)
                    /\ entries' = IF k \in DOMAIN index THEN entries ELSE entries + 1
    BY <1>3 DEF SetIndex
  <2> QED BY <2>1, WithCardinality DEF TypeOK, FiniteIndex, EntriesNotOverstated
<1>4. ASSUME Clear PROVE FiniteIndex' /\ EntriesNotOverstated'
  <2>1. DOMAIN index' = {} /\ entries' = 0
    BY <1>4 DEF Clear
  <2> QED BY <2>1, FS_EmptySet DEF FiniteIndex, EntriesNotOverstated
<1>5. ASSUME NEW k \in Keys, Expire(k) PROVE FiniteIndex' /\ EntriesNotOverstated'
  <2>1. DOMAIN index' = DOMAIN index /\ entries' = entries
    BY <1>5 DEF Expire
  <2> QED BY <2>1 DEF FiniteIndex, EntriesNotOverstated
<1>6. ASSUME UNCHANGED <<index, entries>> PROVE FiniteIndex' /\ EntriesNotOverstated'
  BY <1>6 DEF FiniteIndex, EntriesNotOverstated
<1> QED BY <1>1, <1>2, <1>3, <1>4, <1>5, <1>6
        DEF Next, Call, Evictor, Cleaner, GetLookup, GetRead, SetWrite, SetWriteError, SetCheck,
            ClearError, CleanupStart, CleanupDone, EvictReceive, EvictLock, EvictDone, vars

\* The counter never claims an entry that the index does not have, although two
\* Gets may delete the same one (local.go, deleteEntry and Set).
THEOREM EntriesNotOverstatedTheorem == Spec => []EntriesNotOverstated
<1>1. Init => FiniteIndex /\ EntriesNotOverstated
  <2> SUFFICES ASSUME Init PROVE FiniteIndex /\ EntriesNotOverstated
    OBVIOUS
  <2>1. DOMAIN index = {} /\ entries = 0
    BY DEF Init
  <2> QED BY <2>1, FS_EmptySet DEF FiniteIndex, EntriesNotOverstated
<1> QED BY <1>1, TInvInit, TInvStep, EntriesStep, PTL DEF Spec
=============================================================================
