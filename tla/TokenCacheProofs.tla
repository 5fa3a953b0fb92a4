-------------------------- MODULE TokenCacheProofs --------------------------
(***************************************************************************)
(* Proofs about TokenCache: its types, and the finalizer protocol of the   *)
(* TokenCache reconciler over a cache manager that knows caches by their   *)
(* bare names, for any TokenCaches, names, specs and number of faults.     *)
(***************************************************************************)
EXTENDS TokenCache, TLAPS

Protected(c) == c \in DOMAIN obj /\ obj[c].Finalizer

\* What the worker's position says about the object it works on: its copy is
\* current only while the object is stored; past the finalizer check the
\* object carries the finalizer; past ConfigureCache its name is configured,
\* and past CleanupCache it is not.
WorkerKnows ==
  /\ worker.pc # "idle" => worker.key \in Caches /\ worker.spec \in Specs
  /\ worker.pc # "idle" /\ worker.fresh => worker.key \in DOMAIN obj
  /\ worker.pc \in {"configure", "redis", "service", "storage"} => Protected(worker.key)
  /\ worker.pc \in {"redis", "service", "storage", "status"} =>
       NameOf[worker.key] \in DOMAIN caches
  /\ worker.pc = "dropFinalizer" => NameOf[worker.key] \notin DOMAIN caches

TInv == TypeOK /\ WorkerKnows /\ ConfiguredIsStored /\ NoOrphans

ObjectsOK == DOMAIN obj \subseteq Caches /\ obj \in [DOMAIN obj -> TokenCacheType]
CachesOK ==
  /\ DOMAIN caches \subseteq {NameOf[c] : c \in Caches}
  /\ caches \in [DOMAIN caches -> [owner : Caches, spec : Specs, healthy : BOOLEAN]]
OwnedOK == statefulSet \subseteq Caches /\ service \subseteq Caches /\ pvc \subseteq Caches
OutsideOK ==
  up \in BOOLEAN /\ writable \in BOOLEAN /\ dirs \subseteq {NameOf[c] : c \in Caches}
WorkerOK ==
  worker \in [pc : {"idle", "addFinalizer", "fail", "configure", "redis", "service",
                    "storage", "status", "cleanup", "dropFinalizer"},
              key : Caches \cup {NoCache}, spec : Specs \cup {NoSpec}, fresh : BOOLEAN]

\* The type invariant in parts, so that a step is asked only for what it changes.
LEMMA TypeParts ==
  TypeOK <=> ObjectsOK /\ OwnedOK /\ CachesOK /\ OutsideOK /\ WorkerOK /\ faults \in 0..MaxFaults
BY DEF TypeOK, ObjectsOK, OwnedOK, CachesOK, OutsideOK, WorkerOK

\* An idle worker is well typed.
LEMMA IdleOK == IdleWorker \in [pc : {"idle"}, key : {NoCache}, spec : {NoSpec}, fresh : BOOLEAN]
BY DEF IdleWorker

\* The worker's copy grows stale: its position stays.
LEMMA StaleFacts ==
  ASSUME WorkerOK, NEW c, Stale(c)
  PROVE  /\ WorkerOK'
         /\ worker'.pc = worker.pc /\ worker'.key = worker.key /\ worker'.spec = worker.spec
         /\ worker'.fresh => worker.fresh /\ worker.key # c
<1>1. CASE worker.key = c
  <2>1. worker' = [worker EXCEPT !.fresh = FALSE]
    BY <1>1 DEF Stale
  <2>. QED  BY <2>1 DEF WorkerOK
<1>2. CASE worker.key # c
  BY <1>2 DEF Stale, WorkerOK
<1>. QED  BY <1>1, <1>2

\* A fault that is counted keeps the count within its bound.
LEMMA FaultCounts ==
  ASSUME faults \in 0..MaxFaults, Fault \/ UNCHANGED faults
  PROVE  faults' \in 0..MaxFaults
BY TokenCacheAssumption DEF Fault

\* What is outside stays as it is.
LEMMA OutsideStays ==
  ASSUME OutsideOK, UNCHANGED outside
  PROVE  OutsideOK'
BY DEF OutsideOK, outside

\* Making a directory adds the name of a cache at most.
LEMMA MkdirKeepsOutside ==
  ASSUME OutsideOK, NEW c \in Caches, NEW spec,
         MkdirAll(NameOf[c], spec) \/ UNCHANGED dirs, UNCHANGED <<up, writable>>
  PROVE  OutsideOK'
BY DEF OutsideOK, MkdirAll

\* The operator starts with no object and an idle worker.
LEMMA InitTInv == Init => TInv
<1> SUFFICES ASSUME Init PROVE TInv
  OBVIOUS
<1>1. DOMAIN obj = {} /\ DOMAIN caches = {} /\ faults \in 0..MaxFaults
  BY TokenCacheAssumption DEF Init
<1>2. ObjectsOK /\ CachesOK
  BY <1>1 DEF Init, ObjectsOK, CachesOK
<1>3. OwnedOK /\ OutsideOK /\ WorkerOK
  BY DEF Init, OwnedOK, OutsideOK, WorkerOK, IdleWorker
<1>4. TypeOK
  BY <1>1, <1>2, <1>3, TypeParts
<1>5. WorkerKnows
  BY DEF Init, WorkerKnows, IdleWorker
<1>6. ConfiguredIsStored /\ NoOrphans
  BY <1>1 DEF Init, ConfiguredIsStored, NoOrphans
<1>. QED  BY <1>4, <1>5, <1>6 DEF TInv

-----------------------------------------------------------------------------
\* The invariant of the next state from its parts.
LEMMA NextParts ==
  ASSUME TInv, ObjectsOK', OwnedOK', CachesOK', OutsideOK', WorkerOK',
         Fault \/ UNCHANGED faults, WorkerKnows', ConfiguredIsStored', NoOrphans'
  PROVE  TInv'
<1>1. faults \in 0..MaxFaults
  BY TypeParts DEF TInv
<1>2. (faults \in 0..MaxFaults)'
  BY <1>1, FaultCounts
<1>3. (TypeOK <=> ObjectsOK /\ OwnedOK /\ CachesOK /\ OutsideOK /\ WorkerOK
                    /\ faults \in 0..MaxFaults)'
  BY TypeParts, PTL
<1>4. TypeOK'
  BY <1>2, <1>3
<1>. QED  BY <1>4 DEF TInv

\* No object changes, and the step creates nothing for one that is gone: what
\* is left to show is what the worker's new position claims.
LEMMA ObjectsStay ==
  ASSUME TInv, UNCHANGED obj, OutsideOK', CachesOK', ConfiguredIsStored', WorkerOK', WorkerKnows',
         Fault \/ UNCHANGED faults, NoOrphans'
  PROVE  TInv'
<1>1. ObjectsOK
  BY TypeParts DEF TInv
<1>2. ObjectsOK' /\ OwnedOK'
  BY <1>1 DEF ObjectsOK, OwnedOK, NoOrphans
<1>. QED  BY <1>1, <1>2, NextParts

\* The worker goes on or ends, and no object and no configuration changes.
LEMMA WorkerMoves ==
  ASSUME TInv, UNCHANGED <<obj, caches, outside>>, WorkerOK', WorkerKnows',
         Fault \/ UNCHANGED faults, NoOrphans'
  PROVE  TInv'
<1>1. CachesOK' /\ ConfiguredIsStored'
  BY TypeParts DEF TInv, CachesOK, ConfiguredIsStored
<1>2. OutsideOK'
  BY TypeParts, OutsideStays DEF TInv
<1>. QED  BY <1>1, <1>2, ObjectsStay

\* The reconcile ends without a write.
LEMMA WorkerEnds ==
  ASSUME TInv, UNCHANGED <<apiVars, caches, outside>>, worker' = IdleWorker,
         Fault \/ UNCHANGED faults
  PROVE  TInv'
<1>1. WorkerOK' /\ WorkerKnows' /\ NoOrphans'
  BY DEF WorkerOK, WorkerKnows, IdleWorker, TInv, NoOrphans, apiVars, ownedVars
<1>. QED  BY <1>1, WorkerMoves DEF apiVars

\* An object is stored that keeps the finalizer of the one before.
LEMMA ObjectWritten ==
  ASSUME TInv, NEW c \in DOMAIN obj, NEW new \in TokenCacheType,
         obj' = [obj EXCEPT ![c] = new], obj[c].Finalizer => new.Finalizer,
         worker' = IdleWorker \/ Stale(c), UNCHANGED <<ownedVars, caches, outside>>,
         Fault \/ UNCHANGED faults
  PROVE  TInv'
<1>1. ObjectsOK /\ OwnedOK /\ CachesOK /\ OutsideOK /\ WorkerOK
  BY TypeParts DEF TInv
<1>2. /\ DOMAIN obj' = DOMAIN obj /\ obj'[c] = new
      /\ \A d \in DOMAIN obj : d # c => obj'[d] = obj[d]
  OBVIOUS
<1>3. ObjectsOK'
  BY <1>1, <1>2 DEF ObjectsOK
<1>4. OwnedOK' /\ CachesOK' /\ OutsideOK'
  BY <1>1, OutsideStays DEF OwnedOK, CachesOK, ownedVars
<1>5. WorkerOK'
  <2>1. CASE worker' = IdleWorker
    BY <2>1, IdleOK DEF WorkerOK
  <2>2. CASE Stale(c)
    BY <1>1, <2>2, StaleFacts
  <2>. QED  BY <2>1, <2>2
<1>6. WorkerKnows'
  <2>1. CASE worker' = IdleWorker
    BY <2>1 DEF WorkerKnows, IdleWorker
  <2>2. CASE Stale(c)
    <3>1. /\ worker'.pc = worker.pc /\ worker'.key = worker.key /\ worker'.spec = worker.spec
          /\ worker'.fresh => worker.fresh
      BY <1>1, <2>2, StaleFacts
    <3>. QED  BY <1>2, <3>1 DEF WorkerKnows, TInv, Protected
  <2>. QED  BY <2>1, <2>2
<1>7. ConfiguredIsStored' /\ NoOrphans'
  BY <1>2 DEF TInv, ConfiguredIsStored, NoOrphans, ownedVars
<1>. QED  BY <1>3, <1>4, <1>5, <1>6, <1>7, NextParts

\* An object goes for which nothing is configured, and the worker does not
\* rely on it any more.
LEMMA ObjectGoes ==
  ASSUME TInv, NEW c \in DOMAIN obj, Remove(c),
         \A n \in DOMAIN caches : caches[n].owner # c,
         worker' = IdleWorker \/ (~ obj[c].Finalizer /\ Stale(c)),
         UNCHANGED <<caches, outside, faults>>
  PROVE  TInv'
<1>1. ObjectsOK /\ OwnedOK /\ CachesOK /\ OutsideOK /\ WorkerOK
  BY TypeParts DEF TInv
<1>2. /\ DOMAIN obj' = DOMAIN obj \ {c}
      /\ \A d \in DOMAIN obj \ {c} : obj'[d] = obj[d]
      /\ obj' = [d \in DOMAIN obj' |-> obj'[d]]
  BY DEF Remove, Without
<1>3. ObjectsOK'
  BY <1>1, <1>2 DEF ObjectsOK
<1>4. OwnedOK' /\ CachesOK' /\ OutsideOK'
  BY <1>1, OutsideStays DEF OwnedOK, CachesOK, Remove
<1>5. WorkerOK'
  <2>1. CASE worker' = IdleWorker
    BY <2>1, IdleOK DEF WorkerOK
  <2>2. CASE Stale(c)
    BY <1>1, <2>2, StaleFacts
  <2>. QED  BY <2>1, <2>2
<1>6. WorkerKnows'
  <2>1. CASE worker' = IdleWorker
    BY <2>1 DEF WorkerKnows, IdleWorker
  <2>2. CASE ~ obj[c].Finalizer /\ Stale(c)
    <3>1. /\ worker'.pc = worker.pc /\ worker'.key = worker.key /\ worker'.spec = worker.spec
          /\ worker'.fresh => worker.fresh /\ worker.key # c
      BY <1>1, <2>2, StaleFacts
    <3>. QED  BY <1>2, <2>2, <3>1 DEF WorkerKnows, TInv, Protected
  <2>. QED  BY <2>1, <2>2
<1>7. ConfiguredIsStored' /\ NoOrphans'
  BY <1>2 DEF TInv, ConfiguredIsStored, NoOrphans, Remove
<1>. QED  BY <1>3, <1>4, <1>5, <1>6, <1>7, NextParts

-----------------------------------------------------------------------------
\* Users create, edit and delete objects and what they own.
LEMMA UsersKeepTInv ==
  ASSUME TInv, NEW c \in Caches,
         DeleteCache(c) \/ DeleteOwned(c) \/ \E spec \in Specs : Create(c, spec) \/ Edit(c, spec)
  PROVE  TInv'
<1>0. ObjectsOK /\ OwnedOK /\ CachesOK /\ OutsideOK /\ WorkerOK
  BY TypeParts DEF TInv
<1>1. ASSUME NEW spec \in Specs, Create(c, spec) PROVE TInv'
  <2> DEFINE new == [Spec |-> spec, Finalizer |-> FALSE, Deleting |-> FALSE, Phase |-> ""]
  <2>1. obj' = With(obj, c, new) /\ c \notin DOMAIN obj
        /\ UNCHANGED <<ownedVars, caches, outside, worker, faults>>
    BY <1>1 DEF Create
  <2>2. new \in TokenCacheType
    BY DEF TokenCacheType
  <2>. HIDE DEF new
  <2>3. /\ DOMAIN obj' = DOMAIN obj \cup {c} /\ obj'[c] = new
        /\ \A d \in DOMAIN obj : obj'[d] = obj[d]
        /\ obj' = [d \in DOMAIN obj' |-> obj'[d]]
    BY <2>1 DEF With
  <2>4. ObjectsOK'
    BY <1>0, <2>2, <2>3 DEF ObjectsOK
  <2>5. OwnedOK' /\ CachesOK' /\ OutsideOK' /\ WorkerOK'
    BY <1>0, <2>1, OutsideStays DEF OwnedOK, CachesOK, WorkerOK, ownedVars
  <2>6. WorkerKnows'
    BY <2>1, <2>3 DEF WorkerKnows, TInv, Protected
  <2>7. ConfiguredIsStored' /\ NoOrphans'
    BY <2>1, <2>3 DEF TInv, ConfiguredIsStored, NoOrphans, ownedVars
  <2>. QED  BY <2>1, <2>4, <2>5, <2>6, <2>7, NextParts
<1>2. ASSUME NEW spec \in Specs, Edit(c, spec) PROVE TInv'
  <2>1. c \in DOMAIN obj /\ obj' = [obj EXCEPT ![c] = [obj[c] EXCEPT !.Spec = spec]] /\ Stale(c)
        /\ Fault /\ UNCHANGED <<ownedVars, caches, outside>>
    BY <1>2 DEF Edit
  <2>2. [obj[c] EXCEPT !.Spec = spec] \in TokenCacheType
        /\ [obj[c] EXCEPT !.Spec = spec].Finalizer = obj[c].Finalizer
    BY <1>0, <2>1 DEF ObjectsOK, TokenCacheType
  <2>. QED  BY <2>1, <2>2, ObjectWritten
<1>3. ASSUME DeleteCache(c) PROVE TInv'
  <2>1. c \in DOMAIN obj /\ Stale(c) /\ UNCHANGED <<caches, outside, faults>>
    BY <1>3 DEF DeleteCache
  <2>2. CASE obj[c].Finalizer
    <3>1. obj' = [obj EXCEPT ![c] = [obj[c] EXCEPT !.Deleting = TRUE]] /\ UNCHANGED ownedVars
      BY <1>3, <2>2 DEF DeleteCache
    <3>2. [obj[c] EXCEPT !.Deleting = TRUE] \in TokenCacheType
          /\ [obj[c] EXCEPT !.Deleting = TRUE].Finalizer = obj[c].Finalizer
      BY <1>0, <2>1 DEF ObjectsOK, TokenCacheType
    <3>. QED  BY <2>1, <3>1, <3>2, ObjectWritten
  <2>3. CASE ~ obj[c].Finalizer
    <3>1. Remove(c)
      BY <1>3, <2>3 DEF DeleteCache
    <3>2. \A n \in DOMAIN caches : caches[n].owner # c
      BY <2>3 DEF TInv, ConfiguredIsStored
    <3>. QED  BY <2>1, <2>3, <3>1, <3>2, ObjectGoes
  <2>. QED  BY <2>2, <2>3
<1>4. ASSUME DeleteOwned(c) PROVE TInv'
  <2>1. UNCHANGED <<obj, caches, outside, worker>> /\ Fault
    BY <1>4 DEF DeleteOwned
  <2>2. NoOrphans'
    BY <1>4 DEF DeleteOwned, TInv, NoOrphans
  <2>3. WorkerOK' /\ WorkerKnows'
    BY <1>0, <2>1 DEF TInv, WorkerOK, WorkerKnows, Protected
  <2>. QED  BY <2>1, <2>2, <2>3, WorkerMoves
<1>. QED  BY <1>1, <1>2, <1>3, <1>4

-----------------------------------------------------------------------------
\* The worker goes on to another step of the same reconcile.
LEMMA GotoFacts ==
  ASSUME WorkerOK, NEW pc \in {"redis", "service", "storage", "status", "fail", "dropFinalizer"},
         Goto(pc)
  PROVE  /\ WorkerOK'
         /\ worker'.pc = pc /\ worker'.key = worker.key /\ worker'.spec = worker.spec
         /\ worker'.fresh = worker.fresh
<1>1. worker' = [worker EXCEPT !.pc = pc]
  BY DEF Goto
<1>. QED  BY <1>1 DEF WorkerOK

\* A write of the worker from a current copy.
LEMMA WriteKeepsTInv ==
  ASSUME TInv, worker.pc # "idle", NEW new, WriteAndEnd(new),
         worker.key \in DOMAIN obj =>
           new \in TokenCacheType /\ (obj[worker.key].Finalizer => new.Finalizer)
  PROVE  TInv'
<1>1. worker.key \in DOMAIN obj /\ obj' = [obj EXCEPT ![worker.key] = new]
      /\ worker' = IdleWorker /\ UNCHANGED <<ownedVars, caches, outside, faults>>
  BY DEF WriteAndEnd, TInv, WorkerKnows
<1>. QED  BY <1>1, ObjectWritten

\* The steps of Reconcile that write the object.
LEMMA WritesKeepTInv ==
  ASSUME TInv, AddFinalizer \/ UpdateStatus \/ UpdateStatusWithError \/ WriteRefused
  PROVE  TInv'
<1>0. ObjectsOK /\ CachesOK /\ WorkerOK
  BY TypeParts DEF TInv
<1>1. CASE AddFinalizer
  <2> DEFINE new == [obj[worker.key] EXCEPT !.Finalizer = TRUE]
  <2>1. worker.pc = "addFinalizer" /\ WriteAndEnd(new)
    BY <1>1 DEF AddFinalizer
  <2>2. ASSUME worker.key \in DOMAIN obj PROVE new \in TokenCacheType /\ new.Finalizer
    BY <1>0, <2>2 DEF ObjectsOK, TokenCacheType
  <2>. QED  BY <2>1, <2>2, WriteKeepsTInv
<1>2. ASSUME NEW phase \in {"Ready", "Degraded", "Failed"}, worker.pc # "idle",
             WriteAndEnd([obj[worker.key] EXCEPT !.Phase = phase])
      PROVE  TInv'
  <2> DEFINE new == [obj[worker.key] EXCEPT !.Phase = phase]
  <2>1. ASSUME worker.key \in DOMAIN obj
        PROVE  new \in TokenCacheType /\ new.Finalizer = obj[worker.key].Finalizer
    BY <1>0, <2>1 DEF ObjectsOK, TokenCacheType
  <2>. QED  BY <1>2, <2>1, WriteKeepsTInv
<1>3. CASE UpdateStatus
  <2>1. worker.pc # "idle" /\ WriteAndEnd([obj[worker.key] EXCEPT !.Phase = PhaseOf(worker.key)])
    BY <1>3 DEF UpdateStatus
  <2>2. PhaseOf(worker.key) \in {"Ready", "Degraded", "Failed"}
    BY DEF PhaseOf
  <2>. QED  BY <1>2, <2>1, <2>2
<1>4. CASE UpdateStatusWithError
  BY <1>2, <1>4 DEF UpdateStatusWithError
<1>5. CASE WriteRefused
  BY <1>5, WorkerEnds DEF WriteRefused
<1>. QED  BY <1>1, <1>3, <1>4, <1>5

\* The steps of Reconcile that change the cache manager's table.
LEMMA TableKeepsTInv ==
  ASSUME TInv, ConfigureCache \/ CleanupCache
  PROVE  TInv'
<1>0. ObjectsOK /\ CachesOK /\ OutsideOK /\ WorkerOK
  BY TypeParts DEF TInv
<1>1. CASE ConfigureCache
  <2> DEFINE n == NameOf[worker.key]
             config == [owner |-> worker.key, spec |-> worker.spec,
                        healthy |-> PingAnswered(worker.spec)]
  <2>1. worker.pc = "configure" /\ caches' = With(caches, n, config) /\ Goto("redis")
        /\ MkdirAll(n, worker.spec) /\ UNCHANGED <<apiVars, up, writable, faults>>
    BY <1>1 DEF ConfigureCache
  <2>2. worker.key \in Caches /\ worker.spec \in Specs /\ Protected(worker.key)
    BY <2>1 DEF TInv, WorkerKnows
  <2>3. PingAnswered(worker.spec) \in BOOLEAN
    BY <1>0 DEF PingAnswered, OutsideOK
  <2>4. config \in [owner : Caches, spec : Specs, healthy : BOOLEAN] /\ config.owner = worker.key
    BY <2>2, <2>3
  <2>. HIDE DEF config
  <2>5. /\ DOMAIN caches' = DOMAIN caches \cup {n} /\ caches'[n] = config
        /\ \A m \in DOMAIN caches : m # n => caches'[m] = caches[m]
        /\ caches' = [m \in DOMAIN caches' |-> caches'[m]]
    BY <2>1 DEF With
  <2>6. CachesOK'
    BY <1>0, <2>2, <2>4, <2>5 DEF CachesOK
  <2>7. ConfiguredIsStored'
    BY <2>1, <2>2, <2>4, <2>5 DEF TInv, ConfiguredIsStored, Protected, apiVars
  <2>8. WorkerOK' /\ worker'.pc = "redis" /\ worker'.key = worker.key
        /\ worker'.spec = worker.spec /\ worker'.fresh = worker.fresh
    BY <1>0, <2>1, GotoFacts
  <2>9. WorkerKnows'
    BY <2>1, <2>2, <2>5, <2>8 DEF WorkerKnows, TInv, Protected, apiVars
  <2>10. NoOrphans'
    BY <2>1 DEF TInv, NoOrphans, apiVars, ownedVars
  <2>11. OutsideOK'
    BY <1>0, <2>1, <2>2, MkdirKeepsOutside
  <2>. QED  BY <2>1, <2>6, <2>7, <2>8, <2>9, <2>10, <2>11, ObjectsStay DEF apiVars
<1>2. CASE CleanupCache
  <2> DEFINE n == NameOf[worker.key]
  <2>1. worker.pc = "cleanup" /\ Goto("dropFinalizer")
        /\ UNCHANGED <<apiVars, up, writable, faults>>
        /\ (n \in DOMAIN caches => caches' = Without(caches, n))
        /\ (n \notin DOMAIN caches => caches' = caches)
        /\ (MkdirAll(n, caches[n].spec) \/ UNCHANGED dirs)
    BY <1>2 DEF CleanupCache
  <2>2. /\ DOMAIN caches' = DOMAIN caches \ {n}
        /\ \A m \in DOMAIN caches' : caches'[m] = caches[m]
        /\ caches' = [m \in DOMAIN caches' |-> caches'[m]]
    BY <1>0, <2>1 DEF Without, CachesOK
  <2>3. CachesOK'
    BY <1>0, <2>2 DEF CachesOK
  <2>4. ConfiguredIsStored'
    BY <2>1, <2>2 DEF TInv, ConfiguredIsStored, apiVars
  <2>5. WorkerOK' /\ worker'.pc = "dropFinalizer" /\ worker'.key = worker.key
        /\ worker'.spec = worker.spec /\ worker'.fresh = worker.fresh
    BY <1>0, <2>1, GotoFacts
  <2>6. WorkerKnows'
    BY <2>1, <2>2, <2>5 DEF WorkerKnows, TInv, apiVars
  <2>7. NoOrphans'
    BY <2>1 DEF TInv, NoOrphans, apiVars, ownedVars
  <2>8. OutsideOK'
    <3>1. worker.key \in Caches
      BY <2>1 DEF TInv, WorkerKnows
    <3>. QED  BY <1>0, <2>1, <3>1, MkdirKeepsOutside
  <2>. QED  BY <2>1, <2>3, <2>4, <2>5, <2>6, <2>7, <2>8, ObjectsStay DEF apiVars
<1>. QED  BY <1>1, <1>2

\* The steps of Reconcile that create what a TokenCache owns; they rely on the
\* object still being stored, although the worker's copy may be stale.
LEMMA OwnedKeepsTInv ==
  ASSUME TInv, ReconcileRedis \/ CreateRedisService \/ ReconcileLocalStorage
  PROVE  TInv'
<1>0. WorkerOK
  BY TypeParts DEF TInv
<1>1. ASSUME NEW pc \in {"service", "storage", "status"}, Goto(pc),
             worker.pc \in {"redis", "service", "storage"},
             statefulSet' \cup service' \cup pvc' \subseteq
               statefulSet \cup service \cup pvc \cup {worker.key},
             UNCHANGED <<obj, caches, outside>>, Fault \/ UNCHANGED faults
      PROVE  TInv'
  <2>1. worker.key \in Caches /\ worker.spec \in Specs /\ Protected(worker.key)
        /\ NameOf[worker.key] \in DOMAIN caches
    BY <1>1 DEF TInv, WorkerKnows
  <2>2. WorkerOK' /\ worker'.pc = pc /\ worker'.key = worker.key
        /\ worker'.spec = worker.spec /\ worker'.fresh = worker.fresh
    BY <1>0, <1>1, GotoFacts
  <2>3. WorkerKnows'
    BY <1>1, <2>1, <2>2 DEF WorkerKnows, Protected
  <2>4. NoOrphans'
    BY <1>1, <2>1 DEF TInv, NoOrphans, Protected
  <2>. QED  BY <1>1, <2>2, <2>3, <2>4, WorkerMoves
<1>2. CASE ReconcileRedis
  <2>1. UNCHANGED <<obj, service, pvc, caches, outside>> /\ worker.pc = "redis"
        /\ statefulSet' \subseteq statefulSet \cup {worker.key}
        /\ (Goto("service") \/ Goto("storage")) /\ (Fault \/ UNCHANGED faults)
    BY <1>2 DEF ReconcileRedis
  <2>. QED  BY <1>1, <2>1
<1>3. CASE CreateRedisService
  <2>1. UNCHANGED <<obj, statefulSet, pvc, caches, outside>> /\ worker.pc = "service"
        /\ service' \subseteq service \cup {worker.key}
        /\ Goto("storage") /\ (Fault \/ UNCHANGED faults)
    BY <1>3 DEF CreateRedisService
  <2>. QED  BY <1>1, <2>1
<1>4. CASE ReconcileLocalStorage
  <2>1. UNCHANGED <<obj, statefulSet, service, caches, outside>> /\ worker.pc = "storage"
        /\ pvc' \subseteq pvc \cup {worker.key}
        /\ Goto("status") /\ (Fault \/ UNCHANGED faults)
    BY <1>4 DEF ReconcileLocalStorage
  <2>. QED  BY <1>1, <2>1
<1>. QED  BY <1>2, <1>3, <1>4

\* The first read, the error of ConfigureCache, and the end of a deletion.
LEMMA OtherStepsKeepTInv ==
  ASSUME TInv, (\E c \in Caches : Fetch(c)) \/ ConfigureCacheError \/ DropFinalizer
  PROVE  TInv'
<1>0. ObjectsOK /\ WorkerOK
  BY TypeParts DEF TInv
<1>1. ASSUME NEW c \in Caches, Fetch(c) PROVE TInv'
  <2> DEFINE pc == StepAfter(obj[c])
  <2>1. c \in DOMAIN obj /\ UNCHANGED <<apiVars, caches, outside, faults>>
        /\ worker' = [pc |-> pc, key |-> c, spec |-> obj[c].Spec, fresh |-> TRUE]
    BY <1>1 DEF Fetch
  <2>2. obj[c].Spec \in Specs
    BY <1>0, <2>1 DEF ObjectsOK, TokenCacheType
  <2>3. pc \in {"cleanup", "addFinalizer", "fail", "configure"}
        /\ (pc = "configure" => obj[c].Finalizer)
    BY DEF StepAfter
  <2>. HIDE DEF pc
  <2>4. WorkerOK'
    BY <2>1, <2>2, <2>3 DEF WorkerOK
  <2>5. WorkerKnows'
    BY <2>1, <2>2, <2>3 DEF WorkerKnows, Protected, apiVars
  <2>6. NoOrphans'
    BY <2>1 DEF TInv, NoOrphans, apiVars, ownedVars
  <2>. QED  BY <2>1, <2>4, <2>5, <2>6, WorkerMoves DEF apiVars
<1>2. CASE ConfigureCacheError
  <2>1. worker.pc = "configure" /\ Goto("fail") /\ UNCHANGED <<apiVars, caches, outside, faults>>
    BY <1>2 DEF ConfigureCacheError
  <2>2. WorkerOK' /\ worker'.pc = "fail" /\ worker'.key = worker.key
        /\ worker'.spec = worker.spec /\ worker'.fresh = worker.fresh
    BY <1>0, <2>1, GotoFacts
  <2>3. WorkerKnows' /\ NoOrphans'
    BY <2>1, <2>2 DEF TInv, WorkerKnows, NoOrphans, apiVars, ownedVars
  <2>. QED  BY <2>1, <2>2, <2>3, WorkerMoves DEF apiVars
<1>3. CASE DropFinalizer
  <2>1. worker.key \in DOMAIN obj /\ NameOf[worker.key] \notin DOMAIN caches
        /\ Remove(worker.key) /\ worker' = IdleWorker /\ UNCHANGED <<caches, outside, faults>>
    BY <1>3 DEF DropFinalizer, TInv, WorkerKnows
  <2>2. \A n \in DOMAIN caches : caches[n].owner # worker.key
    BY <2>1 DEF TInv, ConfiguredIsStored
  <2>. QED  BY <2>1, <2>2, ObjectGoes
<1>. QED  BY <1>1, <1>2, <1>3

\* Redis and the local directories come and go, health checks see Redis, and the
\* operator is restarted.
LEMMA EnvironmentKeepsTInv ==
  ASSUME TInv,
         \/ RedisUpOrDown \/ WritableOrNot \/ Restart
         \/ \E c \in Caches : HealthCheck(NameOf[c]) \/ DirectoryLost(NameOf[c])
  PROVE  TInv'
<1>0. ObjectsOK /\ OwnedOK /\ CachesOK /\ OutsideOK /\ WorkerOK
  BY TypeParts DEF TInv
<1>1. ASSUME RedisUpOrDown \/ WritableOrNot \/ \E n : DirectoryLost(n) PROVE TInv'
  <2>1. UNCHANGED <<apiVars, caches, worker>> /\ (Fault \/ UNCHANGED faults)
    BY <1>1 DEF RedisUpOrDown, WritableOrNot, DirectoryLost
  <2>2. OutsideOK'
    BY <1>0, <1>1 DEF OutsideOK, RedisUpOrDown, WritableOrNot, DirectoryLost
  <2>3. ObjectsOK' /\ OwnedOK' /\ CachesOK' /\ WorkerOK'
    BY <1>0, <2>1 DEF ObjectsOK, OwnedOK, CachesOK, WorkerOK, apiVars, ownedVars
  <2>4. WorkerKnows' /\ ConfiguredIsStored' /\ NoOrphans'
    BY <2>1 DEF TInv, WorkerKnows, Protected, ConfiguredIsStored, NoOrphans, apiVars, ownedVars
  <2>. QED  BY <2>1, <2>2, <2>3, <2>4, NextParts
<1>2. ASSUME NEW n \in DOMAIN caches, HealthCheck(n) PROVE TInv'
  <2> DEFINE config == [caches[n] EXCEPT !.healthy = PingAnswered(caches[n].spec)]
  <2>1. caches' = [caches EXCEPT ![n] = config] /\ UNCHANGED <<apiVars, outside, worker, faults>>
    BY <1>2 DEF HealthCheck
  <2>2. PingAnswered(caches[n].spec) \in BOOLEAN
    BY <1>0 DEF PingAnswered, OutsideOK
  <2>3. config \in [owner : Caches, spec : Specs, healthy : BOOLEAN]
        /\ config.owner = caches[n].owner
    BY <1>0, <2>2 DEF CachesOK
  <2>. HIDE DEF config
  <2>4. DOMAIN caches' = DOMAIN caches /\ caches'[n] = config
        /\ \A m \in DOMAIN caches : m # n => caches'[m] = caches[m]
    BY <2>1
  <2>5. CachesOK'
    BY <1>0, <2>1, <2>3 DEF CachesOK
  <2>6. WorkerOK' /\ NoOrphans'
    BY <1>0, <2>1 DEF WorkerOK, TInv, NoOrphans, apiVars, ownedVars
  <2>7. WorkerKnows'
    BY <2>1, <2>4 DEF TInv, WorkerKnows, Protected, apiVars
  <2>8. ConfiguredIsStored'
    BY <2>1, <2>3, <2>4 DEF TInv, ConfiguredIsStored, apiVars
  <2>9. OutsideOK'
    BY <1>0, <2>1, OutsideStays
  <2>. QED  BY <2>1, <2>5, <2>6, <2>7, <2>8, <2>9, ObjectsStay DEF apiVars
<1>3. CASE Restart
  <2>1. UNCHANGED <<apiVars, outside>> /\ DOMAIN caches' = {} /\ caches' = <<>>
        /\ worker' = IdleWorker /\ Fault
    BY <1>3 DEF Restart
  <2>2. CachesOK' /\ ConfiguredIsStored'
    BY <2>1 DEF CachesOK, ConfiguredIsStored
  <2>3. WorkerOK' /\ WorkerKnows'
    BY <2>1, IdleOK DEF WorkerOK, WorkerKnows, IdleWorker
  <2>4. NoOrphans'
    BY <2>1 DEF TInv, NoOrphans, apiVars, ownedVars
  <2>5. OutsideOK'
    BY <1>0, <2>1, OutsideStays
  <2>. QED  BY <2>1, <2>2, <2>3, <2>4, <2>5, ObjectsStay DEF apiVars
<1>4. ASSUME NEW c \in Caches, HealthCheck(NameOf[c]) PROVE TInv'
  BY <1>2, <1>4 DEF HealthCheck
<1>. QED  BY <1>1, <1>3, <1>4

-----------------------------------------------------------------------------
\* The invariant is inductive: every step of the reconciler, of users, of the
\* cluster and of Redis keeps it.
LEMMA NextTInv == TInv /\ [Next]_vars => TInv'
<1> SUFFICES ASSUME TInv, [Next]_vars PROVE TInv'
  OBVIOUS
<1>1. CASE Controller
  BY <1>1, WritesKeepTInv, TableKeepsTInv, OwnedKeepsTInv, OtherStepsKeepTInv DEF Controller
<1>2. CASE Users
  BY <1>2, UsersKeepTInv DEF Users
<1>3. CASE \/ RedisUpOrDown \/ WritableOrNot \/ Restart
           \/ \E c \in Caches : HealthCheck(NameOf[c]) \/ DirectoryLost(NameOf[c])
  BY <1>3, EnvironmentKeepsTInv
<1>4. CASE UNCHANGED vars
  <2>1. UNCHANGED <<obj, statefulSet, service, pvc, caches, outside, worker, faults>>
    BY <1>4 DEF vars, apiVars, ownedVars
  <2>2. WorkerOK
    BY TypeParts DEF TInv
  <2>3. WorkerOK' /\ WorkerKnows' /\ NoOrphans'
    BY <2>1, <2>2 DEF TInv, WorkerOK, WorkerKnows, Protected, NoOrphans
  <2>. QED  BY <2>1, <2>3, WorkerMoves
<1>. QED  BY <1>1, <1>2, <1>3, <1>4 DEF Next

\* The inductive invariant holds in every state of every behaviour.
LEMMA SpecTInv == Spec => []TInv
BY InitTInv, NextTInv, PTL DEF Spec

\* The state of the TokenCache reconciler and of the cache manager's table is
\* well typed, for any TokenCaches and specs.
THEOREM TypeOKTheorem == Spec => []TypeOK
<1>1. TInv => TypeOK
  BY DEF TInv
<1>. QED  BY <1>1, SpecTInv, PTL

\* No cache of the cache manager outlives the TokenCache it was configured for,
\* for any TokenCaches and any names they share (Reconcile, handleDeletion).
THEOREM ConfiguredIsStoredTheorem == Spec => []ConfiguredIsStored
<1>1. TInv => ConfiguredIsStored
  BY DEF TInv
<1>. QED  BY <1>1, SpecTInv, PTL

\* Nothing that was created for a TokenCache outlives it (reconcileRedis,
\* createRedisService and reconcileLocalStorage).
THEOREM NoOrphansTheorem == Spec => []NoOrphans
<1>1. TInv => NoOrphans
  BY DEF TInv
<1>. QED  BY <1>1, SpecTInv, PTL
=============================================================================
