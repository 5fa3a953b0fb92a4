----------------------------- MODULE TokenCache -----------------------------
(***************************************************************************)
(* internal/controller/tokencache_controller.go: the TokenCache            *)
(* reconciler, with the table of configured caches of the cache manager    *)
(* (internal/cache/manager.go) and the health of their Redis and local     *)
(* tiers (internal/cache/redis.go and local.go).                           *)
(*                                                                         *)
(* TokenCaches are namespaced; the cache manager knows a cache by its      *)
(* metadata.name only.  The API server, the users and the faults are those *)
(* of module Operator: one worker, a Reconcile is one action per call that *)
(* reads or writes something shared, and a write from a copy that is not   *)
(* current any more is refused.                                            *)
(***************************************************************************)
EXTENDS Naturals

CONSTANTS Caches,     \* namespace/name of TokenCaches
          NameOf,     \* their metadata.name
          Specs,      \* the specs users give them
          MaxFaults,  \* bound: restarts, failing calls, edits and deletions,
                      \* changes of the local file system
          NoCache, NoSpec

\* Valid: validateSpec accepts it.  Supported: createTier knows all its tier
\* types.  Redis: no Redis tier, one with an external endpoint, or one that the
\* operator has to run.  Local: no local tier, a RAM disk, or one on a volume.
SpecType == [Valid : BOOLEAN, Supported : BOOLEAN, Redis : {"none", "external", "managed"},
             Local : {"none", "ram", "disk"}]

ASSUME TokenCacheAssumption ==
  /\ NameOf \in [Caches -> {NameOf[c] : c \in Caches}]
  /\ Specs \subseteq SpecType
  /\ MaxFaults \in Nat
  /\ NoCache \notin Caches

VARIABLES obj,         \* the TokenCache stored under each name
          statefulSet, \* the TokenCaches with a Redis StatefulSet
          service,     \* with a headless Service for it
          pvc,         \* with a PersistentVolumeClaim
          caches,      \* m.caches of the cache manager
          up,          \* the Redis server answers a ping
          writable,    \* directories can be made where the local tiers are
          dirs,        \* the names of caches whose local tier has its directory
          worker,
          faults

ownedVars == <<statefulSet, service, pvc>>
apiVars == <<obj, ownedVars>>
outside == <<up, writable, dirs>>
vars == <<apiVars, caches, outside, worker, faults>>

TokenCacheType == [Spec : Specs, Finalizer : BOOLEAN, Deleting : BOOLEAN,
                   Phase : {"", "Ready", "Degraded", "Failed"}]

IdleWorker == [pc |-> "idle", key |-> NoCache, spec |-> NoSpec, fresh |-> FALSE]

Fault == faults < MaxFaults /\ faults' = faults + 1

\* m[k] = v, and delete(m, k).
With(m, k, v) == [j \in DOMAIN m \cup {k} |-> IF j = k THEN v ELSE m[j]]
Without(m, k) == [j \in DOMAIN m \ {k} |-> m[j]]

Init ==
  /\ obj = <<>>
  /\ statefulSet = {} /\ service = {} /\ pvc = {}
  /\ caches = <<>>
  /\ up \in BOOLEAN /\ writable = TRUE /\ dirs = {}
  /\ worker = IdleWorker
  /\ faults = 0

-----------------------------------------------------------------------------
\* Users and the cluster.
Stale(c) == worker' = IF worker.key = c THEN [worker EXCEPT !.fresh = FALSE] ELSE worker

Create(c, spec) ==
  /\ c \notin DOMAIN obj
  /\ obj' = With(obj, c, [Spec |-> spec, Finalizer |-> FALSE, Deleting |-> FALSE, Phase |-> ""])
  /\ UNCHANGED <<ownedVars, caches, outside, worker, faults>>

Edit(c, spec) ==
  /\ c \in DOMAIN obj
  /\ ~ obj[c].Deleting
  /\ obj[c].Spec # spec
  /\ Fault
  /\ obj' = [obj EXCEPT ![c].Spec = spec]
  /\ Stale(c)
  /\ UNCHANGED <<ownedVars, caches, outside>>

\* The object goes, and what it owns with it.
Remove(c) ==
  /\ obj' = Without(obj, c)
  /\ statefulSet' = statefulSet \ {c}
  /\ service' = service \ {c}
  /\ pvc' = pvc \ {c}

DeleteCache(c) ==
  /\ c \in DOMAIN obj
  /\ ~ obj[c].Deleting
  /\ IF obj[c].Finalizer
     THEN obj' = [obj EXCEPT ![c].Deleting = TRUE] /\ UNCHANGED ownedVars
     ELSE Remove(c)
  /\ Stale(c)
  /\ UNCHANGED <<caches, outside, faults>>

\* Somebody deletes what the operator has created.
DeleteOwned(c) ==
  /\ Fault
  /\ \/ c \in statefulSet /\ statefulSet' = statefulSet \ {c} /\ UNCHANGED pvc
     \/ c \in pvc /\ pvc' = pvc \ {c} /\ UNCHANGED statefulSet
  /\ UNCHANGED <<obj, service, caches, outside, worker>>

RedisUpOrDown ==
  /\ up' = ~ up
  /\ UNCHANGED <<apiVars, caches, writable, dirs, worker, faults>>

\* The operator dies and starts again with an empty cache manager.
Restart ==
  /\ Fault
  /\ caches' = <<>>
  /\ worker' = IdleWorker
  /\ UNCHANGED <<apiVars, outside>>

\* The directory of a local tier goes: somebody removes it, or the container
\* starts again and it was on no volume.
DirectoryLost(n) ==
  /\ Fault
  /\ n \in dirs
  /\ dirs' = dirs \ {n}
  /\ UNCHANGED <<apiVars, caches, up, writable, worker>>

\* The file system of the local tiers turns read-only, or turns out to be (as
\* the root of the manager's container is), or is mounted to be written again.
WritableOrNot ==
  /\ Fault
  /\ writable' = ~ writable
  /\ UNCHANGED <<apiVars, caches, up, dirs, worker>>

-----------------------------------------------------------------------------
\* What a ping of the Redis tier would say; without one there is nothing to
\* be unhealthy.
PingAnswered(spec) == spec.Redis = "none" \/ up

\* os.MkdirAll on the directory of a local tier; that it fails is only logged,
\* by initialize and by the caller of Clear alike.
MkdirAll(n, spec) ==
  dirs' = IF spec.Local # "none" /\ writable THEN dirs \cup {n} ELSE dirs

\* Healthy of every tier of a configured cache: the Redis tier says what its
\* last ping said, the local tier looks for its directory, and a prefix tier
\* is always healthy.
TiersHealthy(n) ==
  caches[n].healthy /\ (caches[n].spec.Local # "none" => n \in dirs)

\* healthCheckLoop of the Redis tier of a configured cache.
HealthCheck(n) ==
  /\ n \in DOMAIN caches
  /\ caches' = [caches EXCEPT ![n].healthy = PingAnswered(caches[n].spec)]
  /\ UNCHANGED <<apiVars, outside, worker, faults>>

\* Mutant of StepAfter: the cache is configured before there is a finalizer.
StepAfterNoFinalizer(o) ==
  CASE o.Deleting                     -> "cleanup"
    [] ~ o.Deleting /\ ~ o.Spec.Valid -> "fail"
    [] OTHER                          -> "configure"

\* Reconcile, up to the first call that is not a read; validateSpec included.
StepAfter(o) ==
  CASE o.Deleting                                      -> "cleanup"
    [] ~ o.Deleting /\ ~ o.Finalizer                   -> "addFinalizer"
    [] ~ o.Deleting /\ o.Finalizer /\ ~ o.Spec.Valid   -> "fail"
    [] OTHER                                           -> "configure"

Fetch(c) ==
  /\ worker.pc = "idle"
  /\ c \in DOMAIN obj
  /\ worker' = [pc |-> StepAfter(obj[c]), key |-> c, spec |-> obj[c].Spec, fresh |-> TRUE]
  /\ UNCHANGED <<apiVars, caches, outside, faults>>

Goto(pc) == worker' = [worker EXCEPT !.pc = pc]

\* A write of the object from the worker's copy, then the end of Reconcile.
WriteAndEnd(new) ==
  /\ worker.fresh
  /\ obj' = [obj EXCEPT ![worker.key] = new]
  /\ worker' = IdleWorker
  /\ UNCHANGED <<ownedVars, caches, outside, faults>>

\* The write is refused or fails; Reconcile ends and comes again.
WriteRefused ==
  /\ worker.pc \in {"addFinalizer", "status", "fail", "dropFinalizer"}
  /\ \/ ~ worker.fresh /\ UNCHANGED faults
     \/ worker.fresh /\ Fault
  /\ worker' = IdleWorker
  /\ UNCHANGED <<apiVars, caches, outside>>

AddFinalizer ==
  /\ worker.pc = "addFinalizer"
  /\ WriteAndEnd([obj[worker.key] EXCEPT !.Finalizer = TRUE])

\* Mutant of ConfigureCache: what is configured is not configured again.
ConfigureCacheOnce ==
  /\ worker.pc = "configure"
  /\ worker.spec.Supported
  /\ caches' = IF NameOf[worker.key] \in DOMAIN caches THEN caches
               ELSE With(caches, NameOf[worker.key],
                         [owner |-> worker.key, spec |-> worker.spec,
                          healthy |-> PingAnswered(worker.spec)])
  /\ MkdirAll(NameOf[worker.key], worker.spec)
  /\ Goto("redis")
  /\ UNCHANGED <<apiVars, up, writable, faults>>

\* ConfigureCache stores a configuration with new tiers over what was stored
\* under the name, whoever's it was; a new Redis tier pings the server, and a
\* new local tier makes its directory.
ConfigureCache ==
  /\ worker.pc = "configure"
  /\ worker.spec.Supported
  /\ caches' = With(caches, NameOf[worker.key],
                    [owner |-> worker.key, spec |-> worker.spec,
                     healthy |-> PingAnswered(worker.spec)])
  /\ MkdirAll(NameOf[worker.key], worker.spec)
  /\ Goto("redis")
  /\ UNCHANGED <<apiVars, up, writable, faults>>

\* "unsupported tier type": what was configured before stays.
ConfigureCacheError ==
  /\ worker.pc = "configure"
  /\ ~ worker.spec.Supported
  /\ Goto("fail")
  /\ UNCHANGED <<apiVars, caches, outside, faults>>

\* Mutant of ReconcileRedis: it is left out once the cache has a phase.
ReconcileRedisOnce ==
  /\ worker.pc = "redis"
  /\ IF worker.spec.Redis = "managed" /\ worker.key \notin statefulSet
        /\ worker.key \in DOMAIN obj /\ obj[worker.key].Phase = ""
     THEN \/ statefulSet' = statefulSet \cup {worker.key} /\ Goto("service") /\ UNCHANGED faults
          \/ Fault /\ Goto("storage") /\ UNCHANGED statefulSet
     ELSE Goto("storage") /\ UNCHANGED <<statefulSet, faults>>
  /\ UNCHANGED <<obj, service, pvc, caches, outside>>

\* reconcileRedis: nothing is done about a StatefulSet that exists.
ReconcileRedis ==
  /\ worker.pc = "redis"
  /\ IF worker.spec.Redis = "managed" /\ worker.key \notin statefulSet
     THEN \/ statefulSet' = statefulSet \cup {worker.key} /\ Goto("service") /\ UNCHANGED faults
          \/ Fault /\ Goto("storage") /\ UNCHANGED statefulSet  \* only logged
     ELSE Goto("storage") /\ UNCHANGED <<statefulSet, faults>>
  /\ UNCHANGED <<obj, service, pvc, caches, outside>>

\* createRedisService, only ever called after the StatefulSet was created.
CreateRedisService ==
  /\ worker.pc = "service"
  /\ Goto("storage")
  /\ \/ service' = service \cup {worker.key} /\ UNCHANGED faults
     \/ Fault /\ UNCHANGED service
  /\ UNCHANGED <<obj, statefulSet, pvc, caches, outside>>

ReconcileLocalStorage ==
  /\ worker.pc = "storage"
  /\ Goto("status")
  /\ IF worker.spec.Local = "disk"
     THEN \/ pvc' = pvc \cup {worker.key} /\ UNCHANGED faults
          \/ Fault /\ UNCHANGED pvc
     ELSE UNCHANGED <<pvc, faults>>
  /\ UNCHANGED <<obj, statefulSet, service, caches, outside>>

\* Mutant of PhaseOf: Ready is never taken back.
PhaseOfSticky(c) ==
  IF obj[c].Phase = "Ready" \/ TiersHealthy(NameOf[c]) THEN "Ready" ELSE "Degraded"

\* updateStatus and updateConditions: GetStatus says Degraded when a tier is
\* not healthy, and all tiers ready makes it Ready.  Configured by the same
\* reconcile, the cache is always found.
PhaseOf(c) == IF TiersHealthy(NameOf[c]) THEN "Ready" ELSE "Degraded"

UpdateStatus ==
  /\ worker.pc = "status"
  /\ WriteAndEnd([obj[worker.key] EXCEPT !.Phase = PhaseOf(worker.key)])

UpdateStatusWithError ==
  /\ worker.pc = "fail"
  /\ WriteAndEnd([obj[worker.key] EXCEPT !.Phase = "Failed"])

\* Mutant of CleanupCache: a cache that is not configured is an error.
CleanupCacheMustExist ==
  /\ worker.pc = "cleanup"
  /\ IF NameOf[worker.key] \in DOMAIN caches
     THEN caches' = Without(caches, NameOf[worker.key]) /\ Goto("dropFinalizer")
     ELSE UNCHANGED caches /\ worker' = IdleWorker
  /\ UNCHANGED <<apiVars, outside, faults>>

\* handleDeletion: CleanupCache clears the tiers, which leaves the directory of
\* a local tier empty and in place, and drops the name's configuration.
CleanupCache ==
  /\ worker.pc = "cleanup"
  /\ LET n == NameOf[worker.key]
     IN  IF n \in DOMAIN caches
         THEN MkdirAll(n, caches[n].spec) /\ caches' = Without(caches, n)
         ELSE UNCHANGED <<dirs, caches>>
  /\ Goto("dropFinalizer")
  /\ UNCHANGED <<apiVars, up, writable, faults>>

DropFinalizer ==
  /\ worker.pc = "dropFinalizer"
  /\ worker.fresh
  /\ Remove(worker.key)
  /\ worker' = IdleWorker
  /\ UNCHANGED <<caches, outside, faults>>

Controller ==
  \/ \E c \in Caches : Fetch(c)
  \/ AddFinalizer \/ ConfigureCache \/ ConfigureCacheError \/ ReconcileRedis
  \/ CreateRedisService \/ ReconcileLocalStorage \/ UpdateStatus \/ UpdateStatusWithError
  \/ CleanupCache \/ DropFinalizer \/ WriteRefused

Users ==
  \E c \in Caches : \/ DeleteCache(c) \/ DeleteOwned(c)
                    \/ \E spec \in Specs : Create(c, spec) \/ Edit(c, spec)

Next ==
  \/ Controller
  \/ Users
  \/ RedisUpOrDown \/ WritableOrNot
  \/ \E c \in Caches : HealthCheck(NameOf[c]) \/ DirectoryLost(NameOf[c])
  \/ Restart

\* The worker keeps working, and its queue is first in, first out: an object
\* that is queued again after 30 s is picked again.
Fairness == WF_vars(Controller) /\ \A c \in Caches : SF_vars(Fetch(c))

Spec == Init /\ [][Next]_vars

FairSpec == Spec /\ Fairness

-----------------------------------------------------------------------------
TypeOK ==
  /\ DOMAIN obj \subseteq Caches /\ obj \in [DOMAIN obj -> TokenCacheType]
  /\ statefulSet \subseteq Caches /\ service \subseteq Caches /\ pvc \subseteq Caches
  /\ DOMAIN caches \subseteq {NameOf[c] : c \in Caches}
  /\ caches \in [DOMAIN caches -> [owner : Caches, spec : Specs, healthy : BOOLEAN]]
  /\ up \in BOOLEAN /\ writable \in BOOLEAN /\ dirs \subseteq {NameOf[c] : c \in Caches}
  /\ worker \in [pc : {"idle", "addFinalizer", "fail", "configure", "redis", "service",
                       "storage", "status", "cleanup", "dropFinalizer"},
                 key : Caches \cup {NoCache}, spec : Specs \cup {NoSpec}, fresh : BOOLEAN]
  /\ faults \in 0..MaxFaults

\* No cache of the cache manager outlives the TokenCache it was configured
\* for, whatever edits, deletions, refused writes and other TokenCaches of the
\* same name do between the steps of a reconcile: as long as it is there, the
\* TokenCache is stored with the finalizer (tokencache_controller.go, Reconcile
\* and handleDeletion).
ConfiguredIsStored ==
  \A n \in DOMAIN caches :
    LET c == caches[n].owner
    IN  NameOf[c] = n /\ c \in DOMAIN obj /\ obj[c].Finalizer

\* Nothing the controller created is left of a TokenCache that is gone
\* (reconcileRedis, createRedisService and reconcileLocalStorage work from a
\* copy that was read before).
NoOrphans == statefulSet \cup service \cup pvc \subseteq DOMAIN obj

\* The deletion of a TokenCache is completed (handleDeletion).  The mark of the
\* deletion stays until the object is gone, so it is enough that no object
\* keeps it for ever.
CacheDeletionCompletes ==
  \A c \in Caches : []<>~(c \in DOMAIN obj /\ obj[c].Deleting)

\* c is stored with a spec that can be configured, and nobody has asked for its
\* deletion.  Edits are among the bounded faults: a behaviour has finitely many,
\* and what the properties below say of the spec is about the last one.
Wanted(c) ==
  /\ c \in DOMAIN obj /\ ~ obj[c].Deleting
  /\ obj[c].Spec.Valid /\ obj[c].Spec.Supported

\* A TokenCache that can be configured is configured again and again, with the
\* spec it has now: after a restart, after an edit, and after a TokenCache of
\* the same name in another namespace has replaced or removed its
\* configuration (Reconcile: ConfigureCache is called on every pass).
CacheGetsConfigured ==
  \A c \in Caches :
    <>[]Wanted(c) =>
      []<>(\E n \in DOMAIN caches : caches[n].owner = c /\ caches[n].spec = obj[c].Spec)

\* The tiers of c can work: Redis answers, and the directory of the local tier
\* can be made, and made again when it was lost.
TiersCanWork(c) ==
  /\ obj[c].Spec.Redis # "none" => up
  /\ obj[c].Spec.Local # "none" => writable

\* A tier of c does not work: Redis is silent, or there is no directory.
TierDown(c) ==
  \/ obj[c].Spec.Redis # "none" /\ ~ up
  \/ obj[c].Spec.Local # "none" /\ NameOf[c] \notin dirs

\* The phase of a TokenCache ends up saying whether its tiers work, whatever it
\* said before: Ready when Redis answers and the directory of the local tier
\* can be made, also after the directory was lost, and Degraded when Redis is
\* silent or the directory is missing for good (updateStatus, GetStatus, and
\* ConfigureCache on every pass).
StatusFollowsTiers ==
  \A c \in Caches :
    /\ <>[](Wanted(c) /\ TiersCanWork(c)) => <>[](Wanted(c) => obj[c].Phase = "Ready")
    /\ <>[](Wanted(c) /\ TierDown(c)) => <>[](Wanted(c) => obj[c].Phase = "Degraded")

\* The StatefulSet and the claim a TokenCache needs in the cluster are created
\* in the end, and again when they were deleted, although failures are only
\* logged (reconcileRedis and reconcileLocalStorage).  The headless Service is
\* not covered: it is only tried once, after the StatefulSet was created, and
\* may stay missing.
OwnedGetCreated ==
  \A c \in Caches :
    <>[]Wanted(c) =>
      <>[](Wanted(c) => /\ obj[c].Spec.Redis = "managed" => c \in statefulSet
                        /\ obj[c].Spec.Local = "disk" => c \in pvc)
=============================================================================
