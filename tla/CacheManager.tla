---------------------------- MODULE CacheManager ----------------------------
(***************************************************************************)
(* internal/cache/manager.go: one token cache of the cache manager, with   *)
(* its tiers.  A call takes m.mu only to look up the configuration, and    *)
(* then goes through the tiers without a lock: a call is a sequence of     *)
(* actions, one per call of a tier, and goes on with the configuration it  *)
(* found although ConfigureCache, which every reconcile of the TokenCache  *)
(* calls, has put a new one with new tiers in its place.                   *)
(*                                                                         *)
(* The last tier is the Redis tier (RedisCache).  The others are prefix or *)
(* local tiers (PrefixCache and LocalCache are their own modules); here    *)
(* they are maps that may lose an entry at any time.  Hit, miss, latency   *)
(* and size metrics and the eviction loop, which only logs, are left out.  *)
(***************************************************************************)
EXTENDS RedisCache

CONSTANTS Callers,     \* goroutines that call Get, Set, Delete and Invalidate
          Controller,  \* the one that calls ConfigureCache and CleanupCache
          Goroutines,  \* bound: promotions and warmups in flight
          NTiers,
          Policies,    \* the coherence policies a TokenCache may have
          WarmKey, WarmValue,  \* the common prefix of the warmup
          MaxConfigs   \* bound: calls of ConfigureCache

ASSUME CacheManagerAssumption ==
  /\ Controller \notin Callers \cup Goroutines
  /\ Callers \cap Goroutines = {}
  /\ NTiers \in Nat \ {0}
  /\ WarmKey \in Keys /\ WarmValue \in Values
  /\ MaxConfigs \in Nat

VARIABLES mem,     \* every configuration made: contents of its tiers but the last
          current, \* the one in m.caches, 0 if there is none
          policy,  \* its CoherencePolicy
          call,    \* what each goroutine is doing
          may      \* history: the values of a key that a Get may still return

managerVars == <<mem, current, policy, call, may>>
vars == <<redisVars, managerVars>>

Tiers == 1..NTiers
Upper == 1..(NTiers - 1)
Procs == Callers \cup Goroutines \cup {Controller}
Empty == [i \in Upper |-> [k \in Keys |-> None]]

\* The tiers still to be visited are tier..last.  keys is what the call is
\* about.  promotes: the policy it found promotes the hits of a Get.  clean is
\* history, of the calls that settle what a key may be: no other call was about
\* the same keys since this one began, and no tier failed.
Idle == [op |-> "idle", cfg |-> 0, tier |-> 0, last |-> 0, keys |-> {}, val |-> None,
         promotes |-> FALSE, clean |-> FALSE]

Active(p) == call[p].op # "idle"

KeyOf(p) == CHOOSE k \in Keys : call[p].keys = {k}

\* CleanupCache holds m.mu until it returns.
Locked == call[Controller].op = "cleanup"

Init ==
  /\ RedisInit
  /\ mem = <<>>
  /\ current = 0
  /\ policy = ""
  /\ call = [p \in Procs |-> Idle]
  /\ may = [k \in Keys |-> {}]

-----------------------------------------------------------------------------
\* Calls of tier i of configuration g.
TierGet(g, i, k, r) ==
  /\ IF i = NTiers THEN Get(k, r) ELSE r = mem[g][i][k] /\ UNCHANGED redisVars
  /\ UNCHANGED mem

\* A local tier's file may be the file of the same tier of other configurations.
\* A Set that fails leaves what was there: that os.WriteFile may have torn the
\* file before it failed, and Get returns the torn file, is in module LocalCache
\* and what its GetReturnsStored is about; no value here stands for it.
TierSet(g, i, k, v, ok) ==
  IF i = NTiers THEN Set(k, v, ok) /\ UNCHANGED mem
  ELSE /\ \/ /\ ok = TRUE
             /\ \E others \in SUBSET {h \in DOMAIN mem : mem[h][i][k] # None} :
                  mem' = [h \in DOMAIN mem |->
                            IF h \in others \cup {g} THEN [mem[h] EXCEPT ![i][k] = v]
                            ELSE mem[h]]
          \/ ok = FALSE /\ UNCHANGED mem
       /\ UNCHANGED redisVars

TierDelete(g, i, k, ok) ==
  IF i = NTiers THEN Delete(k, ok) /\ UNCHANGED mem
  ELSE ok = TRUE /\ mem' = [mem EXCEPT ![g][i][k] = None] /\ UNCHANGED redisVars

TierClear(g, i, ok) ==
  IF i = NTiers THEN Clear(ok) /\ UNCHANGED mem
  ELSE /\ \/ ok = TRUE /\ mem' = [mem EXCEPT ![g][i] = [k \in Keys |-> None]]
          \/ ok = FALSE /\ UNCHANGED mem
       /\ UNCHANGED redisVars

\* p begins c: neither c nor the calls about the same keys are alone any more.
Began(calls, p, c) ==
  LET others == {q \in Procs \ {p} : calls[q].keys \cap c.keys # {}}
  IN  [q \in Procs |-> IF q = p THEN [c EXCEPT !.clean = @ /\ others = {}]
                       ELSE IF q \in others THEN [calls[q] EXCEPT !.clean = FALSE]
                       ELSE calls[q]]

\* The call c goes on to its next tier; ok: the last one did not fail.
NextTier(c, ok) == [c EXCEPT !.tier = c.tier + 1, !.clean = c.clean /\ ok]

\* Mutant of Advanced: the loop runs once too often.
AdvancedPastLast(p, ok) ==
  [call EXCEPT ![p] = IF call[p].tier > call[p].last THEN Idle ELSE NextTier(call[p], ok)]

\* p has visited its tier and goes on to the next one, or returns.
Advanced(p, ok) ==
  [call EXCEPT ![p] = IF call[p].tier = call[p].last THEN Idle ELSE NextTier(call[p], ok)]

\* The call of p is over and nothing has disturbed it.
Undisturbed(p, ok) == call[p].tier = call[p].last /\ call[p].clean /\ ok

-----------------------------------------------------------------------------
\* Every exported call looks up the configuration first ("cache not found").
Start(p, op, first, last, K, v, settles) ==
  /\ ~ Active(p)
  /\ ~ Locked
  /\ current # 0
  /\ call' = Began(call, p, [op |-> op, cfg |-> current, tier |-> first, last |-> last,
                             keys |-> K, val |-> v, clean |-> settles,
                             promotes |-> op = "get" /\ policy = "write-through"])
  /\ UNCHANGED <<redisVars, policy, mem, current>>

GetStart(p, k) == Start(p, "get", 1, NTiers, {k}, None, FALSE) /\ UNCHANGED may

SetFirst == IF policy = "write-around" THEN NTiers ELSE 1
SetLast == IF policy = "write-back" THEN 1 ELSE NTiers

\* A Set that leaves tiers out does not settle the key's value.
SetStart(p, k, v) ==
  /\ Start(p, "set", SetFirst, SetLast, {k}, v, policy \notin {"write-back", "write-around"})
  /\ may' = [may EXCEPT ![k] = @ \cup {v}]

DeleteStart(p, k) == Start(p, "delete", 1, NTiers, {k}, None, TRUE) /\ UNCHANGED may

\* Invalidate ignores the pattern.
InvalidateStart(p) == Start(p, "clear", 1, NTiers, Keys, None, TRUE) /\ UNCHANGED may

\* A hit is promoted to the tiers before by a goroutine, under write-through.
GetTier(p) ==
  /\ call[p].op = "get"
  /\ LET c == call[p]
         k == KeyOf(p)
     IN  \E r \in Copies :
           /\ IF r = None
              THEN call' = Advanced(p, TRUE)
              ELSE IF c.promotes /\ c.tier > 1
              THEN \E w \in {g \in Goroutines : ~ Active(g)} :
                     call' = Began([call EXCEPT ![p] = Idle], w,
                                   [op |-> "promote", cfg |-> c.cfg, tier |-> 1,
                                    last |-> c.tier - 1, keys |-> {k}, val |-> r,
                                    promotes |-> FALSE, clean |-> FALSE])
              ELSE call' = [call EXCEPT ![p] = Idle]
           /\ UNCHANGED current
           /\ TierGet(c.cfg, c.tier, k, r)
  /\ UNCHANGED <<policy, may>>

\* An error of a tier is logged under write-through, and returned otherwise.
SetTier(p) ==
  /\ call[p].op = "set"
  /\ LET c == call[p]
         k == KeyOf(p)
     IN  \E ok \in BOOLEAN :
           /\ call' = Advanced(p, ok) /\ UNCHANGED current
           /\ TierSet(c.cfg, c.tier, k, c.val, ok)
           /\ may' = IF Undisturbed(p, ok) THEN [may EXCEPT ![k] = {c.val}] ELSE may
  /\ UNCHANGED policy

\* Mutant of DeleteTier: the last tier is left out.
DeleteTierButLast(p) ==
  /\ call[p].op = "delete"
  /\ LET c == call[p]
         k == KeyOf(p)
     IN  \E ok \in BOOLEAN :
           /\ call' = Advanced(p, ok) /\ UNCHANGED current
           /\ IF c.tier = NTiers THEN ok = TRUE /\ UNCHANGED redisVars /\ UNCHANGED mem
              ELSE TierDelete(c.cfg, c.tier, k, ok)
           /\ may' = IF Undisturbed(p, ok) THEN [may EXCEPT ![k] = {}] ELSE may
  /\ UNCHANGED policy

DeleteTier(p) ==
  /\ call[p].op = "delete"
  /\ LET c == call[p]
         k == KeyOf(p)
     IN  \E ok \in BOOLEAN :
           /\ call' = Advanced(p, ok) /\ UNCHANGED current
           /\ TierDelete(c.cfg, c.tier, k, ok)
           /\ may' = IF Undisturbed(p, ok) THEN [may EXCEPT ![k] = {}] ELSE may
  /\ UNCHANGED policy

\* Invalidate and CleanupCache; the latter forgets the configuration at the end.
ClearTier(p) ==
  /\ call[p].op \in {"clear", "cleanup"}
  /\ LET c == call[p]
     IN  \E ok \in BOOLEAN :
           /\ call' = Advanced(p, ok)
           /\ IF c.op = "cleanup" /\ c.tier = c.last
              THEN current' = 0 /\ policy' = ""
              ELSE UNCHANGED <<current, policy>>
           /\ TierClear(c.cfg, c.tier, ok)
           /\ may' = IF Undisturbed(p, ok) THEN [k \in Keys |-> {}] ELSE may

\* promoteToPreviousTiers and warmupCache write whatever they hold.
WriteTier(p) ==
  /\ call[p].op \in {"promote", "warmup"}
  /\ \E ok \in BOOLEAN :
       /\ call' = Advanced(p, ok) /\ UNCHANGED current
       /\ TierSet(call[p].cfg, call[p].tier, KeyOf(p), call[p].val, ok)
  /\ UNCHANGED <<policy, may>>

\* warmupCache looks up the configuration when the goroutine gets to run.
WarmupStart(p) ==
  /\ call[p].op = "spawned"
  /\ IF current = 0
     THEN call' = [call EXCEPT ![p] = Idle] /\ UNCHANGED may
     ELSE /\ call' = Began(call, p, [op |-> "warmup", cfg |-> current, tier |-> 1,
                                     last |-> NTiers, keys |-> {WarmKey},
                                     val |-> WarmValue, promotes |-> FALSE,
                                     clean |-> FALSE])
          /\ may' = [may EXCEPT ![WarmKey] = @ \cup {WarmValue}]
  /\ UNCHANGED <<redisVars, policy, mem, current>>

-----------------------------------------------------------------------------
\* ConfigureCache makes new tiers and stores the configuration over the old,
\* whose tiers are garbage unless a call still uses them.
ConfigureCache(pol, warm) ==
  /\ ~ Active(Controller)
  /\ Len(mem) < MaxConfigs
  /\ current' = Len(mem) + 1
  /\ policy' = pol
  /\ IF warm
     THEN \E w \in {g \in Goroutines : ~ Active(g)} :
            call' = [call EXCEPT ![w].op = "spawned"]
     ELSE UNCHANGED call
  /\ mem' = Append([g \in DOMAIN mem |-> IF \E p \in Procs : call[p].cfg = g THEN mem[g]
                                       ELSE Empty], Empty)
  /\ UNCHANGED <<redisVars, may>>

CleanupCacheStart == Start(Controller, "cleanup", 1, NTiers, Keys, None, TRUE) /\ UNCHANGED may

\* Configurations in whose tiers somebody may still look for k.
InUse(k) ==
  {g \in DOMAIN mem : g = current \/ \E p \in Procs : call[p].cfg = g /\ k \in call[p].keys}

\* A prefix or local tier evicts or expires an entry.
Evict(g, i, k) ==
  /\ g \in InUse(k)
  /\ mem[g][i][k] # None
  /\ mem' = [mem EXCEPT ![g][i][k] = None]
  /\ UNCHANGED <<redisVars, policy, current, call, may>>

Step(p) == GetTier(p) \/ SetTier(p) \/ DeleteTier(p) \/ ClearTier(p) \/ WriteTier(p) \/ WarmupStart(p)

Server ==
  /\ ServerRestart \/ \E k \in Keys : Expire(k) \/ Touch(k)
  /\ UNCHANGED managerVars

Next ==
  \/ \E p \in Callers, k \in Keys :
       GetStart(p, k) \/ DeleteStart(p, k) \/ \E v \in Values : SetStart(p, k, v)
  \/ \E p \in Callers : InvalidateStart(p)
  \/ \E p \in Procs : Step(p)
  \/ \E pol \in Policies, warm \in BOOLEAN : ConfigureCache(pol, warm)
  \/ CleanupCacheStart
  \/ \E g \in DOMAIN mem, i \in Upper, k \in Keys : Evict(g, i, k)
  \/ Server

Spec == Init /\ [][Next]_vars

-----------------------------------------------------------------------------
Ops == {"idle", "get", "set", "delete", "clear", "cleanup", "promote", "spawned", "warmup"}

TypeOK ==
  /\ RedisTypeOK
  /\ mem \in Seq([Upper -> [Keys -> Copies]]) /\ Len(mem) <= MaxConfigs
  /\ current \in 0..Len(mem)
  /\ policy \in Policies \cup {""}
  /\ call \in [Procs -> [op : Ops, cfg : 0..Len(mem), tier : 0..NTiers, last : 0..NTiers,
                         keys : SUBSET Keys, val : Copies, promotes : BOOLEAN,
                         clean : BOOLEAN]]
  /\ may \in [Keys -> SUBSET Values]

\* No tier has, and no goroutine carries, a value that is over: after a Set
\* under write-through, a Delete, an Invalidate or a CleanupCache that no other
\* call about the key overlapped and that no tier failed, the values before it
\* are nowhere, and nothing brings them back: not a promotion, not a tier that
\* lost its copy, not another configuration of the same cache (manager.go,
\* "Delete removes a value from all cache tiers").  What Redis makes up itself
\* is the entry with an empty value (redis.go, Get).
CopiesAllowed ==
  \A k \in Keys :
    /\ hash[k] \in may[k] \cup {None, Blank}
    /\ \A g \in InUse(k), i \in Upper : mem[g][i][k] \in may[k] \cup {None, Blank}
    /\ \A p \in Procs : k \in call[p].keys => call[p].val \in may[k] \cup {None, Blank}
=============================================================================
