----------------------------- MODULE RedisCache -----------------------------
(***************************************************************************)
(* internal/cache/redis.go: the Redis tier of one cache, with the server   *)
(* it talks to.  Every ConfigureCache of the cache manager makes a new     *)
(* RedisCache object for the same keys of the same server, so the server   *)
(* is all the state there is, besides the objects' health.                 *)
(*                                                                         *)
(* The server is external: a hash per key, of which the model keeps the    *)
(* field "value".  None is no hash, Blank a hash without that field, which *)
(* the late HSET of accessed_at leaves behind and which Get returns as an  *)
(* entry with an empty value.  Any call may fail: the tier is marked as    *)
(* unhealthy, the server is down, slow or gone, or the answer is lost.     *)
(* What marks it (connect, healthCheckLoop) is in module TokenCache.       *)
(* Counters are left out, as are GetMulti and SetMulti, which nothing      *)
(* calls.                                                                  *)
(***************************************************************************)
EXTENDS Naturals, Sequences

CONSTANTS Keys, Values,
          None, Blank,
          MaxTouches   \* bound: updates of accessed_at of a key in flight

ASSUME RedisAssumption ==
  /\ None \notin Values /\ Blank \notin Values /\ None # Blank
  /\ MaxTouches \in Nat \ {0}

VARIABLES hash,     \* what the server has
          touches   \* HSETs of accessed_at that Gets have started

redisVars == <<hash, touches>>

Copies == Values \cup {None, Blank}

RedisInit ==
  /\ hash = [k \in Keys |-> None]
  /\ touches = [k \in Keys |-> 0]

-----------------------------------------------------------------------------
\* r is the entry's value, or None for a miss as well as for an error.  A hit
\* starts a goroutine that updates accessed_at.
Get(k, r) ==
  /\ \/ r = None
     \/ r = hash[k]
  /\ r # None => touches[k] < MaxTouches
  /\ touches' = IF r = None THEN touches ELSE [touches EXCEPT ![k] = @ + 1]
  /\ UNCHANGED hash

\* HSET and EXPIRE in one pipeline.  The answer of a pipeline that was carried
\* out may be lost: the error does not say that nothing happened.
Set(k, v, ok) ==
  /\ \/ ok \in BOOLEAN /\ hash' = [hash EXCEPT ![k] = v]
     \/ ok = FALSE /\ UNCHANGED hash
  /\ UNCHANGED touches

Delete(k, ok) ==
  /\ \/ ok \in BOOLEAN /\ hash' = [hash EXCEPT ![k] = None]
     \/ ok = FALSE /\ UNCHANGED hash
  /\ UNCHANGED touches

\* SCAN, and a DEL per key; a DEL that fails is only logged, and the code returns
\* nil all the same.  `ok' is therefore not what it returns but whether every key
\* was deleted: the caller goes on alike, and only CacheManager's history of what
\* a key may have reads it.  The keys are independent, so deleting them in one
\* step loses no behaviour of one key.
Clear(ok) ==
  /\ \E K \in SUBSET Keys :
       /\ ok = (K = Keys)
       /\ hash' = [k \in Keys |-> IF k \in K THEN None ELSE hash[k]]
  /\ UNCHANGED touches

\* The goroutine of a Get: HSET makes the hash if it is gone.
Touch(k) ==
  /\ touches[k] > 0
  /\ touches' = [touches EXCEPT ![k] = @ - 1]
  /\ \/ hash' = IF hash[k] = None THEN [hash EXCEPT ![k] = Blank] ELSE hash
     \/ UNCHANGED hash

-----------------------------------------------------------------------------
\* The server.  A hash made by HSET alone has no TTL.
Expire(k) ==
  /\ hash[k] \in Values
  /\ hash' = [hash EXCEPT ![k] = None]
  /\ UNCHANGED touches

\* It starts again, and what was not persisted is lost.
ServerRestart ==
  /\ hash' = [k \in Keys |-> None]
  /\ UNCHANGED touches

RedisTypeOK ==
  /\ hash \in [Keys -> Copies]
  /\ touches \in [Keys -> 0..MaxTouches]
=============================================================================
