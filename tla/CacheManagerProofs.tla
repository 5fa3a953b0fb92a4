------------------------- MODULE CacheManagerProofs -------------------------
(***************************************************************************)
(* Proofs about CacheManager, for any number of tiers, keys, goroutines    *)
(* and configurations: the types, and that no tier has and no goroutine    *)
(* carries a value that is over.                                           *)
(***************************************************************************)
EXTENDS CacheManager, SequenceTheorems, TLAPS

Config == [Upper -> [Keys -> Copies]]

\* The record of a call, when n configurations have been made.
CallType(n) == [op : Ops, cfg : 0..n, tier : 0..NTiers, last : 0..NTiers,
                keys : SUBSET Keys, val : Copies, promotes : BOOLEAN, clean : BOOLEAN]

Single == {"get", "set", "delete", "promote", "warmup"}
Whole == {"clear", "cleanup"}

\* What a call of each kind is about, and where it is.
Shape(c, n) ==
  /\ c.op \in {"idle", "spawned"} => c.keys = {} /\ c.cfg = 0 /\ ~ c.clean
  /\ c.op \in Single => \E k \in Keys : c.keys = {k}
  /\ c.op \in Whole => c.keys = Keys
  /\ c.op \in Single \cup Whole => c.cfg \in 1..n /\ 1 <= c.tier /\ c.tier <= c.last
  /\ c.op = "set" => c.val \in Values
  /\ c.op \in {"get", "delete"} \cup Whole => c.val = None

CallsOK(cs, n) == cs \in [Procs -> CallType(n)] /\ \A p \in Procs : Shape(cs[p], n)

ShapeOK == \A p \in Procs : Shape(call[p], Len(mem))

TInv == TypeOK /\ ShapeOK

\* The parts are the whole.
LEMMA TypeParts ==
  TInv <=> /\ RedisTypeOK /\ mem \in Seq(Config) /\ Len(mem) <= MaxConfigs
           /\ current \in 0..Len(mem) /\ policy \in Policies \cup {""}
           /\ CallsOK(call, Len(mem)) /\ may \in [Keys -> SUBSET Values]
BY DEF TInv, TypeOK, ShapeOK, CallsOK, CallType, Config

\* The same of the next state.
LEMMA TypePartsNext ==
  TInv' <=> /\ RedisTypeOK' /\ mem' \in Seq(Config) /\ Len(mem') <= MaxConfigs
            /\ current' \in 0..Len(mem') /\ policy' \in Policies \cup {""}
            /\ CallsOK(call', Len(mem')) /\ may' \in [Keys -> SUBSET Values]
BY DEF TInv, TypeOK, ShapeOK, CallsOK, CallType, Config

\* Configurations are numbered from 1.
LEMMA MemFacts ==
  ASSUME NEW m \in Seq(Config)
  PROVE  /\ Len(m) \in Nat /\ DOMAIN m = 1..Len(m)
         /\ \A g \in DOMAIN m : m[g] \in Config
BY LenProperties, ElementOfSeq

\* The upper tiers are the tiers but the last.
LEMMA TierFacts ==
  /\ NTiers \in Nat \ {0} /\ Upper \subseteq Tiers
  /\ \A i \in Tiers : i # NTiers => i \in Upper
  /\ NTiers \notin Upper /\ NTiers \in 0..NTiers /\ 1 \in 0..NTiers
  /\ None \in Copies /\ Blank \in Copies /\ Values \subseteq Copies
BY CacheManagerAssumption, RedisAssumption DEF Upper, Tiers, Copies

-----------------------------------------------------------------------------
(* What the steps do to the calls. *)

\* A call that is over.
LEMMA IdleFacts ==
  ASSUME NEW n \in Nat
  PROVE  /\ Idle \in CallType(n) /\ Shape(Idle, n)
         /\ Idle.op = "idle" /\ Idle.keys = {} /\ Idle.cfg = 0 /\ Idle.clean = FALSE
BY TierFacts DEF Idle, CallType, Shape, Ops, Single, Whole

\* A call that goes on to the next tier.
LEMMA NextTierFacts ==
  ASSUME NEW n \in Nat, NEW c \in CallType(n), Shape(c, n), NEW ok \in BOOLEAN,
         c.op \in Single \cup Whole, c.tier # c.last
  PROVE  LET d == NextTier(c, ok)
         IN  /\ d \in CallType(n) /\ Shape(d, n)
             /\ d.op = c.op /\ d.cfg = c.cfg /\ d.last = c.last /\ d.keys = c.keys /\ d.val = c.val
             /\ d.promotes = c.promotes /\ d.tier = c.tier + 1 /\ d.clean = (c.clean /\ ok)
<1> DEFINE d == NextTier(c, ok)
<1>1. /\ c.tier \in Nat /\ c.last \in Nat /\ c.last <= NTiers /\ 1 <= c.tier /\ c.tier <= c.last
      /\ NTiers \in Nat
  BY TierFacts DEF CallType, Shape
<1>2. c.tier + 1 \in 0..NTiers /\ c.tier + 1 <= c.last /\ 1 <= c.tier + 1
  BY <1>1
<1>3. (c.clean /\ ok) \in BOOLEAN
  BY DEF CallType
<1>4. /\ d.op = c.op /\ d.cfg = c.cfg /\ d.last = c.last /\ d.keys = c.keys /\ d.val = c.val
      /\ d.promotes = c.promotes /\ d.tier = c.tier + 1 /\ d.clean = (c.clean /\ ok)
  BY DEF CallType, NextTier
<1>5. d \in CallType(n)
  BY <1>2, <1>3 DEF CallType, NextTier
<1> HIDE DEF d
<1>6. Shape(d, n)
  BY <1>2, <1>4 DEF Shape, CallType, Single, Whole
<1> QED BY <1>4, <1>5, <1>6 DEF d

\* Advanced: p goes on or returns, and the others stay where they are.
LEMMA AdvancedFacts ==
  ASSUME NEW n \in Nat, CallsOK(call, n), NEW p \in Procs, NEW ok \in BOOLEAN,
         call[p].op \in Single \cup Whole, call' = Advanced(p, ok)
  PROVE  /\ CallsOK(call', n)
         /\ \A q \in Procs : q # p => call'[q] = call[q]
         /\ call[p].tier = call[p].last => call'[p] = Idle
         /\ call[p].tier # call[p].last =>
              /\ call'[p].op = call[p].op /\ call'[p].cfg = call[p].cfg
              /\ call'[p].last = call[p].last /\ call'[p].keys = call[p].keys
              /\ call'[p].val = call[p].val /\ call'[p].promotes = call[p].promotes
              /\ call'[p].tier = call[p].tier + 1 /\ call'[p].clean = (call[p].clean /\ ok)
<1> DEFINE c == call[p]
           d == NextTier(c, ok)
<1>1. c \in CallType(n) /\ Shape(c, n) /\ DOMAIN call = Procs
  BY DEF CallsOK
<1>2. call' = [call EXCEPT ![p] = IF c.tier = c.last THEN Idle ELSE d]
  BY DEF Advanced
<1>3. \A q \in Procs : q # p => call'[q] = call[q]
  BY <1>1, <1>2
<1>4. CASE c.tier = c.last
  <2>1. call'[p] = Idle
    BY <1>1, <1>2, <1>4
  <2>2. CallsOK(call', n)
    BY <1>2, <1>4, <2>1, IdleFacts DEF CallsOK
  <2> QED BY <1>3, <1>4, <2>1, <2>2
<1>5. CASE c.tier # c.last
  <2>1. /\ d \in CallType(n) /\ Shape(d, n)
        /\ d.op = c.op /\ d.cfg = c.cfg /\ d.last = c.last /\ d.keys = c.keys /\ d.val = c.val
        /\ d.promotes = c.promotes /\ d.tier = c.tier + 1 /\ d.clean = (c.clean /\ ok)
    BY <1>1, <1>5, NextTierFacts
  <2>2. call' = [call EXCEPT ![p] = d]
    BY <1>2, <1>5
  <2> HIDE DEF d
  <2>3. call'[p] = d
    BY <1>1, <2>2
  <2>4. CallsOK(call', n)
    BY <2>1, <2>2 DEF CallsOK
  <2> QED BY <1>3, <1>5, <2>1, <2>3, <2>4
<1> QED BY <1>4, <1>5

\* Began: p begins c, and from then on no call that shares a key with another
\* one is clean.
LEMMA BeganFacts ==
  ASSUME NEW n \in Nat, NEW cs, CallsOK(cs, n), NEW p \in Procs,
         NEW c \in CallType(n), Shape(c, n), NEW b, b = Began(cs, p, c)
  PROVE  /\ CallsOK(b, n)
         /\ b[p].op = c.op /\ b[p].cfg = c.cfg /\ b[p].tier = c.tier /\ b[p].last = c.last
         /\ b[p].keys = c.keys /\ b[p].val = c.val
         /\ b[p].clean => c.clean /\ \A q \in Procs \ {p} : b[q].keys \cap c.keys = {}
         /\ \A q \in Procs \ {p} :
              /\ b[q].op = cs[q].op /\ b[q].cfg = cs[q].cfg /\ b[q].tier = cs[q].tier
              /\ b[q].last = cs[q].last /\ b[q].keys = cs[q].keys /\ b[q].val = cs[q].val
              /\ b[q].clean => cs[q].clean /\ cs[q].keys \cap c.keys = {}
<1> DEFINE others == {q \in Procs \ {p} : cs[q].keys \cap c.keys # {}}
           new == [c EXCEPT !.clean = c.clean /\ others = {}]
           old(q) == [cs[q] EXCEPT !.clean = FALSE]
<1>1. /\ b = [q \in Procs |-> IF q = p THEN new ELSE IF q \in others THEN old(q) ELSE cs[q]]
  BY DEF Began
<1>2. /\ new \in CallType(n) /\ new.op = c.op /\ new.cfg = c.cfg /\ new.tier = c.tier
      /\ new.last = c.last /\ new.keys = c.keys /\ new.val = c.val
      /\ new.clean = (c.clean /\ others = {})
  <2> DEFINE e == (c.clean /\ others = {})
  <2>1. e \in BOOLEAN
    BY DEF CallType
  <2>2. new = [c EXCEPT !.clean = e]
    OBVIOUS
  <2> HIDE DEF e
  <2>3. /\ new \in CallType(n) /\ new.op = c.op /\ new.cfg = c.cfg /\ new.tier = c.tier
        /\ new.last = c.last /\ new.keys = c.keys /\ new.val = c.val /\ new.clean = e
    BY <2>1, <2>2 DEF CallType
  <2> QED BY <2>3 DEF e
<1>3. ASSUME NEW q \in Procs
      PROVE  /\ old(q) \in CallType(n) /\ old(q).op = cs[q].op /\ old(q).cfg = cs[q].cfg
             /\ old(q).tier = cs[q].tier /\ old(q).last = cs[q].last /\ old(q).keys = cs[q].keys
             /\ old(q).val = cs[q].val /\ old(q).clean = FALSE
  <2>1. cs[q] \in CallType(n)
    BY DEF CallsOK
  <2> QED BY <2>1 DEF CallType
<1>4. Shape(new, n)
  <2> HIDE DEF new
  <2> QED BY <1>2 DEF Shape, Single, Whole
<1>5. ASSUME NEW q \in Procs PROVE Shape(old(q), n) /\ Shape(cs[q], n) /\ cs[q] \in CallType(n)
  <2>1. Shape(cs[q], n) /\ cs[q] \in CallType(n)
    BY DEF CallsOK
  <2> HIDE DEF old
  <2> QED BY <1>3, <2>1 DEF Shape, Single, Whole
<1> HIDE DEF new, old
<1>6. b[p] = new /\ \A q \in Procs \ {p} : b[q] = IF q \in others THEN old(q) ELSE cs[q]
  BY <1>1
<1>7. CallsOK(b, n)
  BY <1>1, <1>2, <1>3, <1>4, <1>5 DEF CallsOK
<1>8. \A q \in Procs \ {p} :
        /\ b[q].op = cs[q].op /\ b[q].cfg = cs[q].cfg /\ b[q].tier = cs[q].tier
        /\ b[q].last = cs[q].last /\ b[q].keys = cs[q].keys /\ b[q].val = cs[q].val
        /\ b[q].clean => cs[q].clean /\ cs[q].keys \cap c.keys = {}
  <2> TAKE q \in Procs \ {p}
  <2>1. CASE q \in others
    BY <1>3, <1>6, <2>1
  <2>2. CASE q \notin others
    BY <1>6, <2>2
  <2> QED BY <2>1, <2>2
<1>9. b[p].clean => c.clean /\ \A q \in Procs \ {p} : b[q].keys \cap c.keys = {}
  BY <1>2, <1>6, <1>8
<1> QED BY <1>2, <1>6, <1>7, <1>8, <1>9

-----------------------------------------------------------------------------
(* What the steps do to the tiers. *)

\* A call of tier i of configuration g leaves a copy as it was or, of a key in
\* K, as v; if it went well, the tier has v for all of K.
Wrote(g, i, K, v, ok) ==
  /\ mem' \in Seq(Config) /\ Len(mem') = Len(mem) /\ RedisTypeOK'
  /\ \A h \in DOMAIN mem, j \in Upper, x \in Keys :
       mem'[h][j][x] = mem[h][j][x] \/ (x \in K /\ mem'[h][j][x] = v)
  /\ \A x \in Keys : hash'[x] = hash[x] \/ (x \in K /\ hash'[x] = v)
  /\ ok => \A x \in K : /\ i = NTiers => hash'[x] = v
                        /\ i \in Upper => mem'[g][i][x] = v

\* One copy is written.
LEMMA WriteCopy ==
  ASSUME NEW m \in Config, NEW i \in Upper, NEW k \in Keys, NEW v \in Copies
  PROVE  /\ [m EXCEPT ![i][k] = v] \in Config
         /\ \A j \in Upper, x \in Keys :
              [m EXCEPT ![i][k] = v][j][x] = IF j = i /\ x = k THEN v ELSE m[j][x]
BY DEF Config

\* Configurations are replaced where they are.
LEMMA MemMap ==
  ASSUME mem \in Seq(Config), mem' = [g \in DOMAIN mem |-> mem'[g]],
         \A g \in DOMAIN mem : mem'[g] \in Config
  PROVE  mem' \in Seq(Config) /\ DOMAIN mem' = DOMAIN mem /\ Len(mem') = Len(mem)
<1>1. Len(mem) \in Nat /\ DOMAIN mem = 1..Len(mem) /\ DOMAIN mem' = 1..Len(mem)
  BY MemFacts
<1>2. mem' \in [1..Len(mem) -> Config]
  BY <1>1
<1>3. mem' \in Seq(Config)
  BY <1>1, <1>2, SeqDef
<1> QED BY <1>1, <1>3, LenProperties

\* TierSet, TierDelete and TierClear.
LEMMA SetWrote ==
  ASSUME TInv, NEW g \in DOMAIN mem, NEW i \in Tiers, NEW k \in Keys, NEW v \in Copies,
         NEW ok \in BOOLEAN, TierSet(g, i, k, v, ok)
  PROVE  Wrote(g, i, {k}, v, ok)
<1>t. /\ mem \in Seq(Config) /\ RedisTypeOK /\ \A h \in DOMAIN mem : mem[h] \in Config
  BY TypeParts, MemFacts
<1>1. CASE i = NTiers
  <2>1. Set(k, v, ok) /\ mem' = mem
    BY <1>1 DEF TierSet
  <2>2. hash \in [Keys -> Copies] /\ touches' = touches /\ touches \in [Keys -> 0..MaxTouches]
    BY <1>t, <2>1 DEF Set, RedisTypeOK
  <2>3. /\ hash' \in [Keys -> Copies] /\ (ok => hash'[k] = v)
        /\ \A x \in Keys : hash'[x] = hash[x] \/ (x \in {k} /\ hash'[x] = v)
    BY <2>1, <2>2 DEF Set
  <2>4. NTiers \notin Upper
    BY TierFacts
  <2>5. RedisTypeOK'
    BY <2>2, <2>3 DEF RedisTypeOK
  <2>6. ok => \A x \in {k} : (i = NTiers => hash'[x] = v) /\ (i \in Upper => mem'[g][i][x] = v)
    BY <1>1, <2>3, <2>4
  <2>7. /\ mem' \in Seq(Config) /\ Len(mem') = Len(mem)
        /\ \A h \in DOMAIN mem, j \in Upper, x \in Keys : mem'[h][j][x] = mem[h][j][x]
    BY <1>t, <2>1
  <2> QED BY <2>3, <2>5, <2>6, <2>7 DEF Wrote
<1>2. CASE i # NTiers
  <2>1. i \in Upper /\ UNCHANGED redisVars
    BY <1>2, TierFacts DEF TierSet
  <2>2. CASE mem' = mem /\ ok = FALSE
    BY <1>2, <1>t, <2>1, <2>2 DEF Wrote, RedisTypeOK, redisVars
  <2>3. CASE \E others \in SUBSET {h \in DOMAIN mem : mem[h][i][k] # None} :
               mem' = [h \in DOMAIN mem |->
                         IF h \in others \cup {g} THEN [mem[h] EXCEPT ![i][k] = v] ELSE mem[h]]
    <3>1. PICK others \in SUBSET {h \in DOMAIN mem : mem[h][i][k] # None} :
               mem' = [h \in DOMAIN mem |->
                         IF h \in others \cup {g} THEN [mem[h] EXCEPT ![i][k] = v] ELSE mem[h]]
      BY <2>3
    <3>2. ASSUME NEW h \in DOMAIN mem
          PROVE  /\ mem'[h] \in Config
                 /\ \A j \in Upper, x \in Keys :
                      mem'[h][j][x] = mem[h][j][x] \/ (x = k /\ mem'[h][j][x] = v)
                 /\ h = g => mem'[h][i][k] = v
      <4>1. CASE h \in others \cup {g}
        <5>1. mem'[h] = [mem[h] EXCEPT ![i][k] = v]
          BY <3>1, <4>1
        <5>2. mem[h] \in Config
          BY <1>t
        <5> QED BY <2>1, <5>1, <5>2, WriteCopy
      <4>2. CASE h \notin others \cup {g}
        BY <1>t, <3>1, <4>2
      <4> QED BY <4>1, <4>2
    <3>3. mem' \in Seq(Config) /\ Len(mem') = Len(mem)
      BY <1>t, <3>1, <3>2, MemMap
    <3> QED BY <1>2, <1>t, <2>1, <3>2, <3>3 DEF Wrote, RedisTypeOK, redisVars
  <2> QED BY <1>2, <2>2, <2>3 DEF TierSet
<1> QED BY <1>1, <1>2

\* A tier's Delete writes nothing but the absence of the key.
LEMMA DeleteWrote ==
  ASSUME TInv, NEW g \in DOMAIN mem, NEW i \in Tiers, NEW k \in Keys,
         NEW ok \in BOOLEAN, TierDelete(g, i, k, ok)
  PROVE  Wrote(g, i, {k}, None, ok)
<1>t. /\ mem \in Seq(Config) /\ RedisTypeOK /\ \A h \in DOMAIN mem : mem[h] \in Config
      /\ None \in Copies
  BY TypeParts, MemFacts, TierFacts
<1>1. CASE i = NTiers
  <2>1. Delete(k, ok) /\ mem' = mem
    BY <1>1 DEF TierDelete
  <2>2. hash \in [Keys -> Copies] /\ touches' = touches /\ touches \in [Keys -> 0..MaxTouches]
    BY <1>t, <2>1 DEF Delete, RedisTypeOK
  <2>3. /\ hash' \in [Keys -> Copies] /\ (ok => hash'[k] = None)
        /\ \A x \in Keys : hash'[x] = hash[x] \/ (x \in {k} /\ hash'[x] = None)
    BY <1>t, <2>1, <2>2 DEF Delete
  <2>4. NTiers \notin Upper
    BY TierFacts
  <2>5. RedisTypeOK'
    BY <2>2, <2>3 DEF RedisTypeOK
  <2>6. ok => \A x \in {k} : /\ i = NTiers => hash'[x] = None
                             /\ i \in Upper => mem'[g][i][x] = None
    BY <1>1, <2>3, <2>4
  <2>7. /\ mem' \in Seq(Config) /\ Len(mem') = Len(mem)
        /\ \A h \in DOMAIN mem, j \in Upper, x \in Keys : mem'[h][j][x] = mem[h][j][x]
    BY <1>t, <2>1
  <2> QED BY <2>3, <2>5, <2>6, <2>7 DEF Wrote
<1>2. CASE i # NTiers
  <2>1. i \in Upper /\ UNCHANGED redisVars /\ mem' = [mem EXCEPT ![g][i][k] = None]
    BY <1>2, TierFacts DEF TierDelete
  <2> DEFINE r == [mem[g] EXCEPT ![i][k] = None]
  <2>2. mem' = [mem EXCEPT ![g] = r]
    BY <2>1
  <2>3. /\ r \in Config
        /\ \A j \in Upper, x \in Keys : r[j][x] = IF j = i /\ x = k THEN None ELSE mem[g][j][x]
    <3>1. mem[g] \in Config /\ i \in Upper
      BY <1>t, <2>1
    <3>2. /\ [mem[g] EXCEPT ![i][k] = None] \in Config
          /\ \A j \in Upper, x \in Keys :
               [mem[g] EXCEPT ![i][k] = None][j][x] = IF j = i /\ x = k THEN None ELSE mem[g][j][x]
      BY <1>t, <3>1, WriteCopy
    <3> QED BY <3>2
  <2> HIDE DEF r
  <2>4. mem'[g] = r /\ \A h \in DOMAIN mem : h # g => mem'[h] = mem[h]
    BY <2>2
  <2>5. mem' = [h \in DOMAIN mem |-> mem'[h]] /\ \A h \in DOMAIN mem : mem'[h] \in Config
    BY <1>t, <2>2, <2>3
  <2>6. mem' \in Seq(Config) /\ Len(mem') = Len(mem)
    BY <1>t, <2>5, MemMap
  <2>7. \A h \in DOMAIN mem, j \in Upper, x \in Keys :
          mem'[h][j][x] = mem[h][j][x] \/ (x \in {k} /\ mem'[h][j][x] = None)
    BY <2>3, <2>4
  <2>8. mem'[g][i][k] = None
    BY <2>1, <2>3, <2>4
  <2> QED BY <1>2, <1>t, <2>1, <2>6, <2>7, <2>8 DEF Wrote, RedisTypeOK, redisVars
<1> QED BY <1>1, <1>2

\* A tier's Clear writes the absence of every key.
LEMMA ClearWrote ==
  ASSUME TInv, NEW g \in DOMAIN mem, NEW i \in Tiers, NEW ok \in BOOLEAN, TierClear(g, i, ok)
  PROVE  Wrote(g, i, Keys, None, ok)
<1>t. /\ mem \in Seq(Config) /\ RedisTypeOK /\ \A h \in DOMAIN mem : mem[h] \in Config
      /\ None \in Copies
  BY TypeParts, MemFacts, TierFacts
<1>1. CASE i = NTiers
  <2>1. Clear(ok) /\ mem' = mem
    BY <1>1 DEF TierClear
  <2>2. hash \in [Keys -> Copies] /\ touches' = touches /\ touches \in [Keys -> 0..MaxTouches]
    BY <1>t, <2>1 DEF Clear, RedisTypeOK
  <2>3. /\ hash' \in [Keys -> Copies] /\ (ok => \A x \in Keys : hash'[x] = None)
        /\ \A x \in Keys : hash'[x] = hash[x] \/ (x \in Keys /\ hash'[x] = None)
    BY <1>t, <2>1, <2>2 DEF Clear
  <2>4. NTiers \notin Upper
    BY TierFacts
  <2>5. RedisTypeOK'
    BY <2>2, <2>3 DEF RedisTypeOK
  <2>6. ok => \A x \in Keys : /\ i = NTiers => hash'[x] = None
                              /\ i \in Upper => mem'[g][i][x] = None
    BY <1>1, <2>3, <2>4
  <2>7. /\ mem' \in Seq(Config) /\ Len(mem') = Len(mem)
        /\ \A h \in DOMAIN mem, j \in Upper, x \in Keys : mem'[h][j][x] = mem[h][j][x]
    BY <1>t, <2>1
  <2> QED BY <2>3, <2>5, <2>6, <2>7 DEF Wrote
<1>2. CASE i # NTiers
  <2>1. i \in Upper /\ UNCHANGED redisVars
    BY <1>2, TierFacts DEF TierClear
  <2>2. CASE mem' = mem /\ ok = FALSE
    BY <1>2, <1>t, <2>1, <2>2 DEF Wrote, RedisTypeOK, redisVars
  <2>3. CASE mem' = [mem EXCEPT ![g][i] = [k \in Keys |-> None]]
    <3> DEFINE r == [mem[g] EXCEPT ![i] = [k \in Keys |-> None]]
    <3>1. mem' = [mem EXCEPT ![g] = r]
      BY <2>3
    <3>2. /\ r \in Config
          /\ \A j \in Upper, x \in Keys : r[j][x] = IF j = i THEN None ELSE mem[g][j][x]
      BY <1>t, <2>1 DEF Config
    <3> HIDE DEF r
    <3>3. mem'[g] = r /\ \A h \in DOMAIN mem : h # g => mem'[h] = mem[h]
      BY <3>1
    <3>4. mem' = [h \in DOMAIN mem |-> mem'[h]] /\ \A h \in DOMAIN mem : mem'[h] \in Config
      BY <1>t, <3>1, <3>2
    <3>5. mem' \in Seq(Config) /\ Len(mem') = Len(mem)
      BY <1>t, <3>4, MemMap
    <3>6. \A h \in DOMAIN mem, j \in Upper, x \in Keys :
            mem'[h][j][x] = mem[h][j][x] \/ (x \in Keys /\ mem'[h][j][x] = None)
      BY <3>2, <3>3
    <3>7. \A x \in Keys : mem'[g][i][x] = None
      BY <2>1, <3>2, <3>3
    <3> QED BY <1>2, <1>t, <2>1, <3>5, <3>6, <3>7 DEF Wrote, RedisTypeOK, redisVars
  <2> QED BY <1>2, <2>2, <2>3 DEF TierClear
<1> QED BY <1>1, <1>2


-----------------------------------------------------------------------------
(* The inductive invariant.  A clean call settles its keys tier by tier: no *)
(* other call is about them, and the tiers it has visited, of its           *)
(* configuration and of one that has replaced it, are free of the values    *)
(* that it puts an end to.                                                  *)
Settles(p, c) ==
  /\ c.op \in {"set", "delete", "clear", "cleanup"} /\ c.last = NTiers
  /\ c.op # "set" => c.val = None
  /\ \A q \in Procs \ {p} : call[q].keys \cap c.keys = {}
  /\ \A k \in c.keys, i \in Upper :
       /\ i < c.tier => mem[c.cfg][i][k] \in {None, Blank, c.val}
       /\ current \notin {0, c.cfg} => mem[current][i][k] \in {None, Blank, c.val}

Settling == \A p \in Procs : call[p].clean => Settles(p, call[p])

\* What TInv says of a call and of the configuration in use.
LEMMA CallFacts ==
  ASSUME TInv, NEW p \in Procs
  PROVE  /\ Len(mem) \in Nat /\ DOMAIN mem = 1..Len(mem)
         /\ current # 0 => current \in DOMAIN mem
         /\ 0 \notin DOMAIN mem
         /\ call[p] \in CallType(Len(mem)) /\ Shape(call[p], Len(mem))
         /\ call[p].op \in Single \cup Whole =>
              /\ call[p].cfg \in DOMAIN mem /\ call[p].tier \in Tiers /\ call[p].last \in Tiers
              /\ call[p].tier <= call[p].last
         /\ call[p].op \notin Single \cup Whole =>
              call[p].op \in {"idle", "spawned"} /\ call[p].keys = {} /\ ~ call[p].clean
         /\ \A k \in call[p].keys : call[p].cfg \in DOMAIN mem /\ k \in Keys
<1>1. /\ mem \in Seq(Config) /\ current \in 0..Len(mem) /\ CallsOK(call, Len(mem))
  BY TypeParts
<1>2. Len(mem) \in Nat /\ DOMAIN mem = 1..Len(mem)
  BY <1>1, MemFacts
<1>3. call[p] \in CallType(Len(mem)) /\ Shape(call[p], Len(mem))
  BY <1>1 DEF CallsOK
<1>4. call[p].op \in Single \cup Whole =>
        /\ call[p].cfg \in DOMAIN mem /\ call[p].tier \in Tiers /\ call[p].last \in Tiers
        /\ call[p].tier <= call[p].last
  BY <1>2, <1>3, TierFacts DEF Shape, CallType, Tiers
<1>5. call[p].op \notin Single \cup Whole =>
        call[p].op \in {"idle", "spawned"} /\ call[p].keys = {} /\ ~ call[p].clean
  BY <1>3 DEF Shape, CallType, Ops, Single, Whole
<1>6. call[p].keys \subseteq Keys
  BY <1>3 DEF CallType
<1> QED BY <1>1, <1>2, <1>3, <1>4, <1>5, <1>6

\* The key of a call about one key.
LEMMA KeyFacts ==
  ASSUME TInv, NEW p \in Procs, call[p].op \in Single
  PROVE  KeyOf(p) \in Keys /\ call[p].keys = {KeyOf(p)}
<1>1. \E k \in Keys : call[p].keys = {k}
  BY CallFacts DEF Shape
<1> QED BY <1>1 DEF KeyOf

\* A step that only loses copies, ends calls or puts an empty configuration in
\* the place of the current one.
LEMMA Quiet ==
  ASSUME TInv, CopiesAllowed, Settling, may' = may, mem' \in Seq(Config),
         \A q \in Procs : call'[q] = call[q] \/ (call'[q].keys = {} /\ ~ call'[q].clean),
         \A k \in Keys : hash'[k] = hash[k] \/ hash'[k] \in {None, Blank},
         \A h \in DOMAIN mem, i \in Upper, k \in Keys :
           mem'[h][i][k] = mem[h][i][k] \/ mem'[h][i][k] = None,
         \/ current' = current
         \/ current' \notin DOMAIN mem /\ \A i \in Upper, k \in Keys : mem'[current'][i][k] = None
  PROVE  CopiesAllowed' /\ Settling'
<1>1. ASSUME NEW k \in Keys PROVE hash'[k] \in may'[k] \cup {None, Blank}
  BY DEF CopiesAllowed
<1>2. ASSUME NEW k \in Keys, NEW g \in InUse(k)', NEW i \in Upper
      PROVE  mem'[g][i][k] \in may'[k] \cup {None, Blank}
  <2>1. CASE g = current' /\ current' # current
    BY <2>1
  <2>2. CASE ~ (g = current' /\ current' # current)
    <3>1. g = current \/ \E q \in Procs : call[q].cfg = g /\ k \in call[q].keys
      BY <2>2 DEF InUse
    <3>2. g \in DOMAIN mem
      <4>1. CASE \E q \in Procs : call[q].cfg = g /\ k \in call[q].keys
        BY <4>1, CallFacts
      <4>2. CASE g = current
        <5>1. g \in DOMAIN mem'
          BY DEF InUse
        <5>2. 0 \notin DOMAIN mem'
          BY MemFacts
        <5>3. current \in 0..Len(mem) /\ DOMAIN mem = 1..Len(mem) /\ Len(mem) \in Nat
          BY TypeParts, MemFacts
        <5> QED BY <4>2, <5>1, <5>2, <5>3
      <4> QED BY <3>1, <4>1, <4>2
    <3>3. g \in InUse(k)
      BY <3>1, <3>2 DEF InUse
    <3> QED BY <3>2, <3>3 DEF CopiesAllowed
  <2> QED BY <2>1, <2>2
<1>3. ASSUME NEW k \in Keys, NEW q \in Procs, k \in call'[q].keys
      PROVE  call'[q].val \in may'[k] \cup {None, Blank}
  BY <1>3 DEF CopiesAllowed
<1>4. CopiesAllowed'
  BY <1>1, <1>2, <1>3 DEF CopiesAllowed
<1>5. ASSUME NEW p \in Procs, call'[p].clean PROVE Settles(p, call[p])'
  <2>1. call'[p] = call[p] /\ Settles(p, call[p])
    BY <1>5 DEF Settling
  <2>2. \A q \in Procs \ {p} : call'[q].keys \cap call[p].keys = {}
    BY <2>1 DEF Settles
  <2>3. ASSUME NEW k \in call[p].keys, NEW i \in Upper
        PROVE  /\ i < call[p].tier => mem'[call[p].cfg][i][k] \in {None, Blank, call[p].val}
               /\ current' \notin {0, call[p].cfg} =>
                    mem'[current'][i][k] \in {None, Blank, call[p].val}
    <3>1. call[p].cfg \in DOMAIN mem /\ k \in Keys /\ (current # 0 => current \in DOMAIN mem)
      BY CallFacts
    <3>2. i < call[p].tier => mem'[call[p].cfg][i][k] \in {None, Blank, call[p].val}
      BY <2>1, <3>1 DEF Settles
    <3>3. CASE current' = current
      BY <2>1, <3>1, <3>2, <3>3 DEF Settles
    <3>4. CASE current' # current
      BY <3>1, <3>2, <3>4
    <3> QED BY <3>3, <3>4
  <2> QED BY <2>1, <2>2, <2>3 DEF Settles
<1> QED BY <1>4, <1>5 DEF Settling


\* A call begins: p was idle, and c looks where somebody may look anyway and
\* carries what the keys may be.  cs is call, or call with one that is over.
LEMMA Begins ==
  ASSUME TInv, CopiesAllowed, Settling, UNCHANGED <<hash, mem, current>>,
         NEW p \in Procs, NEW cs, CallsOK(cs, Len(mem)),
         \A q \in Procs : cs[q] = call[q] \/ cs[q] = Idle,
         NEW c \in CallType(Len(mem)), Shape(c, Len(mem)), call' = Began(cs, p, c),
         \A k \in Keys : may[k] \subseteq may'[k],
         \A k \in c.keys : c.cfg \in InUse(k) /\ c.val \in may'[k] \cup {None, Blank},
         c.clean => /\ c.op \in {"set", "delete", "clear", "cleanup"} /\ c.last = NTiers
                    /\ c.tier = 1 /\ c.cfg = current /\ (c.op # "set" => c.val = None)
  PROVE  CopiesAllowed' /\ Settling'
<1>n. Len(mem) \in Nat /\ \A q \in Procs : call[q].keys \subseteq Keys
  BY CallFacts
<1>1. /\ call'[p].op = c.op /\ call'[p].cfg = c.cfg /\ call'[p].tier = c.tier
      /\ call'[p].last = c.last /\ call'[p].keys = c.keys /\ call'[p].val = c.val
      /\ call'[p].clean => c.clean /\ \A q \in Procs \ {p} : call'[q].keys \cap c.keys = {}
      /\ \A q \in Procs \ {p} :
           /\ call'[q].op = cs[q].op /\ call'[q].cfg = cs[q].cfg /\ call'[q].tier = cs[q].tier
           /\ call'[q].last = cs[q].last /\ call'[q].keys = cs[q].keys
           /\ call'[q].val = cs[q].val
           /\ call'[q].clean => cs[q].clean /\ cs[q].keys \cap c.keys = {}
  BY <1>n, BeganFacts
<1>2. Idle.keys = {} /\ Idle.clean = FALSE
  BY <1>n, IdleFacts
<1>3. \A q \in Procs \ {p} : call'[q].keys \subseteq call[q].keys
  BY <1>1, <1>2
<1>4. ASSUME NEW k \in Keys, NEW q \in Procs, k \in call'[q].keys
      PROVE  call'[q].cfg \in InUse(k) /\ call'[q].val \in may'[k] \cup {None, Blank}
  <2>1. CASE q = p
    BY <1>1, <1>4, <2>1
  <2>2. CASE q # p
    <3>1. cs[q] = call[q] /\ k \in call[q].keys /\ call'[q].cfg = call[q].cfg
          /\ call'[q].val = call[q].val
      BY <1>1, <1>2, <1>4, <2>2
    <3>2. call[q].cfg \in InUse(k)
      BY <3>1, CallFacts DEF InUse
    <3> QED BY <3>1, <3>2 DEF CopiesAllowed
  <2> QED BY <2>1, <2>2
<1>5. ASSUME NEW k \in Keys, NEW g \in InUse(k)' PROVE g \in InUse(k)
  BY <1>4 DEF InUse
<1>6. CopiesAllowed'
  BY <1>4, <1>5 DEF CopiesAllowed
<1>7. ASSUME NEW q \in Procs, call'[q].clean PROVE Settles(q, call[q])'
  <2>1. CASE q = p
    <3>1. /\ c.op \in {"set", "delete", "clear", "cleanup"} /\ c.last = NTiers
          /\ c.tier = 1 /\ c.cfg = current /\ (c.op # "set" => c.val = None)
      BY <1>1, <1>7, <2>1
    <3>2. \A i \in Upper : ~ (i < c.tier)
      BY <3>1, TierFacts DEF Upper
    <3> QED BY <1>1, <1>7, <2>1, <3>1, <3>2 DEF Settles
  <2>2. CASE q # p
    <3>1. cs[q].clean /\ cs[q].keys \cap c.keys = {}
      BY <1>1, <1>7, <2>2
    <3>2. cs[q] = call[q]
      BY <1>2, <3>1
    <3>3. Settles(q, call[q])
      BY <3>1, <3>2 DEF Settling
    <3>4. \A r \in Procs \ {q} : call'[r].keys \cap call[q].keys = {}
      BY <1>1, <1>3, <3>1, <3>2, <3>3 DEF Settles
    <3> QED BY <1>1, <2>2, <3>2, <3>3, <3>4 DEF Settles
  <2> QED BY <2>1, <2>2
<1> QED BY <1>6, <1>7 DEF Settling

\* A call visits its tier.
LEMMA Works ==
  ASSUME TInv, CopiesAllowed, Settling, NEW p \in Procs, call[p].op \in Single \cup Whole,
         NEW ok \in BOOLEAN, call' = Advanced(p, ok), current' \in {current, 0},
         Wrote(call[p].cfg, call[p].tier, call[p].keys, call[p].val, ok),
         \A x \in Keys : ~ (Undisturbed(p, ok) /\ x \in call[p].keys) => may'[x] = may[x],
         Undisturbed(p, ok) =>
           \A x \in call[p].keys : call[p].val \in may'[x] \cup {None, Blank}
  PROVE  CopiesAllowed' /\ Settling'
<1> DEFINE c == call[p]
           d == call'[p]
<1>n. /\ Len(mem) \in Nat /\ DOMAIN mem' = DOMAIN mem /\ 0 \notin DOMAIN mem
      /\ c.cfg \in DOMAIN mem /\ c.tier \in Tiers /\ c.last \in Tiers /\ c.tier <= c.last
      /\ c.keys \subseteq Keys /\ (current # 0 => current \in DOMAIN mem)
  <2>1. mem' \in Seq(Config) /\ Len(mem') = Len(mem)
    BY DEF Wrote
  <2> QED BY <2>1, CallFacts, MemFacts
<1>w. /\ \A h \in DOMAIN mem, j \in Upper, x \in Keys :
           mem'[h][j][x] = mem[h][j][x] \/ (x \in c.keys /\ mem'[h][j][x] = c.val)
      /\ \A x \in Keys : hash'[x] = hash[x] \/ (x \in c.keys /\ hash'[x] = c.val)
      /\ ok => \A x \in c.keys : /\ c.tier = NTiers => hash'[x] = c.val
                                 /\ c.tier \in Upper => mem'[c.cfg][c.tier][x] = c.val
  BY DEF Wrote
<1>1. /\ \A q \in Procs : q # p => call'[q] = call[q]
      /\ c.tier = c.last => d = Idle
      /\ c.tier # c.last =>
           /\ d.op = c.op /\ d.cfg = c.cfg /\ d.last = c.last /\ d.keys = c.keys
           /\ d.val = c.val /\ d.tier = c.tier + 1 /\ d.clean = (c.clean /\ ok)
  <2>1. CallsOK(call, Len(mem))
    BY TypeParts
  <2> QED BY <1>n, <2>1, AdvancedFacts
<1>2. Idle.keys = {} /\ Idle.clean = FALSE
  BY <1>n, IdleFacts
<1>3. c.clean => Settles(p, c)
  BY DEF Settling
<1>4. ASSUME NEW q \in Procs, NEW k \in call'[q].keys
      PROVE  k \in call[q].keys /\ call'[q].cfg = call[q].cfg /\ call'[q].val = call[q].val
  BY <1>1, <1>2
<1>5. ASSUME NEW k \in Keys, Undisturbed(p, ok), k \in c.keys
      PROVE  /\ hash'[k] \in may'[k] \cup {None, Blank}
             /\ \A g \in InUse(k)', i \in Upper : mem'[g][i][k] \in may'[k] \cup {None, Blank}
             /\ \A q \in Procs : k \in call'[q].keys => call'[q].val \in may'[k] \cup {None, Blank}
  <2>1. /\ c.tier = NTiers /\ c.last = NTiers /\ c.clean /\ ok /\ Settles(p, c) /\ d = Idle
        /\ c.val \in may'[k] \cup {None, Blank}
    BY <1>1, <1>3, <1>5 DEF Undisturbed, Settles
  <2>2. hash'[k] = c.val
    BY <1>5, <1>w, <2>1
  <2>3. ASSUME NEW q \in Procs PROVE k \notin call'[q].keys
    <3>1. CASE q = p
      BY <1>2, <2>1, <3>1
    <3>2. CASE q # p
      <4>1. call[q].keys \cap c.keys = {}
        BY <2>1, <3>2 DEF Settles
      <4> QED BY <1>1, <1>5, <3>2, <4>1
    <3> QED BY <3>1, <3>2
  <2>4. ASSUME NEW g \in InUse(k)', NEW i \in Upper
        PROVE  mem'[g][i][k] \in may'[k] \cup {None, Blank}
    <3>1. g = current /\ g \in DOMAIN mem /\ current # 0
      BY <1>n, <2>3 DEF InUse
    <3>2. i < c.tier
      BY <2>1, TierFacts DEF Upper
    <3>3. mem[g][i][k] \in {None, Blank, c.val}
      BY <1>5, <2>1, <3>1, <3>2 DEF Settles
    <3> QED BY <1>w, <2>1, <3>1, <3>3
  <2> QED BY <2>1, <2>2, <2>3, <2>4
<1>6. ASSUME NEW k \in Keys, ~ (Undisturbed(p, ok) /\ k \in c.keys)
      PROVE  /\ hash'[k] \in may'[k] \cup {None, Blank}
             /\ \A g \in InUse(k)', i \in Upper : mem'[g][i][k] \in may'[k] \cup {None, Blank}
             /\ \A q \in Procs : k \in call'[q].keys => call'[q].val \in may'[k] \cup {None, Blank}
  <2>1. /\ may'[k] = may[k] /\ (k \in c.keys => c.val \in may[k] \cup {None, Blank})
    BY <1>6 DEF CopiesAllowed
  <2>2. hash'[k] \in may'[k] \cup {None, Blank}
    BY <1>w, <2>1 DEF CopiesAllowed
  <2>3. ASSUME NEW g \in InUse(k)' PROVE g \in InUse(k) /\ g \in DOMAIN mem
    BY <1>n, <1>4 DEF InUse
  <2>4. ASSUME NEW g \in InUse(k)', NEW i \in Upper
        PROVE  mem'[g][i][k] \in may'[k] \cup {None, Blank}
    <3>1. mem[g][i][k] \in may[k] \cup {None, Blank}
      BY <2>3 DEF CopiesAllowed
    <3> QED BY <1>w, <2>1, <2>3, <3>1
  <2>5. ASSUME NEW q \in Procs, k \in call'[q].keys
        PROVE  call'[q].val \in may'[k] \cup {None, Blank}
    BY <1>4, <2>1, <2>5 DEF CopiesAllowed
  <2> QED BY <2>2, <2>4, <2>5
<1>7. CopiesAllowed'
  BY <1>5, <1>6 DEF CopiesAllowed
<1>8. ASSUME d.clean PROVE Settles(p, call[p])'
  <2>1. /\ c.tier # c.last /\ c.clean /\ ok /\ Settles(p, c)
        /\ d.op = c.op /\ d.cfg = c.cfg /\ d.last = c.last /\ d.keys = c.keys
        /\ d.val = c.val /\ d.tier = c.tier + 1
    BY <1>1, <1>2, <1>3, <1>8
  <2>2. \A q \in Procs \ {p} : call'[q].keys \cap c.keys = {}
    BY <1>1, <2>1 DEF Settles
  <2>3. ASSUME NEW k \in c.keys, NEW i \in Upper
        PROVE  /\ i < c.tier + 1 => mem'[c.cfg][i][k] \in {None, Blank, c.val}
               /\ current' \notin {0, c.cfg} => mem'[current'][i][k] \in {None, Blank, c.val}
    <3>1. ASSUME i < c.tier + 1 PROVE mem'[c.cfg][i][k] \in {None, Blank, c.val}
      <4>1. i = c.tier \/ i < c.tier
        BY <1>n, <3>1, TierFacts DEF Upper, Tiers
      <4>2. CASE i = c.tier
        BY <1>w, <2>1, <4>2
      <4>3. CASE i < c.tier
        <5>1. mem[c.cfg][i][k] \in {None, Blank, c.val}
          BY <2>1, <4>3 DEF Settles
        <5> QED BY <1>n, <1>w, <5>1
      <4> QED BY <4>1, <4>2, <4>3
    <3>2. ASSUME current' \notin {0, c.cfg} PROVE mem'[current'][i][k] \in {None, Blank, c.val}
      <4>1. current' = current /\ current \in DOMAIN mem
        BY <1>n, <3>2
      <4>2. mem[current][i][k] \in {None, Blank, c.val}
        BY <2>1, <3>2, <4>1 DEF Settles
      <4> QED BY <1>n, <1>w, <4>1, <4>2
    <3> QED BY <3>1, <3>2
  <2>4. /\ d.op \in {"set", "delete", "clear", "cleanup"} /\ d.last = NTiers
        /\ d.op # "set" => d.val = None
    BY <2>1 DEF Settles
  <2>5. /\ \A q \in Procs \ {p} : call'[q].keys \cap d.keys = {}
        /\ \A k \in d.keys, i \in Upper :
             /\ i < d.tier => mem'[d.cfg][i][k] \in {None, Blank, d.val}
             /\ current' \notin {0, d.cfg} => mem'[current'][i][k] \in {None, Blank, d.val}
    <3>1. d.keys = c.keys /\ d.cfg = c.cfg /\ d.tier = c.tier + 1 /\ d.val = c.val
      BY <2>1
    <3> HIDE DEF c, d
    <3> QED BY <2>2, <2>3, <3>1
  <2> QED BY <2>4, <2>5 DEF Settles
<1>9. ASSUME NEW r \in Procs, r # p, call'[r].clean PROVE Settles(r, call[r])'
  <2>1. call'[r] = call[r] /\ Settles(r, call[r])
    BY <1>1, <1>9 DEF Settling
  <2>2. \A q \in Procs \ {r} : call'[q].keys \cap call[r].keys = {}
    BY <1>4, <2>1 DEF Settles
  <2>3. ASSUME NEW k \in call[r].keys, NEW i \in Upper
        PROVE  /\ i < call[r].tier => mem'[call[r].cfg][i][k] \in {None, Blank, call[r].val}
               /\ current' \notin {0, call[r].cfg} =>
                    mem'[current'][i][k] \in {None, Blank, call[r].val}
    <3>1. k \notin c.keys /\ k \in Keys /\ call[r].cfg \in DOMAIN mem
      BY <1>9, <2>1, CallFacts DEF Settles
    <3>2. \A h \in DOMAIN mem : mem'[h][i][k] = mem[h][i][k]
      BY <1>w, <3>1
    <3> QED BY <1>n, <2>1, <3>1, <3>2 DEF Settles
  <2> QED BY <2>1, <2>2, <2>3 DEF Settles
<1> QED BY <1>7, <1>8, <1>9 DEF Settling


-----------------------------------------------------------------------------
(* The steps. *)
Inv == TInv /\ CopiesAllowed /\ Settling

\* Numbers of configurations.
LEMMA Numbers ==
  ASSUME NEW n \in Nat
  PROVE  0 \in 0..n /\ \A i \in 0..n : (i # 0 => i \in 1..n) /\ i \in 0..(n + 1)
OBVIOUS

\* An exported call begins.
LEMMA StartStep ==
  ASSUME Inv, NEW p \in Procs, NEW op \in {"get", "set", "delete", "clear", "cleanup"},
         NEW first \in Tiers, NEW last \in Tiers, first <= last,
         NEW K \in SUBSET Keys, NEW v \in Copies, NEW settles \in BOOLEAN,
         Start(p, op, first, last, K, v, settles),
         op \in Single => \E k \in Keys : K = {k},
         op \in Whole => K = Keys,
         IF op = "set" THEN v \in Values ELSE v = None,
         settles => first = 1 /\ last = NTiers /\ op # "get",
         may' \in [Keys -> SUBSET Values],
         \A k \in Keys : may[k] \subseteq may'[k],
         \A k \in K : v \in may'[k] \cup {None, Blank}
  PROVE  Inv'
<1> DEFINE prom == (op = "get" /\ policy = "write-through")
           c == [op |-> op, cfg |-> current, tier |-> first, last |-> last, keys |-> K,
                 val |-> v, clean |-> settles, promotes |-> prom]
<1>1. /\ current # 0 /\ call' = Began(call, p, c) /\ hash' = hash /\ touches' = touches
      /\ policy' = policy /\ mem' = mem /\ current' = current
  BY DEF Start, redisVars
<1>2. /\ TInv /\ CopiesAllowed /\ Settling /\ mem \in Seq(Config) /\ RedisTypeOK
      /\ current \in 0..Len(mem) /\ CallsOK(call, Len(mem)) /\ Len(mem) \in Nat
      /\ Len(mem) <= MaxConfigs /\ policy \in Policies \cup {""} /\ DOMAIN mem = 1..Len(mem)
  BY TypeParts, MemFacts DEF Inv
<1>3. /\ c.op = op /\ c.cfg = current /\ c.tier = first /\ c.last = last /\ c.keys = K
      /\ c.val = v /\ c.clean = settles
  OBVIOUS
<1>4. c \in CallType(Len(mem))
  <2>1. prom \in BOOLEAN /\ op \in Ops /\ first \in 0..NTiers /\ last \in 0..NTiers
    BY TierFacts DEF Ops, Tiers
  <2> HIDE DEF prom
  <2> QED BY <1>2, <2>1 DEF CallType
<1>5. current \in 1..Len(mem) /\ current \in DOMAIN mem /\ 1 <= first
  <2>1. current \in 1..Len(mem)
    BY <1>1, <1>2, Numbers
  <2>2. 1 <= first
    BY TierFacts DEF Tiers
  <2> QED BY <1>2, <2>1, <2>2
<1> HIDE DEF c
<1>6. Shape(c, Len(mem))
  BY <1>3, <1>5 DEF Shape, Single, Whole
<1>7. CallsOK(call', Len(mem))
  BY <1>1, <1>2, <1>4, <1>6, BeganFacts
<1>8. TInv'
  <2>1. RedisTypeOK'
    BY <1>1, <1>2 DEF RedisTypeOK
  <2> QED BY <1>1, <1>2, <1>7, <2>1, TypePartsNext
<1>9. CopiesAllowed' /\ Settling'
  <2>1. \A k \in c.keys : c.cfg \in InUse(k) /\ c.val \in may'[k] \cup {None, Blank}
    BY <1>3, <1>5 DEF InUse
  <2>2. c.clean => /\ c.op \in {"set", "delete", "clear", "cleanup"} /\ c.last = NTiers
                   /\ c.tier = 1 /\ c.cfg = current /\ (c.op # "set" => c.val = None)
    BY <1>3
  <2> QED BY <1>1, <1>2, <1>4, <1>6, <2>1, <2>2, Begins
<1> QED BY <1>8, <1>9 DEF Inv

\* Changing what may be stored under one key leaves the others alone.
LEMMA MayFacts ==
  ASSUME TInv, NEW k \in Keys, NEW V \in SUBSET Values
  PROVE  /\ [may EXCEPT ![k] = V] \in [Keys -> SUBSET Values]
         /\ [may EXCEPT ![k] = V][k] = V
         /\ \A x \in Keys : x # k => [may EXCEPT ![k] = V][x] = may[x]
         /\ may \in [Keys -> SUBSET Values] /\ may[k] \in SUBSET Values
<1>1. may \in [Keys -> SUBSET Values]
  BY TypeParts
<1> QED BY <1>1

\* A Get begins.
LEMMA GetStartStep ==
  ASSUME Inv, NEW p \in Procs, NEW k \in Keys, GetStart(p, k)
  PROVE  Inv'
<1>1. Start(p, "get", 1, NTiers, {k}, None, FALSE) /\ may' = may
  BY DEF GetStart
<1>2. may \in [Keys -> SUBSET Values]
  BY TypeParts DEF Inv
<1>3. 1 \in Tiers /\ NTiers \in Tiers /\ 1 <= NTiers /\ None \in Copies
  BY TierFacts DEF Tiers
<1>4. /\ "get" \in {"get", "set", "delete", "clear", "cleanup"} /\ {k} \in SUBSET Keys
      /\ FALSE \in BOOLEAN /\ "get" \notin Whole /\ \E x \in Keys : {k} = {x}
      /\ "get" # "set" /\ None \in {None, Blank}
  BY DEF Whole
<1>5. \A x \in Keys : may[x] \subseteq may'[x]
  BY <1>1
<1>6. /\ "get" \in Single => \E x \in Keys : {k} = {x}
      /\ "get" \in Whole => {k} = Keys
      /\ IF "get" = "set" THEN None \in Values ELSE None = None
      /\ FALSE => 1 = 1 /\ NTiers = NTiers /\ "get" # "get"
      /\ \A x \in {k} : None \in may'[x] \cup {None, Blank}
  BY <1>4
<1> QED BY <1>1, <1>2, <1>3, <1>4, <1>5, <1>6, StartStep

\* A Delete begins.
LEMMA DeleteStartStep ==
  ASSUME Inv, NEW p \in Procs, NEW k \in Keys, DeleteStart(p, k)
  PROVE  Inv'
<1>1. Start(p, "delete", 1, NTiers, {k}, None, TRUE) /\ may' = may
  BY DEF DeleteStart
<1>2. may \in [Keys -> SUBSET Values]
  BY TypeParts DEF Inv
<1>3. 1 \in Tiers /\ NTiers \in Tiers /\ 1 <= NTiers /\ None \in Copies
  BY TierFacts DEF Tiers
<1>4. /\ "delete" \in {"get", "set", "delete", "clear", "cleanup"} /\ {k} \in SUBSET Keys
      /\ TRUE \in BOOLEAN /\ "delete" \notin Whole /\ \E x \in Keys : {k} = {x}
      /\ "delete" # "set" /\ None \in {None, Blank}
  BY DEF Whole
<1>5. \A x \in Keys : may[x] \subseteq may'[x]
  BY <1>1
<1>6. /\ "delete" \in Single => \E x \in Keys : {k} = {x}
      /\ "delete" \in Whole => {k} = Keys
      /\ IF "delete" = "set" THEN None \in Values ELSE None = None
      /\ TRUE => 1 = 1 /\ NTiers = NTiers /\ "delete" # "get"
      /\ \A x \in {k} : None \in may'[x] \cup {None, Blank}
  BY <1>4
<1> QED BY <1>1, <1>2, <1>3, <1>4, <1>5, <1>6, StartStep

\* A Set begins, of the tiers that the policy names.
LEMMA SetStartStep ==
  ASSUME Inv, NEW p \in Procs, NEW k \in Keys, NEW v \in Values, SetStart(p, k, v)
  PROVE  Inv'
<1> DEFINE settles == (policy \notin {"write-back", "write-around"})
<1>1. /\ Start(p, "set", SetFirst, SetLast, {k}, v, settles)
      /\ may' = [may EXCEPT ![k] = may[k] \cup {v}]
  BY DEF SetStart
<1>2. /\ may' \in [Keys -> SUBSET Values] /\ \A x \in Keys : may[x] \subseteq may'[x]
      /\ v \in may'[k]
  <2>1. may \in [Keys -> SUBSET Values]
    BY TypeParts DEF Inv
  <2> QED BY <1>1, <2>1
<1>3. /\ SetFirst \in Tiers /\ SetLast \in Tiers /\ SetFirst <= SetLast /\ v \in Copies
      /\ settles \in BOOLEAN /\ (settles => SetFirst = 1 /\ SetLast = NTiers)
  BY TierFacts DEF Tiers, SetFirst, SetLast, Copies
<1> HIDE DEF settles
<1> QED BY <1>1, <1>2, <1>3, StartStep DEF Single, Whole

\* An Invalidate or a CleanupCache begins.
LEMMA WholeStartStep ==
  ASSUME Inv, NEW p \in Procs, NEW op \in {"clear", "cleanup"},
         Start(p, op, 1, NTiers, Keys, None, TRUE), may' = may
  PROVE  Inv'
<1>2. may \in [Keys -> SUBSET Values]
  BY TypeParts DEF Inv
<1>3. 1 \in Tiers /\ NTiers \in Tiers /\ 1 <= NTiers /\ None \in Copies
  BY TierFacts DEF Tiers
<1>4. /\ op \in {"get", "set", "delete", "clear", "cleanup"} /\ Keys \in SUBSET Keys
      /\ TRUE \in BOOLEAN /\ op \notin Single /\ op # "set" /\ op # "get"
  BY DEF Single
<1>5. \A x \in Keys : may[x] \subseteq may'[x]
  OBVIOUS
<1>6. /\ op \in Single => \E x \in Keys : Keys = {x}
      /\ op \in Whole => Keys = Keys
      /\ IF op = "set" THEN None \in Values ELSE None = None
      /\ TRUE => 1 = 1 /\ NTiers = NTiers /\ op # "get"
      /\ \A x \in Keys : None \in may'[x] \cup {None, Blank}
  BY <1>4
<1> QED BY <1>2, <1>3, <1>4, <1>5, <1>6, StartStep

\* A call visits its tier: the types.
LEMMA WorksTyped ==
  ASSUME Inv, NEW p \in Procs, call[p].op \in Single \cup Whole,
         NEW ok \in BOOLEAN, call' = Advanced(p, ok), current' \in {current, 0},
         policy' \in {policy, ""}, mem' \in Seq(Config), Len(mem') = Len(mem), RedisTypeOK',
         may' \in [Keys -> SUBSET Values]
  PROVE  TInv'
<1>1. /\ CallsOK(call, Len(mem)) /\ Len(mem) \in Nat /\ current \in 0..Len(mem)
      /\ policy \in Policies \cup {""} /\ Len(mem) <= MaxConfigs
  BY TypeParts, MemFacts DEF Inv
<1>2. CallsOK(call', Len(mem))
  BY <1>1, AdvancedFacts
<1>3. current' \in 0..Len(mem')
  <2>1. 0 \in 0..Len(mem)
    BY <1>1, Numbers
  <2> QED BY <1>1, <2>1
<1>4. policy' \in Policies \cup {""}
  BY <1>1
<1> QED BY <1>1, <1>2, <1>3, <1>4, TypePartsNext


\* A Set writes to its tier.
LEMMA SetTierStep ==
  ASSUME Inv, NEW p \in Procs, SetTier(p)
  PROVE  Inv'
<1> DEFINE c == call[p]
           k == KeyOf(p)
<1>1. PICK ok \in BOOLEAN :
        /\ call' = Advanced(p, ok) /\ current' = current /\ policy' = policy
        /\ TierSet(c.cfg, c.tier, k, c.val, ok)
        /\ may' = IF Undisturbed(p, ok) THEN [may EXCEPT ![k] = {c.val}] ELSE may
  BY DEF SetTier
<1>2. c.op = "set" /\ c.op \in Single /\ c.op \in Single \cup Whole /\ TInv
  BY DEF SetTier, Single, Inv
<1>3. k \in Keys /\ c.keys = {k}
  BY <1>2, KeyFacts
<1>4. c.cfg \in DOMAIN mem /\ c.tier \in Tiers /\ c.val \in Values /\ c.val \in Copies
  BY <1>2, CallFacts, TierFacts DEF Shape
<1>5. Wrote(c.cfg, c.tier, {k}, c.val, ok)
  BY <1>1, <1>2, <1>3, <1>4, SetWrote
<1>6. /\ may' \in [Keys -> SUBSET Values] /\ \A x \in Keys : x # k => may'[x] = may[x]
      /\ Undisturbed(p, ok) => c.val \in may'[k]
      /\ ~ Undisturbed(p, ok) => may' = may
  BY <1>1, <1>2, <1>3, <1>4, MayFacts
<1>7. TInv'
  BY <1>1, <1>2, <1>5, <1>6, WorksTyped DEF Wrote
<1>8. CopiesAllowed' /\ Settling'
  <2>1. /\ \A x \in Keys : ~ (Undisturbed(p, ok) /\ x \in c.keys) => may'[x] = may[x]
        /\ Undisturbed(p, ok) => \A x \in c.keys : c.val \in may'[x] \cup {None, Blank}
    BY <1>3, <1>6
  <2>2. Wrote(c.cfg, c.tier, c.keys, c.val, ok)
    BY <1>3, <1>5
  <2> QED BY <1>1, <1>2, <2>1, <2>2, Works DEF Inv
<1> QED BY <1>7, <1>8 DEF Inv

\* A Delete deletes in its tier.
LEMMA DeleteTierStep ==
  ASSUME Inv, NEW p \in Procs, DeleteTier(p)
  PROVE  Inv'
<1> DEFINE c == call[p]
           k == KeyOf(p)
<1>1. PICK ok \in BOOLEAN :
        /\ call' = Advanced(p, ok) /\ current' = current /\ policy' = policy
        /\ TierDelete(c.cfg, c.tier, k, ok)
        /\ may' = IF Undisturbed(p, ok) THEN [may EXCEPT ![k] = {}] ELSE may
  BY DEF DeleteTier
<1>2. c.op = "delete" /\ c.op \in Single /\ c.op \in Single \cup Whole /\ TInv /\ None \in Copies
  BY TierFacts DEF DeleteTier, Single, Inv
<1>3. k \in Keys /\ c.keys = {k}
  BY <1>2, KeyFacts
<1>4. c.cfg \in DOMAIN mem /\ c.tier \in Tiers
  BY <1>2, CallFacts
<1>5. Wrote(c.cfg, c.tier, {k}, None, ok)
  BY <1>1, <1>2, <1>3, <1>4, DeleteWrote
<1>6. /\ may' \in [Keys -> SUBSET Values] /\ \A x \in Keys : x # k => may'[x] = may[x]
      /\ ~ Undisturbed(p, ok) => may' = may
  BY <1>1, <1>2, <1>3, MayFacts
<1>7. TInv'
  BY <1>1, <1>2, <1>5, <1>6, WorksTyped DEF Wrote
<1>8. c.val = None
  BY <1>2, CallFacts DEF Shape
<1>9. CopiesAllowed' /\ Settling'
  <2>1. /\ \A x \in Keys : ~ (Undisturbed(p, ok) /\ x \in c.keys) => may'[x] = may[x]
        /\ Undisturbed(p, ok) => \A x \in c.keys : c.val \in may'[x] \cup {None, Blank}
    BY <1>3, <1>6, <1>8
  <2>2. Wrote(c.cfg, c.tier, c.keys, c.val, ok)
    BY <1>3, <1>5, <1>8
  <2> QED BY <1>1, <1>2, <2>1, <2>2, Works DEF Inv
<1> QED BY <1>7, <1>9 DEF Inv

\* An Invalidate or a CleanupCache clears its tier.
LEMMA ClearTierStep ==
  ASSUME Inv, NEW p \in Procs, ClearTier(p)
  PROVE  Inv'
<1> DEFINE c == call[p]
<1>1. PICK ok \in BOOLEAN :
        /\ call' = Advanced(p, ok) /\ current' \in {current, 0} /\ policy' \in {policy, ""}
        /\ TierClear(c.cfg, c.tier, ok)
        /\ may' = IF Undisturbed(p, ok) THEN [k \in Keys |-> {}] ELSE may
  BY DEF ClearTier
<1>2. c.op \in Whole /\ c.op \in Single \cup Whole /\ TInv /\ None \in Copies
  BY TierFacts DEF ClearTier, Whole, Inv
<1>3. c.keys = Keys /\ c.val = None
  BY <1>2, CallFacts DEF Shape, Whole
<1>4. c.cfg \in DOMAIN mem /\ c.tier \in Tiers
  BY <1>2, CallFacts
<1>5. Wrote(c.cfg, c.tier, Keys, None, ok)
  BY <1>1, <1>2, <1>4, ClearWrote
<1>6. may' \in [Keys -> SUBSET Values] /\ (~ Undisturbed(p, ok) => may' = may)
  <2>1. may \in [Keys -> SUBSET Values]
    BY <1>2, TypeParts
  <2> QED BY <1>1, <2>1
<1>7. TInv'
  BY <1>1, <1>2, <1>5, <1>6, WorksTyped DEF Wrote
<1>8. CopiesAllowed' /\ Settling'
  <2>1. /\ \A x \in Keys : ~ (Undisturbed(p, ok) /\ x \in c.keys) => may'[x] = may[x]
        /\ Undisturbed(p, ok) => \A x \in c.keys : c.val \in may'[x] \cup {None, Blank}
    BY <1>3, <1>6
  <2>2. Wrote(c.cfg, c.tier, c.keys, c.val, ok)
    BY <1>3, <1>5
  <2> QED BY <1>1, <1>2, <2>1, <2>2, Works DEF Inv
<1> QED BY <1>7, <1>8 DEF Inv

\* A promotion or a warmup writes to its tier.  Neither is ever clean.
LEMMA WriteTierStep ==
  ASSUME Inv, NEW p \in Procs, WriteTier(p)
  PROVE  Inv'
<1> DEFINE c == call[p]
           k == KeyOf(p)
<1>1. PICK ok \in BOOLEAN :
        /\ call' = Advanced(p, ok) /\ current' = current /\ policy' = policy /\ may' = may
        /\ TierSet(c.cfg, c.tier, k, c.val, ok)
  BY DEF WriteTier
<1>2. c.op \in {"promote", "warmup"} /\ c.op \in Single /\ c.op \in Single \cup Whole /\ TInv
  BY DEF WriteTier, Single, Inv
<1>3. k \in Keys /\ c.keys = {k}
  BY <1>2, KeyFacts
<1>4. c.cfg \in DOMAIN mem /\ c.tier \in Tiers /\ c.val \in Copies
  BY <1>2, CallFacts DEF CallType
<1>5. Wrote(c.cfg, c.tier, c.keys, c.val, ok)
  BY <1>1, <1>2, <1>3, <1>4, SetWrote
<1>6. may' \in [Keys -> SUBSET Values]
  BY <1>1, <1>2, TypeParts
<1>7. TInv'
  BY <1>1, <1>2, <1>5, <1>6, WorksTyped DEF Wrote
<1>8. ~ Undisturbed(p, ok)
  BY <1>2 DEF Inv, Settling, Settles, Undisturbed
<1>9. CopiesAllowed' /\ Settling'
  BY <1>1, <1>2, <1>5, <1>8, Works DEF Inv
<1> QED BY <1>7, <1>9 DEF Inv


\* A call returns.
LEMMA DropFacts ==
  ASSUME Inv, NEW p \in Procs, NEW cs, cs = [call EXCEPT ![p] = Idle]
  PROVE  /\ CallsOK(cs, Len(mem)) /\ cs[p] = Idle
         /\ \A q \in Procs : q # p => cs[q] = call[q]
<1>1. CallsOK(call, Len(mem)) /\ Len(mem) \in Nat
  BY TypeParts, MemFacts DEF Inv
<1>2. Idle \in CallType(Len(mem)) /\ Shape(Idle, Len(mem))
  BY <1>1, IdleFacts
<1> QED BY <1>1, <1>2 DEF CallsOK

\* What a tier answers to a Get: a miss, or what it may have.
LEMMA GetFacts ==
  ASSUME Inv, NEW p \in Procs, call[p].op = "get", NEW r \in Copies,
         TierGet(call[p].cfg, call[p].tier, KeyOf(p), r)
  PROVE  /\ mem' = mem /\ hash' = hash /\ RedisTypeOK'
         /\ r \in may[KeyOf(p)] \cup {None, Blank}
         /\ call[p].cfg \in InUse(KeyOf(p))
<1> DEFINE c == call[p]
           k == KeyOf(p)
<1>1. TInv /\ CopiesAllowed /\ RedisTypeOK /\ c.op \in Single /\ c.op \in Single \cup Whole
  BY TypeParts DEF Inv, Single
<1>2. k \in Keys /\ c.keys = {k} /\ c.cfg \in DOMAIN mem /\ c.tier \in Tiers
  BY <1>1, KeyFacts, CallFacts
<1>3. c.cfg \in InUse(k)
  BY <1>2 DEF InUse
<1>4. CASE c.tier = NTiers
  <2>1. Get(k, r) /\ mem' = mem
    BY <1>4 DEF TierGet
  <2>2. hash' = hash /\ (r = None \/ r = hash[k])
    BY <2>1 DEF Get
  <2>3. touches \in [Keys -> 0..MaxTouches] /\ touches[k] \in 0..MaxTouches /\ MaxTouches \in Nat
    BY <1>1, <1>2, RedisAssumption DEF RedisTypeOK
  <2>4. touches' \in [Keys -> 0..MaxTouches]
    <3>1. CASE r = None
      BY <2>1, <2>3, <3>1 DEF Get
    <3>2. CASE r # None
      <4>1. touches[k] < MaxTouches /\ touches' = [touches EXCEPT ![k] = touches[k] + 1]
        BY <2>1, <3>2 DEF Get
      <4>2. touches[k] + 1 \in 0..MaxTouches
        BY <2>3, <4>1
      <4> QED BY <2>3, <4>1, <4>2
    <3> QED BY <3>1, <3>2
  <2>5. RedisTypeOK'
    BY <1>1, <2>2, <2>4 DEF RedisTypeOK
  <2> QED BY <1>1, <1>2, <1>3, <2>1, <2>2, <2>5 DEF CopiesAllowed
<1>5. CASE c.tier # NTiers
  <2>1. c.tier \in Upper /\ r = mem[c.cfg][c.tier][k] /\ mem' = mem /\ UNCHANGED redisVars
    BY <1>2, <1>5, TierFacts DEF TierGet
  <2>2. RedisTypeOK' /\ hash' = hash
    BY <1>1, <2>1 DEF RedisTypeOK, redisVars
  <2> QED BY <1>1, <1>2, <1>3, <2>1, <2>2 DEF CopiesAllowed
<1> QED BY <1>4, <1>5

\* A Get looks in its tier, and returns what it finds.
LEMMA GetTierStep ==
  ASSUME Inv, NEW p \in Procs, GetTier(p)
  PROVE  Inv'
<1> DEFINE c == call[p]
           k == KeyOf(p)
           d(r) == [op |-> "promote", cfg |-> c.cfg, tier |-> 1, last |-> c.tier - 1,
                    keys |-> {k}, val |-> r, promotes |-> FALSE, clean |-> FALSE]
<1>1. c.op = "get" /\ policy' = policy /\ may' = may
  BY DEF GetTier
<1>2. PICK r \in Copies :
        /\ IF r = None
           THEN call' = Advanced(p, TRUE)
           ELSE IF c.promotes /\ c.tier > 1
           THEN \E w \in {g \in Goroutines : ~ Active(g)} :
                  call' = Began([call EXCEPT ![p] = Idle], w, d(r))
           ELSE call' = [call EXCEPT ![p] = Idle]
        /\ current' = current
        /\ TierGet(c.cfg, c.tier, k, r)
  BY DEF GetTier
<1>3. /\ TInv /\ CopiesAllowed /\ Settling /\ c.op \in Single /\ c.op \in Single \cup Whole
      /\ ~ c.clean
  BY <1>1 DEF Inv, Single, Settling, Settles
<1>4. /\ k \in Keys /\ c.keys = {k} /\ c.cfg \in DOMAIN mem /\ c.tier \in Tiers
      /\ DOMAIN mem = 1..Len(mem) /\ Len(mem) \in Nat
  BY <1>3, KeyFacts, CallFacts
<1>5. /\ mem' = mem /\ hash' = hash /\ RedisTypeOK' /\ r \in may[k] \cup {None, Blank}
      /\ c.cfg \in InUse(k)
  BY <1>1, <1>2, GetFacts
<1>6. /\ mem \in Seq(Config) /\ Len(mem) <= MaxConfigs /\ current \in 0..Len(mem)
      /\ policy \in Policies \cup {""} /\ may \in [Keys -> SUBSET Values]
  BY <1>3, TypeParts
<1>7. CASE r = None
  <2>1. call' = Advanced(p, FALSE)
    <3>1. CASE c.tier = c.last
      BY <1>2, <1>7, <3>1 DEF Advanced
    <3>2. CASE c.tier # c.last
      <4>1. (c.clean /\ TRUE) = (c.clean /\ FALSE)
        <5>1. c.clean \in BOOLEAN
          BY <1>3, CallFacts DEF CallType
        <5> QED BY <1>3, <5>1
      <4>2. NextTier(c, TRUE) = NextTier(c, FALSE)
        BY <4>1 DEF NextTier
      <4> QED BY <1>2, <1>7, <4>2 DEF Advanced
    <3> QED BY <3>1, <3>2
  <2>2. Wrote(c.cfg, c.tier, c.keys, c.val, FALSE)
    BY <1>5, <1>6 DEF Wrote
  <2>3. TInv'
    BY <1>1, <1>2, <1>3, <1>5, <1>6, <2>1, WorksTyped
  <2>4. ~ Undisturbed(p, FALSE)
    BY DEF Undisturbed
  <2>5. CopiesAllowed' /\ Settling'
    BY <1>1, <1>2, <1>3, <2>1, <2>2, <2>4, Works
  <2> QED BY <2>3, <2>5 DEF Inv
<1>8. CASE call' = [call EXCEPT ![p] = Idle]
  <2>1. /\ CallsOK(call', Len(mem)) /\ call'[p] = Idle
        /\ \A q \in Procs : q # p => call'[q] = call[q]
    BY <1>8, DropFacts
  <2>2. TInv'
    BY <1>1, <1>2, <1>5, <1>6, <2>1, TypePartsNext
  <2>3. \A q \in Procs : call'[q] = call[q] \/ (call'[q].keys = {} /\ ~ call'[q].clean)
    BY <1>4, <2>1, IdleFacts
  <2>4. CopiesAllowed' /\ Settling'
    BY <1>1, <1>2, <1>3, <1>5, <1>6, <2>3, Quiet
  <2> QED BY <2>2, <2>4 DEF Inv
<1>9. ASSUME c.tier > 1, NEW w \in Goroutines,
             call' = Began([call EXCEPT ![p] = Idle], w, d(r))
      PROVE  Inv'
  <2> DEFINE cs == [call EXCEPT ![p] = Idle]
  <2>1. CallsOK(cs, Len(mem)) /\ \A q \in Procs : cs[q] = call[q] \/ cs[q] = Idle
    BY DropFacts
  <2>2. /\ d(r).op = "promote" /\ d(r).cfg = c.cfg /\ d(r).tier = 1 /\ d(r).last = c.tier - 1
        /\ d(r).keys = {k} /\ d(r).val = r /\ d(r).clean = FALSE
    OBVIOUS
  <2>3. c.tier - 1 \in 0..NTiers /\ 1 <= c.tier - 1 /\ 1 \in 0..NTiers
    BY <1>4, <1>9, TierFacts DEF Tiers
  <2>4. d(r) \in CallType(Len(mem))
    <3>1. c.cfg \in 0..Len(mem) /\ "promote" \in Ops
      BY <1>4 DEF Ops
    <3> QED BY <1>4, <2>3, <3>1 DEF CallType
  <2>5. w \in Procs
    BY DEF Procs
  <2> HIDE DEF d, cs
  <2>6. Shape(d(r), Len(mem))
    BY <1>4, <2>2, <2>3 DEF Shape, Single, Whole
  <2>7. call' = Began(cs, w, d(r))
    BY <1>9 DEF cs
  <2>8. CallsOK(call', Len(mem))
    BY <1>4, <2>1, <2>4, <2>5, <2>6, <2>7, BeganFacts
  <2>9. TInv'
    BY <1>1, <1>2, <1>5, <1>6, <2>8, TypePartsNext
  <2>10. \A x \in d(r).keys : d(r).cfg \in InUse(x) /\ d(r).val \in may'[x] \cup {None, Blank}
    BY <1>1, <1>5, <2>2
  <2>11. CopiesAllowed' /\ Settling'
    <3>1. ~ d(r).clean
      BY <2>2
    <3> QED BY <1>1, <1>2, <1>3, <1>5, <2>1, <2>4, <2>5, <2>6, <2>7, <2>10, <3>1, Begins
  <2> QED BY <2>9, <2>11 DEF Inv
<1> QED BY <1>2, <1>7, <1>8, <1>9


\* The goroutine of a warmup gets to run.
LEMMA WarmupStartStep ==
  ASSUME Inv, NEW p \in Procs, WarmupStart(p)
  PROVE  Inv'
<1>1. /\ hash' = hash /\ touches' = touches /\ policy' = policy /\ mem' = mem
      /\ current' = current
  BY DEF WarmupStart, redisVars
<1>2. /\ TInv /\ CopiesAllowed /\ Settling /\ RedisTypeOK /\ mem \in Seq(Config)
      /\ Len(mem) <= MaxConfigs /\ current \in 0..Len(mem) /\ policy \in Policies \cup {""}
      /\ may \in [Keys -> SUBSET Values] /\ CallsOK(call, Len(mem))
      /\ Len(mem) \in Nat /\ DOMAIN mem = 1..Len(mem)
  BY TypeParts, MemFacts DEF Inv
<1>3. RedisTypeOK'
  BY <1>1, <1>2 DEF RedisTypeOK
<1>4. CASE current = 0
  <2>1. call' = [call EXCEPT ![p] = Idle] /\ may' = may
    BY <1>4 DEF WarmupStart
  <2>2. /\ CallsOK(call', Len(mem)) /\ call'[p] = Idle
        /\ \A q \in Procs : q # p => call'[q] = call[q]
    BY <2>1, DropFacts
  <2>3. TInv'
    BY <1>1, <1>2, <1>3, <2>1, <2>2, TypePartsNext
  <2>4. \A q \in Procs : call'[q] = call[q] \/ (call'[q].keys = {} /\ ~ call'[q].clean)
    BY <1>2, <2>2, IdleFacts
  <2>5. CopiesAllowed' /\ Settling'
    BY <1>1, <1>2, <2>1, <2>4, Quiet
  <2> QED BY <2>3, <2>5 DEF Inv
<1>5. CASE current # 0
  <2> DEFINE c == [op |-> "warmup", cfg |-> current, tier |-> 1, last |-> NTiers,
                   keys |-> {WarmKey}, val |-> WarmValue, promotes |-> FALSE, clean |-> FALSE]
  <2>1. call' = Began(call, p, c) /\ may' = [may EXCEPT ![WarmKey] = may[WarmKey] \cup {WarmValue}]
    BY <1>5 DEF WarmupStart
  <2>2. WarmKey \in Keys /\ WarmValue \in Values /\ WarmValue \in Copies
    BY CacheManagerAssumption, TierFacts
  <2>3. /\ c.op = "warmup" /\ c.cfg = current /\ c.tier = 1 /\ c.last = NTiers
        /\ c.keys = {WarmKey} /\ c.val = WarmValue /\ c.clean = FALSE
    OBVIOUS
  <2>4. c \in CallType(Len(mem))
    <3>1. "warmup" \in Ops /\ 1 \in 0..NTiers /\ NTiers \in 0..NTiers
      BY TierFacts DEF Ops
    <3> QED BY <1>2, <2>2, <3>1 DEF CallType
  <2>5. current \in 1..Len(mem) /\ current \in DOMAIN mem /\ 1 <= NTiers
    <3>1. current \in 1..Len(mem)
      BY <1>2, <1>5, Numbers
    <3>2. 1 <= NTiers
      BY TierFacts
    <3> QED BY <1>2, <3>1, <3>2
  <2> HIDE DEF c
  <2>6. Shape(c, Len(mem))
    BY <2>2, <2>3, <2>5 DEF Shape, Single, Whole
  <2>7. CallsOK(call', Len(mem))
    BY <1>2, <2>1, <2>4, <2>6, BeganFacts
  <2>8. /\ may' \in [Keys -> SUBSET Values] /\ \A k \in Keys : may[k] \subseteq may'[k]
        /\ WarmValue \in may'[WarmKey]
    BY <1>2, <2>1, <2>2
  <2>9. TInv'
    BY <1>1, <1>2, <1>3, <2>7, <2>8, TypePartsNext
  <2>10. \A k \in c.keys : c.cfg \in InUse(k) /\ c.val \in may'[k] \cup {None, Blank}
    BY <2>3, <2>5, <2>8 DEF InUse
  <2>11. CopiesAllowed' /\ Settling'
    BY <1>1, <1>2, <2>1, <2>3, <2>4, <2>6, <2>8, <2>10, Begins
  <2> QED BY <2>9, <2>11 DEF Inv
<1> QED BY <1>4, <1>5

\* More configurations: what was a call is a call.
LEMMA CallsGrow ==
  ASSUME NEW n \in Nat, NEW cs, CallsOK(cs, n)
  PROVE  CallsOK(cs, n + 1)
<1>1. \A c : c \in CallType(n) => c \in CallType(n + 1)
  BY DEF CallType
<1>2. ASSUME NEW q \in Procs PROVE Shape(cs[q], n + 1)
  <2>1. Shape(cs[q], n) /\ \A g \in 1..n : g \in 1..(n + 1)
    BY DEF CallsOK
  <2> QED BY <2>1 DEF Shape
<1> QED BY <1>1, <1>2 DEF CallsOK

\* ConfigureCache puts an empty configuration in place of the current one.
LEMMA ConfigureCacheStep ==
  ASSUME Inv, NEW pol \in Policies, NEW warm \in BOOLEAN, ConfigureCache(pol, warm)
  PROVE  Inv'
<1> DEFINE n == Len(mem)
           old == [g \in DOMAIN mem |-> IF \E p \in Procs : call[p].cfg = g THEN mem[g] ELSE Empty]
<1>1. /\ n < MaxConfigs /\ current' = n + 1 /\ policy' = pol /\ mem' = Append(old, Empty)
      /\ hash' = hash /\ touches' = touches /\ may' = may
  BY DEF ConfigureCache, redisVars
<1>2. /\ TInv /\ CopiesAllowed /\ Settling /\ RedisTypeOK /\ mem \in Seq(Config)
      /\ may \in [Keys -> SUBSET Values] /\ CallsOK(call, n) /\ n \in Nat /\ DOMAIN mem = 1..n
      /\ \A g \in DOMAIN mem : mem[g] \in Config
  BY TypeParts, MemFacts DEF Inv
<1>3. RedisTypeOK' /\ MaxConfigs \in Nat
  BY <1>1, <1>2, CacheManagerAssumption DEF RedisTypeOK
<1>4. Empty \in Config /\ \A i \in Upper, k \in Keys : Empty[i][k] = None
  BY TierFacts DEF Empty, Config
<1>5. old \in Seq(Config) /\ Len(old) = n
  <2>1. old \in [1..n -> Config]
    BY <1>2, <1>4
  <2>2. old \in Seq(Config)
    BY <1>2, <2>1, SeqDef
  <2> QED BY <1>2, <2>1, <2>2, LenProperties
<1>6. \A g \in DOMAIN mem : old[g] = mem[g] \/ old[g] = Empty
  OBVIOUS
<1> HIDE DEF old
<1>7. /\ mem' \in Seq(Config) /\ Len(mem') = n + 1 /\ mem'[n + 1] = Empty
      /\ \A g \in 1..n : mem'[g] = old[g]
  BY <1>1, <1>4, <1>5, AppendProperties
<1>8. /\ CallsOK(call', n)
      /\ \A q \in Procs : call'[q] = call[q] \/ (call'[q].keys = {} /\ ~ call'[q].clean)
  <2>1. CASE call' = call
    BY <1>2, <2>1
  <2>2. ASSUME NEW w \in Goroutines, ~ Active(w), call' = [call EXCEPT ![w].op = "spawned"]
        PROVE  /\ CallsOK(call', n)
               /\ \A q \in Procs : call'[q] = call[q] \/ (call'[q].keys = {} /\ ~ call'[q].clean)
    <3> DEFINE d == [call[w] EXCEPT !.op = "spawned"]
    <3>1. w \in Procs /\ call[w] \in CallType(n) /\ Shape(call[w], n) /\ call[w].op = "idle"
      BY <1>2, <2>2 DEF Procs, CallsOK, Active
    <3>2. /\ d \in CallType(n) /\ d.op = "spawned" /\ d.keys = call[w].keys
          /\ d.cfg = call[w].cfg /\ d.clean = call[w].clean
      BY <3>1 DEF CallType, Ops
    <3>3. call[w].keys = {} /\ call[w].cfg = 0 /\ ~ call[w].clean
      BY <3>1 DEF Shape
    <3>4. call' = [call EXCEPT ![w] = d] /\ DOMAIN call = Procs
      BY <1>2, <2>2 DEF CallsOK
    <3> HIDE DEF d
    <3>5. Shape(d, n)
      BY <3>2, <3>3 DEF Shape, Single, Whole
    <3>6. call'[w] = d /\ \A q \in Procs : q # w => call'[q] = call[q]
      BY <3>1, <3>4
    <3>7. CallsOK(call', n)
      BY <1>2, <3>2, <3>4, <3>5, <3>6 DEF CallsOK
    <3> QED BY <3>2, <3>3, <3>6, <3>7
  <2> QED BY <2>1, <2>2 DEF ConfigureCache
<1>9. TInv'
  <2>1. CallsOK(call', n + 1)
    BY <1>2, <1>8, CallsGrow
  <2>2. n + 1 <= MaxConfigs /\ n + 1 \in 0..(n + 1)
    BY <1>1, <1>2, <1>3
  <2>3. pol \in Policies \cup {""}
    OBVIOUS
  <2> QED BY <1>1, <1>2, <1>3, <1>7, <2>1, <2>2, <2>3, TypePartsNext
<1>10. CopiesAllowed' /\ Settling'
  <2>1. \A h \in DOMAIN mem, i \in Upper, k \in Keys :
          mem'[h][i][k] = mem[h][i][k] \/ mem'[h][i][k] = None
    BY <1>2, <1>4, <1>6, <1>7
  <2>2. current' \notin DOMAIN mem
    BY <1>1, <1>2
  <2>3. \A i \in Upper, k \in Keys : mem'[current'][i][k] = None
    BY <1>1, <1>4, <1>7
  <2> QED BY <1>1, <1>2, <1>7, <1>8, <2>1, <2>2, <2>3, Quiet
<1> QED BY <1>9, <1>10 DEF Inv

\* A tier loses an entry.
LEMMA EvictStep ==
  ASSUME Inv, NEW g \in DOMAIN mem, NEW i \in Upper, NEW k \in Keys, Evict(g, i, k)
  PROVE  Inv'
<1>1. /\ mem' = [mem EXCEPT ![g][i][k] = None] /\ UNCHANGED redisVars
      /\ hash' = hash /\ touches' = touches /\ policy' = policy /\ current' = current
      /\ call' = call /\ may' = may
  BY DEF Evict, redisVars
<1>2. TInv /\ CopiesAllowed /\ Settling /\ TRUE \in BOOLEAN
  BY DEF Inv
<1>3. i \in Tiers /\ i # NTiers
  BY TierFacts
<1>4. TierDelete(g, i, k, TRUE)
  BY <1>1, <1>3 DEF TierDelete
<1>5. Wrote(g, i, {k}, None, TRUE)
  BY <1>2, <1>3, <1>4, DeleteWrote
<1>6. /\ mem' \in Seq(Config) /\ Len(mem') = Len(mem) /\ RedisTypeOK'
      /\ \A h \in DOMAIN mem, j \in Upper, x \in Keys :
           mem'[h][j][x] = mem[h][j][x] \/ mem'[h][j][x] = None
  BY <1>5 DEF Wrote
<1>7. TInv'
  BY <1>1, <1>2, <1>6, TypeParts, TypePartsNext
<1>8. CopiesAllowed' /\ Settling'
  BY <1>1, <1>2, <1>6, Quiet
<1> QED BY <1>7, <1>8 DEF Inv

\* The Redis server expires a hash, restarts, or carries out a late HSET.
LEMMA ServerStep ==
  ASSUME Inv, Server
  PROVE  Inv'
<1>1. mem' = mem /\ current' = current /\ policy' = policy /\ call' = call /\ may' = may
  BY DEF Server, managerVars
<1>2. /\ TInv /\ CopiesAllowed /\ Settling /\ mem \in Seq(Config)
      /\ hash \in [Keys -> Copies] /\ touches \in [Keys -> 0..MaxTouches]
  BY TypeParts DEF Inv, RedisTypeOK
<1>3. RedisTypeOK' /\ \A k \in Keys : hash'[k] = hash[k] \/ hash'[k] \in {None, Blank}
  <2>1. CASE ServerRestart
    BY <1>2, <2>1, TierFacts DEF ServerRestart, RedisTypeOK
  <2>2. ASSUME NEW k \in Keys, Expire(k)
        PROVE  RedisTypeOK' /\ \A x \in Keys : hash'[x] = hash[x] \/ hash'[x] \in {None, Blank}
    BY <1>2, <2>2, TierFacts DEF Expire, RedisTypeOK
  <2>3. ASSUME NEW k \in Keys, Touch(k)
        PROVE  RedisTypeOK' /\ \A x \in Keys : hash'[x] = hash[x] \/ hash'[x] \in {None, Blank}
    <3>1. /\ touches[k] > 0 /\ touches[k] \in 0..MaxTouches
          /\ touches' = [touches EXCEPT ![k] = touches[k] - 1]
      BY <1>2, <2>3 DEF Touch
    <3>2. touches[k] - 1 \in 0..MaxTouches
      BY <3>1, RedisAssumption
    <3>3. touches' \in [Keys -> 0..MaxTouches]
      BY <1>2, <3>1, <3>2
    <3>4. hash' = hash \/ hash' = [hash EXCEPT ![k] = Blank]
      BY <2>3 DEF Touch
    <3>5. /\ hash' \in [Keys -> Copies]
          /\ \A x \in Keys : hash'[x] = hash[x] \/ hash'[x] \in {None, Blank}
      BY <1>2, <3>4, TierFacts
    <3> QED BY <3>3, <3>5 DEF RedisTypeOK
  <2> QED BY <2>1, <2>2, <2>3 DEF Server
<1>4. TInv'
  BY <1>1, <1>2, <1>3, TypeParts, TypePartsNext
<1>5. CopiesAllowed' /\ Settling'
  BY <1>1, <1>2, <1>3, Quiet
<1> QED BY <1>4, <1>5 DEF Inv

-----------------------------------------------------------------------------
\* The cache starts without a configuration.
LEMMA InitInv ==
  Init => Inv
<1> SUFFICES ASSUME Init PROVE Inv
  OBVIOUS
<1>1. /\ hash = [k \in Keys |-> None] /\ touches = [k \in Keys |-> 0] /\ mem = <<>> /\ current = 0
      /\ policy = "" /\ call = [p \in Procs |-> Idle] /\ may = [k \in Keys |-> {}]
  BY DEF Init, RedisInit
<1>2. mem \in Seq(Config) /\ Len(mem) = 0 /\ DOMAIN mem = {}
  <2>1. mem \in Seq(Config) /\ Len(mem) = 0
    BY <1>1, EmptySeq
  <2>2. DOMAIN mem = 1..Len(mem)
    BY <2>1, MemFacts
  <2> QED BY <2>1, <2>2
<1>3. RedisTypeOK
  <2>1. 0 \in 0..MaxTouches /\ None \in Copies
    BY RedisAssumption, TierFacts
  <2> QED BY <1>1, <2>1 DEF RedisTypeOK
<1>4. /\ CallsOK(call, 0)
      /\ \A p \in Procs : call[p].keys = {} /\ ~ call[p].clean
  BY <1>1, IdleFacts DEF CallsOK
<1>5. TInv
  <2>1. 0 \in 0..0 /\ 0 <= MaxConfigs
    BY CacheManagerAssumption
  <2>2. may \in [Keys -> SUBSET Values]
    BY <1>1
  <2> QED BY <1>1, <1>2, <1>3, <1>4, <2>1, <2>2, TypeParts
<1>6. CopiesAllowed
  <2>1. \A k \in Keys : hash[k] = None
    BY <1>1
  <2> QED BY <1>2, <1>4, <2>1 DEF CopiesAllowed, InUse
<1>7. Settling
  BY <1>4 DEF Settling
<1> QED BY <1>5, <1>6, <1>7 DEF Inv

\* Every step keeps the invariant.
LEMMA NextInv ==
  Inv /\ [Next]_vars => Inv'
<1> SUFFICES ASSUME Inv, [Next]_vars PROVE Inv'
  OBVIOUS
<1>p. Callers \subseteq Procs /\ Controller \in Procs
  BY DEF Procs
<1>1. ASSUME NEW p \in Callers, NEW k \in Keys,
             GetStart(p, k) \/ DeleteStart(p, k) \/ \E v \in Values : SetStart(p, k, v)
      PROVE  Inv'
  BY <1>p, <1>1, GetStartStep, DeleteStartStep, SetStartStep
<1>2. ASSUME NEW p \in Callers, InvalidateStart(p) PROVE Inv'
  BY <1>p, <1>2, WholeStartStep DEF InvalidateStart
<1>3. ASSUME NEW p \in Procs, Step(p) PROVE Inv'
  BY <1>3, GetTierStep, SetTierStep, DeleteTierStep, ClearTierStep, WriteTierStep,
     WarmupStartStep DEF Step
<1>4. ASSUME NEW pol \in Policies, NEW warm \in BOOLEAN, ConfigureCache(pol, warm) PROVE Inv'
  BY <1>4, ConfigureCacheStep
<1>5. CASE CleanupCacheStart
  BY <1>p, <1>5, WholeStartStep DEF CleanupCacheStart
<1>6. ASSUME NEW g \in DOMAIN mem, NEW i \in Upper, NEW k \in Keys, Evict(g, i, k) PROVE Inv'
  BY <1>6, EvictStep
<1>7. CASE Server
  BY <1>7, ServerStep
<1>8. CASE UNCHANGED vars
  <2>1. /\ hash' = hash /\ touches' = touches /\ mem' = mem /\ current' = current
        /\ policy' = policy /\ call' = call /\ may' = may
    BY <1>8 DEF vars, redisVars, managerVars
  <2>2. TInv /\ CopiesAllowed /\ Settling /\ mem \in Seq(Config) /\ RedisTypeOK
    BY TypeParts DEF Inv
  <2>3. RedisTypeOK'
    BY <2>1, <2>2 DEF RedisTypeOK
  <2>4. TInv'
    BY <2>1, <2>2, <2>3, TypeParts, TypePartsNext
  <2>5. CopiesAllowed' /\ Settling'
    BY <2>1, <2>2, Quiet
  <2> QED BY <2>4, <2>5 DEF Inv
<1> QED BY <1>1, <1>2, <1>3, <1>4, <1>5, <1>6, <1>7, <1>8 DEF Next

\* Every variable of the cache manager and of its Redis tier has its type in
\* every reachable state.
THEOREM TypeOKTheorem == Spec => []TypeOK
<1>1. Inv => TypeOK
  BY DEF Inv, TInv
<1> QED BY <1>1, InitInv, NextInv, PTL DEF Spec

\* Set, Delete, Invalidate and CleanupCache of manager.go settle a key: after
\* one that ran alone and in which no tier failed, no tier has, and no
\* goroutine carries, a value from before, for any number of tiers, keys,
\* goroutines and reconfigurations.
THEOREM CopiesAllowedTheorem == Spec => []CopiesAllowed
<1>1. Inv => CopiesAllowed
  BY DEF Inv
<1> QED BY <1>1, InitInv, NextInv, PTL DEF Spec
=============================================================================
