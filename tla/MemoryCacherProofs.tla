------------------------- MODULE MemoryCacherProofs -------------------------
(***************************************************************************)
(* Theorems about MemoryCacher for any keys, values, TTL and number of     *)
(* cleaning tasks, and whoever calls it.  The lemmas are about one         *)
(* operation and do not mention the caller; MemoryProxyProofs uses them.   *)
(***************************************************************************)
EXTENDS MemoryCacher, TLAPS

(* Spawning a cleaning task keeps the tasks well typed. *)
LEMMA SpawnTypeOK ==
  ASSUME CacheTypeOK, Spawn
  PROVE  cleaner' \in [Cleaners -> [pc : {"idle", "spawned", "armed"}, at : Nat]]
  BY DEF CacheTypeOK, Spawn

(* Writing an entry of the map keeps map and queue well typed. *)
LEMMA RestampTypeOK ==
  ASSUME TypeOK, NEW k \in Keys, NEW v \in Values \cup {Empty}, Restamp(k, v)
  PROVE  /\ kv' \in [Keys -> [expire : Nat, val : Values \cup {Empty, NoValue}]]
         /\ pq' \subseteq Nat \X Keys
<1>1. now + TTL \in Nat
  BY TimeAssumption DEF TypeOK
<1>2. QED
  BY <1>1 DEF TypeOK, CacheTypeOK, Restamp

(* Each operation keeps the cacher's state well typed. *)
LEMMA CallTypeOK ==
  ASSUME TypeOK, NEW k \in Keys, Call(k)
  PROVE  CacheTypeOK'
<1>1. CASE Obtain(k)
  BY <1>1, RestampTypeOK DEF Obtain, TypeOK, CacheTypeOK
<1>2. CASE Look(k)
  <2>1. kv' = kv /\ pq' = pq
    BY <1>2 DEF Look
  <2>2. Spawn \/ cleaner' = cleaner
    BY <1>2 DEF Look
  <2>3. QED
    BY <2>1, <2>2, SpawnTypeOK DEF TypeOK, CacheTypeOK
<1>3. ASSUME NEW v \in Values, SetLive(k, v)
      PROVE  CacheTypeOK'
  BY <1>3, RestampTypeOK DEF SetLive, TypeOK, CacheTypeOK
<1>4. CASE SetExpired(k)
  BY <1>4, SpawnTypeOK DEF SetExpired, TypeOK, CacheTypeOK, Absent
<1>5. CASE SetMissing(k)
  BY <1>5 DEF SetMissing, cacheVars, TypeOK, CacheTypeOK
<1>6. CASE Del(k)
  BY <1>6, SpawnTypeOK DEF Del, TypeOK, CacheTypeOK, Absent
<1>7. QED
  BY <1>1, <1>2, <1>3, <1>4, <1>5, <1>6 DEF Call

(* So do the cleaning tasks. *)
LEMMA CleanTypeOK ==
  ASSUME TypeOK, Clean
  PROVE  CacheTypeOK'
<1>1. PICK c \in Cleaners : Arm(c) \/ Sweep(c)
  BY DEF Clean
<1>2. CASE Arm(c)
  BY <1>2 DEF Arm, TypeOK, CacheTypeOK
<1>3. CASE Sweep(c)
  BY <1>3 DEF Sweep, TypeOK, CacheTypeOK, Absent, Idle
<1>4. QED
  BY <1>1, <1>2, <1>3

(* The cacher's variables always have their types. *)
THEOREM CacherTypes == Spec => []TypeOK
<1>1. Init => TypeOK
  BY DEF Init, CacheInit, TypeOK, CacheTypeOK, Absent, Idle
<1>2. TypeOK /\ [Next]_vars => TypeOK'
  <2> SUFFICES ASSUME TypeOK, [Next]_vars PROVE TypeOK'
    OBVIOUS
  <2>1. ASSUME NEW k \in Keys, Call(k), UNCHANGED now PROVE TypeOK'
    BY <2>1, CallTypeOK DEF TypeOK
  <2>2. CASE Clean /\ UNCHANGED now
    BY <2>2, CleanTypeOK DEF TypeOK
  <2>3. CASE Tick /\ UNCHANGED cacheVars
    BY <2>3 DEF Tick, cacheVars, TypeOK, CacheTypeOK
  <2>4. CASE UNCHANGED vars
    BY <2>4 DEF vars, cacheVars, TypeOK, CacheTypeOK
  <2>5. QED
    BY <2>1, <2>2, <2>3, <2>4 DEF Next
<1>3. QED
  BY <1>1, <1>2, PTL DEF Spec

(* Restamping keeps every entry's tag: the tag of k moves with its entry,  *)
(* the tags of other keys stay.                                            *)
LEMMA RestampCovers ==
  ASSUME TypeOK, QueueCoversStore,
         NEW k \in Keys, NEW v, Restamp(k, v)
  PROVE  QueueCoversStore'
  BY DEF Restamp, QueueCoversStore, Stored, Tag, TypeOK, CacheTypeOK

(* Every operation keeps it. *)
LEMMA CallCovers ==
  ASSUME TypeOK, QueueCoversStore, NEW k \in Keys, Call(k)
  PROVE  QueueCoversStore'
<1>1. CASE Obtain(k)
  BY <1>1, RestampCovers DEF Obtain
<1>2. CASE kv' = kv /\ pq' = pq
  BY <1>2 DEF QueueCoversStore, Stored, Tag
<1>3. ASSUME NEW v \in Values, SetLive(k, v)
      PROVE  QueueCoversStore'
  BY <1>3, RestampCovers DEF SetLive
<1>4. CASE SetExpired(k)
  BY <1>4 DEF SetExpired, QueueCoversStore, Stored, Tag, Absent, TypeOK,
              CacheTypeOK
<1>5. CASE Del(k)
  BY <1>5 DEF Del, QueueCoversStore, Stored, Tag, Absent, TypeOK, CacheTypeOK
<1>6. QED
  BY <1>1, <1>2, <1>3, <1>4, <1>5 DEF Call, Look, SetMissing, cacheVars

(* A sweep takes an entry together with its tag: an entry that stays has a *)
(* tag that is not due, for the tag carries the entry's own key.           *)
LEMMA CleanCovers ==
  ASSUME TypeOK, QueueCoversStore, Clean
  PROVE  QueueCoversStore'
<1>1. PICK c \in Cleaners : Arm(c) \/ Sweep(c)
  BY DEF Clean
<1>2. CASE Arm(c)
  BY <1>2 DEF Arm, QueueCoversStore, Stored, Tag
<1>3. CASE Sweep(c)
  <2> SUFFICES ASSUME NEW k \in Keys, Stored(k)'
               PROVE  Tag(k)' \in pq'
    BY DEF QueueCoversStore
  <2> DEFINE due == Due(cleaner[c].at)
  <2>1. pq' = pq \ due
    BY <1>3 DEF Sweep
  <2>2. kv'[k] = kv[k] /\ ~\E p \in due : p[2] = k
    BY <1>3 DEF Sweep, Stored, Absent
  <2>3. Tag(k) \in pq /\ Tag(k)' = Tag(k)
    BY <2>2 DEF QueueCoversStore, Stored, Tag
  <2>4. Tag(k)[2] = k
    BY DEF Tag
  <2>5. QED
    BY <2>1, <2>2, <2>3, <2>4
<1>4. QED
  BY <1>1, <1>2, <1>3

(* Every stored entry always has its tag in the queue, whatever the order  *)
(* of calls, sweeps and ticks: obtain, set, del and clean_expired_values   *)
(* of memory.rs keep the two collections together.                         *)
THEOREM QueueAlwaysCovers == Spec => []QueueCoversStore
<1>1. Init => QueueCoversStore
  BY DEF Init, CacheInit, QueueCoversStore, Stored, Absent
<1>2. TypeOK /\ QueueCoversStore /\ [Next]_vars => QueueCoversStore'
  <2> SUFFICES ASSUME TypeOK, QueueCoversStore, [Next]_vars
               PROVE  QueueCoversStore'
    OBVIOUS
  <2>1. CASE UNCHANGED cacheVars
    BY <2>1 DEF cacheVars, QueueCoversStore, Stored, Tag
  <2>2. QED
    BY <2>1, CallCovers, CleanCovers DEF Next, vars
<1>3. QED
  BY <1>1, <1>2, CacherTypes, PTL DEF Spec

(* What SweepIsComplete says of one sweep: an entry that had expired when  *)
(* the cleaner read the clock is gone from the map.                        *)
THEOREM SweepsAreComplete == Spec => SweepIsComplete
<1>1. ASSUME TypeOK, QueueCoversStore,
             NEW c \in Cleaners, Sweep(c), NEW k \in Keys, Stored(k)'
      PROVE  kv'[k].expire > cleaner[c].at
  <2> DEFINE due == Due(cleaner[c].at)
  <2>1. kv'[k] = kv[k] /\ ~\E p \in due : p[2] = k
    BY <1>1 DEF Sweep, Stored, Absent
  <2>2. Tag(k) \in pq
    BY <2>1, <1>1 DEF QueueCoversStore, Stored
  <2>3. Tag(k) \notin due
    BY <2>1 DEF Tag
  <2>4. ~(kv[k].expire <= cleaner[c].at)
    BY <2>2, <2>3 DEF Due, Tag
  <2>5. kv[k].expire \in Nat /\ cleaner[c].at \in Nat
    BY <1>1 DEF TypeOK, CacheTypeOK
  <2>6. QED
    BY <2>1, <2>4, <2>5
<1>2. TypeOK /\ QueueCoversStore =>
        \A c \in Cleaners : Sweep(c) => \A k \in Keys :
                              Stored(k)' => kv'[k].expire > cleaner[c].at
  BY <1>1
<1>3. QED
  BY <1>2, CacherTypes, QueueAlwaysCovers, PTL DEF SweepIsComplete

=============================================================================
