---------------------------- MODULE MemoryCacher ----------------------------
(***************************************************************************)
(* The in-memory Cacher of idempotent-proxy-server/src/cache/memory.rs:    *)
(* a hash map from idempotency key to (expire_at, value), an ordered queue *)
(* of (expire_at, key) tags, and the cleaning tasks that obtain, polling,  *)
(* set and del leave behind.                                               *)
(*                                                                         *)
(* obtain, set and del hold the write lock of the map from their first     *)
(* statement to their last, so each is one step here; a cleaning task      *)
(* reads the clock when it first runs (Arm) and takes both locks later     *)
(* (Sweep).  MemoryCacherLocks looks inside those steps.                   *)
(*                                                                         *)
(* The specification at the end of the module lets any caller make any     *)
(* call at any moment.                                                     *)
(***************************************************************************)
EXTENDS ProxyTime

CONSTANTS Values,    \* the encoded responses
          Empty,     \* vec![]: obtained, no response yet
          NoValue,   \* fills the slot of a key the map does not hold
          Cleaners   \* bound: the cleaning tasks that may be outstanding

ASSUME ValueAssumption ==
  Empty \notin Values /\ NoValue \notin Values /\ Empty # NoValue

VARIABLES kv,        \* the HashMap, total: a key not stored maps to Absent
          pq,        \* the BTreeSet of PriorityKey(expire_at, key)
          cleaner    \* the spawned cleaning tasks

cacheVars == <<kv, pq, cleaner>>

Absent == [expire |-> 0, val |-> NoValue]
Idle   == [pc |-> "idle", at |-> 0]

Stored(k)   == kv[k].val # NoValue
Live(k)     == Stored(k) /\ kv[k].expire > now
Answered(k) == kv[k].val \in Values
Tag(k)      == <<kv[k].expire, k>>

CacheTypeOK ==
  /\ kv \in [Keys -> [expire : Nat, val : Values \cup {Empty, NoValue}]]
  /\ pq \subseteq Nat \X Keys
  /\ cleaner \in [Cleaners -> [pc : {"idle", "spawned", "armed"}, at : Nat]]

CacheInit == /\ kv = [k \in Keys |-> Absent]
             /\ pq = {}
             /\ cleaner = [c \in Cleaners |-> Idle]

(***************************************************************************)
(* clean_expired_values() spawns a task.  With every task of the bound     *)
(* outstanding nothing more is spawned: those tasks still have to sweep.   *)
(***************************************************************************)
Spawn ==
  \/ \E c \in Cleaners :
       /\ cleaner[c].pc = "idle"
       /\ cleaner' = [cleaner EXCEPT ![c].pc = "spawned"]
  \/ /\ \A c \in Cleaners : cleaner[c].pc # "idle"
     /\ UNCHANGED cleaner

(* Mutant of Restamp: no new tag. *)
RestampTagLost(k, v) ==
  /\ kv' = [kv EXCEPT ![k] = [expire |-> now + TTL, val |-> v]]
  /\ pq' = pq \ {Tag(k)}

(* The entry of k gets value v and a whole new TTL; its tag follows it. *)
Restamp(k, v) ==
  /\ kv' = [kv EXCEPT ![k] = [expire |-> now + TTL, val |-> v]]
  /\ pq' = (pq \ {Tag(k)}) \cup {<<now + TTL, k>>}

(* Mutants of Obtain: whatever entry there is; the old value is kept. *)
ObtainAlways(k) == Restamp(k, Empty) /\ UNCHANGED cleaner
ObtainKeepsValue(k) ==
  /\ ~Live(k)
  /\ Restamp(k, IF Stored(k) THEN kv[k].val ELSE Empty)
  /\ UNCHANGED cleaner

(* obtain() returns true: the key is vacant, or its entry has expired. *)
Obtain(k) == /\ ~Live(k)
             /\ Restamp(k, Empty)
             /\ UNCHANGED cleaner

(* One look of polling_get(): an expired entry makes it spawn a cleaner,   *)
(* and is read all the same.                                               *)
Look(k) == /\ IF Stored(k) /\ ~Live(k) THEN Spawn ELSE UNCHANGED cleaner
           /\ UNCHANGED <<kv, pq>>

SetLive(k, v) == /\ Live(k)
                 /\ Restamp(k, v)
                 /\ UNCHANGED cleaner

(* set() on an expired entry drops the entry, not its tag in the queue. *)
SetExpired(k) == /\ Stored(k) /\ ~Live(k)
                 /\ kv' = [kv EXCEPT ![k] = Absent]
                 /\ Spawn
                 /\ UNCHANGED pq

SetMissing(k) == ~Stored(k) /\ UNCHANGED cacheVars

Del(k) == /\ kv' = [kv EXCEPT ![k] = Absent]
          /\ pq' = pq \ {Tag(k)}
          /\ Spawn

(* A cleaning task starts: it reads the clock before it asks for a lock. *)
Arm(c) == /\ cleaner[c].pc = "spawned"
          /\ cleaner' = [cleaner EXCEPT ![c] = [pc |-> "armed", at |-> now]]
          /\ UNCHANGED <<kv, pq>>

(* Mutants of Due: an expiry at this very moment is left, the next one is  *)
(* taken too.                                                              *)
DueEarly(t) == {p \in pq : p[1] < t}
DueLate(t)  == {p \in pq : p[1] <= t + 1}

Due(t) == {p \in pq : p[1] <= t}

(* It pops every tag due at that moment and removes the tag's key. *)
Sweep(c) ==
  /\ cleaner[c].pc = "armed"
  /\ LET due == Due(cleaner[c].at)
     IN  /\ pq' = pq \ due
         /\ kv' = [k \in Keys |->
                     IF \E p \in due : p[2] = k THEN Absent ELSE kv[k]]
  /\ cleaner' = [cleaner EXCEPT ![c] = Idle]

Clean == \E c \in Cleaners : Arm(c) \/ Sweep(c)

(* -------------------- any caller, any call, any time ------------------- *)
vars == <<now, cacheVars>>

TypeOK == now \in Nat /\ CacheTypeOK

Init == now = 0 /\ CacheInit

Call(k) == \/ Obtain(k)
           \/ Look(k)
           \/ \E v \in Values : SetLive(k, v)
           \/ SetExpired(k)
           \/ SetMissing(k)
           \/ Del(k)

Next == \/ (\E k \in Keys : Call(k)) /\ UNCHANGED now
        \/ Clean /\ UNCHANGED now
        \/ Tick /\ UNCHANGED cacheVars

Spec == Init /\ [][Next]_vars

(* The queue never loses track of an entry: whatever obtain, set, del and  *)
(* the cleaners do, in any order, every stored entry has its own tag, so a *)
(* later sweep can find it.  (memory.rs keeps the two collections by hand  *)
(* in five places.)                                                        *)
QueueCoversStore == \A k \in Keys : Stored(k) => Tag(k) \in pq

(* A sweep is complete: it goes by the queue alone, and yet no entry of    *)
(* the map that had expired when the cleaner read the clock is left, which *)
(* is what the test of memory.rs:201-207 asserts of one entry.             *)
SweepIsComplete ==
  [][\A c \in Cleaners :
       Sweep(c) => \A k \in Keys :
                     Stored(k)' => kv'[k].expire > cleaner[c].at]_vars

(* A sweep removes expired entries and no others: an entry whose lease is  *)
(* still running, or whose response may still be asked for, stays.  The    *)
(* code breaks it: set() on an expired entry forgets its tag, and the tag  *)
(* then names whatever entry the key holds by the time of the sweep.       *)
SweepSparesLive ==
  [][\A c \in Cleaners :
       Sweep(c) => \A k \in Keys : Live(k) => kv'[k] = kv[k]]_vars

=============================================================================
