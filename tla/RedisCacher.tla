----------------------------- MODULE RedisCacher -----------------------------
(***************************************************************************)
(* The Redis Cacher of idempotent-proxy-server/src/cache/redis.rs: each    *)
(* operation is one command on a server that forgets a key by itself once  *)
(* its time is over.  The server is external; its commands are modelled as *)
(* redis.rs uses them (SET NX PX, SET XX PX, GET, DEL).                    *)
(***************************************************************************)
EXTENDS ProxyTime

CONSTANTS Values,       \* encoded responses, longer than one byte
          Placeholder,  \* vec![0]: obtained, no response yet
          NoValue

ASSUME StoreAssumption ==
  Placeholder \notin Values /\ NoValue \notin Values /\ Placeholder # NoValue

VARIABLE store          \* the server's keys

Absent     == [expire |-> 0, val |-> NoValue]
Present(k) == store[k].val # NoValue /\ store[k].expire > now
Answered(k) == Present(k) /\ store[k].val \in Values

StoreTypeOK ==
  store \in [Keys -> [expire : Nat, val : Values \cup {Placeholder, NoValue}]]

StoreInit == store = [k \in Keys |-> Absent]

(* Mutant of SetPx: the ttl is taken for seconds. *)
SetEx(k, v) == store' = [store EXCEPT ![k] = [expire |-> now + 1000 * TTL, val |-> v]]

SetPx(k, v) == store' = [store EXCEPT ![k] = [expire |-> now + TTL, val |-> v]]

(* Mutant of Obtain: SET without NX. *)
ObtainAlways(k) == SetPx(k, Placeholder)

(* SET key \0 NX PX ttl, answered OK. *)
Obtain(k) == ~Present(k) /\ SetPx(k, Placeholder)

(* SET key value XX PX ttl: OK, or nothing done; set() returns which. *)
Set(k, v) == IF Present(k) THEN SetPx(k, v) ELSE UNCHANGED store

Del(k) == store' = [store EXCEPT ![k] = Absent]

=============================================================================
