------------------------------ MODULE ProxyTime ------------------------------
(***************************************************************************)
(* What the cachers and the request handler have in common: the            *)
(* idempotency keys, the wall clock (unix_ms() in                          *)
(* idempotent-proxy-types/src/lib.rs, read by every cacher) and the one    *)
(* duration that is both the lease of a key and the life of a cached       *)
(* response: main.rs gives HybridCacher the request timeout as cache_ttl.  *)
(*                                                                         *)
(* MaxTime is a model-checking bound: the clock stops there.               *)
(***************************************************************************)
EXTENDS Naturals

CONSTANTS Keys,     \* the idempotency keys, "agent:method:key" in handler.rs
          TTL,      \* cache_ttl, in clock ticks
          MaxTime   \* bound: the last value of the clock

ASSUME TimeAssumption == TTL \in Nat \ {0} /\ MaxTime \in Nat

VARIABLE now        \* unix_ms()

Tick == now < MaxTime /\ now' = now + 1

=============================================================================
