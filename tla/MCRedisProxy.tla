---------------------------- MODULE MCRedisProxy ----------------------------
(* RedisProxy with three requests for one key and a pool of one or two. *)
EXTENDS RedisProxy, TLC

CONSTANTS k1, r1, r2, r3

OneKey == [r \in Requests |-> k1]

Symmetry == Permutations(Requests)

=============================================================================
