-------------------------- MODULE MCMemoryProxyGuard --------------------------
(* MemoryProxyGuard with three or four requests on one key, or three on two. *)
EXTENDS MemoryProxyGuard

CONSTANTS k1, k2, r1, r2, r3, r4

OneKey  == [r \in Requests |-> k1]
TwoKeys == [r \in Requests |-> IF r = r3 THEN k2 ELSE k1]

Symmetry == Permutations(Requests) \cup Permutations(Cleaners)

=============================================================================
