------------------------------ MODULE MCOutcalls ------------------------------
(* Outcalls of a subnet of two or three nodes, to one agent in each attempt. *)
EXTENDS Outcalls, TLC

CONSTANT k1

AllRequests == (1 .. Attempts) \X Replicas
SameAgent   == [n \in 1 .. Attempts |-> k1]
KeyOfAll    == [r \in AllRequests |-> k1]

Symmetry == Permutations(Replicas)

=============================================================================
