----------------------------- MODULE MCCfWorker -----------------------------
(* CfWorker with up to three requests, for one key or two. *)
EXTENDS CfWorker, TLC

CONSTANTS k1, k2, r1, r2, r3

OneKey  == [r \in Requests |-> k1]
TwoKeys == [r \in Requests |-> IF r = r3 THEN k2 ELSE k1]

Symmetry == Permutations(Requests)

=============================================================================
