---------------------------- MODULE MCProxyToken ----------------------------
(* ProxyToken with two names: a list of both, and two agents of one name. *)
EXTENDS ProxyToken, TLC

CONSTANTS a, b

SomeLists == {<<a, b>>, <<b, b>>}
Both      == {<<a, b>>}

Symmetry == Permutations(Tasks) \cup Permutations(Signers)

=============================================================================
