--------------------------- MODULE MCCanisterCalls ---------------------------
(* CanisterCalls with two good answers of different sizes and a bad one,   *)
(* and funds on either side of each sum that a call may come to.           *)
EXTENDS CanisterCalls

CONSTANTS a, b

Sizes == [x \in Good |-> IF x = a THEN 4 ELSE ResponseBytes]

Sums == LET quote(k) == Quote(IngressBytes, RequestBytes, ResponseBytes, k)
        IN  {Ingress + Outcall(1), quote(1), quote(2), quote(1) + Outcall(1)}

AllFunds == Sums \cup {s - 1 : s \in Sums}

=============================================================================
