------------------------------ MODULE CycleCost ------------------------------
(***************************************************************************)
(* What the canister asks for a call: the Calculator of cycles.rs and the  *)
(* two quotes of api.rs, in cycles.  Costs grow with the bytes, with the   *)
(* nodes of the subnet and with the agents asked, the service fee only     *)
(* with the outcalls made one after the other.  On a subnet of size 0      *)
(* nothing is asked for.                                                   *)
(***************************************************************************)
EXTENDS Naturals

CONSTANTS SubnetSize, ServiceFee

ASSUME CostAssumption == SubnetSize \in Nat /\ ServiceFee \in Nat

PerNode(k, cost) == cost * (SubnetSize * k)

IngressCost(bytes) ==
  IF SubnetSize = 0 THEN 0 ELSE PerNode(1, 1200000 + 2000 * bytes)

(* One outcall, made by k agents at once; 150 bytes of headers are added,  *)
(* and a million cycles are for the canister itself.                       *)
RequestPerNode(bytes) ==
  3000000 + 60000 * SubnetSize + 400 * (150 + bytes) + 1000000

RequestCost(bytes, k) ==
  IF SubnetSize = 0 THEN 0 ELSE ServiceFee + PerNode(k, RequestPerNode(bytes))

ResponseCost(bytes, k) ==
  IF SubnetSize = 0 THEN 0 ELSE PerNode(k, 800 * bytes)

(* Mutant of Quote: the price of one agent, however many are asked. *)
QuoteOne(ingress, request, response, k) ==
  IngressCost(ingress) + RequestCost(request, 1) + ResponseCost(response, 1)

(* parallel_call_cost(), and with one agent proxy_http_request_cost(): the *)
(* price if the response is as long as it may be.                          *)
Quote(ingress, request, response, k) ==
  IngressCost(ingress) + RequestCost(request, k) + ResponseCost(response, k)

=============================================================================
