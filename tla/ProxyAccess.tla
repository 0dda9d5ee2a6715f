----------------------------- MODULE ProxyAccess -----------------------------
(***************************************************************************)
(* The way of a request from the canister to an entry of a proxy's cache:  *)
(* build_request() of agent.rs, and the checks that proxy() of handler.rs  *)
(* and fetch() of the worker's index.ts make before they obtain the key.   *)
(*                                                                         *)
(* A token is [exp, name, by], by being the key that signed it.  A proxy   *)
(* is [ecdsa, ed25519, agents, vars, worker]: its public keys, the agents  *)
(* it is restricted to, its URL_ variables, and whether it is a worker.    *)
(* A request has a token, a method, a path, a host and a key; NoName       *)
(* stands for the one that is missing.  The name of an entry,              *)
(* "agent:method:key", is a triple here: agents' names are taken to have   *)
(* no colon.                                                               *)
(***************************************************************************)
EXTENDS Naturals

CONSTANTS PermittedDrift,  \* 10 seconds
          Variables,       \* the paths that begin with /URL_
          NoName

ASSUME DriftAssumption == PermittedDrift \in Nat

ASSUME VariableAssumption == "/" \notin Variables

(* ----------------------------- the canister ---------------------------- *)
(* A request for url, [host, path] or [var], by an agent with this token.  *)
(* A variable is looked up by the proxy and needs no host.                 *)
Built(token, method, url, key) ==
  [token |-> token, method |-> method, key |-> key,
   path |-> IF "var" \in DOMAIN url THEN url.var ELSE url.path,
   host |-> IF "var" \in DOMAIN url THEN NoName ELSE url.host]

(* ------------------------------- the proxy ----------------------------- *)
(* Mutant of Fresh: the proxy's clock has to be right. *)
FreshToday(token, clock) == token.exp >= clock

Fresh(token, clock) == token.exp + PermittedDrift >= clock

(* With an ECDSA key no other is tried; and the worker verifies Ed25519    *)
(* tokens with the list of ECDSA keys, which is empty then.                *)
KeysTried(proxy) ==
  IF proxy.ecdsa # {} \/ proxy.worker THEN proxy.ecdsa ELSE proxy.ed25519

Restricted(proxy) == proxy.ecdsa # {} \/ proxy.ed25519 # {}

(* ecdsa_verify(), ed25519_verify(): decoded, fresh and signed. *)
Verified(proxy, token, clock) ==
  Fresh(token, clock) /\ token.by \in KeysTried(proxy)

Agent(proxy, request) == IF Restricted(proxy) THEN request.token.name ELSE "ANON"

(* A variable this proxy does not have: the worker throws, and the platform *)
(* makes it a 500.                                                         *)
Undefined(proxy, request) ==
  request.path \in Variables /\ request.path \notin proxy.vars

Incomplete(request) ==
  \/ request.path \notin Variables /\ request.host = NoName
  \/ request.key = NoName

(* The worker has a page of its own, before it looks for a host. *)
OwnPage(proxy, request) ==
  proxy.worker /\ request.method = "GET" /\ request.path = "/"

(* What becomes of a request, in the order of the checks: a status, or the *)
(* entry of the cache that is obtained or waited for.                      *)
Outcome(proxy, request, clock) ==
  IF Restricted(proxy) /\ ~Verified(proxy, request.token, clock)
  THEN [status |-> 407]
  ELSE IF proxy.agents # {} /\ Agent(proxy, request) \notin proxy.agents
  THEN [status |-> 403]
  ELSE IF OwnPage(proxy, request)
  THEN [status |-> 200]
  ELSE IF Undefined(proxy, request)
  THEN [status |-> IF proxy.worker THEN 500 ELSE 400]
  ELSE IF Incomplete(request)
  THEN [status |-> 400]
  ELSE [entry |-> <<Agent(proxy, request), request.method, request.key>>]

=============================================================================
