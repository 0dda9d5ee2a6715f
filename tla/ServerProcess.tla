---------------------------- MODULE ServerProcess ----------------------------
(***************************************************************************)
(* The life of the server's process, main() of idempotent-proxy-server:    *)
(* it serves, is asked to stop, and ends, to be started again.             *)
(*                                                                         *)
(* Only the plain listener awaits shutdown_signal(); behind TLS nobody     *)
(* does, no handler is installed, and the signal ends the process at once. *)
(* The handle that shutdown_signal() gives 10 seconds belongs to no        *)
(* listener in the plain mode: the requests under way are waited for, as   *)
(* long as they take.                                                      *)
(***************************************************************************)
EXTENDS Naturals

CONSTANTS Servers,
          Tls,       \* those with a TLS_KEY_FILE
          MaxStops   \* bound: times that processes are told to stop or crash

ASSUME ProcessAssumption == Tls \subseteq Servers /\ MaxStops \in Nat

VARIABLES server,    \* up, draining or down
          stops

ProcessTypeOK == /\ server \in [Servers -> {"up", "draining", "down"}]
                 /\ stops \in 0 .. MaxStops

ProcessInit == server = [s \in Servers |-> "up"] /\ stops = 0

(* A connection is taken. *)
Accepts(s) == server[s] = "up"

Becoming(s, phase) == server' = [server EXCEPT ![s] = phase]
Stopping           == stops < MaxStops /\ stops' = stops + 1

(* SIGTERM or Ctrl+C reaches the plain listener. *)
Drain(s) == /\ s \notin Tls /\ server[s] = "up"
            /\ Stopping /\ Becoming(s, "draining")

(* The process ends with requests under way: the signal behind TLS, or a   *)
(* crash, or whoever loses patience with one that drains.                  *)
Killed(s) == /\ server[s] # "down"
             /\ Stopping /\ Becoming(s, "down")

Drained(s) == server[s] = "draining" /\ Becoming(s, "down") /\ UNCHANGED stops

Boots(s) == server[s] = "down" /\ Becoming(s, "up") /\ UNCHANGED stops

=============================================================================
