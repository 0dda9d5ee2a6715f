------------------------------- MODULE FairLine -------------------------------
(***************************************************************************)
(* The line before a lock of tokio::sync::RwLock: requests are served in   *)
(* the order they came, and a future that is dropped leaves the line.      *)
(***************************************************************************)
EXTENDS SequencesExt

First(x, line) == line # <<>> /\ Head(line) = x

(* The line when x, who stands there once or not at all, has left it. *)
Without(line, x) ==
  IF \E i \in DOMAIN line : line[i] = x
  THEN RemoveAt(line, CHOOSE i \in DOMAIN line : line[i] = x)
  ELSE line

=============================================================================
