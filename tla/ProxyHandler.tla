---------------------------- MODULE ProxyHandler ----------------------------
(***************************************************************************)
(* proxy() of idempotent-proxy-server/src/handler.rs, one request at a     *)
(* time: what a request remembers between two awaits, and how each step    *)
(* moves it.  The steps say nothing of the cacher; MemoryProxy and         *)
(* RedisProxy conjoin them with the operations of theirs.                  *)
(*                                                                         *)
(* A request is its own response: that the client got the answer of the    *)
(* upstream call made for request v is written got = v.                    *)
(***************************************************************************)
EXTENDS ProxyTime

CONSTANTS Requests,     \* the HTTP requests clients send
          KeyOf,        \* the idempotency key of each
          Nobody,       \* no response
          PollInterval, \* poll_interval, in clock ticks
          MaxHold,      \* bound: longest time from obtain to set or del
          PollLate,     \* bound: how late a sleeping poller may wake
          LastArrival   \* bound: no request arrives after this time

ASSUME HandlerAssumption ==
  /\ KeyOf \in [Requests -> Keys]
  /\ Nobody \notin Requests
  /\ PollInterval \in Nat \ {0}
  /\ MaxHold \in Nat /\ PollLate \in Nat /\ LastArrival \in Nat

VARIABLE req            \* the state of each request's handler

Working  == {"forward", "await", "publish", "discard"}
Active   == Working \cup {"poll"}
Outcomes == {"rejected", "answered", "timeout", "missed", "failed",
             "passed", "gone"}

HandlerTypeOK ==
  req \in [Requests -> [pc    : {"new"} \cup Active \cup Outcomes,
                        held  : BOOLEAN,   \* obtain() gave it the key
                        since : Nat,       \* when it called obtain()
                        left  : Nat,       \* polls left
                        wake  : Nat,       \* next poll not before this
                        got   : Requests \cup {Nobody}]]

HandlerInit ==
  req = [r \in Requests |-> [pc |-> "new", held |-> FALSE, since |-> 0,
                             left |-> 0, wake |-> 0, got |-> Nobody]]

(* Between obtain() and the end of its own set() or del(). *)
Holding(r)  == req[r].pc \in Working
Finished(r) == req[r].pc \in Outcomes

Goto(r, from, to) == /\ req[r].pc = from
                     /\ req' = [req EXCEPT ![r].pc = to]

Arriving(r) == req[r].pc = "new"
InTime      == now <= LastArrival

(* Access control, the url and the headers, all before the cacher is used. *)
Reject(r) == Arriving(r) /\ Goto(r, "new", "rejected")

GotKey(r) ==
  /\ Arriving(r)
  /\ req' = [req EXCEPT ![r] = [@ EXCEPT !.pc = "forward", !.held = TRUE,
                                         !.since = now]]

(* Mutant of KeyTaken: one poll too few. *)
KeyTakenShort(r) ==
  /\ Arriving(r)
  /\ req' = [req EXCEPT ![r] = [@ EXCEPT !.pc = "poll", !.since = now,
                                         !.left = (TTL \div PollInterval) - 1,
                                         !.wake = now]]

(* obtain() answered false: poll cache_ttl / poll_interval times. *)
KeyTaken(r) ==
  /\ Arriving(r)
  /\ req' = [req EXCEPT ![r] = [@ EXCEPT !.pc = "poll", !.since = now,
                                         !.left = TTL \div PollInterval,
                                         !.wake = now]]

(* ------------------------ polling_get, one look at a time -------------- *)
(* Mutant of MayLook: the counter is not compared with zero. *)
MayLookOn(r) == req[r].pc = "poll" /\ now >= req[r].wake

MayLook(r) == req[r].pc = "poll" /\ req[r].left > 0 /\ now >= req[r].wake

PollHit(r, v) ==
  /\ MayLook(r)
  /\ req' = [req EXCEPT ![r] = [@ EXCEPT !.pc = "answered", !.got = v]]

PollMiss(r) == MayLook(r) /\ Goto(r, "poll", "missed")

PollAgain(r) ==
  /\ MayLook(r)
  /\ req' = [req EXCEPT ![r] = [@ EXCEPT !.left = req[r].left - 1,
                                         !.wake = now + PollInterval]]

PollTimeout(r) ==
  /\ req[r].left = 0 /\ now >= req[r].wake
  /\ Goto(r, "poll", "timeout")

(* -------------------------- the holder of the key ---------------------- *)
Send(r) == Goto(r, "forward", "await")

(* Reading the client's body fails: 400, and the key stays obtained. *)
BadBody(r) == Goto(r, "forward", "failed")

(* A status from 200 to 500 is to be cached, any other is passed on. *)
UpstreamAnswers(r) == Goto(r, "await", "publish")
UpstreamRefuses(r) == Goto(r, "await", "discard")

(* No response, or one that cannot be read, masked or encoded: 502, and    *)
(* the key stays obtained.                                                 *)
UpstreamFails(r) == Goto(r, "await", "failed")

Published(r) ==
  /\ req[r].pc = "publish"
  /\ req' = [req EXCEPT ![r] = [@ EXCEPT !.pc = "answered", !.got = r]]

PublishFails(r) == Goto(r, "publish", "failed")
Discarded(r)    == Goto(r, "discard", "passed")

(* The client closes the connection: the handler's future is dropped.      *)
Disconnect(r) == /\ req[r].pc \in Active
                 /\ req' = [req EXCEPT ![r].pc = "gone"]

(* What the holder of a key does outside the cacher. *)
Forwarding(r) == \/ Send(r) \/ BadBody(r)
                 \/ UpstreamAnswers(r) \/ UpstreamRefuses(r)
                 \/ UpstreamFails(r)

(* The clock waits for a holder that has used up MaxHold, and for a poller *)
(* that is PollLate behind.                                                *)
MayWait == \A r \in Requests :
             /\ Holding(r) => now < req[r].since + MaxHold
             /\ req[r].pc = "poll" => now < req[r].wake + PollLate

=============================================================================
