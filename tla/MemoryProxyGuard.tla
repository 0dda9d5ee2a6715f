--------------------------- MODULE MemoryProxyGuard ---------------------------
(***************************************************************************)
(* MemoryProxy with the line before the map's lock.  polling_get() sleeps  *)
(* with the read guard in hand, so a waiter's sleep holds up every call    *)
(* that writes, whatever its key: the holder that has the response, other  *)
(* requests' obtain() and the cleaners.  tokio's lock is fair: a reader    *)
(* that comes after a waiting writer waits for it.                         *)
(*                                                                         *)
(* The queue's lock is left to MemoryCacherLocks (and with it the deadlock *)
(* that module finds).                                                     *)
(***************************************************************************)
EXTENDS MemoryProxy, FairLine

CONSTANTS MaxUpstream,  \* bound: longest time from obtain to the response
          WakeLate,     \* bound: how late a sleeping poller may wake
          LastJoin      \* bound: no request arrives after this time

ASSUME GuardAssumption ==
  /\ Requests \cap Cleaners = {} /\ IsFiniteSet(Requests)
  /\ PollInterval <= TTL        \* else polling_get() has no turn at all
  /\ MaxUpstream \in Nat /\ WakeLate \in Nat /\ LastJoin \in Nat

VARIABLES line,         \* who awaits the map's lock, in order
          asleep        \* the pollers that sleep on the read guard

guardVars == <<proxyVars, line, asleep>>

GuardInit == ProxyInit /\ line = <<>> /\ asleep = {}

InLine(x) == x \in Range(line)

(* Whoever keeps the guard is a poller in its sleep, nobody else. *)
GuardTypeOK == /\ ProxyTypeOK
               /\ line \in Seq(Requests \cup Cleaners) /\ IsInjective(line)
               /\ asleep \subseteq {r \in Requests : req[r].pc = "poll" /\ ~InLine(r)}

(* A handler comes to kv.read().await or kv.write().await. *)
Awaits(r) == \/ Arriving(r) /\ now <= LastJoin
             \/ req[r].pc \in {"publish", "discard"}
             \/ req[r].pc = "poll" /\ req[r].left > 0 /\ r \notin asleep

Join(x) == /\ ~InLine(x)
           /\ \/ x \in Requests /\ Awaits(x)
              \/ x \in Cleaners /\ cleaner[x].pc = "armed"
           /\ line' = Append(line, x)
           /\ UNCHANGED <<proxyVars, asleep>>

(* Mutant of MayRead: a reader does not wait for the writers before it. *)
MayReadAhead(r) == InLine(r)

MayRead(r)  == First(r, line)

(* Mutant of MayWrite: polling_get() drops the guard before its sleep. *)
MayWriteAsleep(x) == First(x, line)

MayWrite(x) == First(x, line) /\ asleep = {}

(* A call's turn, from the grant of the lock to its return or its sleep. *)
WriteTurn(r) == /\ MayWrite(r)
                /\ ObtainKey(r) \/ ObtainDenied(r) \/ Publish(r) \/ Discard(r)
                /\ line' = Tail(line) /\ UNCHANGED <<now, asleep>>

PollTurn(r) == /\ MayRead(r) /\ Poll(r)
               /\ line' = Without(line, r)
               /\ asleep' = IF req'[r].pc = "poll" THEN asleep \cup {r} ELSE asleep
               /\ UNCHANGED now

SweepTurn(c) == /\ MayWrite(c) /\ Sweep(c)
                /\ line' = Tail(line) /\ UNCHANGED <<now, req, asleep>>

(* The guard is dropped when the sleep is over; after the last one         *)
(* polling_get() gives up.                                                 *)
Wake(r) == /\ r \in asleep /\ now >= req[r].wake
           /\ asleep' = asleep \ {r}
           /\ \/ req[r].left > 0 /\ UNCHANGED req
              \/ PollTimeout(r)
           /\ UNCHANGED <<now, cacheVars, line>>

(* Mutant of Leave: the guard is not dropped with the handler. *)
LeaveAsleep(r) == /\ Disconnect(r) \/ (Arriving(r) /\ InLine(r) /\ UNCHANGED req)
                  /\ line' = Without(line, r)
                  /\ UNCHANGED <<now, cacheVars, asleep>>

(* A dropped handler leaves the line and drops its guard.  One that is     *)
(* dropped before obtain() has its turn might as well not have come.       *)
Leave(r) == /\ Disconnect(r) \/ (Arriving(r) /\ InLine(r) /\ UNCHANGED req)
            /\ line' = Without(line, r) /\ asleep' = asleep \ {r}
            /\ UNCHANGED <<now, cacheVars>>

Elsewhere(r) == /\ Forwarding(r) \/ (~InLine(r) /\ Reject(r))
                /\ UNCHANGED <<now, cacheVars, line, asleep>>

(* Whatever can go on without waiting goes on before the clock does. *)
Ready(x) == MayWrite(x) \/ (x \in Requests /\ req[x].pc = "poll" /\ MayRead(x))
GuardMayWait ==
  /\ \A r \in Requests :
       /\ req[r].pc \in {"forward", "await"} => now < req[r].since + MaxUpstream
       /\ r \in asleep => now < req[r].wake + WakeLate
       /\ req[r].pc \in {"publish", "discard", "poll"} => InLine(r) \/ r \in asleep
  /\ \A x \in Range(line) : ~Ready(x)

GuardQuiet == Quiet /\ line = <<>>

GuardNext ==
  \/ \E x \in Requests \cup Cleaners : Join(x)
  \/ \E r \in Requests : \/ WriteTurn(r) \/ PollTurn(r) \/ Wake(r)
                         \/ Leave(r) \/ Elsewhere(r)
  \/ \E c \in Cleaners : \/ SweepTurn(c)
                         \/ Arm(c) /\ UNCHANGED <<now, req, line, asleep>>
  \/ Tick /\ GuardMayWait /\ UNCHANGED <<cacheVars, req, line, asleep>>
  \/ GuardQuiet /\ UNCHANGED guardVars

GuardSpec == GuardInit /\ [][GuardNext]_guardVars

(* The line before the lock changes when things happen, not what: every    *)
(* behaviour is one of MemoryProxy, with MaxHold and PollLate the delays a *)
(* holder and a waiter meet in the line included.  Were readers served out *)
(* of turn, sleeping waiters could keep a response from being cached until *)
(* its key had expired.                                                    *)
ImplementsMemoryProxy == ProxySpec

(* A waiter does not give up on a response that is there for the taking.   *)
(* polling_get() takes no look after its last sleep; what saves it is that *)
(* nobody can write while it sleeps.  (RedisProxy has the same loop and no *)
(* such guard.)                                                            *)
NoAnswerMissed ==
  [][\A r \in Requests :
       PollTimeout(r) => ~Answered(KeyOf[r])]_guardVars

(* A response that came in time is cached: set() does not find its entry   *)
(* expired.  The code breaks it: every poll between the holder and the     *)
(* head of the line sleeps a whole interval on the guard first, and any    *)
(* key's obtain() puts one more of them before the holder.                 *)
PromptAnswerCached ==
  [][\A r \in Requests : ~(PublishFails(r) /\ WriteTurn(r))]_guardVars

=============================================================================
