------------------------------ MODULE CfWorker ------------------------------
(***************************************************************************)
(* The proxy as a Cloudflare Worker, idempotent-proxy-cf-worker/src/       *)
(* index.ts: fetch() for concurrent requests over one durable object       *)
(* (class Cacher) per idempotency key.                                     *)
(*                                                                         *)
(* The object runs one call at a time and answers once its writes are on   *)
(* disk (the platform's input and output gates), so a call is one step.    *)
(* A call may fail for its caller, carried out or not.  An object may be   *)
(* evicted between calls; its constructor then reads the disk.             *)
(*                                                                         *)
(* Neither del() is awaited: it is a message that arrives later, or never, *)
(* because the platform drops what is under way once the answer is sent.   *)
(* The upstream fetch has no time limit.                                   *)
(***************************************************************************)
EXTENDS ProxyTime

CONSTANTS Requests, KeyOf,
          Nobody,       \* no response
          PollInterval, \* env.POLL_INTERVAL; TTL is env.REQUEST_TIMEOUT
          PollLate,     \* bound: how late a sleeping poller may wake
          LastArrival   \* bound: no request arrives after this time

ASSUME WorkerAssumption == /\ KeyOf \in [Requests -> Keys]
                           /\ Nobody \notin Requests
                           /\ PollInterval \in Nat \ {0}
                           /\ PollLate \in Nat /\ LastArrival \in Nat

VARIABLES status,   \* this.status of each object, Out when it is evicted
          disk,     \* its storage: 's' and 'v'
          alarm,    \* when its alarm is due, or NoAlarm
          req       \* the requests' invocations of fetch()

objVars == <<status, disk, alarm>>
workerVars == <<now, objVars, req>>

Out     == 3
NoAlarm == 0
Blank   == [s |-> 0, v |-> Nobody]

Active   == {"fetch", "store", "relay", "poll"}
Outcomes == {"rejected", "answered", "passed", "failed", "gone"}

WorkerTypeOK ==
  /\ now \in Nat
  /\ status \in [Keys -> {0, 1, 2, Out}]
  /\ disk \in [Keys -> [s : {0, 1, 2}, v : Requests \cup {Nobody}]]
  /\ alarm \in [Keys -> Nat]
  /\ req \in [Requests -> [pc    : {"new"} \cup Active \cup Outcomes,
                           held  : BOOLEAN,  \* obtain() gave it the key
                           since : Nat,      \* when it called obtain()
                           left  : Nat,      \* polls left
                           wake  : Nat,      \* next poll not before this
                           got   : Requests \cup {Nobody},
                           dels  : 0 .. 2]]  \* its del()s under way

WorkerInit ==
  /\ now = 0
  /\ status = [k \in Keys |-> Out]
  /\ disk = [k \in Keys |-> Blank]
  /\ alarm = [k \in Keys |-> NoAlarm]
  /\ req = [r \in Requests |-> [pc |-> "new", held |-> FALSE, since |-> 0,
                                left |-> 0, wake |-> 0, got |-> Nobody,
                                dels |-> 0]]

(* ------------------------- the durable object -------------------------- *)
(* The constructor: the status is read back; no alarm is ever set there,   *)
(* getAlarm() being a promise and never null.                              *)
Status(k) == IF status[k] = Out THEN disk[k].s ELSE status[k]

Untouched == UNCHANGED objVars

(* A call that changes nothing still wakes the object. *)
Woken(k) == /\ status' = [status EXCEPT ![k] = Status(k)]
            /\ UNCHANGED <<disk, alarm>>

(* Mutant of Obtain: the status stays in memory. *)
ObtainInMemory(k) == /\ Status(k) = 0
                     /\ status' = [status EXCEPT ![k] = 1]
                     /\ UNCHANGED <<disk, alarm>>

Obtain(k) == /\ Status(k) = 0
             /\ status' = [status EXCEPT ![k] = 1]
             /\ disk' = [disk EXCEPT ![k].s = 1]
             /\ UNCHANGED alarm

(* set() asks nothing about the status it replaces. *)
Set(k, v) == /\ status' = [status EXCEPT ![k] = 2]
             /\ disk' = [disk EXCEPT ![k] = [s |-> 2, v |-> v]]
             /\ alarm' = [alarm EXCEPT ![k] = now + TTL]

(* Mutant of Del: the alarm is left. *)
DelKeepsAlarm(k) == /\ status' = [status EXCEPT ![k] = 0]
                    /\ disk' = [disk EXCEPT ![k] = Blank]
                    /\ UNCHANGED alarm

Del(k) == /\ status' = [status EXCEPT ![k] = 0]
          /\ disk' = [disk EXCEPT ![k] = Blank]
          /\ alarm' = [alarm EXCEPT ![k] = NoAlarm]

Alarm(k) == alarm[k] # NoAlarm /\ alarm[k] <= now /\ Del(k) /\ UNCHANGED req

Evict(k) == /\ status[k] # Out
            /\ status' = [status EXCEPT ![k] = Out]
            /\ UNCHANGED <<disk, alarm, req>>

(* ------------------------------ fetch() -------------------------------- *)
Goto(r, from, to) == /\ req[r].pc = from
                     /\ req' = [req EXCEPT ![r].pc = to]

(* The catch block of fetch(), for holders and waiters alike: an un-awaited *)
(* del() and status 500.                                                   *)
Catch(r) == req' = [req EXCEPT ![r] = [@ EXCEPT !.pc = "failed",
                                                !.dels = req[r].dels + 1]]

(* Token, agent, url and headers are checked before the object is called. *)
Reject(r) == Goto(r, "new", "rejected") /\ Untouched

Arriving(r) == req[r].pc = "new" /\ now <= LastArrival

ObtainKey(r) ==
  /\ Arriving(r) /\ Obtain(KeyOf[r])
  /\ req' = [req EXCEPT ![r] = [@ EXCEPT !.pc = "fetch", !.held = TRUE,
                                         !.since = now]]

ObtainDenied(r) ==
  /\ Arriving(r) /\ Status(KeyOf[r]) # 0 /\ Woken(KeyOf[r])
  /\ req' = [req EXCEPT ![r] = [@ EXCEPT !.pc = "poll", !.since = now,
                                         !.left = TTL \div PollInterval,
                                         !.wake = now]]

MayLook(r) == req[r].pc = "poll" /\ req[r].left > 0 /\ now >= req[r].wake

(* Mutant of PollAgain: the counter does not move. *)
PollForever(r) == req' = [req EXCEPT ![r].wake = now + PollInterval]

PollAgain(r) ==
  req' = [req EXCEPT ![r] = [@ EXCEPT !.left = req[r].left - 1,
                                      !.wake = now + PollInterval]]

(* One turn of polling_get(): the key is free again, its response is       *)
(* there, or not yet.                                                      *)
Poll(r) ==
  LET k == KeyOf[r]
  IN  /\ MayLook(r) /\ Woken(k)
      /\ \/ Status(k) = 0 /\ Catch(r)
         \/ /\ Status(k) = 2
            /\ req' = [req EXCEPT ![r] = [@ EXCEPT !.pc = "answered",
                                                   !.got = disk[k].v]]
         \/ Status(k) = 1 /\ PollAgain(r)

PollTimeout(r) ==
  req[r].pc = "poll" /\ req[r].left = 0 /\ now >= req[r].wake
  /\ Catch(r) /\ Untouched

(* Statuses 200 to 500 are stored; any other releases the key and is       *)
(* passed on with its text.                                                *)
FetchAnswers(r) == Goto(r, "fetch", "store") /\ Untouched

(* Mutant of FetchRefuses: the response is stored before its status is     *)
(* looked at.                                                              *)
FetchRefusesStored(r) ==
  /\ req[r].pc = "fetch" /\ Set(KeyOf[r], r)
  /\ req' = [req EXCEPT ![r] = [@ EXCEPT !.pc = "relay", !.dels = 1]]

FetchRefuses(r) ==
  /\ req[r].pc = "fetch" /\ Untouched
  /\ req' = [req EXCEPT ![r] = [@ EXCEPT !.pc = "relay", !.dels = 1]]

FetchFails(r) == req[r].pc = "fetch" /\ Catch(r) /\ Untouched

(* The client of a request that passes an error on may be gone by then.    *)
Relay(r)      == Goto(r, "relay", "passed") /\ Untouched
RelayFails(r) == req[r].pc = "relay" /\ Catch(r) /\ Untouched

Store(r) ==
  /\ req[r].pc = "store" /\ Set(KeyOf[r], r)
  /\ req' = [req EXCEPT ![r] = [@ EXCEPT !.pc = "answered", !.got = r]]

(* A call whose reply is lost: the exception ends in Catch, or the client  *)
(* is gone as well.                                                        *)
Lost(r)       == Catch(r) \/ req' = [req EXCEPT ![r].pc = "gone"]
ObtainLost(r) == Arriving(r) /\ Lost(r) /\ (Obtain(KeyOf[r]) \/ Untouched)
StoreLost(r)  == req[r].pc = "store" /\ Lost(r) /\ (Set(KeyOf[r], r) \/ Untouched)
PollLost(r)   == req[r].pc = "poll" /\ Lost(r) /\ Untouched
Leave(r)      == Goto(r, "fetch", "gone") /\ Untouched

DelSent(r) == /\ req[r].dels > 0
              /\ req' = [req EXCEPT ![r].dels = req[r].dels - 1]
DelArrives(r) == DelSent(r) /\ Del(KeyOf[r])
DelLost(r)    == DelSent(r) /\ Untouched

Invocation(r) ==
  \/ Reject(r) \/ ObtainKey(r) \/ ObtainDenied(r) \/ Poll(r) \/ PollTimeout(r)
  \/ FetchAnswers(r) \/ FetchRefuses(r) \/ FetchFails(r)
  \/ Relay(r) \/ RelayFails(r) \/ Store(r)
  \/ ObtainLost(r) \/ StoreLost(r) \/ PollLost(r) \/ Leave(r)
  \/ DelArrives(r) \/ DelLost(r)

(* The clock waits for a poller that is PollLate behind, for no one else.  *)
Clock == /\ \A r \in Requests : req[r].pc = "poll" => now < req[r].wake + PollLate
         /\ Tick /\ UNCHANGED <<objVars, req>>

(* The bounded clock has run out and nothing is left to do. *)
Quiet == /\ now = MaxTime
         /\ \A r \in Requests : req[r].pc \in Outcomes /\ req[r].dels = 0
         /\ \A k \in Keys : /\ status[k] = Out
                            /\ alarm[k] # NoAlarm => alarm[k] > now
         /\ UNCHANGED workerVars

WorkerNext ==
  \/ UNCHANGED now /\ \E r \in Requests : Invocation(r)
  \/ UNCHANGED now /\ \E k \in Keys : Alarm(k) \/ Evict(k)
  \/ Clock
  \/ Quiet

WorkerSpec == WorkerInit /\ [][WorkerNext]_workerVars

(* The platform runs timers and alarms, and a poll gets a reply or an      *)
(* exception.  It owes no request an answer from upstream, and no del() an *)
(* arrival.                                                                *)
FairWorkerSpec ==
  /\ WorkerSpec
  /\ \A r \in Requests : WF_workerVars(UNCHANGED now /\ (Poll(r) \/ PollTimeout(r)))
  /\ \A k \in Keys : WF_workerVars(UNCHANGED now /\ Alarm(k))
  /\ WF_workerVars(Clock)

(* Moreover every upstream answers or fails, and every del() arrives or is *)
(* lost.                                                                   *)
FairUpstreamSpec ==
  /\ FairWorkerSpec
  /\ \A r \in Requests :
       /\ WF_workerVars(UNCHANGED now /\ \/ FetchAnswers(r) \/ FetchRefuses(r)
                                         \/ FetchFails(r) \/ Store(r) \/ Relay(r))
       /\ WF_workerVars(UNCHANGED now /\ (DelArrives(r) \/ DelLost(r)))

(* Memory, disk and alarm tell one story, whatever is lost or evicted: a   *)
(* running object has the status that a restart would read back, a stored  *)
(* response and an alarm come and go together, so no alarm ever takes a    *)
(* key from a request that is still fetching.  Types are kept.             *)
ObjectConsistent ==
  /\ WorkerTypeOK
  /\ \A k \in Keys : /\ status[k] \in {Out, disk[k].s}
                     /\ disk[k].s = 2 <=> alarm[k] # NoAlarm
                     /\ disk[k].s = 2 <=> disk[k].v # Nobody

(* "failed" below: a request of the same key ended in the catch block.     *)
SomeoneFailed(k) == \E t \in Requests : KeyOf[t] = k /\ req[t].pc = "failed"

(* Two requests of one key that both obtained it, the earlier first;       *)
(* neither has failed or passed on an upstream error, after which the key  *)
(* is rightly free.                                                        *)
TwoForwards(r, s) == /\ r # s /\ KeyOf[r] = KeyOf[s]
                     /\ req[r].held /\ req[s].held
                     /\ req[r].since <= req[s].since
                     /\ {req[r].pc, req[s].pc} \cap {"relay", "passed", "failed"} = {}

(* Only the first request is forwarded (README.md:10), as long as no       *)
(* request of the key has failed: evictions, late alarms, lost clients and *)
(* an upstream as slow as it likes do not matter.                          *)
OneForwardUnlessFailed ==
  \A r, s \in Requests :
    TwoForwards(r, s) => \/ req[s].since >= req[r].since + TTL
                         \/ SomeoneFailed(KeyOf[r])

(* The same without the exception.  The code breaks it: a waiter that runs *)
(* out of polls deletes the lock of a request that is still fetching.      *)
OneForwardPerWindow ==
  \A r, s \in Requests :
    TwoForwards(r, s) => req[s].since >= req[r].since + TTL

(* A waiter is answered with the response fetched for its own key by a     *)
(* request that obtained it and that gave its own client no other answer.  *)
AnswersAgree ==
  \A r, v \in Requests :
    req[r].got = v => /\ KeyOf[v] = KeyOf[r] /\ req[v].held
                      /\ req[v].pc \in {"answered", "failed", "gone"}
                      /\ req[v].got \in {v, Nobody}

(* A waiter has its answer or its error after TTL and what the timers were *)
(* late, whoever is evicted, lost or still waiting for the upstream.       *)
WaiterEndsInTime ==
  LET polls == TTL \div PollInterval
  IN  \A r \in Requests :
        req[r].pc = "poll" =>
          now <= req[r].since + polls * PollInterval + (polls + 1) * PollLate

(* An obtained key does not stay so for ever: it is answered or comes free.*)
(* The constructor means to set an alarm for that (index.ts:157-159); the  *)
(* code breaks it, as no alarm is set before set(): a holder that is gone  *)
(* leaves its key obtained until another request has waited in vain.       *)
NoKeyStuck == \A k \in Keys : disk[k].s = 1 ~> disk[k].s # 1

=============================================================================
