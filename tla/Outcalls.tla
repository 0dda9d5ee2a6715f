------------------------------- MODULE Outcalls -------------------------------
(***************************************************************************)
(* The parts of the system together.  A canister asks an agent for the     *)
(* same thing in one or more attempts (agent.rs); an attempt is an HTTPS   *)
(* outcall of the Internet Computer, which every replica of the subnet     *)
(* sends by itself, with the same idempotency key; each replica strips the *)
(* reply it gets, and the outcall has a result if enough of them are left  *)
(* with the same.  The proxy at the agent's endpoint keeps the promise of  *)
(* Idempotency (MemoryProxy and RedisProxy are shown to), serves what      *)
(* ResponseFilter makes of the upstream's responses, and is stopped and    *)
(* started (ServerProcess).                                                *)
(*                                                                         *)
(* Keys are the entries of the idempotency key with each agent's proxy, so *)
(* a key also stands for that proxy.  A request is <<attempt, replica>>.   *)
(* Every upstream call has a body of its own, and every reply a date of    *)
(* its own: what may differ differs.                                       *)
(***************************************************************************)
EXTENDS Idempotency, ResponseFilter, ServerProcess, FiniteSetsExt

CONSTANTS Attempts,     \* bound: how often the canister asks
          AgentOf,      \* the agent asked in each attempt
          Replicas,
          Quorum,       \* replicas that must agree
          Spread,       \* bound: the last replica sends this late
          Worker,       \* the proxies are Cloudflare workers
          Names, Mask,  \* the response-headers and x-json-mask of the request
          Statuses,     \* what the upstream may say
          Garbled,      \* with which of them its body is broken
          NoReply

ASSUME OutcallAssumption ==
  /\ Attempts \in Nat /\ AgentOf \in [1 .. Attempts -> Keys]
  /\ Requests = (1 .. Attempts) \X Replicas
  /\ KeyOf = [r \in Requests |-> AgentOf[r[1]]]
  /\ Servers = Keys /\ Statuses \subseteq 100 .. 599 /\ Garbled \subseteq Statuses
  /\ Quorum \in 1 .. Cardinality(Replicas) /\ 2 * Quorum > Cardinality(Replicas)
  /\ Spread \in Nat /\ Worker \in BOOLEAN
  /\ IsFiniteSet(Replicas) /\ Nobody \notin Requests

VARIABLES attempt,   \* what has become of each attempt
          said,      \* the status of the upstream's response to a request, or 0
          reply,     \* what the proxy replied to each replica
          faulty,    \* the requests that a failure has touched
          forgotten  \* those whose responses a proxy may have lost since

outcallVars == <<vars, server, stops, attempt, said, reply, faulty, forgotten>>

Tries       == 1 .. Attempts
Of(n)       == {r \in Requests : r[1] = n}
InFlight(k) == {r \in Requests : KeyOf[r] = k /\ status[r] \in {"forwarding", "waiting"}}
Open(n)     == attempt[n].pc = "open"

(* The response of the upstream call for r: a document with a field for    *)
(* each name asked for and one besides, a length, a date, and a header     *)
(* that tells the calls apart.                                             *)
Response(r, code) ==
  [status  |-> code, mime |-> "json",
   headers |-> {<<"content-length", "n">>, <<"date", r>>, <<"x-request-id", r>>},
   body    |-> [kind   |-> IF code \in Garbled THEN "broken" ELSE "object",
                fields |-> (Mask \cup {"rest"}) \X {r}]]

Serve(data, date) ==
  IF Worker THEN ServedByWorker(data, date) ELSE Served(data, date)

(* The holder and those who wait are served from the same ResponseData,    *)
(* the one fresh, the others decoded from the cache.                       *)
ReplyOf(r, v, code) == Serve(Filtered(Response(v, code), Names, Mask), r)

(* A response that counts as none is relayed without more ado. *)
Relayed(r, code) == [status |-> code, body |-> Response(r, code).body,
                     headers |-> {<<"date", r>>}]

(* bad_gateway(), or the catch block of the worker.                        *)
Apology(r) == [status |-> IF Worker THEN 500 ELSE 502, body |-> "error",
               headers |-> {<<"date", r>>}]

(* Mutant of Transformed: what the proxy replied is left as it is. *)
TransformedNot(raw) == raw

(* inner_transform_response(). *)
Transformed(raw) == [raw EXCEPT !.headers = {}]

ASSUME ReplyAssumption ==
  \A r, v \in Requests, code \in Statuses :
    ReplyOf(r, v, code) # NoReply /\ Transformed(ReplyOf(r, v, code)) # NoReply

(* Agent::call(): up to status 500 it is an answer. *)
IsAnswer(result) == result # NoReply /\ result.status <= 500

Same(x) == {y \in Of(x[1]) : reply[y] # NoReply
                             /\ Transformed(reply[y]) = Transformed(reply[x])}
Agreeing(n) == {x \in Of(n) : reply[x] # NoReply /\ Cardinality(Same(x)) >= Quorum}

OutcallInit ==
  /\ Init /\ ProcessInit
  /\ attempt = [n \in Tries |-> [pc |-> "idle", start |-> 0, result |-> NoReply]]
  /\ said = [r \in Requests |-> 0] /\ reply = [r \in Requests |-> NoReply]
  /\ faulty = {} /\ forgotten = {}

Fault(r)      == faulty' = faulty \cup {r}
Replied(r, x) == reply' = [reply EXCEPT ![r] = x]

(* ----------------------------- the canister ---------------------------- *)
Ask(n) == /\ attempt[n].pc = "idle" /\ \A m \in 1 .. n - 1 : attempt[m].pc = "ended"
          /\ attempt' = [attempt EXCEPT ![n].pc = "open", ![n].start = now]
          /\ UNCHANGED <<said, reply, faulty, forgotten, lease, status, got, server, stops>>

(* The outcall ends when enough replicas agree, or when all have ended and *)
(* too few do.                                                             *)
Settle(n) ==
  /\ Open(n)
  /\ Agreeing(n) # {} \/ \A r \in Of(n) : status[r] = "ended"
  /\ attempt' = [attempt EXCEPT
       ![n].pc = "ended",
       ![n].result = IF Agreeing(n) = {} THEN NoReply
                     ELSE Transformed(reply[CHOOSE x \in Agreeing(n) : TRUE])]
  /\ UNCHANGED <<said, reply, faulty, forgotten, lease, status, got, server, stops>>

(* ------------------------ a request at the proxy ----------------------- *)
Sent(r)   == attempt[r[1]].pc # "idle" /\ status[r] = "idle"
InTime(r) == now <= attempt[r[1]].start + Spread

Arrive(r) == /\ Sent(r) /\ InTime(r) /\ Accepts(KeyOf[r])
             /\ Forward(r) \/ Wait(r)
             /\ UNCHANGED <<said, reply, faulty>>

(* The replica finds no proxy, or is not running itself. *)
NotServed(r) == /\ Sent(r) /\ GiveUp(r) /\ Fault(r)
                /\ UNCHANGED <<said, reply>>

(* A response to be cached.  Its own client may not get it: it is gone, or *)
(* the cacher's reply is lost.                                             *)
UpstreamAnswers(r) ==
  \E code \in {c \in Statuses : Cacheable(c)} :
    /\ ~Unreadable(Response(r, code), Mask)
    /\ Answer(r) /\ said' = [said EXCEPT ![r] = code]
    /\ IF got'[r] = r THEN Replied(r, ReplyOf(r, r, code)) /\ UNCHANGED faulty
                      ELSE UNCHANGED reply /\ Fault(r)

(* A response that counts as none: the key is deleted. *)
UpstreamRefuses(r) ==
  \E code \in {c \in Statuses : ~Cacheable(c)} :
    /\ Release(r) /\ Replied(r, Relayed(r, code)) /\ Fault(r)
    /\ UNCHANGED said

(* A waiter finds the response in the cache. *)
FindsResponse(r) ==
  LET v == lease[KeyOf[r]].answer
  IN  Share(r) /\ Replied(r, ReplyOf(r, v, said[v])) /\ UNCHANGED <<said, faulty>>

(* No upstream response or a broken one, no more patience, or no cacher;   *)
(* the proxy says so if the replica is still there.  The server leaves the *)
(* lease to run out, the worker deletes it (that its waiters delete the    *)
(* holder's is the matter of CfWorker).                                    *)
Fails(r) ==
  /\ status[r] # "idle"
  /\ GiveUp(r) \/ (Worker /\ Release(r))
  /\ Replied(r, Apology(r)) \/ UNCHANGED reply
  /\ Fault(r) /\ UNCHANGED said

(* The key is obtained, and nobody hears of it. *)
ObtainLost(r) == /\ Sent(r) /\ InTime(r) /\ Accepts(KeyOf[r])
                 /\ Lose(r) /\ Replied(r, Apology(r)) /\ Fault(r)
                 /\ UNCHANGED said

Progress(r) == /\ \/ UpstreamAnswers(r) \/ UpstreamRefuses(r)
                  \/ FindsResponse(r) \/ Fails(r)
               /\ UNCHANGED <<now, attempt, forgotten, server, stops>>

Handle(r) == \/ Progress(r)
             \/ /\ Arrive(r) \/ NotServed(r) \/ ObtainLost(r)
                /\ UNCHANGED <<now, attempt, forgotten, server, stops>>

(* -------------------------- the proxy's process ------------------------ *)
(* What a process had in memory goes with it, leases and cached responses; *)
(* what it keeps in Redis stays.  Any of the two may be the case here.     *)
Forgets(k) ==
  \/ UNCHANGED <<lease, forgotten>>
  \/ /\ lease' = [lease EXCEPT ![k] = Free]
     /\ forgotten' = forgotten \cup {n \in Tries : AgentOf[n] = k /\ attempt[n].pc # "idle"}

(* Mutant of KilledProxy: the requests survive the process. *)
KilledGently(k) == /\ Killed(k) /\ Forgets(k)
                   /\ UNCHANGED <<now, status, faulty, got, attempt, said, reply>>

KilledProxy(k) ==
  /\ Killed(k) /\ Forgets(k)
  /\ status' = [r \in Requests |-> IF r \in InFlight(k) THEN "ended" ELSE status[r]]
  /\ faulty' = faulty \cup InFlight(k)
  /\ UNCHANGED <<now, got, attempt, said, reply>>

DrainedProxy(k) ==
  /\ InFlight(k) = {} /\ Drained(k) /\ Forgets(k)
  /\ UNCHANGED <<now, status, got, attempt, said, reply, faulty>>

Operate(k) ==
  \/ KilledProxy(k)
  \/ DrainedProxy(k)
  \/ /\ Drain(k) \/ Boots(k)
     /\ UNCHANGED <<vars, attempt, said, reply, faulty, forgotten>>

(* Replicas send at most Spread late, and the promise holds of holders     *)
(* that are done before their lease ends.                                  *)
Passes ==
  /\ Tick
  /\ \A r \in Requests :
       /\ Open(r[1]) /\ Sent(r) => now < attempt[r[1]].start + Spread
       /\ status[r] = "forwarding" => lease[KeyOf[r]].until > now'
  /\ UNCHANGED <<lease, status, got, server, stops, attempt, said, reply,
                 faulty, forgotten>>

OutcallNext ==
  \/ \E n \in Tries : (Ask(n) \/ Settle(n)) /\ UNCHANGED now
  \/ \E r \in Requests : Handle(r)
  \/ \E k \in Keys : Operate(k)
  \/ Forget /\ UNCHANGED <<now, server, stops, attempt, said, reply, faulty, forgotten>>
  \/ Passes

OutcallSpec == OutcallInit /\ [][OutcallNext]_outcallVars

(* Every request comes to an end at the proxy, by the HTTP client's        *)
(* time-out, the last poll, or the platform, which gives up an outcall in  *)
(* the end and closes its connections (the server itself sets no limit to  *)
(* a body); and a process with none left exits.                            *)
FairOutcallSpec ==
  /\ OutcallSpec
  /\ \A r \in Requests : WF_outcallVars(Progress(r))
  /\ \A k \in Keys : WF_outcallVars(DrainedProxy(k))

(* ------------------------------ properties ----------------------------- *)
(* Types; and no request is under way at a process that is down, only      *)
(* ended requests have a reply, and a client's answer is one the upstream  *)
(* gave.                                                                   *)
OutcallTypeOK ==
  /\ ProcessTypeOK /\ faulty \subseteq Requests /\ forgotten \subseteq Tries
  /\ said \in [Requests -> Statuses \cup {0}]
  /\ \A n \in Tries : attempt[n].pc \in {"idle", "open", "ended"}
  /\ \A k \in Keys : InFlight(k) # {} => server[k] # "down"
  /\ \A r \in Requests : /\ reply[r] # NoReply => status[r] = "ended"
                         /\ got[r] # Nobody => said[got[r]] # 0

Ended(n)  == attempt[n].pc = "ended"
Source(n) == {got[x] : x \in {y \in Of(n) : reply[y] # NoReply
                                   /\ Transformed(reply[y]) = attempt[n].result}}

(* What the proxy is for: an outcall does not fail for want of agreement.  *)
(* It fails only if more of its requests failed, were refused or were cut  *)
(* off than the subnet tolerates, or a proxy lost its memory meanwhile, or *)
(* the response of an earlier attempt expired while they were asking, so   *)
(* that some got that one.                                                 *)
FailureHasCause ==
  \A n \in Tries :
    Ended(n) /\ ~IsAnswer(attempt[n].result) /\ n \notin forgotten
      => \/ Cardinality(faulty \cap Of(n)) > Cardinality(Replicas) - Quorum
         \/ \E r \in Of(n) : got[r] # Nobody /\ got[r][1] < n

(* "Request again with the same idempotency key will return the same       *)
(* response" (README.md:210): a later attempt that is made within the life  *)
(* of the cached response is answered with it, whatever failed in between, *)
(* as long as the proxy has not lost its memory.                           *)
RetryIsStable ==
  \A m, n \in Tries :
    /\ m < n /\ AgentOf[m] = AgentOf[n]
    /\ IsAnswer(attempt[m].result) /\ IsAnswer(attempt[n].result)
    => \A v \in Source(m) :
         \/ v[1] \in forgotten
         \/ attempt[n].start + Spread >= attempt[v[1]].start + TTL
         \/ attempt[n].result = attempt[m].result

(* What the canister takes for an answer (status <= 500) is one the        *)
(* upstream gave to one call for this key, at most two leases before, with *)
(* its status, with the fields asked for and no others if it is a success, *)
(* and whole if it is an error.  The worker breaks it: it answers every    *)
(* cached response with status 200, and its own failures with 500.         *)
AgreedIsUpstream ==
  \A n \in Tries :
    IsAnswer(attempt[n].result) =>
      \E v \in Requests :
        /\ KeyOf[v] = AgentOf[n] /\ said[v] # 0
        /\ attempt[n].start < attempt[v[1]].start + Spread + 2 * TTL
        /\ LET shown == IF said[v] < 300 /\ Mask # {} THEN Mask ELSE Mask \cup {"rest"}
           IN  attempt[n].result = [status |-> said[v], headers |-> {},
                                    body |-> [Response(v, said[v]).body
                                                EXCEPT !.fields = shown \X {v}]]

(* A plain server that was asked to stop stops, once the requests under    *)
(* way are over; it sets no limit to them.                                 *)
DrainEnds == \A k \in Keys : server[k] = "draining" ~> server[k] = "down"

=============================================================================
