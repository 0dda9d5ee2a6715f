----------------------------- MODULE MemoryProxy -----------------------------
(***************************************************************************)
(* The proxy without REDIS_URL: the handlers of concurrent requests over   *)
(* one MemoryCacher (HybridCacher of cache/mod.rs only forwards each call, *)
(* with cache_ttl = the request timeout).  Values = Requests: the response *)
(* cached for a key is named after the request whose upstream call         *)
(* produced it.                                                            *)
(*                                                                         *)
(* Each call of the cacher happens at one moment here, whoever else is in  *)
(* one: these are all the orders the map's lock may serve them in, and     *)
(* more (MemoryProxyGuard is the line before that lock).                   *)
(***************************************************************************)
EXTENDS MemoryCacher, ProxyHandler

ASSUME ResponseAssumption == Values = Requests

proxyVars == <<now, cacheVars, req>>

ProxyTypeOK == now \in Nat /\ CacheTypeOK /\ HandlerTypeOK

ProxyInit == now = 0 /\ CacheInit /\ HandlerInit

ObtainKey(r) == InTime /\ GotKey(r) /\ Obtain(KeyOf[r])

ObtainDenied(r) ==
  InTime /\ KeyTaken(r) /\ Live(KeyOf[r]) /\ UNCHANGED cacheVars

(* One turn of the loop of polling_get(): no entry, a response (live or    *)
(* not), or an entry still empty.                                          *)
Poll(r) ==
  LET k == KeyOf[r]
  IN  /\ Look(k)
      /\ \/ ~Stored(k) /\ PollMiss(r)
         \/ Answered(k) /\ PollHit(r, kv[k].val)
         \/ kv[k].val = Empty /\ PollAgain(r)

(* Mutant of Publish: the result of set() is read the wrong way round. *)
PublishSwapped(r) ==
  LET k == KeyOf[r]
  IN  \/ PublishFails(r) /\ SetLive(k, r)
      \/ Published(r) /\ (SetExpired(k) \/ SetMissing(k))

Publish(r) ==
  LET k == KeyOf[r]
  IN  \/ Published(r) /\ SetLive(k, r)
      \/ PublishFails(r) /\ (SetExpired(k) \/ SetMissing(k))

Discard(r) == Discarded(r) /\ Del(KeyOf[r])

Handle(r) == \/ ObtainKey(r)
             \/ ObtainDenied(r)
             \/ Poll(r)
             \/ Publish(r)
             \/ Discard(r)
             \/ UNCHANGED cacheVars /\ \/ Reject(r)
                                       \/ PollTimeout(r)
                                       \/ Forwarding(r)
                                       \/ Disconnect(r)

(* The bounded clock has run out and no task is left. *)
Quiet == /\ now = MaxTime
         /\ \A r \in Requests : req[r].pc \notin Active
         /\ \A c \in Cleaners : cleaner[c].pc = "idle"

ProxyNext ==
  \/ UNCHANGED now /\ \E r \in Requests : Handle(r)
  \/ UNCHANGED <<now, req>> /\ Clean
  \/ Tick /\ MayWait /\ UNCHANGED <<cacheVars, req>>
  \/ Quiet /\ UNCHANGED proxyVars

ProxySpec == ProxyInit /\ [][ProxyNext]_proxyVars

(***************************************************************************)
(* Properties.  They hold when every holder is done before its lease ends, *)
(* MaxHold < TTL; the runs with MaxHold = TTL show what is lost without.   *)
(* AnswersAgree holds in any case.                                         *)
(***************************************************************************)

(* One upstream call per key and window: of two requests that obtained the *)
(* same key, the later came a whole TTL after the earlier, unless one has  *)
(* passed on an upstream error, after which it deletes the key.            *)
(* (README.md:10, "only the first request is forwarded to the target       *)
(* service".)                                                              *)
OneForwardPerWindow ==
  \A r, s \in Requests :
    /\ r # s /\ KeyOf[r] = KeyOf[s]
    /\ req[r].held /\ req[s].held
    /\ req[r].since <= req[s].since
    /\ req[r].pc # "passed" /\ req[s].pc # "passed"
    => req[s].since >= req[r].since + TTL

(* While a request holds a key the entry is the one its obtain() wrote: no *)
(* sweep, no late set() or del() of an earlier holder has touched it.      *)
OwnLease ==
  \A r \in Requests :
    Holding(r) => kv[KeyOf[r]] = [expire |-> req[r].since + TTL, val |-> Empty]

(* A client is answered with the response of an upstream call made for its *)
(* own key, by a request that gave its own client that same response, and  *)
(* that obtained the key at most MaxHold + TTL before this client came.    *)
AnswersAgree ==
  \A r, v \in Requests :
    req[r].got = v =>
      /\ KeyOf[v] = KeyOf[r]
      /\ req[v].pc = "answered" /\ req[v].got = v
      /\ req[r].since < req[v].since + MaxHold + TTL

(* A waiter does not give up on a holder still at work: when its polls run *)
(* out, no request that obtained the key before it came still holds it.    *)
PatientWaiter ==
  [][\A r \in Requests :
       PollTimeout(r) =>
         ~\E s \in Requests : /\ KeyOf[s] = KeyOf[r] /\ Holding(s)
                              /\ req[s].since <= req[r].since]_proxyVars

(* The proxy keeps the promise of Idempotency.  The lease of a key is its  *)
(* entry in the map: polls, the queue and the cleaners leave no trace      *)
(* there, and a sweep only forgets leases that have run out.               *)
LeaseOf ==
  [k \in Keys |-> [until  |-> kv[k].expire,
                   answer |-> IF Answered(k) THEN kv[k].val ELSE Nobody]]

StatusOf ==
  [r \in Requests |-> IF req[r].pc = "new" THEN "idle"
                      ELSE IF req[r].pc = "poll" THEN "waiting"
                      ELSE IF Holding(r) THEN "forwarding"
                      ELSE "ended"]

GotOf == [r \in Requests |-> req[r].got]

Promise == INSTANCE Idempotency
             WITH lease <- LeaseOf, status <- StatusOf, got <- GotOf

ImplementsIdempotency == Promise!Spec

=============================================================================
