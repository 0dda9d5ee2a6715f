----------------------------- MODULE RedisProxy -----------------------------
(***************************************************************************)
(* The proxy with REDIS_URL: the handlers over one RedisCacher and its     *)
(* pool of connections.  obtain, set and del borrow a connection for one   *)
(* command; polling_get keeps one from its first look to its last, asleep  *)
(* or not.  A request that finds none free waits up to ConnTimeout.  Any   *)
(* command may fail, with or without having reached the server.            *)
(***************************************************************************)
EXTENDS RedisCacher, ProxyHandler, FiniteSets

CONSTANTS PoolSize,     \* max_size(10) of the pool
          ConnTimeout   \* connection_timeout(3 s) of the pool

ASSUME PoolAssumption == /\ Values = Requests
                         /\ PoolSize \in Nat \ {0} /\ ConnTimeout \in Nat
                         /\ IsFiniteSet(Requests)

VARIABLE conn           \* per request: no use for one, in line, or borrowed

redisVars == <<now, store, req, conn>>

NoConn == [pc |-> "none", by |-> 0]

Borrowed == {r \in Requests : conn[r].pc = "borrowed"}
Free     == Cardinality(Borrowed) < PoolSize

(* Besides the types: no more connections are out than the pool has. *)
RedisTypeOK ==
  /\ now \in Nat /\ StoreTypeOK /\ HandlerTypeOK
  /\ conn \in [Requests -> [pc : {"none", "waiting", "borrowed"}, by : Nat]]
  /\ Cardinality(Borrowed) <= PoolSize

RedisInit == /\ now = 0 /\ StoreInit /\ HandlerInit
             /\ conn = [r \in Requests |-> NoConn]

(* pool.get(), the first thing every operation does. *)
Ask(r) ==
  /\ conn[r].pc = "none"
  /\ (Arriving(r) /\ InTime) \/ req[r].pc \in {"poll", "publish", "discard"}
  /\ conn' = [conn EXCEPT ![r] = [pc |-> "waiting", by |-> now + ConnTimeout]]
  /\ UNCHANGED <<store, req>>

(* Mutant of Served: a connection that is out is given out again. *)
ServedAlways(r) == conn[r].pc = "waiting"

Served(r)  == conn[r].pc = "waiting" /\ Free
HandIn(r)  == conn' = [conn EXCEPT ![r] = NoConn]

(* No connection became free in time: obtain, polling_get and set fail     *)
(* with 502; that del failed is not looked at.                             *)
NoConnection(r) ==
  /\ conn[r].pc = "waiting" /\ ~Free /\ now >= conn[r].by
  /\ \/ req[r].pc \in {"new", "poll", "publish"} /\ Goto(r, req[r].pc, "failed")
     \/ Discarded(r)
  /\ HandIn(r) /\ UNCHANGED store

ObtainKey(r) ==
  /\ Served(r) /\ HandIn(r)
  /\ GotKey(r) /\ Obtain(KeyOf[r])

ObtainDenied(r) ==
  /\ Served(r) /\ HandIn(r)
  /\ KeyTaken(r) /\ Present(KeyOf[r]) /\ UNCHANGED store

StartPolling(r) ==
  /\ Served(r) /\ req[r].pc = "poll"
  /\ conn' = [conn EXCEPT ![r].pc = "borrowed"]
  /\ req' = [req EXCEPT ![r].wake = now]
  /\ UNCHANGED store

(* One GET: nil, a response, or the placeholder; the loop's end hands the  *)
(* connection in.                                                          *)
Poll(r) ==
  LET k == KeyOf[r]
  IN  /\ conn[r].pc = "borrowed" /\ UNCHANGED store
      /\ \/ ~Present(k) /\ PollMiss(r) /\ HandIn(r)
         \/ Answered(k) /\ PollHit(r, store[k].val) /\ HandIn(r)
         \/ Present(k) /\ ~Answered(k) /\ PollAgain(r) /\ UNCHANGED conn
         \/ PollTimeout(r) /\ HandIn(r)

Publish(r) ==
  Served(r) /\ HandIn(r) /\ Published(r) /\ Set(KeyOf[r], r)

Discard(r) ==
  Served(r) /\ HandIn(r) /\ Discarded(r) /\ Del(KeyOf[r])

(***************************************************************************)
(* A command fails, or the client is gone before its reply: the server may *)
(* have carried it out or not.  A key obtained this way has no holder.     *)
(***************************************************************************)
ObtainFails(r) ==
  /\ Served(r) /\ HandIn(r)
  /\ Arriving(r) /\ Goto(r, "new", "failed")
  /\ Obtain(KeyOf[r]) \/ UNCHANGED store

PollFails(r) == /\ conn[r].pc = "borrowed" /\ HandIn(r)
                /\ MayLook(r) /\ Goto(r, "poll", "failed")
                /\ UNCHANGED store

PublishLost(r) ==
  /\ Served(r) /\ HandIn(r)
  /\ PublishFails(r)
  /\ Set(KeyOf[r], r) \/ UNCHANGED store

DiscardLost(r) ==
  Served(r) /\ HandIn(r) /\ Discarded(r) /\ UNCHANGED store

Leave(r) == /\ \/ Disconnect(r)
               \/ conn[r].pc = "waiting" /\ Goto(r, "new", "gone")
            /\ HandIn(r) /\ UNCHANGED store

Handle(r) ==
  \/ Ask(r) \/ NoConnection(r)
  \/ ObtainKey(r) \/ ObtainDenied(r) \/ StartPolling(r) \/ Poll(r)
  \/ Publish(r) \/ Discard(r)
  \/ ObtainFails(r) \/ PollFails(r) \/ PublishLost(r) \/ DiscardLost(r)
  \/ Leave(r)
  \/ UNCHANGED <<store, conn>> /\ \/ conn[r] = NoConn /\ Reject(r)
                                  \/ Forwarding(r)

(* The clock waits for a holder that has used up MaxHold outside the pool, *)
(* for a request whose wait for a connection is over, and for a poller.    *)
(* A key is thus held for MaxHold + ConnTimeout at most.                   *)
PoolMayWait ==
  \A r \in Requests :
    /\ Holding(r) /\ conn[r].pc = "none" => now < req[r].since + MaxHold
    /\ conn[r].pc = "waiting" => now < conn[r].by
    /\ conn[r].pc = "borrowed" => now < req[r].wake + PollLate
    /\ conn[r].pc = "none" => req[r].pc # "poll"

Quiet == /\ now = MaxTime
         /\ \A r \in Requests : req[r].pc \notin Active /\ conn[r] = NoConn

RedisNext ==
  \/ UNCHANGED now /\ \E r \in Requests : Handle(r)
  \/ Tick /\ PoolMayWait /\ UNCHANGED <<store, req, conn>>
  \/ Quiet /\ UNCHANGED redisVars

RedisSpec == RedisInit /\ [][RedisNext]_redisVars

(* Fairness: tokio runs every task that is ready, the pool serves a free   *)
(* connection, and the HTTP client's time-out ends every upstream call one *)
(* way or another.  A client need not come, leave, or send the body that   *)
(* proxy() reads before the call: there is none of Send and BadBody.       *)
Progress(r) ==
  UNCHANGED now /\ \/ NoConnection(r)
                   \/ req[r].pc # "new" /\ Ask(r)
                   \/ ObtainKey(r) \/ ObtainDenied(r)
                   \/ StartPolling(r) \/ Poll(r) \/ Publish(r) \/ Discard(r)
                   \/ /\ UNCHANGED <<store, conn>>
                      /\ \/ UpstreamAnswers(r) \/ UpstreamRefuses(r)
                         \/ UpstreamFails(r)

FairRedisSpec ==
  /\ RedisSpec
  /\ \A r \in Requests : WF_redisVars(Progress(r))
  /\ WF_redisVars(Tick /\ PoolMayWait /\ UNCHANGED <<store, req, conn>>)

(* One upstream call per key and window, as in MemoryProxy, whatever       *)
(* commands fail and whichever of them the server carried out.             *)
OneForwardPerWindow ==
  \A r, s \in Requests :
    /\ r # s /\ KeyOf[r] = KeyOf[s]
    /\ req[r].held /\ req[s].held
    /\ req[r].since <= req[s].since
    /\ req[r].pc # "passed" /\ req[s].pc # "passed"
    => req[s].since >= req[r].since + TTL

(* While a request holds a key, the server has the placeholder it wrote.   *)
OwnLease ==
  \A r \in Requests :
    Holding(r) =>
      store[KeyOf[r]] = [expire |-> req[r].since + TTL, val |-> Placeholder]

(* A waiter is answered with the response of a call made for its own key.  *)
(* Its first requester got that very response, or lost it with the reply   *)
(* to set(), and nothing else.                                             *)
AnswersAgree ==
  \A r, v \in Requests :
    req[r].got = v =>
      /\ KeyOf[v] = KeyOf[r] /\ req[v].held
      /\ \/ req[v].pc = "answered" /\ req[v].got = v
         \/ req[v].pc = "failed"
      /\ req[r].since < req[v].since + MaxHold + ConnTimeout + TTL

(* A response that came in time is cached: the holder is not refused a     *)
(* connection to publish it.  The code breaks it: the waiters for that     *)
(* response may keep every connection of the pool while they sleep.        *)
PublisherGetsConnection ==
  [][\A r \in Requests : ~(req[r].pc = "publish" /\ NoConnection(r))]_redisVars

(* A waiter does not give up on a response that is there for the taking.   *)
(* The code breaks it: the last sleep of polling_get() is followed by no   *)
(* look, and a response set during that sleep is not seen.                 *)
NoAnswerMissed ==
  [][\A r \in Requests : PollTimeout(r) => ~Answered(KeyOf[r])]_redisVars

(* RedisProxy keeps the promise of Idempotency with the same reading of a  *)
(* lease as MemoryProxy: the entry the server holds for the key.           *)
LeaseOf ==
  [k \in Keys |-> [until  |-> store[k].expire,
                   answer |-> IF store[k].val \in Values
                              THEN store[k].val ELSE Nobody]]

StatusOf ==
  [r \in Requests |-> IF req[r].pc = "new" THEN "idle"
                      ELSE IF req[r].pc = "poll" THEN "waiting"
                      ELSE IF Holding(r) THEN "forwarding"
                      ELSE "ended"]

GotOf == [r \in Requests |-> req[r].got]

Promise == INSTANCE Idempotency
             WITH lease <- LeaseOf, status <- StatusOf, got <- GotOf

ImplementsIdempotency == Promise!Spec

(* No wait for a connection, an upstream call or a poll is without end:    *)
(* every request that has come is finished with, one way or another,       *)
(* unless its own client never sends the body; nobody waits for ever for   *)
(* the body of another's.                                                  *)
EveryRequestEnds ==
  \A r \in Requests :
    req[r].pc \in Active ~> (Finished(r) \/ req[r].pc = "forward")

=============================================================================
