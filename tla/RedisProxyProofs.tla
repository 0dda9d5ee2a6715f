--------------------------- MODULE RedisProxyProofs ---------------------------
(***************************************************************************)
(* Theorems about RedisProxy for any number of requests, keys and          *)
(* connections and any durations.  Who is answered is answered right,      *)
(* whatever they are; the others take MaxHold + ConnTimeout < TTL, that a  *)
(* holder is done before its lease ends, its wait for a connection         *)
(* included.                                                               *)
(*                                                                         *)
(* OneForwardPerWindow is not inductive.  WindowInv adds why it holds: the *)
(* server keeps the entry of a request that obtained its key for the       *)
(* length of its window (LeaseKept), since whoever else might write it     *)
(* would have had to find it absent or to hold it; and a holder cannot be  *)
(* late, with or without a connection (HeldInTime).                        *)
(***************************************************************************)
EXTENDS RedisProxy, FiniteSetTheorems, TLAPS

LateHold == MaxHold + ConnTimeout

AbsentIsZero == \A k \in Keys : store[k].val = NoValue => store[k].expire = 0

(* What a request wants a connection for. *)
ConnUse ==
  \A r \in Requests :
    /\ conn[r].pc = "borrowed" => req[r].pc = "poll"
    /\ conn[r].pc = "waiting" => req[r].pc \in {"new", "poll", "publish", "discard"}

HolderInTime(r) ==
  Holding(r) =>
    /\ req[r].held
    /\ conn[r].pc = "none" => now <= req[r].since + MaxHold
    /\ conn[r].pc # "none" => conn[r].by <= req[r].since + LateHold /\ now <= conn[r].by

HeldInTime ==
  \A r \in Requests :
    /\ HolderInTime(r)
    /\ req[r].held => req[r].since <= now /\ req[r].pc # "new"

(* Until its window is over, the server keeps the entry of a request that  *)
(* obtained the key and did not delete it.                                 *)
LeaseKept ==
  \A r \in Requests :
    /\ req[r].held /\ req[r].pc # "passed"
    /\ now < req[r].since + TTL
    => store[KeyOf[r]].expire >= req[r].since + TTL

(* This much holds however long keys are held.                             *)
InTimeInv == RedisTypeOK /\ ConnUse /\ HeldInTime

WindowInv == /\ RedisTypeOK /\ AbsentIsZero /\ ConnUse
             /\ HeldInTime /\ LeaseKept /\ OwnLease /\ OneForwardPerWindow

(* What the answers rest on: a cached response was made for its key by a   *)
(* request that has answered its own client with it, or has failed after   *)
(* the server took it, and not too long ago; the entry a poller watches    *)
(* was running when the poller came, or is younger.                        *)
Made(v, k) ==
  /\ KeyOf[v] = k /\ req[v].held
  /\ \/ req[v].pc = "answered" /\ req[v].got = v
     \/ req[v].pc = "failed"

ResponsesMade ==
  \A k \in Keys, v \in Requests :
    store[k].val = v =>
      Made(v, k) /\ store[k].expire <= req[v].since + LateHold + TTL

PollersSee ==
  \A r \in Requests :
    req[r].pc = "poll" =>
      /\ req[r].since <= now
      /\ store[KeyOf[r]].val # NoValue => store[KeyOf[r]].expire > req[r].since

GotWhenAnswered ==
  \A r \in Requests : req[r].pc # "answered" => req[r].got = Nobody

AnswerInv == ResponsesMade /\ PollersSee /\ GotWhenAnswered /\ AnswersAgree

(* ------------------------------ the types ------------------------------ *)

(* The commands of the cacher keep the store well typed. *)
LEMMA StoreTypes ==
  ASSUME RedisTypeOK, NEW r \in Requests,
         \/ UNCHANGED store
         \/ \E v \in Requests \cup {Placeholder} : SetPx(KeyOf[r], v)
         \/ Del(KeyOf[r])
  PROVE  StoreTypeOK'
<1>1. KeyOf[r] \in Keys /\ Values = Requests
  BY HandlerAssumption, PoolAssumption
<1>2. now + TTL \in Nat
  BY TimeAssumption DEF RedisTypeOK
<1>3. ASSUME NEW v \in Requests \cup {Placeholder}, SetPx(KeyOf[r], v)
      PROVE  StoreTypeOK'
  BY <1>1, <1>2, <1>3 DEF RedisTypeOK, StoreTypeOK, SetPx
<1>4. CASE Del(KeyOf[r])
  BY <1>1, <1>4 DEF RedisTypeOK, StoreTypeOK, Del, Absent
<1>5. CASE UNCHANGED store
  BY <1>5 DEF RedisTypeOK, StoreTypeOK
<1>6. QED
  BY <1>3, <1>4, <1>5

(* A handler's step is one command on its key, or none. *)
LEMMA HandleCommands ==
  ASSUME NEW r \in Requests, Handle(r)
  PROVE  \/ UNCHANGED store
         \/ \E v \in Requests \cup {Placeholder} : SetPx(KeyOf[r], v)
         \/ Del(KeyOf[r])
  BY DEF Handle, Ask, NoConnection, ObtainKey, ObtainDenied, StartPolling, Poll,
         Publish, Discard, ObtainFails, PollFails, PublishLost, DiscardLost,
         Leave, Obtain, Set

(* And it keeps the connections well typed. *)
LEMMA ConnTypes ==
  ASSUME RedisTypeOK, NEW r \in Requests, Handle(r)
  PROVE  /\ conn' \in [Requests -> [pc : {"none", "waiting", "borrowed"}, by : Nat]]
         /\ \A s \in Requests \ {r} : conn'[s] = conn[s]
<1>1. now + ConnTimeout \in Nat
  BY PoolAssumption DEF RedisTypeOK
<1>2. \/ UNCHANGED conn
      \/ conn' = [conn EXCEPT ![r] = NoConn]
      \/ conn' = [conn EXCEPT ![r].pc = "borrowed"]
      \/ conn' = [conn EXCEPT ![r] = [pc |-> "waiting", by |-> now + ConnTimeout]]
  BY DEF Handle, Ask, NoConnection, ObtainKey, ObtainDenied, StartPolling, Poll,
         Publish, Discard, ObtainFails, PollFails, PublishLost, DiscardLost,
         Leave, HandIn
<1>3. QED
  BY <1>1, <1>2 DEF RedisTypeOK, NoConn

(* One poller at a time gets a connection, and only if there is one left. *)
LEMMA PoolKept ==
  ASSUME RedisTypeOK, NEW r \in Requests, Handle(r)
  PROVE  Cardinality(Borrowed)' <= PoolSize
<1>1. /\ IsFiniteSet(Borrowed) /\ Cardinality(Borrowed) \in Nat
      /\ PoolSize \in Nat /\ Cardinality(Borrowed) <= PoolSize
  BY PoolAssumption, FS_Subset, FS_CardinalityType DEF Borrowed, RedisTypeOK
<1>2. CASE StartPolling(r)
  <2>1. Borrowed' \subseteq Borrowed \cup {r}
    BY <1>2, ConnTypes DEF Borrowed
  <2>2. Cardinality(Borrowed) < PoolSize
    BY <1>2 DEF StartPolling, Served, Free
  <2>3. /\ IsFiniteSet(Borrowed \cup {r})
        /\ Cardinality(Borrowed \cup {r}) <= Cardinality(Borrowed) + 1
    <3>1. /\ IsFiniteSet(Borrowed \cup {r})
          /\ Cardinality(Borrowed \cup {r}) =
               IF r \in Borrowed THEN Cardinality(Borrowed) ELSE Cardinality(Borrowed) + 1
      BY <1>1, FS_AddElement, Zenon
    <3>2. QED
      BY <1>1, <3>1
  <2>4. Cardinality(Borrowed') <= Cardinality(Borrowed \cup {r})
    BY <2>1, <2>3, FS_Subset
  <2>5. /\ Cardinality(Borrowed') \in Nat /\ Cardinality(Borrowed \cup {r}) \in Nat
    BY <2>1, <2>3, FS_Subset, FS_CardinalityType
  <2>6. QED
    BY <1>1, <2>2, <2>3, <2>4, <2>5
<1>3. CASE ~StartPolling(r)
  <2>1. conn'[r].pc = "borrowed" => conn[r].pc = "borrowed"
    BY <1>3 DEF Handle, Ask, NoConnection, ObtainKey, ObtainDenied, Poll,
       Publish, Discard, ObtainFails, PollFails, PublishLost, DiscardLost,
       Leave, HandIn, NoConn, RedisTypeOK
  <2>2. Borrowed' \subseteq Borrowed
    BY <2>1, ConnTypes DEF Borrowed
  <2>3. Cardinality(Borrowed') <= Cardinality(Borrowed) /\ Cardinality(Borrowed') \in Nat
    BY <1>1, <2>2, FS_Subset, FS_CardinalityType
  <2>4. QED
    BY <1>1, <2>3
<1>4. QED
  BY <1>2, <1>3

(* A waiter polls a natural number of times. *)
LEMMA PollsInNat == TTL \div PollInterval \in Nat
  BY TimeAssumption, HandlerAssumption

(* Every step of a handler keeps the requests well typed, and moves no     *)
(* other request.                                                          *)
LEMMA ReqTypes ==
  ASSUME RedisTypeOK, NEW r \in Requests, Handle(r)
  PROVE  HandlerTypeOK' /\ \A s \in Requests \ {r} : req'[s] = req[s]
<1> USE DEF RedisTypeOK, HandlerTypeOK, Active, Working, Outcomes
<1>1. CASE UNCHANGED req
  BY <1>1
<1>2. CASE \E x \in Active \cup Outcomes : req' = [req EXCEPT ![r].pc = x]
  BY <1>2
<1>3. CASE GotKey(r)
  BY <1>3, ZenonT(60) DEF GotKey
<1>4. CASE KeyTaken(r)
  BY PollsInNat, <1>4, ZenonT(60) DEF KeyTaken
<1>5. CASE req' = [req EXCEPT ![r].wake = now]
  BY <1>5
<1>6. CASE PollHit(r, store[KeyOf[r]].val) /\ Answered(KeyOf[r])
  <2>1. store[KeyOf[r]].val \in Requests
    BY <1>6, PoolAssumption DEF Answered
  <2>2. PICK v \in Requests : PollHit(r, v)
    BY <1>6, <2>1
  <2>3. req' = [req EXCEPT ![r] = [@ EXCEPT !.pc = "answered", !.got = v]]
    BY <2>2 DEF PollHit
  <2>4. QED
    BY ZenonT(60), <2>3
<1>7. CASE PollAgain(r)
  <2>1. now + PollInterval \in Nat /\ req[r].left - 1 \in Nat
    BY <1>7, HandlerAssumption DEF PollAgain, MayLook
  <2>2. QED
    BY <2>1, <1>7, ZenonT(60) DEF PollAgain
<1>8. CASE Published(r)
  BY <1>8, ZenonT(60) DEF Published
<1>9. QED
  BY <1>1, <1>2, <1>3, <1>4, <1>5, <1>6, <1>7, <1>8
  DEF Handle, Ask, NoConnection, ObtainKey, ObtainDenied, StartPolling, Poll,
      Publish, Discard, ObtainFails, PollFails, PublishLost, DiscardLost,
      Leave, Reject, PollTimeout, Forwarding, Disconnect, PollMiss,
      PublishFails, Discarded, Send, BadBody, UpstreamAnswers,
      UpstreamRefuses, UpstreamFails, Goto

(* Nothing is borrowed at first. *)
LEMMA InitTypes == RedisInit => RedisTypeOK
<1> SUFFICES ASSUME RedisInit PROVE RedisTypeOK
  OBVIOUS
<1>1. Borrowed = {}
  BY DEF RedisInit, Borrowed, NoConn
<1>2. Cardinality(Borrowed) <= PoolSize
  BY <1>1, FS_EmptySet, PoolAssumption
<1>3. QED
  BY <1>2 DEF RedisInit, StoreInit, HandlerInit, RedisTypeOK, StoreTypeOK,
              HandlerTypeOK, Absent, NoConn, Active, Working, Outcomes

(* The variables of the proxy and of its server always have their types,   *)
(* and the pollers never have more connections than the pool.              *)
THEOREM RedisTypes == RedisSpec => []RedisTypeOK
<1>1. RedisInit => RedisTypeOK
  BY InitTypes
<1>2. RedisTypeOK /\ [RedisNext]_redisVars => RedisTypeOK'
  <2> SUFFICES ASSUME RedisTypeOK, [RedisNext]_redisVars
               PROVE  RedisTypeOK'
    OBVIOUS
  <2>1. ASSUME NEW r \in Requests, Handle(r), UNCHANGED now
        PROVE  RedisTypeOK'
    <3>1. StoreTypeOK'
      BY <2>1, HandleCommands, StoreTypes
    <3>2. QED
      BY <2>1, <3>1, ConnTypes, PoolKept, ReqTypes DEF RedisTypeOK
  <2>2. CASE Tick /\ UNCHANGED <<store, req, conn>>
    BY <2>2 DEF Tick, RedisTypeOK, StoreTypeOK, HandlerTypeOK, Borrowed
  <2>3. CASE UNCHANGED redisVars
    BY <2>3 DEF redisVars, RedisTypeOK, StoreTypeOK, HandlerTypeOK, Borrowed
  <2>4. QED
    BY <2>1, <2>2, <2>3 DEF RedisNext
<1>3. QED
  BY <1>1, <1>2, PTL DEF RedisSpec

(* ------------------------------ the leases ----------------------------- *)

(* The types, read off one request at a time. *)
LEMMA Facts ==
  ASSUME RedisTypeOK, NEW r \in Requests
  PROVE  /\ KeyOf[r] \in Keys /\ req[r].since \in Nat /\ req[r].held \in BOOLEAN
         /\ conn[r].by \in Nat /\ conn[r].pc \in {"none", "waiting", "borrowed"}
         /\ store[KeyOf[r]].expire \in Nat /\ now \in Nat
  BY HandlerAssumption DEF RedisTypeOK, HandlerTypeOK, StoreTypeOK

LEMMA Durations ==
  /\ TTL \in Nat /\ TTL > 0 /\ MaxHold \in Nat /\ ConnTimeout \in Nat
  /\ LateHold \in Nat /\ LateHold = MaxHold + ConnTimeout
  BY TimeAssumption, HandlerAssumption, PoolAssumption DEF LateHold

(* A holder has its key for LateHold at most ... *)
LEMMA HolderLate ==
  ASSUME InTimeInv, NEW r \in Requests, Holding(r)
  PROVE  /\ req[r].held /\ req[r].pc # "passed" /\ req[r].since <= now
         /\ now <= req[r].since + LateHold
<1>1. /\ req[r].since \in Nat /\ conn[r].by \in Nat /\ now \in Nat
  BY Facts DEF InTimeInv
<1>2. HolderInTime(r) /\ (req[r].held => req[r].since <= now)
  BY DEF InTimeInv, HeldInTime
<1>3. req[r].held /\ req[r].pc # "passed" /\ req[r].since <= now
  BY <1>2 DEF HolderInTime, Holding, Working
<1>4. now <= req[r].since + LateHold
  <2>1. CASE conn[r].pc = "none"
    BY <1>1, <1>2, <2>1, Durations DEF HolderInTime
  <2>2. CASE conn[r].pc # "none"
    BY <1>1, <1>2, <2>2, Durations DEF HolderInTime
  <2>3. QED
    BY <2>1, <2>2
<1>5. QED
  BY <1>3, <1>4

(* ... which may be within its window. *)
LEMMA HolderSoon ==
  ASSUME WindowInv, LateHold < TTL, NEW r \in Requests, Holding(r)
  PROVE  /\ req[r].held /\ req[r].pc # "passed" /\ req[r].since <= now
         /\ now <= req[r].since + LateHold /\ now < req[r].since + TTL
<1>1. InTimeInv
  BY DEF WindowInv, InTimeInv
<1>2. /\ req[r].held /\ req[r].pc # "passed" /\ req[r].since <= now
      /\ now <= req[r].since + LateHold
  BY <1>1, HolderLate
<1>3. req[r].since \in Nat /\ now \in Nat
  BY Facts DEF WindowInv
<1>4. QED
  BY <1>2, <1>3, Durations

(* A holder and a request in its window, of one key, are one: two that     *)
(* obtained the key are TTL apart, and both are within TTL of now.         *)
LEMMA WindowHolder ==
  ASSUME WindowInv, LateHold < TTL,
         NEW r \in Requests, NEW s \in Requests, KeyOf[r] = KeyOf[s], Holding(r),
         req[s].held, req[s].pc # "passed", now < req[s].since + TTL
  PROVE  r = s
<1> SUFFICES ASSUME r # s PROVE FALSE
  OBVIOUS
<1>1. req[r].since \in Nat /\ req[s].since \in Nat /\ now \in Nat
  BY Facts DEF WindowInv
<1>2. /\ req[r].held /\ req[r].pc # "passed"
      /\ req[r].since <= now /\ now < req[r].since + TTL
  BY HolderSoon
<1>3. req[s].since <= now
  BY DEF WindowInv, HeldInTime
<1>4. CASE req[s].since <= req[r].since
  <2>1. req[r].since >= req[s].since + TTL
    BY <1>2, <1>4 DEF WindowInv, OneForwardPerWindow
  <2>2. QED
    BY <2>1, <1>1, <1>2, Durations
<1>5. CASE req[r].since <= req[s].since
  <2>1. req[s].since >= req[r].since + TTL
    BY <1>2, <1>5 DEF WindowInv, OneForwardPerWindow
  <2>2. QED
    BY <2>1, <1>1, <1>2, <1>3, Durations
<1>6. QED
  BY <1>1, <1>4, <1>5

(* In the window of a request the server has an entry for its key.         *)
LEMMA WindowPresent ==
  ASSUME WindowInv, NEW r \in Requests,
         req[r].held, req[r].pc # "passed", now < req[r].since + TTL
  PROVE  Present(KeyOf[r])
<1>1. store[KeyOf[r]].expire >= req[r].since + TTL
  BY DEF WindowInv, LeaseKept
<1>2. store[KeyOf[r]].expire > now /\ store[KeyOf[r]].expire # 0
  BY <1>1, Facts, Durations DEF WindowInv
<1>3. QED
  BY <1>2, Facts DEF WindowInv, AbsentIsZero, Present

(* A move of one request that does not obtain a key. *)
Moves(r) ==
  /\ UNCHANGED now /\ RedisTypeOK' /\ HolderInTime(r)'
  /\ \A s \in Requests \ {r} : req'[s] = req[s] /\ conn'[s] = conn[s]
  /\ req'[r].held = req[r].held /\ req[r].pc # "passed"
  /\ req[r].held => req'[r].since = req[r].since /\ req'[r].pc # "new"
  /\ conn'[r].pc = "borrowed" => req'[r].pc = "poll"
  /\ conn'[r].pc = "waiting" => req'[r].pc \in {"new", "poll", "publish", "discard"}

LEMMA MoveTimes ==
  ASSUME InTimeInv, NEW r \in Requests, Moves(r)
  PROVE  HeldInTime' /\ ConnUse'
<1>1. ASSUME NEW s \in Requests, req'[s].held
      PROVE  req[s].held /\ req'[s].since = req[s].since /\ req'[s].pc # "new"
  BY <1>1 DEF Moves, InTimeInv, HeldInTime
<1>2. ASSUME NEW s \in Requests
      PROVE  HolderInTime(s)'
  <2>1. CASE s = r
    BY <2>1 DEF Moves
  <2>2. CASE s # r
    BY <2>2 DEF Moves, InTimeInv, HeldInTime, HolderInTime, Holding
  <2>3. QED
    BY <2>1, <2>2
<1>3. HeldInTime'
  BY <1>1, <1>2 DEF Moves, InTimeInv, HeldInTime
<1>4. ConnUse'
  BY DEF Moves, InTimeInv, ConnUse
<1>5. QED
  BY <1>3, <1>4

LEMMA MoveKeeps ==
  ASSUME WindowInv, NEW r \in Requests, Moves(r)
  PROVE  HeldInTime' /\ OneForwardPerWindow' /\ ConnUse'
<1>1. ASSUME NEW s \in Requests, req'[s].held
      PROVE  /\ req[s].held /\ req'[s].since = req[s].since
             /\ req'[s].pc # "passed" => req[s].pc # "passed"
  BY <1>1 DEF Moves, WindowInv, HeldInTime
<1>2. OneForwardPerWindow'
  BY <1>1 DEF WindowInv, OneForwardPerWindow
<1>3. InTimeInv
  BY DEF WindowInv, InTimeInv
<1>4. HeldInTime' /\ ConnUse'
  BY <1>3, MoveTimes
<1>5. QED
  BY <1>2, <1>4

(* ... that leaves the server alone ... *)
LEMMA BystanderKeeps ==
  ASSUME WindowInv, NEW r \in Requests, Moves(r), UNCHANGED store,
         Holding(r)' => Holding(r)
  PROVE  WindowInv'
<1>1. HeldInTime' /\ OneForwardPerWindow' /\ ConnUse'
  BY MoveKeeps
<1>2. AbsentIsZero'
  BY DEF WindowInv, AbsentIsZero
<1>3. LeaseKept'
  BY DEF Moves, WindowInv, LeaseKept, HeldInTime
<1>4. OwnLease'
  <2> SUFFICES ASSUME NEW s \in Requests, Holding(s)'
               PROVE  store'[KeyOf[s]] = [expire |-> req'[s].since + TTL,
                                          val |-> Placeholder]
    BY DEF OwnLease
  <2>1. Holding(s)
    BY DEF Moves, Holding
  <2>2. req[s].held
    BY <2>1 DEF WindowInv, HeldInTime, HolderInTime
  <2>3. req'[s].since = req[s].since
    BY <2>2 DEF Moves
  <2>4. QED
    BY <2>1, <2>3 DEF WindowInv, OwnLease
<1>5. QED
  BY <1>1, <1>2, <1>3, <1>4 DEF WindowInv, Moves

(* ... or writes its key anew, with nobody else holding it ... *)
LEMMA WriteKeeps ==
  ASSUME WindowInv, NEW r \in Requests, Moves(r), ~Holding(r)',
         NEW v \in Requests \cup {Placeholder}, SetPx(KeyOf[r], v),
         \A s \in Requests \ {r} : Holding(s) => KeyOf[s] # KeyOf[r]
  PROVE  WindowInv'
<1> DEFINE k == KeyOf[r]
<1>1. HeldInTime' /\ OneForwardPerWindow' /\ ConnUse'
  BY MoveKeeps
<1>2. /\ k \in Keys /\ v # NoValue
      /\ store'[k] = [expire |-> now + TTL, val |-> v]
      /\ \A j \in Keys \ {k} : store'[j] = store[j]
  BY Facts, PoolAssumption, StoreAssumption DEF SetPx, WindowInv, RedisTypeOK, StoreTypeOK
<1>3. AbsentIsZero'
  BY <1>2 DEF WindowInv, AbsentIsZero
<1>4. LeaseKept'
  <2> SUFFICES ASSUME NEW s \in Requests, req'[s].held, req'[s].pc # "passed",
                      now < req'[s].since + TTL
               PROVE  store'[KeyOf[s]].expire >= req'[s].since + TTL
    BY DEF LeaseKept, Moves
  <2>1. req[s].held /\ req[s].pc # "passed" /\ req'[s].since = req[s].since
    BY DEF Moves
  <2>2. req[s].since <= now /\ req[s].since \in Nat /\ now \in Nat /\ KeyOf[s] \in Keys
    BY <2>1, Facts DEF WindowInv, HeldInTime
  <2>3. CASE KeyOf[s] = k
    BY <1>2, <2>1, <2>2, <2>3, Durations
  <2>4. CASE KeyOf[s] # k
    BY <1>2, <2>1, <2>2, <2>4 DEF WindowInv, LeaseKept
  <2>5. QED
    BY <2>3, <2>4
<1>5. OwnLease'
  <2> SUFFICES ASSUME NEW s \in Requests, Holding(s)'
               PROVE  store'[KeyOf[s]] = [expire |-> req'[s].since + TTL,
                                          val |-> Placeholder]
    BY DEF OwnLease
  <2>1. s # r /\ req'[s] = req[s] /\ Holding(s)
    BY DEF Moves, Holding
  <2>2. KeyOf[s] # k /\ KeyOf[s] \in Keys
    BY <2>1, Facts DEF WindowInv
  <2>3. QED
    BY <1>2, <2>1, <2>2 DEF WindowInv, OwnLease
<1>6. QED
  BY <1>1, <1>3, <1>4, <1>5 DEF WindowInv, Moves

(* ... or deletes the key it holds. *)
LEMMA DeleteKeeps ==
  ASSUME WindowInv, LateHold < TTL, NEW r \in Requests, Moves(r),
         Holding(r), req'[r].pc = "passed", Del(KeyOf[r])
  PROVE  WindowInv'
<1> DEFINE k == KeyOf[r]
<1>1. HeldInTime' /\ OneForwardPerWindow' /\ ConnUse'
  BY MoveKeeps
<1>2. /\ k \in Keys /\ store'[k] = Absent
      /\ \A j \in Keys \ {k} : store'[j] = store[j]
  BY Facts DEF Del, WindowInv, RedisTypeOK, StoreTypeOK
<1>3. AbsentIsZero'
  BY <1>2 DEF WindowInv, AbsentIsZero, Absent
<1>4. LeaseKept'
  <2> SUFFICES ASSUME NEW s \in Requests, req'[s].held, req'[s].pc # "passed",
                      now < req'[s].since + TTL
               PROVE  store'[KeyOf[s]].expire >= req'[s].since + TTL
    BY DEF LeaseKept, Moves
  <2>1. s # r /\ req'[s] = req[s] /\ KeyOf[s] \in Keys
    BY Facts DEF Moves, WindowInv
  <2>2. KeyOf[s] # k
    BY <2>1, WindowHolder
  <2>3. QED
    BY <1>2, <2>1, <2>2 DEF WindowInv, LeaseKept
<1>5. OwnLease'
  <2> SUFFICES ASSUME NEW s \in Requests, Holding(s)'
               PROVE  store'[KeyOf[s]] = [expire |-> req'[s].since + TTL,
                                          val |-> Placeholder]
    BY DEF OwnLease
  <2>1. s # r /\ req'[s] = req[s] /\ Holding(s) /\ KeyOf[s] \in Keys
    BY Facts DEF Moves, Holding, Working, WindowInv
  <2>2. KeyOf[s] # k
    BY <2>1, HolderSoon, WindowHolder
  <2>3. QED
    BY <1>2, <2>1, <2>2 DEF WindowInv, OwnLease
<1>6. QED
  BY <1>1, <1>3, <1>4, <1>5 DEF WindowInv, Moves

(* ------------------------- the steps of a handler ---------------------- *)

(* What a handler that does not obtain a key does to its request: it may   *)
(* end, go on, or start polling, and is not a holder from nothing.         *)
LEMMA HandleReq ==
  ASSUME RedisTypeOK, NEW r \in Requests, Handle(r), ~ObtainKey(r)
  PROVE  /\ req[r].pc \notin Outcomes /\ req'[r].held = req[r].held
         /\ req[r].pc = "new" \/ req'[r].since = req[r].since
         /\ req'[r] = req[r] \/ req'[r].pc # "new"
         /\ Holding(r)' => Holding(r)
<1> USE DEF RedisTypeOK, HandlerTypeOK, Active, Working, Outcomes, Holding
<1>1. CASE req' = req /\ req[r].pc \in {"new"} \cup Active
  BY <1>1
<1>2. CASE \E x \in Outcomes : /\ req[r].pc \in {"new"} \cup Active
                               /\ req' = [req EXCEPT ![r].pc = x]
  BY <1>2
<1>3. CASE Forwarding(r)
  BY <1>3 DEF Forwarding, Send, BadBody, UpstreamAnswers, UpstreamRefuses,
              UpstreamFails, Goto
<1>4. CASE KeyTaken(r)
  BY PollsInNat, <1>4 DEF KeyTaken, Arriving
<1>5. CASE req[r].pc = "poll" /\ req' = [req EXCEPT ![r].wake = now]
  BY <1>5
<1>6. ASSUME NEW v, PollHit(r, v)
      PROVE  /\ req[r].pc = "poll" /\ req'[r].pc = "answered"
             /\ req'[r].held = req[r].held /\ req'[r].since = req[r].since
  BY <1>6 DEF PollHit, MayLook
<1>7. CASE PollAgain(r)
  BY <1>7 DEF PollAgain, MayLook
<1>8. CASE Published(r)
  BY <1>8 DEF Published
<1>9. QED
  BY <1>1, <1>2, <1>3, <1>4, <1>5, <1>6, <1>7, <1>8
  DEF Handle, Ask, NoConnection, ObtainDenied, StartPolling, Poll,
      Publish, Discard, ObtainFails, PollFails, PublishLost, DiscardLost,
      Leave, Reject, PollTimeout, Disconnect, PollMiss, MayLook,
      PublishFails, Discarded, Goto, Arriving

(* It is a move: the holder among them keeps to its time, the wait for a   *)
(* connection included.                                                    *)
LEMMA HandleMoves ==
  ASSUME InTimeInv, RedisTypeOK', UNCHANGED now,
         NEW r \in Requests, Handle(r), ~ObtainKey(r)
  PROVE  Moves(r) /\ (Holding(r)' => Holding(r))
<1>1. RedisTypeOK /\ HolderInTime(r) /\ (req[r].held => req[r].pc # "new")
  BY DEF InTimeInv, HeldInTime
<1>2. /\ req[r].pc # "passed" /\ req'[r].held = req[r].held
      /\ req[r].pc = "new" \/ req'[r].since = req[r].since
      /\ req'[r] = req[r] \/ req'[r].pc # "new"
      /\ Holding(r)' => Holding(r)
  BY <1>1, HandleReq DEF Outcomes
<1>3. \A s \in Requests \ {r} : req'[s] = req[s] /\ conn'[s] = conn[s]
  BY <1>1, ReqTypes, ConnTypes
<1>4. req[r].held => req'[r].since = req[r].since /\ req'[r].pc # "new"
  BY <1>1, <1>2
<1>5. SUFFICES /\ HolderInTime(r)'
               /\ conn'[r].pc = "borrowed" => req'[r].pc = "poll"
               /\ conn'[r].pc = "waiting" =>
                    req'[r].pc \in {"new", "poll", "publish", "discard"}
  BY <1>2, <1>3, <1>4 DEF Moves
<1>6. /\ req \in [Requests -> [pc : {"new"} \cup Active \cup Outcomes,
                    held : BOOLEAN, since : Nat, left : Nat, wake : Nat,
                    got : Requests \cup {Nobody}]]
      /\ conn \in [Requests -> [pc : {"none", "waiting", "borrowed"}, by : Nat]]
  BY <1>1 DEF RedisTypeOK, HandlerTypeOK
<1>7. CASE Ask(r)
  <2>1. /\ conn[r].pc = "none" /\ req' = req
        /\ conn'[r] = [pc |-> "waiting", by |-> now + ConnTimeout]
        /\ req[r].pc \in {"new", "poll", "publish", "discard"}
    BY <1>6, <1>7 DEF Ask, Arriving
  <2>2. ASSUME Holding(r)
        PROVE  /\ req[r].held /\ now + ConnTimeout <= req[r].since + LateHold
               /\ now <= now + ConnTimeout
    BY <1>1, <2>1, <2>2, Facts, Durations DEF HolderInTime
  <2>3. QED
    BY <2>1, <2>2 DEF HolderInTime, Holding
<1>8. CASE HandIn(r) /\ ~Holding(r)'
  <2>1. conn'[r].pc = "none"
    BY <1>6, <1>8 DEF HandIn, NoConn
  <2>2. QED
    BY <1>8, <2>1 DEF HolderInTime
<1>9. CASE StartPolling(r)
  BY <1>6, <1>9 DEF StartPolling, HolderInTime, Holding, Working
<1>10. CASE PollAgain(r) /\ UNCHANGED conn
  BY <1>1, <1>6, <1>10 DEF PollAgain, MayLook, HolderInTime, Holding, Working,
     InTimeInv, ConnUse
<1>11. CASE conn[r] = NoConn /\ UNCHANGED conn /\ Reject(r)
  BY <1>6, <1>11 DEF NoConn, Reject, Goto, HolderInTime, Holding, Working
<1>12. CASE UNCHANGED conn /\ Forwarding(r)
  <2>1. conn[r].pc = "none" /\ Holding(r)
    BY <1>6, <1>12 DEF InTimeInv, ConnUse, Holding, Working, Forwarding, Send,
       BadBody, UpstreamAnswers, UpstreamRefuses, UpstreamFails, Goto
  <2>2. QED
    BY <1>1, <1>2, <1>4, <1>12, <2>1 DEF HolderInTime
<1>13. CASE \/ NoConnection(r) \/ ObtainDenied(r) \/ Publish(r) \/ Discard(r)
            \/ ObtainFails(r) \/ PollFails(r) \/ PublishLost(r)
            \/ DiscardLost(r) \/ Leave(r)
            \/ Poll(r) /\ ~(PollAgain(r) /\ UNCHANGED conn)
  <2>1. HandIn(r)
    BY <1>13 DEF NoConnection, ObtainDenied, Publish, Discard, ObtainFails,
       PollFails, PublishLost, DiscardLost, Leave, Poll
  <2>2. \/ \E x \in Outcomes : req' = [req EXCEPT ![r].pc = x]
        \/ KeyTaken(r) \/ Published(r)
        \/ PollHit(r, store[KeyOf[r]].val)
    BY <1>13 DEF NoConnection, ObtainDenied, Publish, Discard, ObtainFails,
       PollFails, PublishLost, DiscardLost, Leave, Poll, PollTimeout,
       Disconnect, PollMiss, PublishFails, Discarded, Goto, Outcomes
  <2>3. ~Holding(r)'
    <3>1. CASE \E x \in Outcomes : req' = [req EXCEPT ![r].pc = x]
      BY <1>6, <3>1 DEF Holding, Working, Outcomes
    <3>2. CASE KeyTaken(r)
      <4> DEFINE n == TTL \div PollInterval
      <4>1. req' = [req EXCEPT ![r] = [@ EXCEPT !.pc = "poll", !.since = now,
                                               !.left = n, !.wake = now]]
        BY <3>2 DEF KeyTaken
      <4> HIDE DEF n
      <4>2. QED
        BY <1>6, <4>1 DEF Holding, Working
    <3>3. CASE Published(r)
      BY <1>6, <3>3 DEF Published, Holding, Working
    <3>4. ASSUME NEW v, PollHit(r, v) PROVE ~Holding(r)'
      BY <1>6, <3>4 DEF PollHit, Holding, Working
    <3>5. QED
      BY <2>2, <3>1, <3>2, <3>3, <3>4
  <2>4. QED
    BY <1>8, <2>1, <2>3
<1>14. QED
  BY <1>7, <1>9, <1>10, <1>11, <1>12, <1>13 DEF Handle

(* --------------------------- the invariant ----------------------------- *)

(* The obtained key's time starts now. *)
LEMMA ObtainTimes ==
  ASSUME InTimeInv, UNCHANGED now, NEW r \in Requests, ObtainKey(r)
  PROVE  HeldInTime' /\ ConnUse'
<1>1. /\ conn' = [conn EXCEPT ![r] = NoConn]
      /\ req' = [req EXCEPT ![r] = [@ EXCEPT !.pc = "forward", !.held = TRUE,
                                             !.since = now]]
  BY DEF ObtainKey, GotKey, HandIn
<1>2. /\ \A s \in Requests \ {r} : req'[s] = req[s] /\ conn'[s] = conn[s]
      /\ req'[r].pc = "forward" /\ req'[r].held /\ req'[r].since = now
      /\ conn'[r].pc = "none"
  BY <1>1 DEF InTimeInv, RedisTypeOK, HandlerTypeOK, NoConn
<1>3. ConnUse'
  BY <1>2 DEF InTimeInv, ConnUse
<1>4. HeldInTime'
  <2> SUFFICES ASSUME NEW s \in Requests
               PROVE  /\ HolderInTime(s)'
                      /\ req'[s].held => req'[s].since <= now /\ req'[s].pc # "new"
    BY DEF HeldInTime
  <2>1. CASE s = r
    BY <1>2, <2>1, Facts, Durations DEF HolderInTime, InTimeInv
  <2>2. CASE s # r
    BY <1>2, <2>2 DEF InTimeInv, HeldInTime, HolderInTime, Holding
  <2>3. QED
    BY <2>1, <2>2
<1>5. QED
  BY <1>3, <1>4

(* Obtaining a key starts a window: nobody else's can still be running. *)
LEMMA ObtainKeeps ==
  ASSUME WindowInv, LateHold < TTL, RedisTypeOK', UNCHANGED now,
         NEW r \in Requests, ObtainKey(r)
  PROVE  WindowInv'
<1> DEFINE k == KeyOf[r]
<1>1. /\ ~Present(k) /\ SetPx(k, Placeholder) /\ req[r].pc = "new"
      /\ conn' = [conn EXCEPT ![r] = NoConn]
      /\ req' = [req EXCEPT ![r] = [@ EXCEPT !.pc = "forward", !.held = TRUE,
                                             !.since = now]]
  BY DEF ObtainKey, Obtain, GotKey, Arriving, HandIn
<1>2. /\ \A s \in Requests \ {r} : req'[s] = req[s] /\ conn'[s] = conn[s]
      /\ req'[r].pc = "forward" /\ req'[r].held /\ req'[r].since = now
      /\ conn'[r].pc = "none"
  BY <1>1 DEF WindowInv, RedisTypeOK, HandlerTypeOK, NoConn
<1>3. /\ k \in Keys /\ store'[k] = [expire |-> now + TTL, val |-> Placeholder]
      /\ \A j \in Keys \ {k} : store'[j] = store[j]
  BY <1>1, Facts DEF SetPx, WindowInv, RedisTypeOK, StoreTypeOK
<1>4. ASSUME NEW s \in Requests, req[s].held, req[s].pc # "passed",
             KeyOf[s] = k
      PROVE  now >= req[s].since + TTL
  BY <1>1, <1>4, WindowPresent, Facts, Durations DEF WindowInv
<1>5. AbsentIsZero'
  BY <1>3, StoreAssumption DEF WindowInv, AbsentIsZero
<1>6. InTimeInv
  BY DEF WindowInv, InTimeInv
<1>7. HeldInTime' /\ ConnUse'
  BY <1>6, ObtainTimes
<1>8. LeaseKept'
  <2> SUFFICES ASSUME NEW s \in Requests, req'[s].held, req'[s].pc # "passed",
                      now < req'[s].since + TTL
               PROVE  store'[KeyOf[s]].expire >= req'[s].since + TTL
    BY DEF LeaseKept
  <2>1. CASE s = r
    BY <2>1, <1>2, <1>3, Facts, Durations DEF WindowInv
  <2>2. CASE s # r
    <3>1. KeyOf[s] # k
      BY <2>2, <1>2, <1>4, Facts, Durations DEF WindowInv
    <3>2. QED
      BY <3>1, <2>2, <1>2, <1>3, Facts DEF WindowInv, LeaseKept
  <2>3. QED
    BY <2>1, <2>2
<1>9. OwnLease'
  <2> SUFFICES ASSUME NEW s \in Requests, Holding(s)'
               PROVE  store'[KeyOf[s]] = [expire |-> req'[s].since + TTL,
                                          val |-> Placeholder]
    BY DEF OwnLease
  <2>1. CASE s = r
    BY <2>1, <1>2, <1>3
  <2>2. CASE s # r
    <3>1. Holding(s)
      BY <2>2, <1>2 DEF Holding
    <3>2. KeyOf[s] # k
      BY <3>1, <1>1, HolderSoon, WindowPresent
    <3>3. QED
      BY <3>1, <3>2, <2>2, <1>2, <1>3, Facts DEF WindowInv, OwnLease
  <2>3. QED
    BY <2>1, <2>2
<1>10. OneForwardPerWindow'
  <2> SUFFICES ASSUME NEW s \in Requests, NEW t \in Requests, s # t,
                      KeyOf[s] = KeyOf[t], req'[s].held, req'[t].held,
                      req'[s].since <= req'[t].since,
                      req'[s].pc # "passed", req'[t].pc # "passed"
               PROVE  req'[t].since >= req'[s].since + TTL
    BY DEF OneForwardPerWindow
  <2>1. CASE t = r
    BY <2>1, <1>2, <1>4
  <2>2. CASE s = r
    BY <2>2, <1>2, <1>4, Facts, Durations DEF WindowInv
  <2>3. CASE s # r /\ t # r
    BY <2>3, <1>2 DEF WindowInv, OneForwardPerWindow
  <2>4. QED
    BY <2>1, <2>2, <2>3
<1>11. QED
  BY <1>5, <1>6, <1>7, <1>8, <1>9, <1>10 DEF WindowInv

(* Nobody holds a key that is not on the server, and nobody but the holder *)
(* holds one that is held.                                                 *)
LEMMA OneHolder ==
  ASSUME WindowInv, LateHold < TTL,
         NEW r \in Requests, NEW s \in Requests \ {r}, Holding(s),
         Holding(r) \/ ~Present(KeyOf[r])
  PROVE  KeyOf[s] # KeyOf[r]
<1>1. req[s].held /\ req[s].pc # "passed" /\ now < req[s].since + TTL
  BY HolderSoon
<1>2. Present(KeyOf[s])
  BY <1>1, WindowPresent
<1>3. CASE Holding(r)
  BY <1>1, <1>3, WindowHolder
<1>4. QED
  BY <1>2, <1>3

(* Every step of a handler keeps the windows. *)
LEMMA HandleKeeps ==
  ASSUME WindowInv, LateHold < TTL, RedisTypeOK', UNCHANGED now,
         NEW r \in Requests, Handle(r)
  PROVE  WindowInv'
<1>0. InTimeInv
  BY DEF WindowInv, InTimeInv
<1>1. CASE ObtainKey(r)
  BY <1>1, ObtainKeeps
<1>2. CASE ~ObtainKey(r) /\ UNCHANGED store
  BY <1>0, <1>2, HandleMoves, BystanderKeeps
<1>3. req \in [Requests -> [pc : {"new"} \cup Active \cup Outcomes,
                held : BOOLEAN, since : Nat, left : Nat, wake : Nat,
                got : Requests \cup {Nobody}]]
  BY DEF WindowInv, RedisTypeOK, HandlerTypeOK
<1>4. CASE ~ObtainKey(r) /\ Discard(r)
  <2>1. Holding(r) /\ req'[r].pc = "passed" /\ Del(KeyOf[r])
    BY <1>3, <1>4 DEF Discard, Discarded, Goto, Holding, Working
  <2>2. QED
    BY <1>0, <1>4, <2>1, HandleMoves, DeleteKeeps
<1>5. ASSUME ~ObtainKey(r), NEW v \in Requests \cup {Placeholder},
             SetPx(KeyOf[r], v), ~Holding(r)',
             Holding(r) \/ ~Present(KeyOf[r])
      PROVE  WindowInv'
  BY <1>0, <1>5, HandleMoves, OneHolder, WriteKeeps
<1>6. CASE ~ObtainKey(r) /\ (Publish(r) \/ PublishLost(r))
  <2>1. Holding(r) /\ ~Holding(r)'
    <3>1. CASE Published(r)
      BY <1>3, <3>1 DEF Published, Holding, Working
    <3>2. CASE PublishFails(r)
      BY <1>3, <3>2 DEF PublishFails, Goto, Holding, Working
    <3>3. QED
      BY <1>6, <3>1, <3>2 DEF Publish, PublishLost
  <2>2. SetPx(KeyOf[r], r) \/ UNCHANGED store
    BY <1>6 DEF Publish, PublishLost, Set
  <2>3. QED
    BY <1>2, <1>5, <1>6, <2>1, <2>2
<1>7. CASE ~ObtainKey(r) /\ ObtainFails(r)
  <2>1. ~Holding(r)'
    BY <1>3, <1>7 DEF ObtainFails, Goto, Holding, Working
  <2>2. \/ ~Present(KeyOf[r]) /\ SetPx(KeyOf[r], Placeholder)
        \/ UNCHANGED store
    BY <1>7 DEF ObtainFails, Obtain
  <2>3. QED
    BY <1>2, <1>5, <1>7, <2>1, <2>2
<1>8. QED
  BY <1>1, <1>2, <1>4, <1>6, <1>7
  DEF Handle, Ask, NoConnection, ObtainDenied, StartPolling, Poll, PollFails,
      DiscardLost, Leave

(* The clock waits for a holder that is at its end. *)
LEMMA TickTimes ==
  ASSUME InTimeInv, Tick, PoolMayWait, UNCHANGED <<store, req, conn>>
  PROVE  HeldInTime' /\ ConnUse'
<1>1. now' = now + 1 /\ now \in Nat
  BY DEF Tick, InTimeInv, RedisTypeOK
<1>2. ConnUse'
  BY DEF InTimeInv, ConnUse
<1>3. HeldInTime'
  <2> SUFFICES ASSUME NEW r \in Requests
               PROVE  /\ HolderInTime(r)'
                      /\ req[r].held => req[r].since <= now' /\ req[r].pc # "new"
    BY DEF HeldInTime
  <2>1. /\ HolderInTime(r)
        /\ req[r].held => req[r].since <= now /\ req[r].pc # "new"
    BY DEF InTimeInv, HeldInTime
  <2>2. /\ Holding(r) /\ conn[r].pc = "none" => now < req[r].since + MaxHold
        /\ conn[r].pc = "waiting" => now < conn[r].by
    BY DEF PoolMayWait
  <2>3. Holding(r) => conn[r].pc # "borrowed"
    BY DEF InTimeInv, ConnUse, Holding, Working
  <2>4. req[r].since \in Nat /\ conn[r].by \in Nat
    BY Facts DEF InTimeInv
  <2>5. conn[r].pc \in {"none", "waiting", "borrowed"}
    BY Facts DEF InTimeInv
  <2>6. HolderInTime(r)'
    BY <1>1, <2>1, <2>2, <2>3, <2>4, <2>5, Durations DEF HolderInTime, Holding
  <2>7. QED
    BY <1>1, <2>1, <2>4, <2>6
<1>4. QED
  BY <1>2, <1>3

(* So it keeps the windows. *)
LEMMA TickKeeps ==
  ASSUME WindowInv, LateHold < TTL, RedisTypeOK',
         Tick, PoolMayWait, UNCHANGED <<store, req, conn>>
  PROVE  WindowInv'
<1>1. now' = now + 1 /\ now \in Nat
  BY DEF Tick, WindowInv, RedisTypeOK
<1>2. AbsentIsZero' /\ OwnLease' /\ OneForwardPerWindow'
  BY DEF WindowInv, AbsentIsZero, OwnLease, OneForwardPerWindow, Holding
<1>3. HeldInTime' /\ ConnUse'
  <2>1. InTimeInv
    BY DEF WindowInv, InTimeInv
  <2>2. QED
    BY <2>1, TickTimes
<1>4. LeaseKept'
  <2> SUFFICES ASSUME NEW r \in Requests, req[r].held, req[r].pc # "passed",
                      now' < req[r].since + TTL
               PROVE  store[KeyOf[r]].expire >= req[r].since + TTL
    BY DEF LeaseKept
  <2>1. now < req[r].since + TTL
    BY <1>1, Facts, Durations DEF WindowInv
  <2>2. QED
    BY <2>1 DEF WindowInv, LeaseKept
<1>5. QED
  BY <1>2, <1>3, <1>4 DEF WindowInv

(* With holders in time, WindowInv is an invariant of the proxy. *)
THEOREM Windows ==
  ASSUME LateHold < TTL
  PROVE  RedisSpec => []WindowInv
<1>1. RedisInit => WindowInv
  <2> SUFFICES ASSUME RedisInit PROVE WindowInv
    OBVIOUS
  <2>1. RedisTypeOK
    BY InitTypes
  <2>2. \A r \in Requests : /\ req[r].pc = "new" /\ ~req[r].held
                            /\ conn[r].pc = "none"
    BY DEF RedisInit, HandlerInit, NoConn
  <2>3. AbsentIsZero
    BY DEF RedisInit, StoreInit, Absent, AbsentIsZero
  <2>4. QED
    BY <2>1, <2>2, <2>3 DEF WindowInv, ConnUse, HeldInTime, HolderInTime,
       Holding, Working, LeaseKept, OwnLease, OneForwardPerWindow
<1>2. WindowInv /\ RedisTypeOK' /\ [RedisNext]_redisVars => WindowInv'
  <2> SUFFICES ASSUME WindowInv, RedisTypeOK', [RedisNext]_redisVars
               PROVE  WindowInv'
    OBVIOUS
  <2>1. ASSUME NEW r \in Requests, Handle(r), UNCHANGED now
        PROVE  WindowInv'
    BY <2>1, HandleKeeps
  <2>2. CASE Tick /\ PoolMayWait /\ UNCHANGED <<store, req, conn>>
    BY <2>2, TickKeeps
  <2>3. CASE UNCHANGED redisVars
    BY <2>3 DEF redisVars, WindowInv, AbsentIsZero, ConnUse, HeldInTime,
       HolderInTime, Holding, LeaseKept, OwnLease, OneForwardPerWindow
  <2>4. QED
    BY <2>1, <2>2, <2>3 DEF RedisNext
<1>3. QED
  BY <1>1, <1>2, RedisTypes, PTL DEF RedisSpec

(* One upstream call per key and window, whatever commands fail and        *)
(* whichever of them the server carried out.                               *)
THEOREM OneForward ==
  ASSUME LateHold < TTL
  PROVE  RedisSpec => []OneForwardPerWindow
<1>1. WindowInv => OneForwardPerWindow
  BY DEF WindowInv
<1>2. QED
  BY <1>1, Windows, PTL

(* While a request holds a key, the server has the placeholder it wrote:   *)
(* its wait for a connection, before set() or del(), does not cost it the  *)
(* lease.                                                                  *)
THEOREM LeaseIsOwn ==
  ASSUME LateHold < TTL
  PROVE  RedisSpec => []OwnLease
<1>1. WindowInv => OwnLease
  BY DEF WindowInv
<1>2. QED
  BY <1>1, Windows, PTL

(* ------------------------------ the answers ---------------------------- *)

(* That holders are done after LateHold is all the answers need of the     *)
(* times: they agree also when leases are outlived.                        *)
LEMMA HoldersInTime == RedisSpec => []InTimeInv
<1>1. RedisInit => HeldInTime /\ ConnUse
  BY DEF RedisInit, HandlerInit, NoConn, ConnUse, HeldInTime, HolderInTime,
         Holding, Working
<1>2. /\ RedisTypeOK /\ RedisTypeOK' /\ HeldInTime /\ ConnUse
      /\ [RedisNext]_redisVars
      => HeldInTime' /\ ConnUse'
  <2> SUFFICES ASSUME InTimeInv, RedisTypeOK', [RedisNext]_redisVars
               PROVE  HeldInTime' /\ ConnUse'
    BY DEF InTimeInv
  <2>1. ASSUME NEW r \in Requests, Handle(r), UNCHANGED now
        PROVE  HeldInTime' /\ ConnUse'
    <3>1. CASE ObtainKey(r)
      BY <2>1, <3>1, ObtainTimes
    <3>2. CASE ~ObtainKey(r)
      BY <2>1, <3>2, HandleMoves, MoveTimes
    <3>3. QED
      BY <3>1, <3>2
  <2>2. CASE Tick /\ PoolMayWait /\ UNCHANGED <<store, req, conn>>
    BY <2>2, TickTimes
  <2>3. CASE UNCHANGED redisVars
    BY <2>3 DEF redisVars, InTimeInv, ConnUse, HeldInTime, HolderInTime, Holding
  <2>4. QED
    BY <2>1, <2>2, <2>3 DEF RedisNext
<1>3. QED
  BY <1>1, <1>2, RedisTypes, PTL DEF RedisSpec, InTimeInv

(* A step that moves one request still at work, and leaves every other     *)
(* request alone, takes no response back.                                  *)
LEMMA MadeStays ==
  ASSUME NEW r \in Requests, \A s \in Requests \ {r} : req'[s] = req[s],
         req'[r] = req[r] \/ req[r].pc \notin Outcomes,
         NEW v \in Requests, NEW k, Made(v, k)
  PROVE  req'[v] = req[v] /\ Made(v, k)'
  BY DEF Made, Outcomes

(* A step of a request that is answered with nothing, that may clear an    *)
(* entry or start a lease on it.                                           *)
LEMMA QuietAnswers ==
  ASSUME InTimeInv, RedisTypeOK', AnswerInv, UNCHANGED now, NEW r \in Requests,
         \A s \in Requests \ {r} : req'[s] = req[s],
         req'[r] = req[r]
           \/ /\ req[r].pc \notin Outcomes /\ req'[r].pc # "answered"
              /\ req'[r].got = req[r].got
              /\ req'[r].pc = "poll" =>
                   /\ req'[r].since <= now
                   /\ store[KeyOf[r]].val # NoValue =>
                        store[KeyOf[r]].expire > req'[r].since,
         \A k \in Keys :
           \/ store'[k] = store[k]
           \/ store'[k] = Absent
           \/ store'[k] = [expire |-> now + TTL, val |-> Placeholder]
  PROVE  AnswerInv'
<1>1. req'[r] = req[r] \/ req'[r].got = Nobody
  BY DEF AnswerInv, GotWhenAnswered, Outcomes
<1>2. ResponsesMade'
  <2> SUFFICES ASSUME NEW k \in Keys, NEW v \in Requests, store'[k].val = v
               PROVE  /\ Made(v, k)'
                      /\ store'[k].expire <= req'[v].since + LateHold + TTL
    BY DEF ResponsesMade
  <2>1. store'[k] = store[k]
    BY StoreAssumption, PoolAssumption DEF Absent
  <2>2. Made(v, k) /\ store[k].expire <= req[v].since + LateHold + TTL
    BY <2>1 DEF AnswerInv, ResponsesMade
  <2>3. req'[v] = req[v] /\ Made(v, k)'
    BY <2>2, MadeStays
  <2>4. QED
    BY <2>1, <2>2, <2>3
<1>3. PollersSee'
  <2> SUFFICES ASSUME NEW s \in Requests, req'[s].pc = "poll"
               PROVE  /\ req'[s].since <= now
                      /\ store'[KeyOf[s]].val # NoValue =>
                           store'[KeyOf[s]].expire > req'[s].since
    BY DEF PollersSee
  <2>1. /\ req'[s].since <= now
        /\ store[KeyOf[s]].val # NoValue =>
             store[KeyOf[s]].expire > req'[s].since
    BY DEF AnswerInv, PollersSee
  <2>2. req'[s].since \in Nat /\ now \in Nat /\ KeyOf[s] \in Keys
    BY Facts DEF InTimeInv, RedisTypeOK, HandlerTypeOK
  <2>3. QED
    BY <2>1, <2>2, Durations DEF Absent
<1>4. GotWhenAnswered'
  BY <1>1 DEF AnswerInv, GotWhenAnswered
<1>5. AnswersAgree'
  <2> SUFFICES ASSUME NEW s \in Requests, NEW v \in Requests, req'[s].got = v
               PROVE  /\ Made(v, KeyOf[s])'
                      /\ req'[s].since < req'[v].since + MaxHold + ConnTimeout + TTL
    BY DEF AnswersAgree, Made
  <2>1. req'[s] = req[s]
    BY <1>1, HandlerAssumption
  <2>2. /\ Made(v, KeyOf[s])
        /\ req[s].since < req[v].since + MaxHold + ConnTimeout + TTL
    BY <2>1 DEF AnswerInv, AnswersAgree, Made
  <2>3. req'[v] = req[v] /\ Made(v, KeyOf[s])'
    BY <2>2, MadeStays
  <2>4. QED
    BY <2>1, <2>2, <2>3
<1>6. QED
  BY <1>2, <1>3, <1>4, <1>5 DEF AnswerInv

(* A waiter's answer: the response was made for its key, and its entry was *)
(* still running when the waiter came.                                     *)
LEMMA HitAnswers ==
  ASSUME InTimeInv, AnswerInv, UNCHANGED <<now, store>>, NEW r \in Requests,
         Answered(KeyOf[r]), PollHit(r, store[KeyOf[r]].val)
  PROVE  AnswerInv'
<1> DEFINE u == store[KeyOf[r]].val
<1>1. /\ \A s \in Requests \ {r} : req'[s] = req[s]
      /\ req[r].pc = "poll" /\ req'[r].pc = "answered" /\ req'[r].got = u
      /\ req'[r].since = req[r].since
  BY DEF PollHit, MayLook, InTimeInv, RedisTypeOK, HandlerTypeOK
<1>2. u \in Requests /\ KeyOf[r] \in Keys /\ u # NoValue
  BY Facts, PoolAssumption, StoreAssumption DEF Answered, InTimeInv
<1>3. Made(u, KeyOf[r]) /\ store[KeyOf[r]].expire <= req[u].since + LateHold + TTL
  BY <1>2 DEF AnswerInv, ResponsesMade
<1>4. req[r].since < req[u].since + MaxHold + ConnTimeout + TTL
  <2>1. store[KeyOf[r]].expire > req[r].since
    BY <1>1, <1>2 DEF AnswerInv, PollersSee
  <2>2. req[u].since \in Nat /\ req[r].since \in Nat /\ store[KeyOf[r]].expire \in Nat
    BY <1>2, Facts DEF InTimeInv
  <2>3. QED
    BY <1>3, <2>1, <2>2, Durations
<1>5. ASSUME NEW v \in Requests, NEW k, Made(v, k)
      PROVE  req'[v] = req[v] /\ Made(v, k)'
  BY <1>1, <1>5 DEF Made
<1>6. ResponsesMade'
  BY <1>5 DEF AnswerInv, ResponsesMade
<1>7. PollersSee' /\ GotWhenAnswered'
  BY <1>1 DEF AnswerInv, PollersSee, GotWhenAnswered
<1>8. AnswersAgree'
  <2> SUFFICES ASSUME NEW s \in Requests, NEW v \in Requests, req'[s].got = v
               PROVE  /\ Made(v, KeyOf[s])'
                      /\ req'[s].since < req'[v].since + MaxHold + ConnTimeout + TTL
    BY DEF AnswersAgree, Made
  <2>1. CASE s = r
    BY <1>1, <1>3, <1>4, <1>5, <2>1
  <2>2. CASE s # r
    <3>1. /\ req'[s] = req[s] /\ Made(v, KeyOf[s])
          /\ req[s].since < req[v].since + MaxHold + ConnTimeout + TTL
      BY <1>1, <2>2 DEF AnswerInv, AnswersAgree, Made
    <3>2. QED
      BY <1>5, <3>1
  <2>3. QED
    BY <2>1, <2>2
<1>9. QED
  BY <1>6, <1>7, <1>8 DEF AnswerInv

(* The holder's own response: it enters the server as it leaves for the    *)
(* holder's client, or as the reply to set() is lost.                      *)
LEMMA PublishAnswers ==
  ASSUME InTimeInv, AnswerInv, UNCHANGED now,
         NEW r \in Requests, SetPx(KeyOf[r], r),
         Published(r) \/ PublishFails(r)
  PROVE  AnswerInv'
<1>1. /\ \A s \in Requests \ {r} : req'[s] = req[s]
      /\ req[r].pc = "publish" /\ req'[r].since = req[r].since
      /\ req'[r].held = req[r].held
      /\ \/ req'[r].pc = "answered" /\ req'[r].got = r
         \/ req'[r].pc = "failed" /\ req'[r].got = req[r].got
  <2>1. CASE Published(r)
    BY <2>1 DEF Published, InTimeInv, RedisTypeOK, HandlerTypeOK
  <2>2. CASE PublishFails(r)
    BY <2>2 DEF PublishFails, Goto, InTimeInv, RedisTypeOK, HandlerTypeOK
  <2>3. QED
    BY <2>1, <2>2
<1>2. /\ KeyOf[r] \in Keys
      /\ store'[KeyOf[r]] = [expire |-> now + TTL, val |-> r]
      /\ \A j \in Keys \ {KeyOf[r]} : store'[j] = store[j]
  BY Facts DEF SetPx, InTimeInv, RedisTypeOK, StoreTypeOK
<1>3. Made(r, KeyOf[r])' /\ now <= req[r].since + LateHold
  <2>1. req[r].held /\ now <= req[r].since + LateHold
    BY <1>1, HolderLate DEF Holding, Working
  <2>2. QED
    BY <1>1, <2>1 DEF Made
<1>4. req[r].got = Nobody /\ Nobody \notin Requests
  BY <1>1, HandlerAssumption DEF AnswerInv, GotWhenAnswered
<1>5. ASSUME NEW v \in Requests, NEW k, Made(v, k)
      PROVE  req'[v] = req[v] /\ Made(v, k)'
  BY <1>1, <1>5 DEF Made
<1>6. now \in Nat /\ req[r].since \in Nat
  BY Facts DEF InTimeInv
<1>7. ResponsesMade'
  <2> SUFFICES ASSUME NEW k \in Keys, NEW v \in Requests, store'[k].val = v
               PROVE  /\ Made(v, k)'
                      /\ store'[k].expire <= req'[v].since + LateHold + TTL
    BY DEF ResponsesMade
  <2>1. CASE k = KeyOf[r]
    <3>1. v = r
      BY <1>2, <2>1
    <3>2. now + TTL <= req'[r].since + LateHold + TTL
      BY <1>1, <1>3, <1>6, Durations
    <3>3. QED
      BY <1>2, <1>3, <2>1, <3>1, <3>2
  <2>2. CASE k # KeyOf[r]
    BY <1>2, <1>5, <2>2 DEF AnswerInv, ResponsesMade
  <2>3. QED
    BY <2>1, <2>2
<1>8. PollersSee'
  <2> SUFFICES ASSUME NEW s \in Requests, req'[s].pc = "poll"
               PROVE  /\ req'[s].since <= now
                      /\ store'[KeyOf[s]].val # NoValue =>
                           store'[KeyOf[s]].expire > req'[s].since
    BY DEF PollersSee
  <2>1. req'[s] = req[s] /\ KeyOf[s] \in Keys /\ req[s].since \in Nat
    BY <1>1, Facts DEF InTimeInv
  <2>2. /\ req[s].since <= now
        /\ store[KeyOf[s]].val # NoValue => store[KeyOf[s]].expire > req[s].since
    BY <2>1 DEF AnswerInv, PollersSee
  <2>3. now + TTL > req[s].since
    BY <1>6, <2>1, <2>2, Durations
  <2>4. QED
    BY <1>2, <2>1, <2>2, <2>3
<1>9. GotWhenAnswered'
  BY <1>1, <1>4 DEF AnswerInv, GotWhenAnswered
<1>10. AnswersAgree'
  <2> SUFFICES ASSUME NEW s \in Requests, NEW v \in Requests, req'[s].got = v
               PROVE  /\ Made(v, KeyOf[s])'
                      /\ req'[s].since < req'[v].since + MaxHold + ConnTimeout + TTL
    BY DEF AnswersAgree, Made
  <2>1. CASE s = r
    <3>1. v = r
      BY <1>1, <1>4, <2>1
    <3>2. req'[r].since < req'[r].since + MaxHold + ConnTimeout + TTL
      BY <1>1, <1>6, Durations
    <3>3. QED
      BY <1>3, <2>1, <3>1, <3>2
  <2>2. CASE s # r
    <3>1. /\ req'[s] = req[s] /\ Made(v, KeyOf[s])
          /\ req[s].since < req[v].since + MaxHold + ConnTimeout + TTL
      BY <1>1, <2>2 DEF AnswerInv, AnswersAgree, Made
    <3>2. QED
      BY <1>5, <3>1
  <2>3. QED
    BY <2>1, <2>2
<1>11. QED
  BY <1>7, <1>8, <1>9, <1>10 DEF AnswerInv

(* A holder whose key is gone answers its own client all the same, and     *)
(* nobody else (handler.rs:203-214).                                       *)
LEMMA UnwrittenAnswers ==
  ASSUME InTimeInv, AnswerInv, UNCHANGED <<now, store>>, NEW r \in Requests,
         Published(r)
  PROVE  AnswerInv'
<1>1. /\ \A s \in Requests \ {r} : req'[s] = req[s]
      /\ req[r].pc = "publish" /\ req'[r].since = req[r].since
      /\ req'[r].held = req[r].held
      /\ req'[r].pc = "answered" /\ req'[r].got = r
  BY DEF Published, InTimeInv, RedisTypeOK, HandlerTypeOK
<1>2. ASSUME NEW v \in Requests, NEW k, Made(v, k)
      PROVE  req'[v] = req[v] /\ Made(v, k)'
  BY <1>1, <1>2 DEF Made
<1>3. Made(r, KeyOf[r])'
  <2>1. req[r].held
    BY <1>1, HolderLate DEF Holding, Working
  <2>2. QED
    BY <1>1, <2>1 DEF Made
<1>4. ResponsesMade'
  BY <1>2 DEF AnswerInv, ResponsesMade
<1>5. PollersSee' /\ GotWhenAnswered'
  BY <1>1 DEF AnswerInv, PollersSee, GotWhenAnswered
<1>6. AnswersAgree'
  <2> SUFFICES ASSUME NEW s \in Requests, NEW v \in Requests, req'[s].got = v
               PROVE  /\ Made(v, KeyOf[s])'
                      /\ req'[s].since < req'[v].since + MaxHold + ConnTimeout + TTL
    BY DEF AnswersAgree, Made
  <2>1. CASE s = r
    <3>1. v = r /\ req[r].since \in Nat
      BY <1>1, <2>1, Facts DEF InTimeInv
    <3>2. req'[r].since < req'[r].since + MaxHold + ConnTimeout + TTL
      BY <1>1, <3>1, Durations
    <3>3. QED
      BY <1>3, <2>1, <3>1, <3>2
  <2>2. CASE s # r
    <3>1. /\ req'[s] = req[s] /\ Made(v, KeyOf[s])
          /\ req[s].since < req[v].since + MaxHold + ConnTimeout + TTL
      BY <1>1, <2>2 DEF AnswerInv, AnswersAgree, Made
    <3>2. QED
      BY <1>2, <3>1
  <2>3. QED
    BY <2>1, <2>2
<1>7. QED
  BY <1>4, <1>5, <1>6 DEF AnswerInv

(* What every other step of a handler does to the got of its request.      *)
LEMMA HandleGot ==
  ASSUME RedisTypeOK, NEW r \in Requests, Handle(r), ~ObtainKey(r),
         ~ObtainDenied(r), ~Published(r),
         ~PollHit(r, store[KeyOf[r]].val)
  PROVE  req'[r] = req[r]
           \/ /\ req'[r].pc # "answered" /\ req'[r].got = req[r].got
              /\ req'[r].pc = "poll" =>
                   req[r].pc = "poll" /\ req'[r].since = req[r].since
<1> USE DEF RedisTypeOK, HandlerTypeOK
<1>1. CASE req' = req
  BY <1>1
<1>2. CASE \E x \in (Outcomes \cup Working) \ {"answered"} :
             req' = [req EXCEPT ![r].pc = x]
  BY <1>2 DEF Outcomes, Working
<1>3. CASE req[r].pc = "poll" /\ req' = [req EXCEPT ![r].wake = now]
  BY <1>3
<1>4. CASE PollAgain(r)
  BY <1>4 DEF PollAgain, MayLook
<1>5. QED
  BY <1>1, <1>2, <1>3, <1>4
  DEF Handle, Ask, NoConnection, StartPolling, Poll, Publish, Discard,
      ObtainFails, PollFails, PublishLost, DiscardLost, Leave, Reject,
      Forwarding, Send, BadBody, UpstreamAnswers, UpstreamRefuses,
      UpstreamFails, PollTimeout, Disconnect, PollMiss, PublishFails,
      Discarded, Goto, Outcomes, Working

(* Every step of a handler keeps the answers right. *)
LEMMA HandleAnswers ==
  ASSUME InTimeInv, RedisTypeOK', AnswerInv, UNCHANGED now,
         NEW r \in Requests, Handle(r)
  PROVE  AnswerInv'
<1> DEFINE k == KeyOf[r]
<1>1. RedisTypeOK /\ k \in Keys
  BY Facts DEF InTimeInv
<1>2. \A s \in Requests \ {r} : req'[s] = req[s]
  BY <1>1, ReqTypes
<1>3. ASSUME SetPx(k, Placeholder) \/ Del(k) \/ UNCHANGED store
      PROVE  \A j \in Keys :
               \/ store'[j] = store[j]
               \/ store'[j] = Absent
               \/ store'[j] = [expire |-> now + TTL, val |-> Placeholder]
  BY <1>1, <1>3 DEF SetPx, Del, RedisTypeOK, StoreTypeOK
<1>4. CASE ObtainKey(r)
  <2>1. /\ req[r].pc = "new" /\ req'[r].pc = "forward"
        /\ req'[r].got = req[r].got
    BY <1>1, <1>4 DEF ObtainKey, GotKey, Arriving, RedisTypeOK, HandlerTypeOK
  <2>2. SetPx(k, Placeholder)
    BY <1>4 DEF ObtainKey, Obtain
  <2>3. QED
    BY <1>2, <1>3, <2>1, <2>2, QuietAnswers DEF Outcomes
<1>5. CASE ObtainDenied(r)
  <2>1. /\ req[r].pc = "new" /\ req'[r].pc = "poll"
        /\ req'[r].got = req[r].got /\ req'[r].since = now
    <3> DEFINE n == TTL \div PollInterval
    <3>1. /\ req[r].pc = "new"
          /\ req' = [req EXCEPT ![r] = [@ EXCEPT !.pc = "poll", !.since = now,
                                                 !.left = n, !.wake = now]]
      BY <1>5 DEF ObtainDenied, KeyTaken, Arriving
    <3> HIDE DEF n
    <3>2. QED
      BY <1>1, <3>1 DEF RedisTypeOK, HandlerTypeOK
  <2>2. UNCHANGED store /\ store[k].expire > now /\ now <= now
    BY <1>1, <1>5 DEF ObtainDenied, Present, RedisTypeOK
  <2>3. QED
    BY <1>2, <1>3, <2>1, <2>2, QuietAnswers DEF Outcomes
<1>6. CASE Poll(r) /\ PollHit(r, store[k].val)
  <2>1. UNCHANGED store /\ (Answered(k) \/ ~PollHit(r, store[k].val))
    <3>1. PollHit(r, store[k].val) => req'[r].pc = "answered"
      BY <1>1 DEF PollHit, RedisTypeOK, HandlerTypeOK
    <3>2. PollMiss(r) \/ PollTimeout(r) => req'[r].pc # "answered"
      BY <1>1 DEF PollMiss, PollTimeout, MayLook, Goto, RedisTypeOK,
         HandlerTypeOK
    <3>3. PollAgain(r) => req'[r].pc # "answered"
      BY <1>1 DEF PollAgain, MayLook, RedisTypeOK, HandlerTypeOK
    <3>4. QED
      BY <1>6, <3>1, <3>2, <3>3 DEF Poll
  <2>2. QED
    BY <1>6, <2>1, HitAnswers
<1>7. CASE (Publish(r) \/ PublishLost(r)) /\ SetPx(k, r)
  BY <1>7, PublishAnswers DEF Publish, PublishLost
<1>8. CASE /\ ~ObtainKey(r) /\ ~ObtainDenied(r) /\ ~Published(r)
           /\ ~PollHit(r, store[k].val)
           /\ SetPx(k, Placeholder) \/ Del(k) \/ UNCHANGED store
  <2>1. req[r].pc \notin Outcomes
    BY <1>1, <1>8, HandleReq
  <2>2. req[r].pc = "poll" =>
          /\ req[r].since <= now
          /\ store[k].val # NoValue => store[k].expire > req[r].since
    BY DEF AnswerInv, PollersSee
  <2>3. req'[r] = req[r]
          \/ /\ req'[r].pc # "answered" /\ req'[r].got = req[r].got
             /\ req'[r].pc = "poll" =>
                  req[r].pc = "poll" /\ req'[r].since = req[r].since
    BY <1>1, <1>8, HandleGot
  <2>4. QED
    BY <1>2, <1>3, <1>8, <2>1, <2>2, <2>3, QuietAnswers
<1>9. CASE Publish(r) /\ UNCHANGED store
  BY <1>1, <1>9, UnwrittenAnswers DEF Publish
<1>10. CASE Publish(r)
  BY <1>7, <1>9, <1>10 DEF Publish, Set
<1>11. CASE PublishLost(r) /\ UNCHANGED store
  <2>1. /\ req[r].pc = "publish" /\ req'[r].pc = "failed"
        /\ req'[r].got = req[r].got
    BY <1>1, <1>11 DEF PublishLost, PublishFails, Goto, RedisTypeOK,
       HandlerTypeOK
  <2>2. QED
    BY <1>2, <1>3, <1>11, <2>1, QuietAnswers DEF Outcomes
<1>12. ASSUME Published(r) \/ PollHit(r, store[k].val)
       PROVE  req[r].pc \in {"publish", "poll"} /\ req'[r].pc = "answered"
  <2>1. CASE Published(r)
    BY <1>1, <2>1 DEF Published, RedisTypeOK, HandlerTypeOK
  <2>2. ASSUME NEW v, PollHit(r, v)
        PROVE  req[r].pc = "poll" /\ req'[r].pc = "answered"
    BY <1>1, <2>2 DEF PollHit, MayLook, RedisTypeOK, HandlerTypeOK
  <2>3. QED
    BY <1>12, <2>1, <2>2
<1>13. ASSUME ~ObtainKey(r), ~ObtainDenied(r), ~Publish(r), ~Poll(r)
       PROVE  ~Published(r) /\ ~PollHit(r, store[k].val)
  <2>1. CASE UNCHANGED req /\ req[r].pc # "answered"
    BY <1>12, <2>1
  <2>2. ASSUME NEW x \in (Outcomes \cup Working) \ {"answered"},
               req' = [req EXCEPT ![r].pc = x]
        PROVE  req'[r].pc # "answered"
    BY <1>1, <2>2 DEF RedisTypeOK, HandlerTypeOK
  <2>3. CASE StartPolling(r)
    BY <1>1, <1>12, <2>3 DEF StartPolling, RedisTypeOK, HandlerTypeOK
  <2>4. QED
    BY <1>12, <1>13, <2>1, <2>2, <2>3
    DEF Handle, Ask, NoConnection, ObtainFails, PollFails, PublishLost,
        DiscardLost, Discard, Leave, Reject, Forwarding, Send, BadBody,
        UpstreamAnswers, UpstreamRefuses, UpstreamFails, Disconnect, MayLook,
        PublishFails, Discarded, Goto, Arriving, Outcomes, Working
<1>14. CASE Poll(r) /\ ~PollHit(r, store[k].val)
  <2>1. UNCHANGED store /\ ~ObtainKey(r) /\ ~ObtainDenied(r) /\ ~Published(r)
    BY <1>14 DEF Poll, PollMiss, PollTimeout, PollAgain, MayLook, Goto,
       ObtainKey, ObtainDenied, GotKey, KeyTaken, Arriving, Published
  <2>2. QED
    BY <1>8, <1>14, <2>1
<1>15. CASE /\ ~ObtainKey(r) /\ ~ObtainDenied(r) /\ ~Publish(r) /\ ~Poll(r)
            /\ ~PublishLost(r)
  <2>1. SetPx(k, Placeholder) \/ Del(k) \/ UNCHANGED store
    BY <1>15
    DEF Handle, Ask, NoConnection, StartPolling, ObtainFails, PollFails,
        Discard, DiscardLost, Leave, Obtain
  <2>2. QED
    BY <1>8, <1>13, <1>15, <2>1
<1>16. CASE PublishLost(r)
  BY <1>7, <1>11, <1>16 DEF PublishLost, Set
<1>17. QED
  BY <1>4, <1>5, <1>6, <1>10, <1>14, <1>15, <1>16

(* Everyone who is answered gets the response of one upstream call for the *)
(* key: also when holders outlive their leases, in line for a connection   *)
(* or not, and publish into those of others.                               *)
THEOREM Answers == RedisSpec => []AnswersAgree
<1>1. RedisInit => AnswerInv
  BY StoreAssumption, HandlerAssumption, PoolAssumption
  DEF RedisInit, StoreInit, HandlerInit, AnswerInv, ResponsesMade, PollersSee,
      GotWhenAnswered, AnswersAgree, Absent
<1>2. InTimeInv /\ RedisTypeOK' /\ AnswerInv /\ [RedisNext]_redisVars
        => AnswerInv'
  <2> SUFFICES ASSUME InTimeInv, RedisTypeOK', AnswerInv, [RedisNext]_redisVars
               PROVE  AnswerInv'
    OBVIOUS
  <2>1. ASSUME NEW r \in Requests, Handle(r), UNCHANGED now
        PROVE  AnswerInv'
    BY <2>1, HandleAnswers
  <2>2. CASE Tick /\ UNCHANGED <<store, req, conn>>
    <3>1. now' = now + 1 /\ now \in Nat
      BY <2>2 DEF Tick, InTimeInv, RedisTypeOK
    <3>2. PollersSee'
      BY <2>2, <3>1, Facts DEF AnswerInv, PollersSee, InTimeInv
    <3>3. QED
      BY <2>2, <3>2 DEF AnswerInv, ResponsesMade, Made, GotWhenAnswered,
         AnswersAgree
  <2>3. CASE UNCHANGED redisVars
    BY <2>3 DEF redisVars, AnswerInv, ResponsesMade, Made, PollersSee,
       GotWhenAnswered, AnswersAgree
  <2>4. QED
    BY <2>1, <2>2, <2>3 DEF RedisNext
<1>3. AnswerInv => AnswersAgree
  BY DEF AnswerInv
<1>4. QED
  BY <1>1, <1>2, <1>3, HoldersInTime, RedisTypes, PTL DEF RedisSpec

-----------------------------------------------------------------------------
(***************************************************************************)
(* RedisProxy implements Idempotency when holders are in time: the step    *)
(* simulation.  What the pool does is not visible; a command that is       *)
(* carried out for nobody is: a lease without holder (Lose), or an answer  *)
(* that its own client misses (Answer).                                    *)
(***************************************************************************)

(* A lease runs as long as the server has the entry. *)
LEMMA LeaseOfKey ==
  ASSUME WindowInv, NEW k \in Keys
  PROVE  /\ LeaseOf[k].until = store[k].expire
         /\ Promise!Running(k) <=> Present(k)
         /\ Answered(k) => /\ LeaseOf[k].answer = store[k].val
                           /\ LeaseOf[k].answer # Nobody
<1>1. now \in Nat
  BY DEF WindowInv, RedisTypeOK
<1>2. Values = Requests /\ Nobody \notin Requests
  BY PoolAssumption, HandlerAssumption
<1>3. QED
  BY <1>1, <1>2
  DEF LeaseOf, Promise!Running, Present, Answered, WindowInv, AbsentIsZero

(* A held key's lease runs and has no answer. *)
LEMMA HeldLease ==
  ASSUME WindowInv, LateHold < TTL, NEW r \in Requests, Holding(r)
  PROVE  /\ Present(KeyOf[r])
         /\ LeaseOf[KeyOf[r]].until = req[r].since + TTL
         /\ LeaseOf[KeyOf[r]].answer = Nobody
<1>1. Present(KeyOf[r]) /\ KeyOf[r] \in Keys
  BY HolderSoon, WindowPresent, Facts DEF WindowInv
<1>2. store[KeyOf[r]] = [expire |-> req[r].since + TTL, val |-> Placeholder]
  BY DEF WindowInv, OwnLease
<1>3. QED
  BY <1>1, <1>2, StoreAssumption DEF LeaseOf

(* Where the store does not change, the leases do not. *)
LEMMA SameLeases ==
  ASSUME UNCHANGED store
  PROVE  UNCHANGED LeaseOf
  BY DEF LeaseOf

(* SET writes a lease: without an answer, or with one. *)
LEMMA GrantOf ==
  ASSUME WindowInv, NEW r \in Requests, NEW v \in Requests \cup {Placeholder},
         SetPx(KeyOf[r], v)
  PROVE  Promise!Grant(r, IF v \in Requests THEN v ELSE Nobody)
<1> DEFINE a == IF v \in Requests THEN v ELSE Nobody
<1>1. KeyOf[r] \in Keys /\ Values = Requests
  BY HandlerAssumption, PoolAssumption
<1>2. \A k \in Keys :
        LeaseOf'[k] = IF k = KeyOf[r] THEN [until |-> now + TTL, answer |-> a]
                                      ELSE LeaseOf[k]
  BY <1>1 DEF LeaseOf, SetPx, WindowInv, RedisTypeOK, StoreTypeOK
<1> HIDE DEF a
<1>3. LeaseOf' = [LeaseOf EXCEPT ![KeyOf[r]] = [until |-> now + TTL,
                                                 answer |-> a]]
  BY <1>1, <1>2 DEF LeaseOf
<1>4. QED
  BY <1>3 DEF Promise!Grant, a

LEMMA GrantPlaceholder ==
  ASSUME WindowInv, NEW r \in Requests, SetPx(KeyOf[r], Placeholder)
  PROVE  Promise!Grant(r, Nobody)
<1>1. Placeholder \notin Requests
  BY StoreAssumption, PoolAssumption
<1>2. QED
  BY <1>1, GrantOf

(* One request's new state, seen from above. *)
LEMMA StatusOfMove ==
  ASSUME NEW r \in Requests, \A s \in Requests \ {r} : req'[s] = req[s],
         NEW x, x = StatusOf'[r]
  PROVE  Promise!Becomes(r, x)
<1>1. \A s \in Requests : StatusOf'[s] = IF s = r THEN x ELSE StatusOf[s]
  BY DEF StatusOf, Holding
<1>2. QED
  BY <1>1 DEF Promise!Becomes, StatusOf

LEMMA GotOfMove ==
  ASSUME NEW r \in Requests, \A s \in Requests \ {r} : req'[s] = req[s]
  PROVE  GotOf' = [GotOf EXCEPT ![r] = req'[r].got]
  BY DEF GotOf

LEMMA SameGot ==
  ASSUME NEW r \in Requests, \A s \in Requests \ {r} : req'[s] = req[s],
         req'[r].got = req[r].got
  PROVE  UNCHANGED GotOf
  BY DEF GotOf

(* What the handlers' changes of place look like from above. *)
LEMMA PlacesSeen ==
  ASSUME NEW r \in Requests
  PROVE  /\ req[r].pc = "new" => StatusOf[r] = "idle"
         /\ req[r].pc = "poll" => StatusOf[r] = "waiting"
         /\ Holding(r) => StatusOf[r] = "forwarding"
         /\ req[r].pc \in Outcomes => StatusOf[r] = "ended"
         /\ req[r].pc \notin Outcomes /\ RedisTypeOK => StatusOf[r] # "ended"
  BY DEF StatusOf, Holding, Working, Outcomes, Active, RedisTypeOK, HandlerTypeOK

LEMMA PlacesSeenNext ==
  ASSUME NEW r \in Requests
  PROVE  /\ req'[r].pc = "poll" => StatusOf'[r] = "waiting"
         /\ Holding(r)' => StatusOf'[r] = "forwarding"
         /\ req'[r].pc \in Outcomes => StatusOf'[r] = "ended"
  BY DEF StatusOf, Holding, Working, Outcomes

(* The request is finished without a command; or it is not finished and    *)
(* nothing is seen.                                                        *)
LEMMA QuietMove ==
  ASSUME WindowInv, UNCHANGED <<now, store>>, NEW r \in Requests,
         \A s \in Requests \ {r} : req'[s] = req[s],
         req'[r].got = req[r].got, req[r].pc \notin Outcomes,
         \/ req'[r].pc \in Outcomes
         \/ req'[r].pc = "poll" /\ req[r].pc = "poll"
         \/ Holding(r) /\ Holding(r)'
  PROVE  [Promise!Next]_Promise!vars
<1>1. UNCHANGED <<now, LeaseOf, GotOf>>
  BY SameLeases, SameGot
<1>2. CASE req'[r].pc \in Outcomes
  <2>1. StatusOf[r] # "ended" /\ StatusOf'[r] = "ended"
    BY <1>2, PlacesSeen, PlacesSeenNext DEF WindowInv
  <2>2. Promise!Becomes(r, "ended")
    BY <2>1, StatusOfMove
  <2>3. Promise!GiveUp(r)
    BY <1>1, <2>1, <2>2 DEF Promise!GiveUp
  <2>4. QED
    BY <1>1, <2>3 DEF Promise!Next
<1>3. CASE \/ req'[r].pc = "poll" /\ req[r].pc = "poll"
           \/ Holding(r) /\ Holding(r)'
  <2>1. StatusOf'[r] = StatusOf[r]
    BY <1>3, PlacesSeen, PlacesSeenNext
  <2>2. UNCHANGED StatusOf
    BY <2>1 DEF StatusOf, Holding
  <2>3. QED
    BY <1>1, <2>2 DEF Promise!vars
<1>4. QED
  BY <1>2, <1>3

(* ------------------------ one lemma per command ------------------------ *)

(* SET NX, for a handler or for nobody. *)
LEMMA ObtainRefines ==
  ASSUME WindowInv, UNCHANGED now, NEW r \in Requests,
         ObtainKey(r) \/ (ObtainFails(r) /\ Obtain(KeyOf[r]))
  PROVE  [Promise!Next]_Promise!vars
<1> DEFINE k == KeyOf[r]
<1>0. req \in [Requests -> [pc : {"new"} \cup Active \cup Outcomes,
                            held : BOOLEAN, since : Nat, left : Nat,
                            wake : Nat, got : Requests \cup {Nobody}]]
  BY DEF WindowInv, RedisTypeOK, HandlerTypeOK
<1>1. /\ \A s \in Requests \ {r} : req'[s] = req[s]
      /\ req[r].pc = "new" /\ req'[r].got = req[r].got
      /\ ~Present(k) /\ SetPx(k, Placeholder)
      /\ \/ req'[r].pc = "forward"
         \/ req'[r].pc = "failed"
  <2>1. ~Present(k) /\ SetPx(k, Placeholder) /\ req[r].pc = "new"
    BY DEF ObtainKey, ObtainFails, Obtain, GotKey, Arriving
  <2>2. CASE ObtainKey(r)
    BY <1>0, <2>1, <2>2 DEF ObtainKey, GotKey
  <2>3. CASE ObtainFails(r)
    BY <1>0, <2>1, <2>3 DEF ObtainFails, Goto
  <2>4. QED
    BY <2>2, <2>3
<1>2. k \in Keys /\ ~Promise!Running(k)
  BY <1>1, Facts, LeaseOfKey DEF WindowInv
<1>3. StatusOf[r] = "idle" /\ Promise!Grant(r, Nobody) /\ UNCHANGED GotOf
  BY <1>1, PlacesSeen, GrantPlaceholder, SameGot
<1>4. CASE req'[r].pc = "forward"
  <2>1. Promise!Becomes(r, "forwarding")
    BY <1>1, <1>4, PlacesSeenNext, StatusOfMove DEF Holding, Working
  <2>2. Promise!Forward(r)
    BY <1>2, <1>3, <2>1 DEF Promise!Forward
  <2>3. QED
    BY <2>2 DEF Promise!Next
<1>5. CASE req'[r].pc = "failed"
  <2>1. Promise!Becomes(r, "ended")
    BY <1>1, <1>5, PlacesSeenNext, StatusOfMove DEF Outcomes
  <2>2. Promise!Lose(r)
    BY <1>2, <1>3, <2>1 DEF Promise!Lose
  <2>3. QED
    BY <2>2 DEF Promise!Next
<1>6. QED
  BY <1>1, <1>4, <1>5

LEMMA DeniedRefines ==
  ASSUME WindowInv, UNCHANGED now, NEW r \in Requests, ObtainDenied(r)
  PROVE  [Promise!Next]_Promise!vars
<1> DEFINE k == KeyOf[r]
           n == TTL \div PollInterval
<1>1. /\ req[r].pc = "new" /\ UNCHANGED store /\ Present(k)
      /\ req' = [req EXCEPT ![r] = [@ EXCEPT !.pc = "poll", !.since = now,
                                             !.left = n, !.wake = now]]
  BY DEF ObtainDenied, KeyTaken, Arriving
<1> HIDE DEF n
<1>2. /\ \A s \in Requests \ {r} : req'[s] = req[s]
      /\ req'[r].pc = "poll" /\ req'[r].got = req[r].got
  BY <1>1 DEF WindowInv, RedisTypeOK, HandlerTypeOK
<1>3. k \in Keys /\ Promise!Running(k)
  BY <1>1, Facts, LeaseOfKey DEF WindowInv
<1>4. StatusOf[r] = "idle" /\ StatusOf'[r] = "waiting"
  BY <1>1, <1>2, PlacesSeen, PlacesSeenNext
<1>5. Promise!Becomes(r, "waiting") /\ UNCHANGED <<LeaseOf, GotOf>>
  BY <1>1, <1>2, <1>4, StatusOfMove, SameGot, SameLeases
<1>6. Promise!Wait(r)
  BY <1>3, <1>4, <1>5 DEF Promise!Wait
<1>7. QED
  BY <1>6 DEF Promise!Next

(* GET that finds a response. *)
LEMMA HitRefines ==
  ASSUME WindowInv, UNCHANGED <<now, store>>, NEW r \in Requests,
         Answered(KeyOf[r]), PollHit(r, store[KeyOf[r]].val)
  PROVE  [Promise!Next]_Promise!vars
<1> DEFINE k == KeyOf[r]
           v == store[k].val
<1>1. /\ req[r].pc = "poll"
      /\ req' = [req EXCEPT ![r] = [@ EXCEPT !.pc = "answered", !.got = v]]
  BY DEF PollHit, MayLook
<1>2. LeaseOf[k].answer = v /\ LeaseOf[k].answer # Nobody
  BY Facts, LeaseOfKey DEF WindowInv
<1> HIDE DEF v
<1>3. /\ \A s \in Requests \ {r} : req'[s] = req[s]
      /\ req'[r].pc = "answered" /\ req'[r].got = v
  BY <1>1 DEF WindowInv, RedisTypeOK, HandlerTypeOK
<1>4. StatusOf[r] = "waiting" /\ StatusOf'[r] = "ended"
  BY <1>1, <1>3, PlacesSeen, PlacesSeenNext DEF Outcomes
<1>5. /\ Promise!Becomes(r, "ended") /\ UNCHANGED LeaseOf
      /\ GotOf' = [GotOf EXCEPT ![r] = LeaseOf[k].answer]
  BY <1>2, <1>3, <1>4, StatusOfMove, SameLeases, GotOfMove
<1>6. Promise!Share(r)
  BY <1>2, <1>4, <1>5 DEF Promise!Share
<1>7. QED
  BY <1>6 DEF Promise!Next

(* SET XX of a response, whether or not its client hears of it. *)
LEMMA PublishRefines ==
  ASSUME WindowInv, LateHold < TTL, UNCHANGED now, NEW r \in Requests,
         Published(r) \/ PublishFails(r), SetPx(KeyOf[r], r)
  PROVE  [Promise!Next]_Promise!vars
<1> DEFINE k == KeyOf[r]
<1>0. req \in [Requests -> [pc : {"new"} \cup Active \cup Outcomes,
                            held : BOOLEAN, since : Nat, left : Nat,
                            wake : Nat, got : Requests \cup {Nobody}]]
  BY DEF WindowInv, RedisTypeOK, HandlerTypeOK
<1>1. /\ \A s \in Requests \ {r} : req'[s] = req[s]
      /\ req[r].pc = "publish" /\ Holding(r)
      /\ \/ req'[r].pc = "answered" /\ req'[r].got = r
         \/ req'[r].pc = "failed" /\ req'[r].got = req[r].got
  <2>1. CASE Published(r)
    BY <1>0, <2>1 DEF Published, Holding, Working
  <2>2. CASE PublishFails(r)
    BY <1>0, <2>2 DEF PublishFails, Goto, Holding, Working
  <2>3. QED
    BY <2>1, <2>2
<1>2. k \in Keys /\ Promise!Running(k) /\ LeaseOf[k].answer = Nobody
  BY <1>1, Facts, HeldLease, LeaseOfKey DEF WindowInv
<1>3. Promise!Grant(r, r)
  BY GrantOf
<1>4. StatusOf[r] = "forwarding" /\ StatusOf'[r] = "ended"
  BY <1>1, PlacesSeen, PlacesSeenNext DEF Outcomes
<1>5. /\ Promise!Becomes(r, "ended")
      /\ GotOf' = [GotOf EXCEPT ![r] = r] \/ UNCHANGED GotOf
  BY <1>1, <1>4, StatusOfMove, GotOfMove, SameGot
<1>6. Promise!Answer(r)
  BY <1>2, <1>3, <1>4, <1>5 DEF Promise!Answer
<1>7. QED
  BY <1>6 DEF Promise!Next

LEMMA DiscardRefines ==
  ASSUME WindowInv, LateHold < TTL, UNCHANGED now, NEW r \in Requests,
         Discarded(r), Del(KeyOf[r])
  PROVE  [Promise!Next]_Promise!vars
<1> DEFINE k == KeyOf[r]
<1>1. /\ \A s \in Requests \ {r} : req'[s] = req[s]
      /\ req[r].pc = "discard" /\ Holding(r)
      /\ req'[r].pc = "passed" /\ req'[r].got = req[r].got
  BY DEF Discarded, Goto, WindowInv, RedisTypeOK, HandlerTypeOK, Holding, Working
<1>2. k \in Keys /\ Promise!Running(k) /\ LeaseOf[k].answer = Nobody
  BY <1>1, Facts, HeldLease, LeaseOfKey DEF WindowInv
<1>3. LeaseOf' = [LeaseOf EXCEPT ![k] = Promise!Free]
  <2>1. NoValue \notin Values
    BY StoreAssumption
  <2>2. \A j \in Keys : LeaseOf'[j] = IF j = k THEN Promise!Free ELSE LeaseOf[j]
    BY <1>2, <2>1
    DEF LeaseOf, Del, Absent, Promise!Free, WindowInv, RedisTypeOK, StoreTypeOK
  <2>3. QED
    BY <1>2, <2>2 DEF LeaseOf
<1>4. StatusOf[r] = "forwarding" /\ StatusOf'[r] = "ended"
  BY <1>1, PlacesSeen, PlacesSeenNext DEF Outcomes
<1>5. Promise!Becomes(r, "ended") /\ UNCHANGED GotOf
  BY <1>1, <1>4, StatusOfMove, SameGot
<1>6. Promise!Release(r)
  BY <1>2, <1>3, <1>4, <1>5 DEF Promise!Release
<1>7. QED
  BY <1>6 DEF Promise!Next

(* Everything a handler does without a command of its own to the store. *)
LEMMA IdleRefines ==
  ASSUME WindowInv, UNCHANGED <<now, store>>, NEW r \in Requests,
         \/ Ask(r) \/ NoConnection(r) \/ StartPolling(r)
         \/ Poll(r) /\ ~(Answered(KeyOf[r]) /\ PollHit(r, store[KeyOf[r]].val))
         \/ ObtainFails(r) \/ PollFails(r) \/ PublishLost(r) \/ DiscardLost(r)
         \/ Leave(r) \/ Reject(r) \/ Forwarding(r)
  PROVE  [Promise!Next]_Promise!vars
<1> USE DEF Active, Working, Outcomes
<1>1. req \in [Requests -> [pc : {"new"} \cup Active \cup Outcomes,
                            held : BOOLEAN, since : Nat, left : Nat,
                            wake : Nat, got : Requests \cup {Nobody}]]
  BY DEF WindowInv, RedisTypeOK, HandlerTypeOK
<1>2. CASE UNCHANGED req
  <2>1. UNCHANGED <<now, LeaseOf, StatusOf, GotOf>>
    BY <1>2, SameLeases DEF StatusOf, GotOf, Holding
  <2>2. QED
    BY <2>1 DEF Promise!vars
<1>3. CASE PollAgain(r)
  <2> DEFINE n == req[r].left - 1
             w == now + PollInterval
  <2>1. /\ req[r].pc = "poll"
        /\ req' = [req EXCEPT ![r] = [@ EXCEPT !.left = n, !.wake = w]]
    BY <1>3 DEF PollAgain, MayLook
  <2> HIDE DEF n, w
  <2>2. /\ \A s \in Requests \ {r} : req'[s] = req[s]
        /\ req'[r].pc = "poll" /\ req'[r].got = req[r].got
    BY <1>1, <2>1
  <2>3. QED
    BY <2>1, <2>2, QuietMove
<1>4. CASE req[r].pc = "poll" /\ req' = [req EXCEPT ![r].wake = now]
  <2>1. /\ \A s \in Requests \ {r} : req'[s] = req[s]
        /\ req'[r].pc = "poll" /\ req'[r].got = req[r].got
    BY <1>1, <1>4
  <2>2. QED
    BY <1>4, <2>1, QuietMove
<1>5. CASE \E x \in Active \cup Outcomes :
             /\ req' = [req EXCEPT ![r].pc = x] /\ req[r].pc \notin Outcomes
             /\ x \in Outcomes \/ (Holding(r) /\ x \in Working)
  <2>1. PICK x \in Active \cup Outcomes :
          /\ req' = [req EXCEPT ![r].pc = x] /\ req[r].pc \notin Outcomes
          /\ x \in Outcomes \/ (Holding(r) /\ x \in Working)
    BY <1>5
  <2>2. /\ \A s \in Requests \ {r} : req'[s] = req[s]
        /\ req'[r].pc = x /\ req'[r].got = req[r].got
    BY <1>1, <2>1
  <2>3. QED
    BY <2>1, <2>2, QuietMove DEF Holding
<1>6. QED
  BY <1>2, <1>3, <1>4, <1>5
  DEF Ask, NoConnection, StartPolling, Poll, ObtainFails, PollFails, PublishLost, DiscardLost, Leave, Reject,
      Forwarding, Send, BadBody, UpstreamAnswers, UpstreamRefuses,
      UpstreamFails, PollMiss, PollTimeout, PublishFails, Discarded, Disconnect,
      Goto, Arriving, Holding

(* Every step of a handler is a step of its request. *)
LEMMA HandleRefines ==
  ASSUME WindowInv, LateHold < TTL, UNCHANGED now, NEW r \in Requests, Handle(r)
  PROVE  [Promise!Next]_Promise!vars
<1> DEFINE k == KeyOf[r]
<1>1. CASE ObtainKey(r) \/ (ObtainFails(r) /\ Obtain(k))
  BY <1>1, ObtainRefines
<1>2. CASE ObtainDenied(r)
  BY <1>2, DeniedRefines
<1>3. CASE Poll(r) /\ Answered(k) /\ PollHit(r, store[k].val)
  BY <1>3, HitRefines DEF Poll
<1>4. CASE (Published(r) \/ PublishFails(r)) /\ Set(k, r)
  <2>1. Holding(r)
    BY <1>4 DEF Published, PublishFails, Goto, Holding, Working
  <2>2. SetPx(k, r)
    BY <1>4, <2>1, HeldLease DEF Set
  <2>3. QED
    BY <1>4, <2>2, PublishRefines
<1>5. CASE Discarded(r) /\ Del(k)
  BY <1>5, DiscardRefines
<1>6. CASE UNCHANGED store /\ ~Publish(r) /\ ~Discard(r) /\ ~ObtainKey(r)
           /\ ~ObtainDenied(r)
           /\ ~(Poll(r) /\ Answered(k) /\ PollHit(r, store[k].val))
  BY <1>6, IdleRefines DEF Handle
<1>7. QED
  BY <1>1, <1>2, <1>3, <1>4, <1>5, <1>6
  DEF Handle, Ask, NoConnection, ObtainDenied, StartPolling, Poll, Publish,
      Discard, ObtainFails, PollFails, PublishLost, DiscardLost, Leave

(* The clock moves as it may: not past the end of a held lease. *)
LEMMA TickRefines ==
  ASSUME WindowInv, WindowInv', LateHold < TTL, Tick, UNCHANGED <<store, req>>
  PROVE  [Promise!Next]_Promise!vars
<1>1. UNCHANGED <<LeaseOf, StatusOf, GotOf>>
  BY SameLeases DEF StatusOf, GotOf, Holding
<1>2. ASSUME NEW r \in Requests, StatusOf[r] = "forwarding"
      PROVE  LeaseOf[KeyOf[r]].until > now'
  <2>1. Holding(r)
    BY <1>2 DEF StatusOf
  <2>2. /\ LeaseOf[KeyOf[r]].until = req[r].since + TTL
        /\ req[r].since + TTL = store[KeyOf[r]].expire
    BY <2>1, HeldLease, LeaseOfKey, Facts DEF WindowInv
  <2>3. HolderInTime(r)' /\ Holding(r)' /\ req'[r] = req[r]
    BY <2>1 DEF Holding, WindowInv, HeldInTime
  <2>4. now' < req[r].since + TTL
    <3>1. /\ now' \in Nat /\ req[r].since \in Nat /\ conn'[r].by \in Nat
      BY Facts, HandlerAssumption
      DEF WindowInv, RedisTypeOK, HandlerTypeOK
    <3>2. CASE conn'[r].pc = "none"
      BY <2>3, <3>1, <3>2, Durations DEF HolderInTime
    <3>3. CASE conn'[r].pc # "none"
      BY <2>3, <3>1, <3>3, Durations DEF HolderInTime
    <3>4. QED
      BY <3>2, <3>3
  <2>5. QED
    BY <2>2, <2>4, Facts, Durations DEF WindowInv, RedisTypeOK
<1>3. Promise!Tick
  BY DEF Tick, Promise!Tick
<1>4. QED
  BY <1>1, <1>2, <1>3 DEF Promise!Next

(* The proxy over Redis keeps the promise of Idempotency, for any number   *)
(* of requests, keys and connections, whatever commands are lost or        *)
(* carried out unseen.                                                     *)
THEOREM RedisProxyIsIdempotent ==
  ASSUME LateHold < TTL
  PROVE  RedisSpec => ImplementsIdempotency
<1>1. RedisInit => Promise!Init
  BY StoreAssumption
  DEF RedisInit, StoreInit, HandlerInit, Promise!Init, Promise!Free, LeaseOf,
      StatusOf, GotOf, Absent
<1>2. WindowInv /\ WindowInv' /\ [RedisNext]_redisVars
        => [Promise!Next]_Promise!vars
  <2> SUFFICES ASSUME WindowInv, WindowInv', [RedisNext]_redisVars
               PROVE  [Promise!Next]_Promise!vars
    OBVIOUS
  <2>1. ASSUME NEW r \in Requests, Handle(r), UNCHANGED now
        PROVE  [Promise!Next]_Promise!vars
    BY <2>1, HandleRefines
  <2>2. CASE Tick /\ PoolMayWait /\ UNCHANGED <<store, req, conn>>
    BY <2>2, TickRefines
  <2>3. CASE UNCHANGED redisVars
    BY <2>3, SameLeases
    DEF redisVars, Promise!vars, StatusOf, GotOf, Holding
  <2>4. QED
    BY <2>1, <2>2, <2>3 DEF RedisNext
<1>3. QED
  BY <1>1, <1>2, Windows, PTL
  DEF RedisSpec, ImplementsIdempotency, Promise!Spec

=============================================================================
