-------------------------- MODULE MemoryProxyProofs --------------------------
(***************************************************************************)
(* Theorems about MemoryProxy for any number of requests, keys and         *)
(* cleaning tasks and any durations.  Who is answered is answered right,   *)
(* whatever they are; the others take MaxHold < TTL, that a holder is done *)
(* before its lease ends.                                                  *)
(*                                                                         *)
(* OneForwardPerWindow is not inductive.  LeaseInv adds why it holds: the  *)
(* entry of a request that has obtained its key outlives the request's     *)
(* window (LeaseKept), because nobody else may write it while it is live   *)
(* and no sweep takes it, and no sweep takes it because no tag in the      *)
(* queue is stale (TagsMatch) and no cleaner is ahead of the clock.        *)
(*                                                                         *)
(* The last part is about MemoryProxyGuard, whose line before the map's    *)
(* lock delays what MemoryProxy lets happen at any moment: how long it     *)
(* may (DelayInv), and that nothing else changes.                          *)
(***************************************************************************)
EXTENDS MemoryProxyGuard, MemoryCacherProofs, SequenceTheorems,
        FiniteSetTheorems

TagsMatch == \A p \in pq : Stored(p[2]) /\ kv[p[2]].expire = p[1]

AbsentIsZero == \A k \in Keys : ~Stored(k) => kv[k].expire = 0

CleanersPast == \A c \in Cleaners : cleaner[c].at <= now

HeldInTime ==
  \A r \in Requests :
    /\ Holding(r) => req[r].held /\ now <= req[r].since + MaxHold
    /\ req[r].held => req[r].since <= now /\ req[r].pc # "new"

(* Until its window is over, the entry of a request that obtained the key  *)
(* and did not delete it is still running.                                 *)
LeaseKept ==
  \A r \in Requests :
    /\ req[r].held /\ req[r].pc # "passed"
    /\ now < req[r].since + TTL
    => kv[KeyOf[r]].expire >= req[r].since + TTL

LeaseInv == /\ ProxyTypeOK
            /\ TagsMatch /\ AbsentIsZero /\ CleanersPast
            /\ HeldInTime /\ LeaseKept
            /\ OwnLease /\ OneForwardPerWindow

(* What the answers rest on: a cached response was made for its key by a   *)
(* request that has answered its own client with it, not too long ago; the *)
(* entry a poller watches was running when the poller came, or is younger. *)
ResponsesMade ==
  \A k \in Keys :
    Answered(k) => /\ KeyOf[kv[k].val] = k
                   /\ req[kv[k].val].pc = "answered"
                   /\ req[kv[k].val].got = kv[k].val
                   /\ kv[k].expire <= req[kv[k].val].since + MaxHold + TTL

PollersSee ==
  \A r \in Requests :
    req[r].pc = "poll" =>
      /\ req[r].since <= now
      /\ Stored(KeyOf[r]) => kv[KeyOf[r]].expire > req[r].since

GotWhenAnswered ==
  \A r \in Requests : req[r].pc # "answered" => req[r].got = Nobody

AnswerInv == ResponsesMade /\ PollersSee /\ GotWhenAnswered /\ AnswersAgree

(* ------------------------------ the types ------------------------------ *)

(* Every step of a handler is a well-typed step of the cacher or leaves it *)
(* alone.                                                                  *)
LEMMA HandleCalls ==
  ASSUME NEW r \in Requests, Handle(r)
  PROVE  Call(KeyOf[r]) \/ UNCHANGED cacheVars
  BY ResponseAssumption
  DEF Handle, ObtainKey, ObtainDenied, Poll, Publish, Discard, Call

(* Every step of a handler keeps the requests well typed. *)
LEMMA HandleReqTypeOK ==
  ASSUME ProxyTypeOK, NEW r \in Requests, Handle(r)
  PROVE  HandlerTypeOK'
<1> USE DEF ProxyTypeOK, HandlerTypeOK, Active, Working, Outcomes
<1>1. CASE \E x \in Active \cup Outcomes : req' = [req EXCEPT ![r].pc = x]
  BY <1>1
<1>2. CASE GotKey(r)
  BY <1>2 DEF GotKey
<1>3. CASE KeyTaken(r)
  <2>1. TTL \div PollInterval \in Nat
    BY TimeAssumption, HandlerAssumption
  <2>2. QED
    BY <2>1, <1>3 DEF KeyTaken
<1>4. ASSUME PollHit(r, kv[KeyOf[r]].val), kv[KeyOf[r]].val \in Requests
      PROVE  HandlerTypeOK'
  BY <1>4 DEF PollHit
<1>5. CASE PollAgain(r)
  <2>1. now + PollInterval \in Nat /\ req[r].left - 1 \in Nat
    BY <1>5, HandlerAssumption DEF PollAgain, MayLook
  <2>2. QED
    BY <2>1, <1>5 DEF PollAgain
<1>6. CASE Published(r)
  BY <1>6 DEF Published
<1>7. QED
  BY <1>1, <1>2, <1>3, <1>4, <1>5, <1>6, ResponseAssumption
  DEF Handle, ObtainKey, ObtainDenied, Poll, Publish, Discard, Reject,
      PollTimeout, Forwarding, Disconnect, PollMiss, PublishFails, Discarded,
      Send, BadBody, UpstreamAnswers, UpstreamRefuses, UpstreamFails, Goto,
      Answered

(* A step of the proxy, but for how long the clock waits. *)
Step == \/ \E r \in Requests : Handle(r) /\ UNCHANGED now
        \/ UNCHANGED <<now, req>> /\ Clean
        \/ Tick /\ UNCHANGED <<cacheVars, req>>
        \/ UNCHANGED proxyVars

LEMMA StepTypes ==
  ASSUME ProxyTypeOK, Step
  PROVE  ProxyTypeOK'
<1>1. TypeOK
  BY DEF ProxyTypeOK, TypeOK
<1>2. ASSUME NEW r \in Requests, Handle(r), UNCHANGED now
      PROVE  ProxyTypeOK'
  <2>1. KeyOf[r] \in Keys
    BY HandlerAssumption
  <2>2. CacheTypeOK'
    BY <1>1, <1>2, <2>1, HandleCalls, CallTypeOK
    DEF cacheVars, TypeOK, CacheTypeOK
  <2>3. QED
    BY <1>2, <2>2, HandleReqTypeOK DEF ProxyTypeOK
<1>3. CASE UNCHANGED <<now, req>> /\ Clean
  BY <1>1, <1>3, CleanTypeOK DEF ProxyTypeOK, HandlerTypeOK
<1>4. CASE Tick /\ UNCHANGED <<cacheVars, req>>
  BY <1>4 DEF Tick, cacheVars, ProxyTypeOK, CacheTypeOK, HandlerTypeOK
<1>5. CASE UNCHANGED proxyVars
  BY <1>5 DEF proxyVars, cacheVars, ProxyTypeOK, CacheTypeOK, HandlerTypeOK
<1>6. QED
  BY <1>2, <1>3, <1>4, <1>5 DEF Step

(* The variables of the proxy always have their types. *)
THEOREM ProxyTypes == ProxySpec => []ProxyTypeOK
<1>1. ProxyInit => ProxyTypeOK
  BY DEF ProxyInit, CacheInit, HandlerInit, ProxyTypeOK, CacheTypeOK,
         HandlerTypeOK, Absent, Idle, Active, Working, Outcomes
<1>2. [ProxyNext]_proxyVars => Step
  BY DEF ProxyNext, Step
<1>3. QED
  BY <1>1, <1>2, StepTypes, PTL DEF ProxySpec

(* A step of a handler is its own: no other request moves. *)
LEMMA OneAtATime ==
  ASSUME ProxyTypeOK, NEW r \in Requests, Handle(r)
  PROVE  \A s \in Requests \ {r} : req'[s] = req[s]
  BY DEF ProxyTypeOK, HandlerTypeOK, Handle, ObtainKey, ObtainDenied, Poll,
         Publish, Discard, GotKey, KeyTaken, PollHit, PollMiss, PollAgain,
         Published, PublishFails, Discarded, Reject, PollTimeout, Forwarding,
         Disconnect, Send, BadBody, UpstreamAnswers, UpstreamRefuses,
         UpstreamFails, Goto

(* ------------------------------ the leases ----------------------------- *)

(* The types of LeaseInv, read off one request at a time. *)
LEMMA ReqTypes ==
  ASSUME ProxyTypeOK, NEW r \in Requests
  PROVE  /\ KeyOf[r] \in Keys
         /\ req[r].since \in Nat
         /\ kv[KeyOf[r]].expire \in Nat
         /\ now \in Nat /\ TTL \in Nat /\ TTL > 0 /\ MaxHold \in Nat
  BY TimeAssumption, HandlerAssumption
  DEF ProxyTypeOK, HandlerTypeOK, CacheTypeOK

(* A request in its window and a holder of the same key are one: two that  *)
(* obtained the key are TTL apart, and both are within TTL of now.         *)
LEMMA WindowHolder ==
  ASSUME LeaseInv, MaxHold < TTL,
         NEW r \in Requests, NEW s \in Requests, KeyOf[r] = KeyOf[s],
         Holding(r),
         req[s].held, req[s].pc # "passed", now < req[s].since + TTL
  PROVE  r = s
<1> SUFFICES ASSUME r # s PROVE FALSE
  OBVIOUS
<1>1. /\ req[r].since \in Nat /\ req[s].since \in Nat
      /\ now \in Nat /\ TTL \in Nat /\ TTL > 0 /\ MaxHold \in Nat
  BY ReqTypes DEF LeaseInv
<1>2. /\ req[r].held /\ req[r].pc # "passed"
      /\ req[r].since <= now /\ now <= req[r].since + MaxHold
      /\ req[s].since <= now
  BY DEF LeaseInv, HeldInTime, Holding, Working
<1>3. CASE req[s].since <= req[r].since
  <2>1. req[r].since >= req[s].since + TTL
    BY <1>2, <1>3 DEF LeaseInv, OneForwardPerWindow
  <2>2. QED
    BY <2>1, <1>1, <1>2
<1>4. CASE req[r].since <= req[s].since
  <2>1. req[s].since >= req[r].since + TTL
    BY <1>2, <1>4 DEF LeaseInv, OneForwardPerWindow
  <2>2. QED
    BY <2>1, <1>1, <1>2
<1>5. QED
  BY <1>1, <1>3, <1>4

LEMMA OneHolder ==
  ASSUME LeaseInv, MaxHold < TTL,
         NEW r \in Requests, NEW s \in Requests, KeyOf[r] = KeyOf[s],
         Holding(r), Holding(s)
  PROVE  r = s
<1>1. req[s].held /\ req[s].pc # "passed" /\ now <= req[s].since + MaxHold
  BY DEF LeaseInv, HeldInTime, Holding, Working
<1>2. now < req[s].since + TTL
  BY <1>1, ReqTypes DEF LeaseInv
<1>3. QED
  BY <1>1, <1>2, WindowHolder

(* A request in its window keeps its key live. *)
LEMMA WindowLive ==
  ASSUME LeaseInv, NEW r \in Requests,
         req[r].held, req[r].pc # "passed", now < req[r].since + TTL
  PROVE  Live(KeyOf[r])
<1>1. kv[KeyOf[r]].expire >= req[r].since + TTL
  BY DEF LeaseInv, LeaseKept
<1>2. kv[KeyOf[r]].expire > now /\ kv[KeyOf[r]].expire # 0
  BY <1>1, ReqTypes DEF LeaseInv
<1>3. QED
  BY <1>2, ReqTypes DEF LeaseInv, AbsentIsZero, Live

LEMMA HolderLive ==
  ASSUME LeaseInv, MaxHold < TTL, NEW r \in Requests, Holding(r)
  PROVE  Live(KeyOf[r])
<1>1. req[r].held /\ req[r].pc # "passed" /\ now <= req[r].since + MaxHold
  BY DEF LeaseInv, HeldInTime, Holding, Working
<1>2. now < req[r].since + TTL
  BY <1>1, ReqTypes DEF LeaseInv
<1>3. QED
  BY <1>1, <1>2, WindowLive

(* Restamping leaves no stale tag behind: the only tag of k was Tag(k). *)
LEMMA RestampMatches ==
  ASSUME TypeOK, TagsMatch, AbsentIsZero,
         NEW k \in Keys, NEW v \in Values \cup {Empty}, Restamp(k, v)
  PROVE  TagsMatch' /\ AbsentIsZero'
<1>1. kv' = [kv EXCEPT ![k] = [expire |-> now + TTL, val |-> v]]
  BY DEF Restamp
<1>2. v # NoValue
  BY ValueAssumption
<1>3. AbsentIsZero'
  BY <1>1, <1>2 DEF AbsentIsZero, Stored, TypeOK, CacheTypeOK
<1>4. ASSUME NEW p \in pq' PROVE Stored(p[2])' /\ kv'[p[2]].expire = p[1]
  <2>1. CASE p = <<now + TTL, k>>
    BY <2>1, <1>1, <1>2 DEF Stored, TypeOK, CacheTypeOK
  <2>2. CASE p \in pq /\ p # Tag(k)
    <3>1. p = <<p[1], p[2]>> /\ p[2] \in Keys
      BY <2>2 DEF TypeOK, CacheTypeOK
    <3>2. Stored(p[2]) /\ kv[p[2]].expire = p[1]
      BY <2>2 DEF TagsMatch
    <3>3. p[2] # k
      BY <2>2, <3>1, <3>2 DEF Tag
    <3>4. kv'[p[2]] = kv[p[2]]
      BY <1>1, <3>1, <3>3 DEF TypeOK, CacheTypeOK
    <3>5. QED
      BY <3>2, <3>4 DEF Stored
  <2>3. QED
    BY <2>1, <2>2 DEF Restamp
<1>5. QED
  BY <1>3, <1>4 DEF TagsMatch

(* A step that leaves the map, the queue and the clock alone, and moves one *)
(* request without making it a holder.                                     *)
LEMMA BystanderLease ==
  ASSUME LeaseInv, ProxyTypeOK', UNCHANGED <<now, kv, pq>>,
         \A c \in Cleaners : cleaner'[c].at <= now,
         NEW r \in Requests,
         \A s \in Requests \ {r} : req'[s] = req[s],
         req'[r].held = req[r].held,
         req[r].held => req'[r].since = req[r].since /\ req'[r].pc # "new",
         req[r].pc # "passed",
         Holding(r)' => Holding(r)
  PROVE  LeaseInv'
<1>1. TagsMatch' /\ AbsentIsZero'
  BY DEF LeaseInv, TagsMatch, AbsentIsZero, Stored
<1>2. CleanersPast'
  BY DEF CleanersPast
<1>3. ASSUME NEW s \in Requests, req'[s].held
      PROVE  /\ req[s].held /\ req'[s].since = req[s].since
             /\ req'[s].pc # "new"
             /\ req'[s].pc # "passed" => req[s].pc # "passed"
  BY <1>3 DEF LeaseInv, HeldInTime
<1>4. ASSUME NEW s \in Requests, Holding(s)'
      PROVE  Holding(s) /\ req'[s].held /\ req'[s].since = req[s].since
  BY <1>4 DEF LeaseInv, HeldInTime, Holding
<1>5. HeldInTime'
  BY <1>3, <1>4 DEF LeaseInv, HeldInTime
<1>6. LeaseKept'
  BY <1>3 DEF LeaseInv, LeaseKept
<1>7. OwnLease'
  BY <1>4 DEF LeaseInv, OwnLease
<1>8. OneForwardPerWindow'
  BY <1>3 DEF LeaseInv, OneForwardPerWindow
<1>9. QED
  BY <1>1, <1>2, <1>5, <1>6, <1>7, <1>8 DEF LeaseInv

(* Spawning a cleaner sets no clock ahead. *)
LEMMA SpawnPast ==
  ASSUME LeaseInv, Spawn \/ UNCHANGED cleaner
  PROVE  \A c \in Cleaners : cleaner'[c].at <= now
<1>1. CASE UNCHANGED cleaner
  BY <1>1 DEF LeaseInv, CleanersPast
<1>2. CASE Spawn
  BY <1>2 DEF Spawn, LeaseInv, CleanersPast, ProxyTypeOK, CacheTypeOK
<1>3. QED
  BY <1>1, <1>2

(* Obtaining a key starts a window: nobody else's can still be running. *)
LEMMA ObtainLease ==
  ASSUME LeaseInv, MaxHold < TTL, ProxyTypeOK', UNCHANGED now,
         NEW r \in Requests, ObtainKey(r)
  PROVE  LeaseInv'
<1> DEFINE k == KeyOf[r]
<1>1. /\ ~Live(k) /\ Restamp(k, Empty) /\ UNCHANGED cleaner
      /\ req[r].pc = "new"
      /\ req' = [req EXCEPT ![r] = [@ EXCEPT !.pc = "forward", !.held = TRUE,
                                             !.since = now]]
  BY DEF ObtainKey, Obtain, GotKey, Arriving
<1>2. /\ \A s \in Requests \ {r} : req'[s] = req[s]
      /\ req'[r].pc = "forward" /\ req'[r].held /\ req'[r].since = now
  BY <1>1 DEF LeaseInv, ProxyTypeOK, HandlerTypeOK
<1>3. TypeOK /\ k \in Keys
  BY ReqTypes DEF LeaseInv, ProxyTypeOK, TypeOK
<1>4. TagsMatch' /\ AbsentIsZero'
  BY <1>1, <1>3, RestampMatches DEF LeaseInv
<1>5. CleanersPast'
  BY <1>1 DEF LeaseInv, CleanersPast
<1>6. /\ kv'[k] = [expire |-> now + TTL, val |-> Empty]
      /\ \A j \in Keys \ {k} : kv'[j] = kv[j]
  BY <1>1, <1>3 DEF Restamp, TypeOK, CacheTypeOK
<1>7. ASSUME NEW s \in Requests, req[s].held, req[s].pc # "passed",
             KeyOf[s] = k
      PROVE  now >= req[s].since + TTL
  BY <1>1, <1>7, WindowLive, ReqTypes DEF LeaseInv
<1>8. HeldInTime'
  BY <1>2, ReqTypes DEF LeaseInv, HeldInTime, Holding
<1>9. LeaseKept'
  <2> SUFFICES ASSUME NEW s \in Requests, req'[s].held, req'[s].pc # "passed",
                      now < req'[s].since + TTL
               PROVE  kv'[KeyOf[s]].expire >= req'[s].since + TTL
    BY DEF LeaseKept
  <2>1. CASE s = r
    BY <2>1, <1>2, <1>6, ReqTypes DEF LeaseInv
  <2>2. CASE s # r
    <3>1. KeyOf[s] # k
      BY <2>2, <1>2, <1>7, ReqTypes DEF LeaseInv
    <3>2. QED
      BY <3>1, <2>2, <1>2, <1>6, ReqTypes DEF LeaseInv, LeaseKept
  <2>3. QED
    BY <2>1, <2>2
<1>10. OwnLease'
  <2> SUFFICES ASSUME NEW s \in Requests, Holding(s)'
               PROVE  kv'[KeyOf[s]] = [expire |-> req'[s].since + TTL,
                                       val |-> Empty]
    BY DEF OwnLease
  <2>1. CASE s = r
    BY <2>1, <1>2, <1>6
  <2>2. CASE s # r
    <3>1. Holding(s)
      BY <2>2, <1>2 DEF Holding
    <3>2. KeyOf[s] # k
      BY <3>1, <1>1, HolderLive
    <3>3. QED
      BY <3>1, <3>2, <2>2, <1>2, <1>6, ReqTypes DEF LeaseInv, OwnLease
  <2>3. QED
    BY <2>1, <2>2
<1>11. OneForwardPerWindow'
  <2> SUFFICES ASSUME NEW s \in Requests, NEW t \in Requests, s # t,
                      KeyOf[s] = KeyOf[t], req'[s].held, req'[t].held,
                      req'[s].since <= req'[t].since,
                      req'[s].pc # "passed", req'[t].pc # "passed"
               PROVE  req'[t].since >= req'[s].since + TTL
    BY DEF OneForwardPerWindow
  <2>1. CASE t = r
    BY <2>1, <1>2, <1>7
  <2>2. CASE s = r
    BY <2>2, <1>2, <1>7, ReqTypes DEF LeaseInv
  <2>3. CASE s # r /\ t # r
    BY <2>3, <1>2 DEF LeaseInv, OneForwardPerWindow
  <2>4. QED
    BY <2>1, <2>2, <2>3
<1>12. QED
  BY <1>4, <1>5, <1>8, <1>9, <1>10, <1>11 DEF LeaseInv

(* A holder publishes in time: its set() finds its own lease running, and  *)
(* prolongs it.                                                            *)
LEMMA PublishLease ==
  ASSUME LeaseInv, MaxHold < TTL, ProxyTypeOK', UNCHANGED now,
         NEW r \in Requests, Publish(r)
  PROVE  LeaseInv' /\ Published(r) /\ SetLive(KeyOf[r], r)
<1> DEFINE k == KeyOf[r]
<1>1. Holding(r) /\ req[r].pc = "publish"
  BY DEF Publish, Published, PublishFails, Goto, Holding, Working
<1>2. Live(k)
  BY <1>1, HolderLive
<1>3. Published(r) /\ SetLive(k, r)
  BY <1>2 DEF Publish, SetExpired, SetMissing, Live
<1>4. /\ Restamp(k, r) /\ UNCHANGED cleaner
      /\ req' = [req EXCEPT ![r] = [@ EXCEPT !.pc = "answered", !.got = r]]
  BY <1>3 DEF SetLive, Published
<1>5. /\ \A s \in Requests \ {r} : req'[s] = req[s]
      /\ req'[r].pc = "answered" /\ req'[r].held = req[r].held
      /\ req'[r].since = req[r].since
  BY <1>4 DEF LeaseInv, ProxyTypeOK, HandlerTypeOK
<1>6. TypeOK /\ k \in Keys /\ r \in Values
  BY ReqTypes, ResponseAssumption DEF LeaseInv, ProxyTypeOK, TypeOK
<1>7. TagsMatch' /\ AbsentIsZero'
  BY <1>4, <1>6, RestampMatches DEF LeaseInv
<1>8. CleanersPast'
  BY <1>4 DEF LeaseInv, CleanersPast
<1>9. /\ kv'[k] = [expire |-> now + TTL, val |-> r]
      /\ \A j \in Keys \ {k} : kv'[j] = kv[j]
  BY <1>4, <1>6 DEF Restamp, TypeOK, CacheTypeOK
<1>10. HeldInTime'
  BY <1>5 DEF LeaseInv, HeldInTime, Holding, Working
<1>11. LeaseKept'
  <2> SUFFICES ASSUME NEW s \in Requests, req'[s].held, req'[s].pc # "passed",
                      now < req'[s].since + TTL
               PROVE  kv'[KeyOf[s]].expire >= req'[s].since + TTL
    BY DEF LeaseKept
  <2>1. /\ req[s].held /\ req[s].pc # "passed" /\ req'[s].since = req[s].since
    BY <1>1, <1>5
  <2>2. req[s].since <= now
    BY <2>1 DEF LeaseInv, HeldInTime
  <2>3. CASE KeyOf[s] = k
    BY <2>1, <2>2, <2>3, <1>9, ReqTypes DEF LeaseInv
  <2>4. CASE KeyOf[s] # k
    BY <2>1, <2>4, <1>9, ReqTypes DEF LeaseInv, LeaseKept
  <2>5. QED
    BY <2>3, <2>4
<1>12. OwnLease'
  <2> SUFFICES ASSUME NEW s \in Requests, Holding(s)'
               PROVE  kv'[KeyOf[s]] = [expire |-> req'[s].since + TTL,
                                       val |-> Empty]
    BY DEF OwnLease
  <2>1. s # r /\ Holding(s)
    BY <1>5 DEF Holding, Working
  <2>2. KeyOf[s] # k
    BY <2>1, <1>1, OneHolder
  <2>3. QED
    BY <2>1, <2>2, <1>5, <1>9, ReqTypes DEF LeaseInv, OwnLease
<1>13. OneForwardPerWindow'
  BY <1>1, <1>5 DEF LeaseInv, OneForwardPerWindow
<1>14. QED
  BY <1>3, <1>7, <1>8, <1>10, <1>11, <1>12, <1>13 DEF LeaseInv

(* A holder that deletes its key ends its own window and no other.         *)
LEMMA DiscardLease ==
  ASSUME LeaseInv, MaxHold < TTL, ProxyTypeOK', UNCHANGED now,
         NEW r \in Requests, Discard(r)
  PROVE  LeaseInv'
<1> DEFINE k == KeyOf[r]
<1>1. /\ Holding(r) /\ req[r].pc = "discard"
      /\ req' = [req EXCEPT ![r].pc = "passed"]
      /\ kv' = [kv EXCEPT ![k] = Absent] /\ pq' = pq \ {Tag(k)} /\ Spawn
  BY DEF Discard, Discarded, Del, Goto, Holding, Working
<1>2. /\ \A s \in Requests \ {r} : req'[s] = req[s]
      /\ req'[r].pc = "passed" /\ req'[r].held = req[r].held
      /\ req'[r].since = req[r].since
  BY <1>1 DEF LeaseInv, ProxyTypeOK, HandlerTypeOK
<1>3. /\ kv'[k] = Absent
      /\ \A j \in Keys \ {k} : kv'[j] = kv[j]
  BY <1>1, ReqTypes DEF LeaseInv, ProxyTypeOK, CacheTypeOK
<1>4. AbsentIsZero'
  BY <1>3 DEF LeaseInv, AbsentIsZero, Stored, Absent
<1>5. TagsMatch'
  <2> SUFFICES ASSUME NEW p \in pq'
               PROVE  Stored(p[2])' /\ kv'[p[2]].expire = p[1]
    BY DEF TagsMatch
  <2>1. p \in pq /\ p # Tag(k) /\ p = <<p[1], p[2]>> /\ p[2] \in Keys
    BY <1>1 DEF LeaseInv, ProxyTypeOK, CacheTypeOK
  <2>2. Stored(p[2]) /\ kv[p[2]].expire = p[1]
    BY <2>1 DEF LeaseInv, TagsMatch
  <2>3. p[2] # k
    BY <2>1, <2>2 DEF Tag
  <2>4. QED
    BY <2>1, <2>2, <2>3, <1>3 DEF Stored
<1>6. CleanersPast'
  BY <1>1, SpawnPast DEF CleanersPast
<1>7. HeldInTime'
  BY <1>2 DEF LeaseInv, HeldInTime, Holding, Working
<1>8. LeaseKept'
  <2> SUFFICES ASSUME NEW s \in Requests, req'[s].held, req'[s].pc # "passed",
                      now < req'[s].since + TTL
               PROVE  kv'[KeyOf[s]].expire >= req'[s].since + TTL
    BY DEF LeaseKept
  <2>1. s # r /\ req'[s] = req[s]
    BY <1>2
  <2>2. KeyOf[s] # k
    BY <2>1, <1>1, WindowHolder
  <2>3. QED
    BY <2>1, <2>2, <1>3, ReqTypes DEF LeaseInv, LeaseKept
<1>9. OwnLease'
  <2> SUFFICES ASSUME NEW s \in Requests, Holding(s)'
               PROVE  kv'[KeyOf[s]] = [expire |-> req'[s].since + TTL,
                                       val |-> Empty]
    BY DEF OwnLease
  <2>1. s # r /\ Holding(s) /\ req'[s] = req[s]
    BY <1>2 DEF Holding, Working
  <2>2. KeyOf[s] # k
    BY <2>1, <1>1, OneHolder
  <2>3. QED
    BY <2>1, <2>2, <1>3, ReqTypes DEF LeaseInv, OwnLease
<1>10. OneForwardPerWindow'
  BY <1>2 DEF LeaseInv, OneForwardPerWindow
<1>11. QED
  BY <1>4, <1>5, <1>6, <1>7, <1>8, <1>9, <1>10 DEF LeaseInv

(* A sweep takes no live entry: the tags it goes by are not stale, and it  *)
(* goes by a time that has passed.                                         *)
LEMMA SweepExpired ==
  ASSUME LeaseInv, NEW c \in Cleaners, Sweep(c), NEW k \in Keys, Live(k)
  PROVE  kv'[k] = kv[k]
<1>1. kv' = [j \in Keys |-> IF \E p \in Due(cleaner[c].at) : p[2] = j
                            THEN Absent ELSE kv[j]]
  BY DEF Sweep
<1>2. ASSUME NEW p \in Due(cleaner[c].at), p[2] = k PROVE FALSE
  <2>1. p \in pq /\ p[1] <= cleaner[c].at
    BY DEF Due
  <2>2. kv[k].expire = p[1]
    BY <2>1, <1>2 DEF LeaseInv, TagsMatch
  <2>3. cleaner[c].at <= now /\ cleaner[c].at \in Nat /\ now \in Nat
        /\ kv[k].expire \in Nat
    BY DEF LeaseInv, CleanersPast, ProxyTypeOK, CacheTypeOK
  <2>4. kv[k].expire > now
    BY DEF Live
  <2>5. QED
    BY <2>1, <2>2, <2>3, <2>4
<1>3. QED
  BY <1>1, <1>2

(* The cleaning tasks keep every lease. *)
LEMMA CleanLease ==
  ASSUME LeaseInv, MaxHold < TTL, ProxyTypeOK', UNCHANGED <<now, req>>, Clean
  PROVE  LeaseInv'
<1>1. PICK c \in Cleaners : Arm(c) \/ Sweep(c)
  BY DEF Clean
<1>2. HeldInTime' /\ OneForwardPerWindow'
  BY DEF LeaseInv, HeldInTime, OneForwardPerWindow, Holding
<1>3. CASE Arm(c)
  <2>1. CleanersPast'
    BY <1>3 DEF Arm, LeaseInv, CleanersPast, ProxyTypeOK, CacheTypeOK
  <2>2. UNCHANGED <<kv, pq>>
    BY <1>3 DEF Arm
  <2>3. TagsMatch' /\ AbsentIsZero' /\ LeaseKept' /\ OwnLease'
    BY <2>2 DEF LeaseInv, TagsMatch, AbsentIsZero, LeaseKept, OwnLease,
                Stored, Holding
  <2>4. QED
    BY <1>2, <2>1, <2>3 DEF LeaseInv
<1>4. CASE Sweep(c)
  <2> DEFINE due == Due(cleaner[c].at)
  <2>1. /\ pq' = pq \ due
        /\ kv' = [k \in Keys |->
                    IF \E p \in due : p[2] = k THEN Absent ELSE kv[k]]
        /\ cleaner' = [cleaner EXCEPT ![c] = Idle]
    BY <1>4 DEF Sweep
  <2>2. CleanersPast'
    BY <2>1 DEF LeaseInv, CleanersPast, ProxyTypeOK, CacheTypeOK, Idle
  <2>3. AbsentIsZero'
    BY <2>1 DEF LeaseInv, AbsentIsZero, Stored, Absent
  <2>4. TagsMatch'
    <3> SUFFICES ASSUME NEW p \in pq'
                 PROVE  Stored(p[2])' /\ kv'[p[2]].expire = p[1]
      BY DEF TagsMatch
    <3>1. p \in pq /\ p \notin due /\ p = <<p[1], p[2]>> /\ p[2] \in Keys
      BY <2>1 DEF LeaseInv, ProxyTypeOK, CacheTypeOK
    <3>2. Stored(p[2]) /\ kv[p[2]].expire = p[1]
      BY <3>1 DEF LeaseInv, TagsMatch
    <3>3. ASSUME NEW q \in due, q[2] = p[2] PROVE FALSE
      <4>1. q \in pq /\ q = <<q[1], q[2]>>
        BY DEF Due, LeaseInv, ProxyTypeOK, CacheTypeOK
      <4>2. kv[q[2]].expire = q[1]
        BY <4>1 DEF LeaseInv, TagsMatch
      <4>3. QED
        BY <3>1, <3>2, <3>3, <4>1, <4>2
    <3>4. kv'[p[2]] = kv[p[2]]
      BY <2>1, <3>1, <3>3
    <3>5. QED
      BY <3>2, <3>4 DEF Stored
  <2>5. LeaseKept'
    <3> SUFFICES ASSUME NEW s \in Requests, req[s].held, req[s].pc # "passed",
                        now < req[s].since + TTL
                 PROVE  kv'[KeyOf[s]].expire >= req[s].since + TTL
      BY DEF LeaseKept
    <3>1. kv'[KeyOf[s]] = kv[KeyOf[s]]
      BY <1>4, WindowLive, SweepExpired, ReqTypes DEF LeaseInv
    <3>2. QED
      BY <3>1 DEF LeaseInv, LeaseKept
  <2>6. OwnLease'
    <3> SUFFICES ASSUME NEW s \in Requests, Holding(s)
                 PROVE  kv'[KeyOf[s]] = [expire |-> req[s].since + TTL,
                                         val |-> Empty]
      BY DEF OwnLease, Holding
    <3>1. kv'[KeyOf[s]] = kv[KeyOf[s]]
      BY <1>4, HolderLive, SweepExpired, ReqTypes DEF LeaseInv
    <3>2. QED
      BY <3>1 DEF LeaseInv, OwnLease
  <2>7. QED
    BY <1>2, <2>2, <2>3, <2>4, <2>5, <2>6 DEF LeaseInv
<1>5. QED
  BY <1>1, <1>3, <1>4

(* Time passes for a holder only while MaxHold allows. *)
LEMMA TickLease ==
  ASSUME LeaseInv, ProxyTypeOK', Tick, MayWait, UNCHANGED <<cacheVars, req>>
  PROVE  LeaseInv'
<1>1. now' = now + 1 /\ UNCHANGED <<kv, pq, cleaner, req>>
  BY DEF Tick, cacheVars
<1>2. now \in Nat
  BY DEF LeaseInv, ProxyTypeOK
<1>3. TagsMatch' /\ AbsentIsZero' /\ OwnLease' /\ OneForwardPerWindow'
  BY <1>1 DEF LeaseInv, TagsMatch, AbsentIsZero, OwnLease,
              OneForwardPerWindow, Stored, Holding
<1>4. CleanersPast'
  BY <1>1, <1>2 DEF LeaseInv, CleanersPast, ProxyTypeOK, CacheTypeOK
<1>5. HeldInTime'
  BY <1>1, <1>2, ReqTypes DEF LeaseInv, HeldInTime, Holding, MayWait
<1>6. LeaseKept'
  BY <1>1, <1>2, ReqTypes DEF LeaseInv, LeaseKept
<1>7. QED
  BY <1>3, <1>4, <1>5, <1>6 DEF LeaseInv

(* Every step of a handler keeps the leases. *)
LEMMA HandleLease ==
  ASSUME LeaseInv, MaxHold < TTL, ProxyTypeOK', UNCHANGED now,
         NEW r \in Requests, Handle(r)
  PROVE  LeaseInv'
<1>1. CASE ObtainKey(r)
  BY <1>1, ObtainLease
<1>2. CASE ObtainDenied(r)
  <2>1. /\ UNCHANGED <<kv, pq, cleaner>> /\ req[r].pc = "new"
        /\ req' = [req EXCEPT ![r] = [@ EXCEPT !.pc = "poll", !.since = now,
                                               !.left = TTL \div PollInterval,
                                               !.wake = now]]
    BY <1>2 DEF ObtainDenied, KeyTaken, Arriving, cacheVars
  <2>2. /\ \A s \in Requests \ {r} : req'[s] = req[s]
        /\ req'[r].pc = "poll" /\ req'[r].held = req[r].held
    BY <2>1 DEF LeaseInv, ProxyTypeOK, HandlerTypeOK
  <2>3. ~req[r].held /\ ~Holding(r)'
    BY <2>1, <2>2 DEF LeaseInv, HeldInTime, Holding, Working
  <2>4. \A c \in Cleaners : cleaner'[c].at <= now
    BY <2>1, SpawnPast
  <2>5. QED
    BY <2>1, <2>2, <2>3, <2>4, BystanderLease
<1>3. CASE Poll(r)
  <2>1. /\ UNCHANGED <<kv, pq>> /\ (Spawn \/ UNCHANGED cleaner)
    BY <1>3 DEF Poll, Look
  <2>2. \A c \in Cleaners : cleaner'[c].at <= now
    BY <2>1, SpawnPast
  <2>3. /\ \A s \in Requests \ {r} : req'[s] = req[s]
        /\ req[r].pc = "poll"
        /\ req'[r].pc \in {"missed", "answered", "poll"}
        /\ req'[r].held = req[r].held /\ req'[r].since = req[r].since
    <3>1. req \in [Requests -> [pc : {"new"} \cup Active \cup Outcomes,
                                held : BOOLEAN, since : Nat, left : Nat,
                                wake : Nat, got : Requests \cup {Nobody}]]
      BY DEF LeaseInv, ProxyTypeOK, HandlerTypeOK
    <3>2. CASE PollMiss(r)
      BY <3>1, <3>2 DEF PollMiss, MayLook, Goto
    <3>3. CASE PollHit(r, kv[KeyOf[r]].val)
      BY <3>1, <3>3 DEF PollHit, MayLook
    <3>4. CASE PollAgain(r)
      BY <3>1, <3>4 DEF PollAgain, MayLook
    <3>5. QED
      BY <1>3, <3>2, <3>3, <3>4 DEF Poll
  <2>4. ~Holding(r)'
    BY <2>3 DEF Holding, Working
  <2>5. QED
    BY <2>1, <2>2, <2>3, <2>4, BystanderLease
<1>4. CASE Publish(r)
  BY <1>4, PublishLease
<1>5. CASE Discard(r)
  BY <1>5, DiscardLease
<1>6. CASE UNCHANGED cacheVars /\ (Reject(r) \/ PollTimeout(r)
                                   \/ Forwarding(r) \/ Disconnect(r))
  <2>1. UNCHANGED <<kv, pq, cleaner>>
    BY <1>6 DEF cacheVars
  <2>2. \A c \in Cleaners : cleaner'[c].at <= now
    BY <2>1, SpawnPast
  <2>3. /\ \A s \in Requests \ {r} : req'[s] = req[s]
        /\ req'[r].held = req[r].held /\ req'[r].since = req[r].since
        /\ req[r].pc # "passed" /\ req'[r].pc # "new"
        /\ req'[r].pc \in Working => req[r].pc \in Working
    BY <1>6 DEF Reject, PollTimeout, Forwarding, Disconnect, Send, BadBody,
                UpstreamAnswers, UpstreamRefuses, UpstreamFails, Goto,
                LeaseInv, ProxyTypeOK, HandlerTypeOK, Active, Working
  <2>4. Holding(r)' => Holding(r)
    BY <2>3 DEF Holding
  <2>5. QED
    BY <2>1, <2>2, <2>3, <2>4, BystanderLease
<1>7. QED
  BY <1>1, <1>2, <1>3, <1>4, <1>5, <1>6 DEF Handle

(* No lease runs at the start. *)
LEMMA InitLease == ProxyInit => LeaseInv
<1> SUFFICES ASSUME ProxyInit PROVE LeaseInv
  OBVIOUS
<1>1. ProxyTypeOK
  BY DEF ProxyInit, CacheInit, HandlerInit, ProxyTypeOK, CacheTypeOK,
         HandlerTypeOK, Absent, Idle, Active, Working, Outcomes
<1>2. TagsMatch /\ AbsentIsZero /\ CleanersPast
  BY DEF ProxyInit, CacheInit, Absent, Idle, TagsMatch, AbsentIsZero,
         CleanersPast, Stored
<1>3. \A r \in Requests : ~req[r].held /\ ~Holding(r)
  BY DEF ProxyInit, HandlerInit, Holding, Working
<1>4. HeldInTime /\ LeaseKept /\ OwnLease /\ OneForwardPerWindow
  BY <1>3 DEF HeldInTime, LeaseKept, OwnLease, OneForwardPerWindow
<1>5. QED
  BY <1>1, <1>2, <1>4 DEF LeaseInv

(* Every step of the proxy keeps the leases. *)
LEMMA NextLease ==
  ASSUME LeaseInv, MaxHold < TTL, ProxyTypeOK', [ProxyNext]_proxyVars
  PROVE  LeaseInv'
<1>1. ASSUME NEW r \in Requests, Handle(r), UNCHANGED now
      PROVE  LeaseInv'
  BY <1>1, HandleLease
<1>2. CASE UNCHANGED <<now, req>> /\ Clean
  BY <1>2, CleanLease
<1>3. CASE Tick /\ MayWait /\ UNCHANGED <<cacheVars, req>>
  BY <1>3, TickLease
<1>4. CASE UNCHANGED proxyVars
  BY <1>4 DEF proxyVars, cacheVars, LeaseInv, ProxyTypeOK, TagsMatch,
              AbsentIsZero, CleanersPast, HeldInTime, LeaseKept, OwnLease,
              OneForwardPerWindow, Stored, Holding
<1>5. QED
  BY <1>1, <1>2, <1>3, <1>4 DEF ProxyNext

(* With holders in time, LeaseInv is an invariant of the proxy. *)
THEOREM Leases ==
  ASSUME MaxHold < TTL
  PROVE  ProxySpec => []LeaseInv
<1>1. ProxyInit => LeaseInv
  BY InitLease
<1>2. LeaseInv /\ ProxyTypeOK' /\ [ProxyNext]_proxyVars => LeaseInv'
  BY NextLease
<1>3. QED
  BY <1>1, <1>2, ProxyTypes, PTL DEF ProxySpec

(* One upstream call per key and window, for any number of concurrent      *)
(* requests: what README.md:10 promises.                                   *)
THEOREM OneForward ==
  ASSUME MaxHold < TTL
  PROVE  ProxySpec => []OneForwardPerWindow
<1>1. LeaseInv => OneForwardPerWindow
  BY DEF LeaseInv
<1>2. QED
  BY <1>1, Leases, PTL

(* A holder's lease is its own until it publishes or deletes it. *)
THEOREM LeaseIsOwn ==
  ASSUME MaxHold < TTL
  PROVE  ProxySpec => []OwnLease
<1>1. LeaseInv => OwnLease
  BY DEF LeaseInv
<1>2. QED
  BY <1>1, Leases, PTL

(* With holders in time set() never finds an expired entry, no tag goes    *)
(* stale, and no sweep takes an entry that is still running.               *)
THEOREM SweepsSpareLive ==
  ASSUME MaxHold < TTL
  PROVE  ProxySpec => SweepSparesLive
<1>1. LeaseInv => \A c \in Cleaners :
                    Sweep(c) => \A k \in Keys : Live(k) => kv'[k] = kv[k]
  BY SweepExpired
<1>2. QED
  BY <1>1, Leases, PTL DEF SweepSparesLive

(* ------------------------------ the answers ---------------------------- *)

(* That holders are done after MaxHold is all the answers need of the      *)
(* times: they agree also when leases are outlived.                        *)
InTimeInv == ProxyTypeOK /\ HeldInTime

LEMMA HandleInTime ==
  ASSUME InTimeInv, UNCHANGED now, NEW r \in Requests, Handle(r)
  PROVE  HeldInTime'
<1>1. req \in [Requests -> [pc : {"new"} \cup Active \cup Outcomes,
                            held : BOOLEAN, since : Nat, left : Nat,
                            wake : Nat, got : Requests \cup {Nobody}]]
  BY DEF InTimeInv, ProxyTypeOK, HandlerTypeOK
<1>2. \A s \in Requests \ {r} : req'[s] = req[s]
  BY OneAtATime DEF InTimeInv
<1>3. /\ Holding(r) => req[r].held /\ now <= req[r].since + MaxHold
      /\ req[r].held => req[r].since <= now /\ req[r].pc # "new"
      /\ now \in Nat /\ MaxHold \in Nat
  BY ReqTypes DEF InTimeInv, HeldInTime
<1>4. /\ Holding(r)' => req'[r].held /\ now <= req'[r].since + MaxHold
      /\ req'[r].held => req'[r].since <= now /\ req'[r].pc # "new"
  <2>1. CASE ObtainKey(r)
    <3>1. /\ req'[r].pc = "forward" /\ req'[r].held /\ req'[r].since = now
      BY <1>1, <2>1 DEF ObtainKey, GotKey
    <3>2. QED
      BY <1>3, <3>1
  <2>2. CASE ObtainDenied(r)
    <3> DEFINE n == TTL \div PollInterval
    <3>1. /\ req[r].pc = "new"
          /\ req' = [req EXCEPT ![r] = [@ EXCEPT !.pc = "poll", !.since = now,
                                                 !.left = n, !.wake = now]]
      BY <2>2 DEF ObtainDenied, KeyTaken, Arriving
    <3> HIDE DEF n
    <3>2. req'[r].pc = "poll" /\ req'[r].held = req[r].held
      BY <1>1, <3>1
    <3>3. QED
      BY <1>3, <3>1, <3>2 DEF Holding, Working
  <2>3. CASE Poll(r) \/ PollTimeout(r) \/ Reject(r) \/ Disconnect(r)
    <3> SUFFICES /\ req'[r].held = req[r].held
                 /\ req'[r].since = req[r].since
                 /\ req'[r].pc \notin {"new"} \cup Working
      BY <1>3 DEF Holding
    <3>1. CASE Poll(r)
      <4>1. CASE PollMiss(r)
        BY <1>1, <4>1 DEF PollMiss, MayLook, Goto, Working
      <4>2. CASE PollHit(r, kv[KeyOf[r]].val)
        BY <1>1, <4>2 DEF PollHit, Working
      <4>3. CASE PollAgain(r)
        BY <1>1, <4>3 DEF PollAgain, MayLook, Working
      <4>4. QED
        BY <3>1, <4>1, <4>2, <4>3 DEF Poll
    <3>2. CASE PollTimeout(r) \/ Reject(r) \/ Disconnect(r)
      BY <1>1, <3>2 DEF PollTimeout, Reject, Disconnect, Goto, Working
    <3>3. QED
      BY <2>3, <3>1, <3>2
  <2>4. CASE Publish(r) \/ Discard(r) \/ Forwarding(r)
    <3> SUFFICES /\ req'[r].held = req[r].held /\ req'[r].since = req[r].since
                 /\ req'[r].pc # "new" /\ Holding(r)
      BY <1>3
    <3>1. CASE Published(r)
      BY <1>1, <3>1 DEF Published, Holding, Working
    <3>2. CASE \E x \in (Outcomes \cup Working) : /\ req[r].pc \in Working
                                                 /\ req' = [req EXCEPT ![r].pc = x]
      BY <1>1, <3>2 DEF Holding, Working, Outcomes
    <3>3. QED
      BY <2>4, <3>1, <3>2
      DEF Publish, PublishFails, Discard, Discarded, Forwarding, Send, BadBody,
          UpstreamAnswers, UpstreamRefuses, UpstreamFails, Goto, Working,
          Outcomes
  <2>5. QED
    BY <2>1, <2>2, <2>3, <2>4 DEF Handle
<1>5. QED
  BY <1>2, <1>4 DEF InTimeInv, HeldInTime, Holding

LEMMA HoldersInTime == ProxySpec => []InTimeInv
<1>1. ProxyInit => HeldInTime
  BY DEF ProxyInit, HandlerInit, HeldInTime, Holding, Working
<1>2. ProxyTypeOK /\ HeldInTime /\ [ProxyNext]_proxyVars => HeldInTime'
  <2> SUFFICES ASSUME InTimeInv, [ProxyNext]_proxyVars PROVE HeldInTime'
    BY DEF InTimeInv
  <2>1. ASSUME NEW r \in Requests, Handle(r), UNCHANGED now
        PROVE  HeldInTime'
    BY <2>1, HandleInTime
  <2>2. CASE UNCHANGED <<now, req>>
    BY <2>2 DEF InTimeInv, HeldInTime, Holding
  <2>3. CASE Tick /\ MayWait /\ UNCHANGED <<cacheVars, req>>
    <3>1. now' = now + 1 /\ UNCHANGED req
      BY <2>3 DEF Tick
    <3>2. QED
      BY <2>3, <3>1, ReqTypes DEF InTimeInv, HeldInTime, Holding, MayWait
  <2>4. QED
    BY <2>1, <2>2, <2>3 DEF ProxyNext, proxyVars
<1>3. QED
  BY <1>1, <1>2, ProxyTypes, PTL DEF ProxySpec, InTimeInv

(* A step that leaves the map alone and does not answer anybody.           *)
LEMMA BystanderAnswers ==
  ASSUME InTimeInv, AnswerInv, UNCHANGED <<now, kv>>,
         NEW r \in Requests,
         \A s \in Requests \ {r} : req'[s] = req[s],
         req[r].pc # "answered", req'[r].pc # "answered",
         req'[r].got = req[r].got,
         req'[r].pc = "poll" =>
           /\ req'[r].since <= now
           /\ Stored(KeyOf[r]) => kv[KeyOf[r]].expire > req'[r].since
  PROVE  AnswerInv'
<1>1. req'[r].got = Nobody
  BY DEF AnswerInv, GotWhenAnswered
<1>2. ResponsesMade'
  <2> SUFFICES ASSUME NEW k \in Keys, Answered(k)
               PROVE  /\ KeyOf[kv[k].val] = k
                      /\ req'[kv[k].val].pc = "answered"
                      /\ req'[kv[k].val].got = kv[k].val
                      /\ kv[k].expire <= req'[kv[k].val].since + MaxHold + TTL
    BY DEF ResponsesMade, Answered
  <2>1. kv[k].val \in Requests /\ req[kv[k].val].pc = "answered"
    BY ResponseAssumption DEF Answered, AnswerInv, ResponsesMade
  <2>2. req'[kv[k].val] = req[kv[k].val]
    BY <2>1
  <2>3. QED
    BY <2>2 DEF AnswerInv, ResponsesMade
<1>3. PollersSee'
  BY DEF AnswerInv, PollersSee, Stored
<1>4. GotWhenAnswered'
  BY <1>1 DEF AnswerInv, GotWhenAnswered
<1>5. AnswersAgree'
  <2> SUFFICES ASSUME NEW s \in Requests, NEW v \in Requests, req'[s].got = v
               PROVE  /\ KeyOf[v] = KeyOf[s]
                      /\ req'[v].pc = "answered" /\ req'[v].got = v
                      /\ req'[s].since < req'[v].since + MaxHold + TTL
    BY DEF AnswersAgree
  <2>1. s # r
    BY <1>1, HandlerAssumption
  <2>2. req[v].pc = "answered"
    BY <2>1 DEF AnswerInv, AnswersAgree
  <2>3. req'[v] = req[v] /\ req'[s] = req[s]
    BY <2>1, <2>2
  <2>4. QED
    BY <2>3 DEF AnswerInv, AnswersAgree
<1>6. QED
  BY <1>2, <1>3, <1>4, <1>5 DEF AnswerInv

(* A step that clears entries or starts a lease on one, and answers nobody *)
(* by itself.                                                              *)
LEMMA ClearAnswers ==
  ASSUME InTimeInv, AnswerInv, UNCHANGED now,
         NEW r \in Requests,
         \A s \in Requests \ {r} : req'[s] = req[s],
         req'[r] = req[r]
           \/ /\ req[r].pc # "answered" /\ req'[r].pc \notin {"answered", "poll"}
              /\ req'[r].got = req[r].got,
         \A k \in Keys : \/ kv'[k] = kv[k]
                         \/ kv'[k] = Absent
                         \/ kv'[k] = [expire |-> now + TTL, val |-> Empty]
  PROVE  AnswerInv'
<1>1. req'[r] = req[r] \/ req'[r].got = Nobody
  BY DEF AnswerInv, GotWhenAnswered
<1>2. ResponsesMade'
  <2> SUFFICES ASSUME NEW k \in Keys, Answered(k)'
               PROVE  /\ KeyOf[kv'[k].val] = k
                      /\ req'[kv'[k].val].pc = "answered"
                      /\ req'[kv'[k].val].got = kv'[k].val
                      /\ kv'[k].expire <= req'[kv'[k].val].since + MaxHold + TTL
    BY DEF ResponsesMade
  <2>1. kv'[k] = kv[k] /\ Answered(k)
    BY ValueAssumption DEF Answered, Absent
  <2>2. kv[k].val \in Requests /\ req[kv[k].val].pc = "answered"
    BY <2>1, ResponseAssumption DEF Answered, AnswerInv, ResponsesMade
  <2>3. req'[kv[k].val] = req[kv[k].val]
    BY <2>2
  <2>4. QED
    BY <2>1, <2>3 DEF AnswerInv, ResponsesMade
<1>3. PollersSee'
  <2> SUFFICES ASSUME NEW s \in Requests, req'[s].pc = "poll"
               PROVE  /\ req'[s].since <= now
                      /\ Stored(KeyOf[s])' =>
                           kv'[KeyOf[s]].expire > req'[s].since
    BY DEF PollersSee
  <2>1. req'[s] = req[s]
    OBVIOUS
  <2>2. /\ req[s].since <= now
        /\ Stored(KeyOf[s]) => kv[KeyOf[s]].expire > req[s].since
    BY <2>1 DEF AnswerInv, PollersSee
  <2>3. now + TTL > req[s].since
    BY <2>2, ReqTypes DEF InTimeInv
  <2>4. KeyOf[s] \in Keys
    BY ReqTypes DEF InTimeInv
  <2>5. QED
    BY <2>1, <2>2, <2>3, <2>4 DEF Stored, Absent
<1>4. GotWhenAnswered'
  BY <1>1 DEF AnswerInv, GotWhenAnswered
<1>5. AnswersAgree'
  <2> SUFFICES ASSUME NEW s \in Requests, NEW v \in Requests, req'[s].got = v
               PROVE  /\ KeyOf[v] = KeyOf[s]
                      /\ req'[v].pc = "answered" /\ req'[v].got = v
                      /\ req'[s].since < req'[v].since + MaxHold + TTL
    BY DEF AnswersAgree
  <2>1. req'[s] = req[s]
    BY <1>1, HandlerAssumption
  <2>2. req[v].pc = "answered"
    BY <2>1 DEF AnswerInv, AnswersAgree
  <2>3. req'[v] = req[v]
    BY <2>2
  <2>4. QED
    BY <2>1, <2>3 DEF AnswerInv, AnswersAgree
<1>6. QED
  BY <1>2, <1>3, <1>4, <1>5 DEF AnswerInv

(* A waiter's answer: the response was made for its key, and its entry was *)
(* still running when the waiter came.                                     *)
LEMMA PollAnswers ==
  ASSUME InTimeInv, AnswerInv, UNCHANGED now, NEW r \in Requests, Poll(r)
  PROVE  AnswerInv'
<1> DEFINE k == KeyOf[r]
<1>1. UNCHANGED kv /\ req[r].pc = "poll"
  BY DEF Poll, Look, PollMiss, PollHit, PollAgain, MayLook
<1>2. /\ req[r].since <= now
      /\ Stored(k) => kv[k].expire > req[r].since
  BY <1>1 DEF AnswerInv, PollersSee
<1>3. req \in [Requests -> [pc : {"new"} \cup Active \cup Outcomes,
                            held : BOOLEAN, since : Nat, left : Nat,
                            wake : Nat, got : Requests \cup {Nobody}]]
  BY DEF InTimeInv, ProxyTypeOK, HandlerTypeOK
<1>4. CASE PollMiss(r)
  <2>1. /\ \A s \in Requests \ {r} : req'[s] = req[s]
        /\ req'[r].pc = "missed" /\ req'[r].got = req[r].got
    BY <1>3, <1>4 DEF PollMiss, MayLook, Goto
  <2>2. QED
    BY <1>1, <2>1, BystanderAnswers
<1>5. CASE PollAgain(r)
  <2>1. /\ \A s \in Requests \ {r} : req'[s] = req[s]
        /\ req'[r].pc = "poll" /\ req'[r].got = req[r].got
        /\ req'[r].since = req[r].since
    BY <1>1, <1>3, <1>5 DEF PollAgain
  <2>2. QED
    BY <1>1, <1>2, <2>1, BystanderAnswers
<1>6. CASE Answered(k) /\ PollHit(r, kv[k].val)
  <2> DEFINE u == kv[k].val
  <2>1. /\ \A s \in Requests \ {r} : req'[s] = req[s]
        /\ req'[r].pc = "answered" /\ req'[r].got = u
        /\ req'[r].since = req[r].since
    BY <1>3, <1>6 DEF PollHit
  <2>2. u \in Requests /\ Stored(k) /\ k \in Keys
    BY <1>6, ResponseAssumption, ValueAssumption, ReqTypes
    DEF Answered, Stored, InTimeInv
  <2>3. /\ KeyOf[u] = k /\ req[u].pc = "answered" /\ req[u].got = u
        /\ kv[k].expire <= req[u].since + MaxHold + TTL
    BY <1>6, <2>2 DEF AnswerInv, ResponsesMade
  <2>4. u # r
    BY <1>1, <2>3
  <2>5. req[r].since < req[u].since + MaxHold + TTL
    <3>1. req[u].since \in Nat
      BY <2>2, ReqTypes DEF InTimeInv
    <3>2. QED
      BY <1>2, <2>2, <2>3, <3>1, ReqTypes DEF InTimeInv
  <2>6. ResponsesMade'
    <3> SUFFICES ASSUME NEW j \in Keys, Answered(j)
                 PROVE  /\ KeyOf[kv[j].val] = j
                        /\ req'[kv[j].val].pc = "answered"
                        /\ req'[kv[j].val].got = kv[j].val
                        /\ kv[j].expire <=
                             req'[kv[j].val].since + MaxHold + TTL
      BY <1>1 DEF ResponsesMade, Answered
    <3>1. kv[j].val \in Requests /\ req[kv[j].val].pc = "answered"
      BY ResponseAssumption DEF Answered, AnswerInv, ResponsesMade
    <3>2. req'[kv[j].val] = req[kv[j].val]
      BY <3>1, <1>1, <2>1
    <3>3. QED
      BY <3>2 DEF AnswerInv, ResponsesMade
  <2>7. PollersSee' /\ GotWhenAnswered'
    BY <1>1, <2>1 DEF AnswerInv, PollersSee, GotWhenAnswered, Stored
  <2>8. AnswersAgree'
    <3> SUFFICES ASSUME NEW s \in Requests, NEW v \in Requests, req'[s].got = v
                 PROVE  /\ KeyOf[v] = KeyOf[s]
                        /\ req'[v].pc = "answered" /\ req'[v].got = v
                        /\ req'[s].since < req'[v].since + MaxHold + TTL
      BY DEF AnswersAgree
    <3>1. CASE s = r
      BY <3>1, <2>1, <2>3, <2>4, <2>5, <2>2
    <3>2. CASE s # r
      <4>1. req'[s] = req[s] /\ req[v].pc = "answered"
        BY <3>2, <2>1 DEF AnswerInv, AnswersAgree
      <4>2. req'[v] = req[v]
        BY <4>1, <1>1, <2>1
      <4>3. QED
        BY <4>1, <4>2 DEF AnswerInv, AnswersAgree
    <3>3. QED
      BY <3>1, <3>2
  <2>9. QED
    BY <2>6, <2>7, <2>8 DEF AnswerInv
<1>7. QED
  BY <1>4, <1>5, <1>6 DEF Poll

(* The holder's own answer: it enters the cache as it leaves for the       *)
(* holder's client.                                                        *)
LEMMA PublishAnswers ==
  ASSUME InTimeInv, AnswerInv, UNCHANGED now, NEW r \in Requests,
         Published(r), SetLive(KeyOf[r], r)
  PROVE  AnswerInv'
<1> DEFINE k == KeyOf[r]
<1>1. /\ \A s \in Requests \ {r} : req'[s] = req[s]
      /\ req[r].pc = "publish"
      /\ req'[r].pc = "answered" /\ req'[r].got = r
      /\ req'[r].since = req[r].since
  BY DEF Published, InTimeInv, ProxyTypeOK, HandlerTypeOK
<1>2. /\ kv'[k] = [expire |-> now + TTL, val |-> r]
      /\ \A j \in Keys \ {k} : kv'[j] = kv[j]
  BY ReqTypes DEF SetLive, Restamp, InTimeInv, ProxyTypeOK, CacheTypeOK
<1>3. now <= req[r].since + MaxHold
  BY <1>1 DEF InTimeInv, HeldInTime, Holding, Working
<1>4. ResponsesMade'
  <2> SUFFICES ASSUME NEW j \in Keys, Answered(j)'
               PROVE  /\ KeyOf[kv'[j].val] = j
                      /\ req'[kv'[j].val].pc = "answered"
                      /\ req'[kv'[j].val].got = kv'[j].val
                      /\ kv'[j].expire <= req'[kv'[j].val].since + MaxHold + TTL
    BY DEF ResponsesMade
  <2>1. CASE j = k
    BY <2>1, <1>1, <1>2, <1>3, ReqTypes DEF InTimeInv
  <2>2. CASE j # k
    <3>1. kv'[j] = kv[j] /\ Answered(j)
      BY <2>2, <1>2 DEF Answered
    <3>2. kv[j].val \in Requests /\ req[kv[j].val].pc = "answered"
      BY <3>1, ResponseAssumption DEF Answered, AnswerInv, ResponsesMade
    <3>3. req'[kv[j].val] = req[kv[j].val]
      BY <3>2, <1>1
    <3>4. QED
      BY <3>1, <3>3 DEF AnswerInv, ResponsesMade
  <2>3. QED
    BY <2>1, <2>2
<1>5. PollersSee'
  <2> SUFFICES ASSUME NEW s \in Requests, req'[s].pc = "poll"
               PROVE  /\ req'[s].since <= now
                      /\ Stored(KeyOf[s])' =>
                           kv'[KeyOf[s]].expire > req'[s].since
    BY DEF PollersSee
  <2>1. req'[s] = req[s] /\ KeyOf[s] \in Keys
    BY <1>1, ReqTypes DEF InTimeInv
  <2>2. /\ req[s].since <= now
        /\ Stored(KeyOf[s]) => kv[KeyOf[s]].expire > req[s].since
    BY <2>1 DEF AnswerInv, PollersSee
  <2>3. now + TTL > req[s].since
    BY <2>2, ReqTypes DEF InTimeInv
  <2>4. QED
    BY <2>1, <2>2, <2>3, <1>2 DEF Stored
<1>6. GotWhenAnswered'
  BY <1>1 DEF AnswerInv, GotWhenAnswered
<1>7. AnswersAgree'
  <2> SUFFICES ASSUME NEW s \in Requests, NEW v \in Requests, req'[s].got = v
               PROVE  /\ KeyOf[v] = KeyOf[s]
                      /\ req'[v].pc = "answered" /\ req'[v].got = v
                      /\ req'[s].since < req'[v].since + MaxHold + TTL
    BY DEF AnswersAgree
  <2>1. CASE s = r
    BY <2>1, <1>1, ReqTypes DEF InTimeInv
  <2>2. CASE s # r
    <3>1. req'[s] = req[s] /\ req[v].pc = "answered"
      BY <2>2, <1>1 DEF AnswerInv, AnswersAgree
    <3>2. req'[v] = req[v]
      BY <3>1, <1>1
    <3>3. QED
      BY <3>1, <3>2 DEF AnswerInv, AnswersAgree
  <2>3. QED
    BY <2>1, <2>2
<1>8. QED
  BY <1>4, <1>5, <1>6, <1>7 DEF AnswerInv

(* Every step of a handler keeps the answers right. *)
LEMMA HandleAnswers ==
  ASSUME InTimeInv, AnswerInv,
         UNCHANGED now, NEW r \in Requests, Handle(r)
  PROVE  AnswerInv'
<1> DEFINE k == KeyOf[r]
<1>1. k \in Keys
  BY ReqTypes DEF InTimeInv
<1>2. CASE ObtainKey(r)
  <2>1. /\ \A s \in Requests \ {r} : req'[s] = req[s]
        /\ req[r].pc = "new" /\ req'[r].pc = "forward"
        /\ req'[r].got = req[r].got
    BY <1>2 DEF ObtainKey, GotKey, Arriving, InTimeInv, ProxyTypeOK,
                HandlerTypeOK
  <2>2. \A j \in Keys : \/ kv'[j] = kv[j]
                        \/ kv'[j] = [expire |-> now + TTL, val |-> Empty]
    BY <1>1, <1>2 DEF ObtainKey, Obtain, Restamp, InTimeInv, ProxyTypeOK,
                      CacheTypeOK
  <2>3. QED
    BY <2>1, <2>2, ClearAnswers
<1>3. CASE ObtainDenied(r)
  <2>1. /\ \A s \in Requests \ {r} : req'[s] = req[s]
        /\ req[r].pc = "new" /\ req'[r].pc = "poll"
        /\ req'[r].got = req[r].got /\ req'[r].since = now
        /\ UNCHANGED kv /\ Live(k)
    <3> DEFINE n == TTL \div PollInterval
    <3>1. /\ req[r].pc = "new" /\ UNCHANGED kv /\ Live(k)
          /\ req' = [req EXCEPT ![r] = [@ EXCEPT !.pc = "poll", !.since = now,
                                                 !.left = n, !.wake = now]]
      BY <1>3 DEF ObtainDenied, KeyTaken, Arriving, cacheVars
    <3> HIDE DEF n
    <3>2. QED
      BY <3>1 DEF InTimeInv, ProxyTypeOK, HandlerTypeOK
  <2>2. kv[k].expire > now /\ now <= now
    BY <2>1, ReqTypes DEF Live, InTimeInv
  <2>3. QED
    BY <2>1, <2>2, BystanderAnswers
<1>4. CASE Poll(r)
  BY <1>4, PollAnswers
<1>5. CASE Publish(r)
  <2>1. CASE Published(r) /\ SetLive(k, r)
    BY <2>1, PublishAnswers
  <2>2. CASE PublishFails(r) /\ (SetExpired(k) \/ SetMissing(k))
    <3>1. /\ \A s \in Requests \ {r} : req'[s] = req[s]
          /\ req[r].pc = "publish" /\ req'[r].pc = "failed"
          /\ req'[r].got = req[r].got
      BY <2>2 DEF PublishFails, Goto, InTimeInv, ProxyTypeOK, HandlerTypeOK
    <3>2. \A j \in Keys : kv'[j] = kv[j] \/ kv'[j] = Absent
      BY <1>1, <2>2 DEF SetExpired, SetMissing, cacheVars, InTimeInv,
                        ProxyTypeOK, CacheTypeOK
    <3>3. QED
      BY <3>1, <3>2, ClearAnswers
  <2>3. QED
    BY <1>5, <2>1, <2>2 DEF Publish
<1>6. CASE Discard(r)
  <2>1. /\ \A s \in Requests \ {r} : req'[s] = req[s]
        /\ req[r].pc = "discard" /\ req'[r].pc = "passed"
        /\ req'[r].got = req[r].got
    BY <1>6 DEF Discard, Discarded, Goto, InTimeInv, ProxyTypeOK, HandlerTypeOK
  <2>2. \A j \in Keys : kv'[j] = kv[j] \/ kv'[j] = Absent
    BY <1>1, <1>6 DEF Discard, Del, InTimeInv, ProxyTypeOK, CacheTypeOK
  <2>3. QED
    BY <2>1, <2>2, ClearAnswers
<1>7. CASE UNCHANGED cacheVars /\ (Reject(r) \/ PollTimeout(r)
                                   \/ Forwarding(r) \/ Disconnect(r))
  <2>1. /\ \A s \in Requests \ {r} : req'[s] = req[s]
        /\ req'[r].got = req[r].got
        /\ req[r].pc # "answered" /\ req'[r].pc \notin {"answered", "poll"}
        /\ UNCHANGED kv
    BY <1>7 DEF Reject, PollTimeout, Forwarding, Disconnect, Send, BadBody,
                UpstreamAnswers, UpstreamRefuses, UpstreamFails, Goto,
                InTimeInv, ProxyTypeOK, HandlerTypeOK, Active, Working, cacheVars
  <2>2. QED
    BY <2>1, BystanderAnswers
<1>8. QED
  BY <1>2, <1>3, <1>4, <1>5, <1>6, <1>7 DEF Handle

(* So do the cleaning tasks: they only clear entries. *)
LEMMA CleanAnswers ==
  ASSUME InTimeInv, AnswerInv, UNCHANGED <<now, req>>, Clean
  PROVE  AnswerInv'
<1>1. \A k \in Keys : kv'[k] = kv[k] \/ kv'[k] = Absent
  BY DEF Clean, Arm, Sweep
<1>2. CASE Requests # {}
  <2>1. PICK r \in Requests : TRUE
    BY <1>2
  <2>2. QED
    BY <1>1, ClearAnswers
<1>3. CASE Requests = {}
  BY <1>3, ResponseAssumption
  DEF AnswerInv, ResponsesMade, PollersSee, GotWhenAnswered, AnswersAgree,
      Answered
<1>4. QED
  BY <1>2, <1>3

(* Every step of the proxy keeps the answers right. *)
LEMMA NextAnswers ==
  ASSUME InTimeInv, AnswerInv,
         [ProxyNext]_proxyVars
  PROVE  AnswerInv'
<1>1. ASSUME NEW r \in Requests, Handle(r), UNCHANGED now
      PROVE  AnswerInv'
  BY <1>1, HandleAnswers
<1>2. CASE UNCHANGED <<now, req>> /\ Clean
  BY <1>2, CleanAnswers
<1>3. CASE Tick /\ MayWait /\ UNCHANGED <<cacheVars, req>>
  <2>1. now' = now + 1 /\ UNCHANGED <<kv, req>> /\ now \in Nat
    BY <1>3 DEF Tick, cacheVars, InTimeInv, ProxyTypeOK
  <2>2. PollersSee'
    BY <2>1, ReqTypes DEF AnswerInv, PollersSee, Stored, InTimeInv
  <2>3. QED
    BY <2>1, <2>2 DEF AnswerInv, ResponsesMade, GotWhenAnswered, AnswersAgree,
                      Answered
<1>4. CASE UNCHANGED proxyVars
  BY <1>4 DEF proxyVars, cacheVars, AnswerInv, ResponsesMade, PollersSee,
              GotWhenAnswered, AnswersAgree, Answered, Stored
<1>5. QED
  BY <1>1, <1>2, <1>3, <1>4 DEF ProxyNext

(* Everyone who is answered gets the response of one upstream call for the *)
(* key, the response its own requester got: also when holders outlive      *)
(* their leases and delete or answer those of others.                      *)
THEOREM Answers == ProxySpec => []AnswersAgree
<1>1. ProxyInit => AnswerInv
  BY ValueAssumption, HandlerAssumption
  DEF ProxyInit, CacheInit, HandlerInit, AnswerInv, ResponsesMade, PollersSee,
      GotWhenAnswered, AnswersAgree, Answered, Absent
<1>2. InTimeInv /\ AnswerInv /\ [ProxyNext]_proxyVars => AnswerInv'
  BY NextAnswers
<1>3. AnswerInv => AnswersAgree
  BY DEF AnswerInv
<1>4. QED
  BY <1>1, <1>2, <1>3, HoldersInTime, PTL DEF ProxySpec

-----------------------------------------------------------------------------
(***************************************************************************)
(* MemoryProxy implements Idempotency when holders are in time: the step   *)
(* simulation.  A handler's step is a step of the same request there, or   *)
(* none; a sweep forgets leases that have run out; arming a cleaner and    *)
(* another turn of a poller are not visible.                               *)
(***************************************************************************)

(* An answered key's lease has the answer, a held key's has none. *)
LEMMA LeaseOfKey ==
  ASSUME LeaseInv, NEW k \in Keys
  PROVE  /\ LeaseOf[k].until = kv[k].expire
         /\ Answered(k) => LeaseOf[k].answer = kv[k].val
         /\ ~Answered(k) => LeaseOf[k].answer = Nobody
         /\ Promise!Running(k) <=> Live(k)
<1>1. ~(0 > now)
  BY DEF LeaseInv, ProxyTypeOK
<1>2. QED
  BY <1>1 DEF LeaseOf, Promise!Running, Live, LeaseInv, AbsentIsZero

(* A held key has its holder's deadline and no answer. *)
LEMMA HeldEntry ==
  ASSUME LeaseInv, NEW r \in Requests, Holding(r)
  PROVE  kv[KeyOf[r]].expire = req[r].since + TTL /\ ~Answered(KeyOf[r])
<1>1. kv[KeyOf[r]] = [expire |-> req[r].since + TTL, val |-> Empty]
  BY DEF LeaseInv, OwnLease
<1>2. /\ kv[KeyOf[r]].expire = req[r].since + TTL
      /\ kv[KeyOf[r]].val = Empty
  BY <1>1
<1>3. QED
  BY <1>2, ValueAssumption DEF Answered

(* Where the map does not change, the leases do not. *)
LEMMA SameLeases ==
  ASSUME UNCHANGED kv
  PROVE  UNCHANGED LeaseOf
  BY DEF LeaseOf, Answered

(* The lease of k written as the map is. *)
LEMMA GrantOf ==
  ASSUME ProxyTypeOK, NEW r \in Requests, NEW v \in Values \cup {Empty},
         NEW a, a = IF v \in Values THEN v ELSE Nobody,
         kv' = [kv EXCEPT ![KeyOf[r]] = [expire |-> now + TTL, val |-> v]]
  PROVE  Promise!Grant(r, a)
<1>1. KeyOf[r] \in Keys
  BY HandlerAssumption
<1>2. \A k \in Keys :
        LeaseOf'[k] = IF k = KeyOf[r] THEN [until |-> now + TTL, answer |-> a]
                                      ELSE LeaseOf[k]
  BY <1>1 DEF LeaseOf, Answered, ProxyTypeOK, CacheTypeOK
<1>3. LeaseOf' = [LeaseOf EXCEPT ![KeyOf[r]] = [until |-> now + TTL,
                                                 answer |-> a]]
  BY <1>1, <1>2 DEF LeaseOf
<1>4. QED
  BY <1>3 DEF Promise!Grant

(* One request's new state, seen from above. *)
LEMMA StatusOfMove ==
  ASSUME NEW r \in Requests, \A s \in Requests \ {r} : req'[s] = req[s],
         NEW x, x = StatusOf'[r]
  PROVE  Promise!Becomes(r, x)
<1>1. \A s \in Requests : StatusOf'[s] = IF s = r THEN x ELSE StatusOf[s]
  BY DEF StatusOf, Holding
<1>2. QED
  BY <1>1 DEF Promise!Becomes, StatusOf

LEMMA GotOfMove ==
  ASSUME NEW r \in Requests, \A s \in Requests \ {r} : req'[s] = req[s]
  PROVE  GotOf' = [GotOf EXCEPT ![r] = req'[r].got]
  BY DEF GotOf

LEMMA SameGot ==
  ASSUME NEW r \in Requests, \A s \in Requests \ {r} : req'[s] = req[s],
         req'[r].got = req[r].got
  PROVE  UNCHANGED GotOf
  BY DEF GotOf

(* The request is finished without touching the map: GiveUp; or it is not  *)
(* finished and nothing is seen.                                           *)
LEMMA QuietMove ==
  ASSUME UNCHANGED <<now, kv>>, NEW r \in Requests,
         \A s \in Requests \ {r} : req'[s] = req[s],
         req'[r].got = req[r].got,
         req[r].pc \in {"new"} \cup Active,
         \/ req'[r].pc \in Outcomes
         \/ req'[r].pc = "poll" /\ req[r].pc = "poll"
         \/ Holding(r) /\ Holding(r)'
  PROVE  [Promise!Next]_Promise!vars
<1>1. UNCHANGED <<now, LeaseOf, GotOf>>
  BY SameLeases, SameGot
<1>2. CASE req'[r].pc \in Outcomes
  <2>1. StatusOf[r] # "ended" /\ StatusOf'[r] = "ended"
    BY <1>2 DEF StatusOf, Holding, Active, Working, Outcomes
  <2>2. Promise!Becomes(r, "ended")
    BY <2>1, StatusOfMove
  <2>3. Promise!GiveUp(r)
    BY <1>1, <2>1, <2>2 DEF Promise!GiveUp
  <2>4. QED
    BY <1>1, <2>3 DEF Promise!Next
<1>3. CASE \/ req'[r].pc = "poll" /\ req[r].pc = "poll"
           \/ Holding(r) /\ Holding(r)'
  <2>1. UNCHANGED StatusOf
    BY <1>3 DEF StatusOf, Holding, Working
  <2>2. QED
    BY <1>1, <2>1 DEF Promise!vars
<1>4. QED
  BY <1>2, <1>3

(* Every step of a handler is a step of its request. *)
LEMMA HandleRefines ==
  ASSUME LeaseInv, MaxHold < TTL, ProxyTypeOK', UNCHANGED now,
         NEW r \in Requests, Handle(r)
  PROVE  [Promise!Next]_Promise!vars
<1> DEFINE k == KeyOf[r]
<1>0. k \in Keys
  BY ReqTypes DEF LeaseInv
<1>1. CASE ObtainKey(r)
  <2>1. /\ \A s \in Requests \ {r} : req'[s] = req[s]
        /\ req[r].pc = "new" /\ req'[r].pc = "forward"
        /\ req'[r].got = req[r].got
        /\ ~Live(k) /\ Restamp(k, Empty)
    BY <1>1 DEF ObtainKey, Obtain, GotKey, Arriving, LeaseInv, ProxyTypeOK,
                HandlerTypeOK
  <2>2. Promise!Grant(r, Nobody)
    BY <2>1, GrantOf, ValueAssumption DEF Restamp, LeaseInv
  <2>3. StatusOf[r] = "idle" /\ StatusOf'[r] = "forwarding"
    BY <2>1 DEF StatusOf, Holding, Working
  <2>4. Promise!Becomes(r, "forwarding") /\ UNCHANGED GotOf
    BY <2>1, <2>3, StatusOfMove, SameGot
  <2>5. Promise!Forward(r)
    BY <1>0, <2>1, <2>2, <2>3, <2>4, LeaseOfKey DEF Promise!Forward
  <2>6. QED
    BY <2>5 DEF Promise!Next
<1>2. CASE ObtainDenied(r)
  <2> DEFINE n == TTL \div PollInterval
  <2>1. /\ req[r].pc = "new" /\ UNCHANGED kv /\ Live(k)
        /\ req' = [req EXCEPT ![r] = [@ EXCEPT !.pc = "poll", !.since = now,
                                               !.left = n, !.wake = now]]
    BY <1>2 DEF ObtainDenied, KeyTaken, Arriving, cacheVars
  <2> HIDE DEF n
  <2>2. /\ \A s \in Requests \ {r} : req'[s] = req[s]
        /\ req'[r].pc = "poll" /\ req'[r].got = req[r].got
    BY <2>1 DEF LeaseInv, ProxyTypeOK, HandlerTypeOK
  <2>3. StatusOf[r] = "idle" /\ StatusOf'[r] = "waiting"
    BY <2>1, <2>2 DEF StatusOf
  <2>4. /\ Promise!Becomes(r, "waiting")
        /\ UNCHANGED <<LeaseOf, GotOf>>
    BY <2>1, <2>2, <2>3, StatusOfMove, SameGot, SameLeases
  <2>5. Promise!Wait(r)
    BY <1>0, <2>1, <2>3, <2>4, LeaseOfKey DEF Promise!Wait
  <2>6. QED
    BY <2>5 DEF Promise!Next
<1>3. CASE Poll(r)
  <2>1. UNCHANGED kv /\ req[r].pc = "poll"
    BY <1>3 DEF Poll, Look, PollMiss, PollHit, PollAgain, MayLook
  <2>2. req \in [Requests -> [pc : {"new"} \cup Active \cup Outcomes,
                              held : BOOLEAN, since : Nat, left : Nat,
                              wake : Nat, got : Requests \cup {Nobody}]]
    BY DEF LeaseInv, ProxyTypeOK, HandlerTypeOK
  <2>3. CASE PollMiss(r)
    <3>1. /\ \A s \in Requests \ {r} : req'[s] = req[s]
          /\ req'[r].pc = "missed" /\ req'[r].got = req[r].got
      BY <2>2, <2>3 DEF PollMiss, Goto
    <3>2. QED
      BY <2>1, <3>1, QuietMove DEF Active, Outcomes
  <2>4. CASE PollAgain(r)
    <3>1. /\ \A s \in Requests \ {r} : req'[s] = req[s]
          /\ req'[r].pc = "poll" /\ req'[r].got = req[r].got
      BY <2>1, <2>2, <2>4 DEF PollAgain
    <3>2. QED
      BY <2>1, <3>1, QuietMove DEF Active, Outcomes
  <2>5. CASE Answered(k) /\ PollHit(r, kv[k].val)
    <3>1. /\ \A s \in Requests \ {r} : req'[s] = req[s]
          /\ req'[r].pc = "answered" /\ req'[r].got = kv[k].val
      BY <2>2, <2>5 DEF PollHit
    <3>2. LeaseOf[k].answer = kv[k].val /\ kv[k].val # Nobody
      BY <1>0, <2>5, LeaseOfKey, ResponseAssumption, HandlerAssumption
      DEF Answered
    <3>3. StatusOf[r] = "waiting" /\ StatusOf'[r] = "ended"
      BY <2>1, <3>1 DEF StatusOf, Holding, Working
    <3>4. /\ Promise!Becomes(r, "ended") /\ UNCHANGED LeaseOf
          /\ GotOf' = [GotOf EXCEPT ![r] = LeaseOf[k].answer]
      BY <2>1, <3>1, <3>2, <3>3, StatusOfMove, SameLeases, GotOfMove
    <3>5. Promise!Share(r)
      BY <3>2, <3>3, <3>4 DEF Promise!Share
    <3>6. QED
      BY <3>5 DEF Promise!Next
  <2>6. QED
    BY <1>3, <2>3, <2>4, <2>5 DEF Poll
<1>4. CASE Publish(r)
  <2>1. Published(r) /\ SetLive(k, r)
    BY <1>4, PublishLease
  <2>2. /\ \A s \in Requests \ {r} : req'[s] = req[s]
        /\ req[r].pc = "publish" /\ Holding(r)
        /\ req'[r].pc = "answered" /\ req'[r].got = r
        /\ Live(k) /\ Restamp(k, r)
    BY <2>1 DEF Published, SetLive, LeaseInv, ProxyTypeOK, HandlerTypeOK,
                Holding, Working
  <2>3. Promise!Grant(r, r)
    BY <2>2, GrantOf, ResponseAssumption DEF Restamp, LeaseInv
  <2>4. StatusOf[r] = "forwarding" /\ StatusOf'[r] = "ended"
    BY <2>2 DEF StatusOf, Holding, Working
  <2>5. /\ Promise!Becomes(r, "ended")
        /\ GotOf' = [GotOf EXCEPT ![r] = r]
    BY <2>2, <2>4, StatusOfMove, GotOfMove
  <2>6. ~Answered(k)
    BY <2>2, HeldEntry
  <2>7. Promise!Answer(r)
    BY <1>0, <2>2, <2>3, <2>4, <2>5, <2>6, LeaseOfKey DEF Promise!Answer
  <2>8. QED
    BY <2>7 DEF Promise!Next
<1>5. CASE Discard(r)
  <2>1. /\ \A s \in Requests \ {r} : req'[s] = req[s]
        /\ req[r].pc = "discard" /\ Holding(r)
        /\ req'[r].pc = "passed" /\ req'[r].got = req[r].got
        /\ kv' = [kv EXCEPT ![k] = Absent]
    BY <1>5 DEF Discard, Discarded, Del, Goto, LeaseInv, ProxyTypeOK,
                HandlerTypeOK, Holding, Working
  <2>2. Live(k) /\ ~Answered(k)
    BY <2>1, HolderLive, HeldEntry
  <2>3. LeaseOf' = [LeaseOf EXCEPT ![k] = Promise!Free]
    <3>1. \A j \in Keys : LeaseOf'[j] = IF j = k THEN Promise!Free
                                                 ELSE LeaseOf[j]
      BY <1>0, <2>1, ValueAssumption
      DEF LeaseOf, Answered, Absent, Promise!Free, LeaseInv, ProxyTypeOK,
          CacheTypeOK
    <3>2. QED
      BY <1>0, <3>1 DEF LeaseOf
  <2>4. StatusOf[r] = "forwarding" /\ StatusOf'[r] = "ended"
    BY <2>1 DEF StatusOf, Holding, Working
  <2>5. Promise!Becomes(r, "ended") /\ UNCHANGED GotOf
    BY <2>1, <2>4, StatusOfMove, SameGot
  <2>6. Promise!Release(r)
    BY <1>0, <2>2, <2>3, <2>4, <2>5, LeaseOfKey DEF Promise!Release
  <2>7. QED
    BY <2>6 DEF Promise!Next
<1>6. CASE UNCHANGED cacheVars /\ (Reject(r) \/ PollTimeout(r)
                                   \/ Forwarding(r) \/ Disconnect(r))
  <2>1. UNCHANGED kv
    BY <1>6 DEF cacheVars
  <2>2. /\ \A s \in Requests \ {r} : req'[s] = req[s]
        /\ req'[r].got = req[r].got
        /\ req[r].pc \in {"new"} \cup Active
        /\ \/ req'[r].pc \in Outcomes
           \/ req'[r].pc \in Working /\ req[r].pc \in Working
    BY <1>6 DEF Reject, PollTimeout, Forwarding, Disconnect, Send, BadBody,
                UpstreamAnswers, UpstreamRefuses, UpstreamFails, Goto,
                LeaseInv, ProxyTypeOK, HandlerTypeOK, Active, Working, Outcomes
  <2>3. QED
    BY <2>1, <2>2, QuietMove DEF Holding
<1>7. QED
  BY <1>1, <1>2, <1>3, <1>4, <1>5, <1>6 DEF Handle

(* A sweep forgets leases that have run out. *)
LEMMA CleanRefines ==
  ASSUME LeaseInv, UNCHANGED <<now, req>>, Clean
  PROVE  [Promise!Next]_Promise!vars
<1>1. UNCHANGED <<StatusOf, GotOf>>
  BY DEF StatusOf, GotOf, Holding
<1>2. PICK c \in Cleaners : Arm(c) \/ Sweep(c)
  BY DEF Clean
<1>3. CASE Arm(c)
  BY <1>1, <1>3, SameLeases DEF Arm, Promise!vars
<1>4. CASE Sweep(c)
  <2> DEFINE ks == {k \in Keys : \E p \in Due(cleaner[c].at) : p[2] = k}
  <2>1. kv' = [k \in Keys |-> IF k \in ks THEN Absent ELSE kv[k]]
    BY <1>4 DEF Sweep
  <2>2. LeaseOf' = [k \in Keys |-> IF k \in ks THEN Promise!Free
                                               ELSE LeaseOf[k]]
    <3>1. \A k \in Keys : LeaseOf'[k] = IF k \in ks THEN Promise!Free
                                                   ELSE LeaseOf[k]
      BY <2>1, ValueAssumption DEF LeaseOf, Answered, Absent, Promise!Free
    <3>2. QED
      BY <3>1 DEF LeaseOf
  <2>3. ASSUME NEW k \in ks PROVE ~Promise!Running(k)
    <3>1. CASE Live(k)
      <4>1. kv'[k] = kv[k] /\ kv'[k] = Absent
        BY <1>4, <2>1, <3>1, SweepExpired
      <4>2. QED
        BY <3>1, <4>1 DEF Live, Stored, Absent
    <3>2. QED
      BY <3>1, LeaseOfKey
  <2>4. ks \in SUBSET {k \in Keys : ~Promise!Running(k)}
    BY <2>3
  <2>5. Promise!Forget
    BY <1>1, <2>2, <2>4 DEF Promise!Forget
  <2>6. QED
    BY <2>5 DEF Promise!Next
<1>5. QED
  BY <1>2, <1>3, <1>4

(* The clock moves as it may. *)
LEMMA TickRefines ==
  ASSUME LeaseInv, MaxHold < TTL, Tick, MayWait, UNCHANGED <<cacheVars, req>>
  PROVE  [Promise!Next]_Promise!vars
<1>1. UNCHANGED <<kv, req>> /\ now' = now + 1 /\ now < MaxTime
  BY DEF cacheVars, Tick
<1>2. UNCHANGED <<LeaseOf, StatusOf, GotOf>>
  BY <1>1, SameLeases DEF StatusOf, GotOf, Holding
<1>3. ASSUME NEW r \in Requests, StatusOf[r] = "forwarding"
      PROVE  LeaseOf[KeyOf[r]].until > now'
  <2>1. Holding(r)
    BY <1>3 DEF StatusOf
  <2>2. now < req[r].since + MaxHold
    BY <2>1 DEF MayWait
  <2>3. kv[KeyOf[r]].expire = req[r].since + TTL
    BY <2>1, HeldEntry
  <2>4. QED
    BY <1>1, <2>2, <2>3, ReqTypes, LeaseOfKey DEF LeaseInv
<1>4. Promise!Tick
  BY <1>1 DEF Promise!Tick
<1>5. QED
  BY <1>2, <1>3, <1>4 DEF Promise!Next

(* The proxy over the in-memory cacher keeps the promise of Idempotency,   *)
(* for any number of requests, keys and cleaners.                          *)
THEOREM MemoryProxyIsIdempotent ==
  ASSUME MaxHold < TTL
  PROVE  ProxySpec => ImplementsIdempotency
<1>1. ProxyInit => Promise!Init
  BY ValueAssumption
  DEF ProxyInit, CacheInit, HandlerInit, Promise!Init, Promise!Free, LeaseOf,
      StatusOf, GotOf, Answered, Absent
<1>2. LeaseInv /\ ProxyTypeOK' /\ [ProxyNext]_proxyVars
        => [Promise!Next]_Promise!vars
  <2> SUFFICES ASSUME LeaseInv, ProxyTypeOK', [ProxyNext]_proxyVars
               PROVE  [Promise!Next]_Promise!vars
    OBVIOUS
  <2>1. ASSUME NEW r \in Requests, Handle(r), UNCHANGED now
        PROVE  [Promise!Next]_Promise!vars
    BY <2>1, HandleRefines
  <2>2. CASE UNCHANGED <<now, req>> /\ Clean
    BY <2>2, CleanRefines
  <2>3. CASE Tick /\ MayWait /\ UNCHANGED <<cacheVars, req>>
    BY <2>3, TickRefines
  <2>4. CASE UNCHANGED proxyVars
    BY <2>4, SameLeases
    DEF proxyVars, cacheVars, Promise!vars, StatusOf, GotOf, Holding
  <2>5. QED
    BY <2>1, <2>2, <2>3, <2>4 DEF ProxyNext
<1>3. QED
  BY <1>1, <1>2, Leases, ProxyTypes, PTL
  DEF ProxySpec, ImplementsIdempotency, Promise!Spec

(* ------------------------------ the waiters ---------------------------- *)

(* The sleeps a waiter has had and those it is owed are all its sleeps.    *)
Polls == TTL \div PollInterval

PollsAfford ==
  \A r \in Requests :
    req[r].pc = "poll" =>
      req[r].since + Polls * PollInterval
        <= req[r].wake + req[r].left * PollInterval

LEMMA PollTimes ==
  /\ Polls \in Nat /\ PollInterval \in Nat /\ Polls * PollInterval \in Nat
  /\ Polls * PollInterval <= TTL
  /\ \A n \in Nat : n * PollInterval \in Nat
  /\ \A n \in Nat : n > 0 => n * PollInterval = (n - 1) * PollInterval + PollInterval
<1>1. Polls \in Nat /\ PollInterval \in Nat /\ Polls * PollInterval <= TTL
  BY TimeAssumption, HandlerAssumption DEF Polls
<1>2. \A a, b \in Nat : a * b \in Nat /\ (a + 1) * b = a * b + b
  OBVIOUS
<1>3. ASSUME NEW n \in Nat, n > 0
      PROVE  n * PollInterval = (n - 1) * PollInterval + PollInterval
  <2>1. n - 1 \in Nat /\ n = (n - 1) + 1
    BY <1>3
  <2>2. QED
    BY <1>1, <1>2, <2>1
<1>4. QED
  BY <1>1, <1>2, <1>3

(* Only a denied obtain() and a poll in vain lead to the next poll.        *)
LEMMA Polling ==
  ASSUME ProxyTypeOK, NEW r \in Requests, Handle(r), req'[r].pc = "poll"
  PROVE  KeyTaken(r) \/ PollAgain(r)
<1>1. HandlerTypeOK
  BY DEF ProxyTypeOK
<1>2. ASSUME NEW from, NEW to, to # "poll", Goto(r, from, to)
      PROVE  FALSE
  BY <1>1, <1>2 DEF Goto, HandlerTypeOK
<1>3. ~GotKey(r) /\ ~Published(r) /\ ~Disconnect(r)
  <2>1. ~GotKey(r)
    BY <1>1 DEF GotKey, HandlerTypeOK
  <2>2. ~Published(r)
    BY <1>1 DEF Published, HandlerTypeOK
  <2>3. ~Disconnect(r)
    BY <1>1 DEF Disconnect, HandlerTypeOK
  <2>4. QED
    BY <2>1, <2>2, <2>3
<1>4. ASSUME NEW v, PollHit(r, v)
      PROVE  FALSE
  <2>1. req'[r] = [req[r] EXCEPT !.pc = "answered", !.got = v]
    BY <1>1, <1>4 DEF PollHit, HandlerTypeOK
  <2>2. req'[r].pc = "answered"
    BY <1>1, <2>1 DEF HandlerTypeOK
  <2>3. QED
    BY <2>2
<1>5. QED
  BY <1>2, <1>3, <1>4
  DEF Handle, ObtainKey, ObtainDenied, Poll, PollMiss, Publish, PublishFails,
      Discard, Discarded, Reject, PollTimeout, Forwarding, Send, BadBody,
      UpstreamAnswers, UpstreamRefuses, UpstreamFails

LEMMA HandlePolls ==
  ASSUME ProxyTypeOK, PollsAfford, NEW r \in Requests, Handle(r), UNCHANGED now
  PROVE  PollsAfford'
<1>1. /\ req[r].since \in Nat /\ req[r].left \in Nat /\ req[r].wake \in Nat
      /\ now \in Nat
  BY DEF ProxyTypeOK, HandlerTypeOK
<1>2. \A s \in Requests \ {r} : req'[s] = req[s]
  BY OneAtATime
<1>3. ASSUME req'[r].pc = "poll"
      PROVE  req'[r].since + Polls * PollInterval
               <= req'[r].wake + req'[r].left * PollInterval
  <2>1. CASE KeyTaken(r)
    <3>1. /\ req'[r].since = now /\ req'[r].wake = now
          /\ req'[r].left = Polls
      BY <2>1 DEF KeyTaken, ProxyTypeOK, HandlerTypeOK, Polls
    <3>2. now + Polls * PollInterval \in Nat
      BY <1>1, PollTimes
    <3>3. QED
      BY <3>1, <3>2
  <2>2. CASE PollAgain(r)
    <3>1. /\ req'[r].left = req[r].left - 1 /\ req'[r].since = req[r].since
          /\ req'[r].wake = now + PollInterval
      BY <2>2 DEF PollAgain, ProxyTypeOK, HandlerTypeOK
    <3>2. /\ req[r].pc = "poll" /\ req[r].left > 0 /\ now >= req[r].wake
      BY <2>2 DEF PollAgain, MayLook
    <3> DEFINE all == Polls * PollInterval
               rest == req[r].left * PollInterval
               next == (req[r].left - 1) * PollInterval
    <3>3. /\ all \in Nat /\ rest \in Nat /\ next \in Nat
          /\ rest = next + PollInterval /\ PollInterval \in Nat
      <4>1. req[r].left - 1 \in Nat
        BY <1>1, <3>2
      <4>2. QED
        BY <1>1, <3>2, <4>1, PollTimes
    <3>4. req[r].since + all <= req[r].wake + rest
      BY <3>2 DEF PollsAfford
    <3> HIDE DEF all, rest, next
    <3>5. req[r].since + all <= now + PollInterval + next
      BY <1>1, <3>2, <3>3, <3>4
    <3>6. QED
      BY <3>1, <3>5 DEF all, next
  <2>3. QED
    BY <1>3, <2>1, <2>2, Polling
<1>4. QED
  BY <1>2, <1>3 DEF PollsAfford

(* A waiter does not give up on a holder still at work, if a holder is     *)
(* done within the time of all the waiter's polls: TTL when the interval   *)
(* divides it, up to an interval less when not.                            *)
THEOREM WaitersArePatient ==
  ASSUME MaxHold < Polls * PollInterval
  PROVE  ProxySpec => PatientWaiter
<1>1. MaxHold < TTL
  BY PollTimes, TimeAssumption, HandlerAssumption
<1>2. ProxyInit => PollsAfford
  BY DEF ProxyInit, HandlerInit, PollsAfford
<1>3. ProxyTypeOK /\ PollsAfford /\ [ProxyNext]_proxyVars => PollsAfford'
  <2> SUFFICES ASSUME ProxyTypeOK, PollsAfford, [ProxyNext]_proxyVars
               PROVE  PollsAfford'
    OBVIOUS
  <2>1. ASSUME NEW r \in Requests, Handle(r), UNCHANGED now
        PROVE  PollsAfford'
    BY <2>1, HandlePolls
  <2>2. CASE UNCHANGED req
    BY <2>2 DEF PollsAfford
  <2>3. QED
    BY <2>1, <2>2 DEF ProxyNext, proxyVars
<1>4. LeaseInv /\ PollsAfford =>
        \A r \in Requests :
          PollTimeout(r) =>
            ~\E s \in Requests : /\ KeyOf[s] = KeyOf[r] /\ Holding(s)
                                 /\ req[s].since <= req[r].since
  <2> SUFFICES ASSUME LeaseInv, PollsAfford,
                      NEW r \in Requests, PollTimeout(r),
                      NEW s \in Requests, Holding(s),
                      req[s].since <= req[r].since
               PROVE  FALSE
    OBVIOUS
  <2>1. /\ req[r].since \in Nat /\ req[s].since \in Nat /\ req[r].wake \in Nat
        /\ now \in Nat /\ MaxHold \in Nat
    BY HandlerAssumption DEF LeaseInv, ProxyTypeOK, HandlerTypeOK
  <2>2. req[r].pc = "poll" /\ req[r].left = 0 /\ now >= req[r].wake
    BY DEF PollTimeout, Goto
  <2>3. 0 * PollInterval = 0
    BY PollTimes
  <2>4. req[r].since + Polls * PollInterval <= req[r].wake
    BY <2>1, <2>2, <2>3 DEF PollsAfford
  <2>5. now <= req[s].since + MaxHold
    BY DEF LeaseInv, HeldInTime
  <2>6. QED
    BY <2>1, <2>2, <2>4, <2>5, PollTimes
<1>5. QED
  BY <1>1, <1>2, <1>3, <1>4, Leases, ProxyTypes, PTL DEF ProxySpec, PatientWaiter

(* ---------------------- the line before the map's lock ------------------ *)

(* y stands before x. *)
Precedes(y, x, s) ==
  \E i, j \in 1 .. Len(s) : i < j /\ s[i] = y /\ s[j] = x

(* t is the line s without x, everyone else in order. *)
LeftBy(x, s, t) ==
  /\ Range(t) = Range(s) \ {x}
  /\ \A y, z : Precedes(y, z, t) => Precedes(y, z, s)

LEMMA OnePlaceLess ==
  ASSUME NEW S, NEW s \in Seq(S), IsInjective(s), NEW k \in 1 .. Len(s),
         NEW t \in Seq(S), Len(t) = Len(s) - 1,
         \A i \in 1 .. Len(t) : t[i] = IF i < k THEN s[i] ELSE s[i + 1]
  PROVE  IsInjective(t) /\ LeftBy(s[k], s, t)
<1>1. /\ Len(s) \in Nat /\ Len(t) \in Nat
      /\ DOMAIN s = 1 .. Len(s) /\ DOMAIN t = 1 .. Len(t)
  BY LenProperties
<1> DEFINE at(i) == IF i < k THEN i ELSE i + 1
<1>2. \A i \in 1 .. Len(t) : at(i) \in 1 .. Len(s) /\ at(i) # k
  BY <1>1
<1>3. \A i, j \in 1 .. Len(t) : i < j => at(i) < at(j)
  BY <1>1
<1>4. \A i, j \in 1 .. Len(t) : at(i) = at(j) => i = j
  BY <1>1
<1>5. \A j \in 1 .. Len(s) : j # k => \E i \in 1 .. Len(t) : at(i) = j
  <2> SUFFICES ASSUME NEW j \in 1 .. Len(s), j # k
               PROVE  \E i \in 1 .. Len(t) : at(i) = j
    OBVIOUS
  <2>1. CASE j < k
    <3>1. j \in 1 .. Len(t) /\ at(j) = j
      BY <1>1, <2>1
    <3>2. QED
      BY <3>1
  <2>2. CASE j > k
    <3>1. j - 1 \in 1 .. Len(t) /\ at(j - 1) = j
      BY <1>1, <2>2
    <3>2. QED
      BY <3>1
  <2>3. QED
    BY <2>1, <2>2
<1>6. \A i \in 1 .. Len(t) : t[i] = s[at(i)]
  BY <1>1
<1> HIDE DEF at
<1>7. IsInjective(t)
  BY <1>1, <1>2, <1>4, <1>6 DEF IsInjective
<1>8. \A j \in 1 .. Len(s) : s[j] = s[k] => j = k
  BY <1>1 DEF IsInjective
<1>9. Range(t) = Range(s) \ {s[k]}
  <2>1. \A y \in Range(t) : y \in Range(s) /\ y # s[k]
    BY <1>1, <1>2, <1>6, <1>8 DEF Range
  <2>2. ASSUME NEW y \in Range(s) \ {s[k]}
        PROVE  y \in Range(t)
    <3>1. PICK j \in 1 .. Len(s) : s[j] = y
      BY <1>1 DEF Range
    <3>2. PICK i \in 1 .. Len(t) : at(i) = j
      BY <1>5, <3>1
    <3>3. t[i] = y
      BY <1>6, <3>1, <3>2
    <3>4. QED
      BY <1>1, <3>3 DEF Range
  <2>3. QED
    BY <2>1, <2>2
<1>10. ASSUME NEW y, NEW z, Precedes(y, z, t)
       PROVE  Precedes(y, z, s)
  <2>1. PICK i, j \in 1 .. Len(t) : i < j /\ t[i] = y /\ t[j] = z
    BY <1>10 DEF Precedes
  <2>2. /\ at(i) \in 1 .. Len(s) /\ at(j) \in 1 .. Len(s) /\ at(i) < at(j)
        /\ s[at(i)] = y /\ s[at(j)] = z
    BY <1>2, <1>3, <1>6, <2>1
  <2>3. QED
    BY <2>2 DEF Precedes
<1>11. QED
  BY <1>7, <1>9, <1>10 DEF LeftBy

(* Who is served, or is dropped, leaves the line. *)
LEMMA LeavesLine ==
  ASSUME NEW S, NEW s \in Seq(S), IsInjective(s), NEW x, NEW t,
         \/ t = Without(s, x)
         \/ First(x, s) /\ t = Tail(s)
  PROVE  t \in Seq(S) /\ IsInjective(t) /\ LeftBy(x, s, t)
<1>1. Len(s) \in Nat /\ DOMAIN s = 1 .. Len(s)
  BY LenProperties
<1>2. CASE First(x, s) /\ t = Tail(s)
  <2>1. /\ t \in Seq(S) /\ Len(t) = Len(s) - 1
        /\ \A i \in 1 .. Len(t) : t[i] = s[i + 1]
    BY <1>2, HeadTailProperties DEF First
  <2>2. 1 \in 1 .. Len(s) /\ s[1] = x
    BY <1>1, <1>2, EmptySeq DEF First
  <2>3. \A i \in 1 .. Len(t) : t[i] = IF i < 1 THEN s[i] ELSE s[i + 1]
    BY <2>1
  <2>4. QED
    BY <2>1, <2>2, <2>3, OnePlaceLess
<1>3. CASE t = Without(s, x) /\ ~\E i \in DOMAIN s : s[i] = x
  <2>1. t = s /\ x \notin Range(s)
    BY <1>3 DEF Without, Range
  <2>2. QED
    BY <2>1 DEF LeftBy
<1>4. CASE t = Without(s, x) /\ \E i \in DOMAIN s : s[i] = x
  <2> DEFINE k == CHOOSE i \in DOMAIN s : s[i] = x
             a == SubSeq(s, 1, k - 1)
             b == SubSeq(s, k + 1, Len(s))
  <2>1. k \in 1 .. Len(s) /\ s[k] = x
    BY <1>1, <1>4
  <2>2. t = a \o b
    BY <1>4 DEF Without, RemoveAt
  <2> HIDE DEF k
  <2>3. \A i \in 1 .. Len(s) : s[i] \in S
    BY ElementOfSeq
  <2>4. /\ a \in Seq(S) /\ Len(a) = k - 1
        /\ \A i \in 1 .. k - 1 : a[i] = s[i]
    <3>1. \A i \in 1 .. k - 1 : s[i] \in S
      BY <1>1, <2>1, <2>3
    <3>2. /\ a \in Seq(S)
          /\ Len(a) = IF 1 <= k - 1 THEN k - 1 - 1 + 1 ELSE 0
          /\ \A i \in 1 .. k - 1 - 1 + 1 : a[i] = s[1 + i - 1]
      BY <1>1, <2>1, <3>1, SubSeqProperties
    <3> HIDE DEF a
    <3>3. QED
      BY <1>1, <2>1, <3>2
  <2>5. /\ b \in Seq(S) /\ Len(b) = Len(s) - k
        /\ \A i \in 1 .. Len(s) - k : b[i] = s[k + i]
    <3>1. \A i \in k + 1 .. Len(s) : s[i] \in S
      BY <1>1, <2>1, <2>3
    <3>2. /\ b \in Seq(S)
          /\ Len(b) = IF k + 1 <= Len(s) THEN Len(s) - (k + 1) + 1 ELSE 0
          /\ \A i \in 1 .. Len(s) - (k + 1) + 1 : b[i] = s[k + 1 + i - 1]
      BY <1>1, <2>1, <3>1, SubSeqProperties
    <3> HIDE DEF b
    <3>3. Len(b) = Len(s) - k
      <4>1. Len(b) = IF k + 1 <= Len(s) THEN Len(s) - (k + 1) + 1 ELSE 0
        BY <3>2
      <4>2. \A n, m \in Nat : m <= n =>
              (IF m + 1 <= n THEN n - (m + 1) + 1 ELSE 0) = n - m
        OBVIOUS
      <4>3. Len(s) \in Nat /\ k \in Nat /\ k <= Len(s)
        BY <1>1, <2>1
      <4>4. (IF k + 1 <= Len(s) THEN Len(s) - (k + 1) + 1 ELSE 0) = Len(s) - k
        BY <4>2, <4>3
      <4>5. QED
        BY <4>1, <4>4
    <3>4. \A i \in 1 .. Len(s) - k : /\ i \in 1 .. Len(s) - (k + 1) + 1
                                     /\ k + 1 + i - 1 = k + i
      BY <1>1, <2>1
    <3>5. \A i \in 1 .. Len(s) - k : b[i] = s[k + 1 + i - 1]
      BY <3>2, <3>4
    <3>6. \A i \in 1 .. Len(s) - k : b[i] = s[k + i]
      BY <3>4, <3>5
    <3>7. QED
      BY <3>2, <3>3, <3>6
  <2> HIDE DEF a, b
  <2>6. /\ t \in Seq(S) /\ Len(t) = Len(a) + Len(b)
        /\ \A i \in 1 .. Len(a) + Len(b) :
             t[i] = IF i <= Len(a) THEN a[i] ELSE b[i - Len(a)]
    BY <2>2, <2>4, <2>5, ConcatProperties
  <2>7. Len(t) = Len(s) - 1
    BY <1>1, <2>1, <2>4, <2>5, <2>6
  <2>8. ASSUME NEW i \in 1 .. Len(t)
        PROVE  t[i] = IF i < k THEN s[i] ELSE s[i + 1]
    <3>1. CASE i < k
      BY <1>1, <2>1, <2>4, <2>6, <2>7, <3>1
    <3>2. CASE i >= k
      <4>1. /\ t[i] = b[i - (k - 1)] /\ i - (k - 1) \in 1 .. Len(s) - k
            /\ k + (i - (k - 1)) = i + 1
        BY <1>1, <2>1, <2>4, <2>5, <2>6, <2>7, <3>2
      <4>2. b[i - (k - 1)] = s[i + 1]
        BY <2>5, <4>1
      <4>3. ~(i < k)
        BY <2>1, <3>2
      <4>4. QED
        BY <4>1, <4>2, <4>3
    <3>3. QED
      BY <1>1, <2>1, <2>7, <3>1, <3>2
  <2>9. QED
    BY <2>1, <2>6, <2>7, <2>8, OnePlaceLess
<1>5. QED
  BY <1>2, <1>3, <1>4

(* Who comes stands behind everyone else. *)
LEMMA JoinsLine ==
  ASSUME NEW S, NEW s \in Seq(S), IsInjective(s), NEW x \in S, x \notin Range(s)
  PROVE  /\ Append(s, x) \in Seq(S) /\ IsInjective(Append(s, x))
         /\ Range(Append(s, x)) = Range(s) \cup {x}
         /\ \A y, z : Precedes(y, z, Append(s, x)) =>
              y \in Range(s) /\ (z = x \/ Precedes(y, z, s))
<1> DEFINE t == Append(s, x)
<1>1. /\ Len(s) \in Nat /\ DOMAIN s = 1 .. Len(s) /\ t \in Seq(S)
      /\ Len(t) = Len(s) + 1 /\ \A i \in 1 .. Len(s) : t[i] = s[i]
      /\ t[Len(s) + 1] = x
  BY LenProperties, AppendProperties
<1>2. DOMAIN t = 1 .. Len(s) + 1
  BY <1>1, LenProperties
<1> HIDE DEF t
<1>3. \A i \in 1 .. Len(s) + 1 : i \in 1 .. Len(s) \/ i = Len(s) + 1
  BY <1>1
<1>4. \A i \in 1 .. Len(s) : s[i] \in Range(s) /\ s[i] # x
  BY <1>1 DEF Range
<1>5. IsInjective(t)
  BY <1>1, <1>2, <1>3, <1>4 DEF IsInjective
<1>6. Range(t) = Range(s) \cup {x}
  <2>1. 1 .. Len(s) \subseteq DOMAIN t /\ Len(s) + 1 \in DOMAIN t
    BY <1>1, <1>2
  <2>2. \A y \in Range(t) : y \in Range(s) \cup {x}
    BY <1>1, <1>2, <1>3, <1>4 DEF Range
  <2>3. \A y \in Range(s) \cup {x} : y \in Range(t)
    BY <1>1, <2>1 DEF Range
  <2>4. QED
    BY <2>2, <2>3
<1>7. ASSUME NEW y, NEW z, Precedes(y, z, t)
      PROVE  y \in Range(s) /\ (z = x \/ Precedes(y, z, s))
  <2>1. PICK i, j \in 1 .. Len(s) + 1 : i < j /\ t[i] = y /\ t[j] = z
    BY <1>1, <1>7 DEF Precedes
  <2>2. i \in 1 .. Len(s) /\ (j \in 1 .. Len(s) \/ j = Len(s) + 1)
    BY <1>1, <2>1
  <2>3. QED
    BY <1>1, <1>4, <2>1, <2>2 DEF Precedes
<1>8. QED
  BY <1>1, <1>5, <1>6, <1>7 DEF t

(* ------------------------ the steps behind the line -------------------- *)

(* What a task does at its turn, or without one, is a step of the proxy.   *)
Acts(r) == WriteTurn(r) \/ PollTurn(r) \/ Wake(r) \/ Leave(r) \/ Elsewhere(r)

LEMMA ActsHandle ==
  ASSUME NEW r \in Requests, Acts(r)
  PROVE  UNCHANGED now /\ (Handle(r) \/ UNCHANGED <<req, cacheVars>>)
  BY DEF Acts, WriteTurn, PollTurn, Wake, Leave, Elsewhere, Handle

LEMMA GuardSteps ==
  ASSUME [GuardNext]_guardVars
  PROVE  \/ \E x \in Requests \cup Cleaners : Join(x)
         \/ \E r \in Requests : Acts(r)
         \/ \E c \in Cleaners : \/ SweepTurn(c)
                                \/ Arm(c) /\ UNCHANGED <<now, req, line, asleep>>
         \/ Tick /\ GuardMayWait /\ UNCHANGED <<cacheVars, req, line, asleep>>
         \/ UNCHANGED guardVars
  BY DEF GuardNext, Acts

LEMMA GuardStep ==
  ASSUME [GuardNext]_guardVars
  PROVE  Step
<1>1. ASSUME NEW r \in Requests, Acts(r)
      PROVE  Step
  BY <1>1, ActsHandle DEF Step, proxyVars
<1>2. ASSUME NEW c \in Cleaners,
             \/ SweepTurn(c)
             \/ Arm(c) /\ UNCHANGED <<now, req, line, asleep>>
      PROVE  Step
  BY <1>2 DEF Step, SweepTurn, Clean
<1>3. CASE \/ Tick /\ UNCHANGED <<cacheVars, req>>
           \/ UNCHANGED proxyVars
  BY <1>3 DEF Step
<1>4. CASE \E x \in Requests \cup Cleaners : Join(x)
  BY <1>3, <1>4 DEF Join
<1>5. CASE UNCHANGED guardVars
  BY <1>3, <1>5 DEF guardVars
<1>6. CASE Tick /\ GuardMayWait /\ UNCHANGED <<cacheVars, req, line, asleep>>
  BY <1>3, <1>6
<1>7. QED
  BY <1>1, <1>2, <1>4, <1>5, <1>6, GuardSteps

(* Who holds the key and is not yet back at the cacher stands in no line.  *)
LineKinds ==
  \A r \in Requests :
    InLine(r) => req[r].pc \in {"new", "publish", "discard", "poll"}

GuardInv == GuardTypeOK /\ LineKinds

(* A task leaves the line for its turn, or when it is dropped, and sleeps  *)
(* after a poll at most.                                                   *)
LEMMA ActsLeave ==
  ASSUME GuardInv, NEW r \in Requests, Acts(r)
  PROVE  /\ line' \in Seq(Requests \cup Cleaners) /\ IsInjective(line')
         /\ LeftBy(r, line, line')
         /\ asleep' \subseteq asleep \cup {r}
         /\ r \in asleep' => /\ PollTurn(r) /\ First(r, line)
                             /\ req'[r].pc = "poll"
<1> USE DEF GuardInv
<1>1. line \in Seq(Requests \cup Cleaners) /\ IsInjective(line)
  BY DEF GuardTypeOK
<1>2. CASE WriteTurn(r)
  <2>1. First(r, line) /\ line' = Tail(line) /\ asleep = {} /\ asleep' = asleep
    BY <1>2 DEF WriteTurn, MayWrite
  <2>2. QED
    BY <1>1, <2>1, LeavesLine
<1>3. CASE PollTurn(r)
  <2>1. /\ First(r, line) /\ line' = Without(line, r)
        /\ asleep' = IF req'[r].pc = "poll" THEN asleep \cup {r} ELSE asleep
    BY <1>3 DEF PollTurn, MayRead
  <2>2. r \notin asleep
    <3>1. InLine(r)
      BY <1>1, <2>1, HeadTailProperties, EmptySeq, LenProperties
      DEF First, InLine, Range
    <3>2. QED
      BY <3>1 DEF GuardTypeOK
  <2>3. QED
    BY <1>1, <1>3, <2>1, <2>2, LeavesLine
<1>4. CASE Wake(r)
  <2>1. r \in asleep /\ line' = line /\ asleep' = asleep \ {r}
    BY <1>4 DEF Wake
  <2>2. r \notin Range(line)
    BY <2>1 DEF GuardTypeOK, InLine
  <2>3. QED
    BY <1>1, <2>1, <2>2 DEF LeftBy
<1>5. CASE Leave(r)
  <2>1. line' = Without(line, r) /\ asleep' = asleep \ {r}
    BY <1>5 DEF Leave
  <2>2. QED
    BY <1>1, <2>1, LeavesLine
<1>6. CASE Elsewhere(r)
  <2>1. /\ line' = line /\ asleep' = asleep
        /\ req[r].pc \in {"forward", "await"} \/ (~InLine(r) /\ req[r].pc = "new")
    BY <1>6
    DEF Elsewhere, Forwarding, Send, BadBody, UpstreamAnswers, UpstreamRefuses,
        UpstreamFails, Reject, Arriving, Goto
  <2>2. r \notin Range(line)
    BY <2>1 DEF LineKinds, InLine
  <2>3. r \notin asleep
    BY <2>1 DEF GuardTypeOK
  <2>4. QED
    BY <1>1, <2>1, <2>2, <2>3 DEF LeftBy
<1>7. QED
  BY <1>2, <1>3, <1>4, <1>5, <1>6 DEF Acts

LEMMA GuardTypesKept ==
  ASSUME GuardInv, [GuardNext]_guardVars
  PROVE  GuardInv'
<1> USE DEF GuardInv
<1>1. ProxyTypeOK'
  BY GuardStep, StepTypes DEF GuardTypeOK
<1>2. line \in Seq(Requests \cup Cleaners) /\ IsInjective(line)
  BY DEF GuardTypeOK
<1>3. ASSUME NEW x \in Requests \cup Cleaners, Join(x)
      PROVE  GuardInv'
  <2>1. /\ x \notin Range(line) /\ line' = Append(line, x)
        /\ UNCHANGED <<req, asleep>>
    BY <1>3 DEF Join, InLine, proxyVars
  <2>2. /\ line' \in Seq(Requests \cup Cleaners) /\ IsInjective(line')
        /\ Range(line') = Range(line) \cup {x}
    BY <1>2, <2>1, JoinsLine
  <2>3. x \in Requests => /\ x \notin asleep
                          /\ req[x].pc \in {"new", "publish", "discard", "poll"}
    BY <1>3, GuardAssumption DEF Join, Awaits, Arriving, GuardTypeOK
  <2>4. QED
    BY <1>1, <2>1, <2>2, <2>3 DEF GuardTypeOK, LineKinds, InLine
<1>4. ASSUME NEW r \in Requests, Acts(r)
      PROVE  GuardInv'
  <2>1. \A s \in Requests \ {r} : req'[s] = req[s]
    BY <1>4, ActsHandle, OneAtATime DEF GuardTypeOK
  <2>2. /\ line' \in Seq(Requests \cup Cleaners) /\ IsInjective(line')
        /\ Range(line') = Range(line) \ {r}
        /\ asleep' \subseteq asleep \cup {r}
        /\ r \in asleep' => req'[r].pc = "poll"
    BY <1>4, ActsLeave DEF LeftBy
  <2>3. asleep' \subseteq {s \in Requests : req'[s].pc = "poll"
                                            /\ s \notin Range(line')}
    BY <2>1, <2>2 DEF GuardTypeOK, InLine
  <2>4. LineKinds'
    BY <2>1, <2>2 DEF LineKinds, InLine
  <2>5. QED
    BY <1>1, <2>2, <2>3, <2>4 DEF GuardTypeOK, InLine
<1>5. ASSUME NEW c \in Cleaners, SweepTurn(c)
      PROVE  GuardInv'
  <2>1. First(c, line) /\ line' = Tail(line) /\ UNCHANGED <<req, asleep>>
    BY <1>5 DEF SweepTurn, MayWrite
  <2>2. /\ line' \in Seq(Requests \cup Cleaners) /\ IsInjective(line')
        /\ Range(line') = Range(line) \ {c}
    BY <1>2, <2>1, LeavesLine DEF LeftBy
  <2>3. QED
    BY <1>1, <2>1, <2>2 DEF GuardTypeOK, LineKinds, InLine
<1>6. CASE UNCHANGED <<req, line, asleep>>
  BY <1>1, <1>6 DEF GuardTypeOK, LineKinds, InLine
<1>7. QED
  BY <1>3, <1>4, <1>5, <1>6, GuardSteps DEF guardVars, proxyVars

(* Whoever keeps the guard is a poller in its sleep, and the line is one,  *)
(* whoever is dropped and wherever.                                        *)
LEMMA GuardAlways == GuardSpec => []GuardInv
<1>1. GuardInit => GuardInv
  <2> SUFFICES ASSUME GuardInit PROVE GuardInv
    OBVIOUS
  <2>1. ProxyTypeOK
    BY DEF GuardInit, ProxyInit, CacheInit, HandlerInit, ProxyTypeOK,
           CacheTypeOK, HandlerTypeOK, Absent, Idle, Active, Working, Outcomes
  <2>2. line = <<>> /\ asleep = {}
    BY DEF GuardInit
  <2>3. /\ line \in Seq(Requests \cup Cleaners) /\ IsInjective(line)
        /\ Range(line) = {}
    BY <2>2 DEF IsInjective, Range
  <2>4. QED
    BY <2>1, <2>2, <2>3 DEF GuardInv, GuardTypeOK, LineKinds, InLine
<1>2. QED
  BY <1>1, GuardTypesKept, PTL DEF GuardSpec

THEOREM GuardTypes == GuardSpec => []GuardTypeOK
<1>1. GuardInv => GuardTypeOK
  BY DEF GuardInv
<1>2. QED
  BY <1>1, GuardAlways, PTL

(* ------------------------- no answer is missed ------------------------- *)

(* Whoever sleeps found its key obtained and unanswered, and nobody has    *)
(* written since.                                                          *)
SleepersWait == \A a \in asleep : kv[KeyOf[a]].val = Empty

(* The answers of a poll. *)
LEMMA PollsAgain ==
  ASSUME ProxyTypeOK, NEW r \in Requests, Poll(r), req'[r].pc = "poll"
  PROVE  /\ kv[KeyOf[r]].val = Empty
         /\ req'[r].wake = now + PollInterval
<1>1. req \in [Requests -> [pc    : {"new"} \cup Active \cup Outcomes,
                            held  : BOOLEAN, since : Nat, left : Nat,
                            wake  : Nat, got : Requests \cup {Nobody}]]
  BY DEF ProxyTypeOK, HandlerTypeOK
<1>2. ~PollMiss(r)
  BY <1>1 DEF PollMiss, Goto
<1>3. ASSUME NEW v, PollHit(r, v)
      PROVE  FALSE
  <2>1. req'[r] = [req[r] EXCEPT !.pc = "answered", !.got = v]
    BY <1>1, <1>3 DEF PollHit
  <2>2. req'[r].pc = "answered"
    BY <1>1, <2>1
  <2>3. QED
    BY <2>2
<1>4. kv[KeyOf[r]].val = Empty /\ PollAgain(r)
  BY <1>2, <1>3 DEF Poll
<1>5. QED
  BY <1>1, <1>4 DEF PollAgain

LEMMA SleepersKept ==
  ASSUME GuardInv, SleepersWait, [GuardNext]_guardVars
  PROVE  SleepersWait'
<1>1. CASE asleep' = {}
  BY <1>1 DEF SleepersWait
<1>2. CASE asleep' \subseteq asleep /\ UNCHANGED kv
  BY <1>2 DEF SleepersWait
<1>3. ASSUME NEW r \in Requests, Acts(r)
      PROVE  SleepersWait'
  <2>1. /\ asleep' \subseteq asleep \cup {r}
        /\ r \in asleep' => PollTurn(r) /\ req'[r].pc = "poll"
    BY <1>3, ActsLeave
  <2>2. CASE WriteTurn(r)
    BY <1>1, <2>2 DEF WriteTurn, MayWrite
  <2>3. CASE PollTurn(r)
    <3>1. UNCHANGED kv
      BY <2>3 DEF PollTurn, Poll, Look
    <3>2. r \in asleep' => kv[KeyOf[r]].val = Empty
      BY <2>1, PollsAgain DEF PollTurn, GuardInv, GuardTypeOK
    <3>3. QED
      BY <2>1, <3>1, <3>2 DEF SleepersWait
  <2>4. CASE Wake(r) \/ Leave(r) \/ Elsewhere(r)
    <3>1. UNCHANGED kv
      BY <2>4 DEF Wake, Leave, Elsewhere, cacheVars
    <3>2. asleep' \subseteq asleep
      BY <2>4 DEF Wake, Leave, Elsewhere
    <3>3. QED
      BY <1>2, <3>1, <3>2
  <2>5. QED
    BY <1>3, <2>2, <2>3, <2>4 DEF Acts
<1>4. ASSUME NEW c \in Cleaners, SweepTurn(c)
      PROVE  SleepersWait'
  BY <1>1, <1>4 DEF SweepTurn, MayWrite
<1>5. ASSUME NEW c \in Cleaners, Arm(c), UNCHANGED <<now, req, line, asleep>>
      PROVE  SleepersWait'
  BY <1>2, <1>5 DEF Arm
<1>6. ASSUME NEW x \in Requests \cup Cleaners, Join(x)
      PROVE  SleepersWait'
  BY <1>2, <1>6 DEF Join, proxyVars, cacheVars
<1>7. CASE \/ Tick /\ GuardMayWait /\ UNCHANGED <<cacheVars, req, line, asleep>>
           \/ UNCHANGED guardVars
  BY <1>2, <1>7 DEF guardVars, proxyVars, cacheVars
<1>8. QED
  BY <1>3, <1>4, <1>5, <1>6, <1>7, GuardSteps

(* Nothing but the end of its sleep makes a waiter give up. *)
LEMMA GivesUpAwake ==
  ASSUME GuardInv, [GuardNext]_guardVars, NEW r \in Requests, PollTimeout(r)
  PROVE  r \in asleep
<1>1. req \in [Requests -> [pc    : {"new"} \cup Active \cup Outcomes,
                            held  : BOOLEAN, since : Nat, left : Nat,
                            wake  : Nat, got : Requests \cup {Nobody}]]
  BY DEF GuardInv, GuardTypeOK, ProxyTypeOK, HandlerTypeOK
<1>2. req[r].pc = "poll" /\ req[r].left = 0 /\ req'[r].pc = "timeout"
  BY <1>1 DEF PollTimeout, Goto
<1>3. ~UNCHANGED req
  BY <1>2
<1>4. ASSUME NEW s \in Requests, Acts(s)
      PROVE  r \in asleep
  <2>1. s = r
    BY <1>2, <1>4, ActsHandle, OneAtATime DEF GuardInv, GuardTypeOK
  <2>2. CASE Wake(r)
    BY <2>2 DEF Wake
  <2>3. ~WriteTurn(r)
    BY <1>2 DEF WriteTurn, ObtainKey, ObtainDenied, GotKey, KeyTaken, Arriving,
                Publish, Published, PublishFails, Discard, Discarded, Goto
  <2>4. ~PollTurn(r)
    BY <1>2 DEF PollTurn, Poll, PollMiss, PollHit, PollAgain, MayLook
  <2>5. ~Leave(r)
    BY <1>1, <1>2, <1>3 DEF Leave, Disconnect
  <2>6. ~Elsewhere(r)
    BY <1>2
    DEF Elsewhere, Forwarding, Send, BadBody, UpstreamAnswers, UpstreamRefuses,
        UpstreamFails, Reject, Arriving, Goto
  <2>7. QED
    BY <1>4, <2>1, <2>2, <2>3, <2>4, <2>5, <2>6 DEF Acts
<1>5. QED
  BY <1>3, <1>4, GuardSteps DEF Join, SweepTurn, proxyVars, guardVars

(* No waiter gives up on a response that is there for the taking, however  *)
(* long the polls, the upstream and the line are.                          *)
THEOREM NoneMissesItsAnswer == GuardSpec => NoAnswerMissed
<1>1. GuardInit => SleepersWait
  BY DEF GuardInit, SleepersWait
<1>2. GuardInv /\ SleepersWait /\ [GuardNext]_guardVars => SleepersWait'
  BY SleepersKept
<1>3. GuardInv /\ SleepersWait /\ [GuardNext]_guardVars =>
        \A r \in Requests : PollTimeout(r) => ~Answered(KeyOf[r])
  BY GivesUpAwake, ValueAssumption DEF SleepersWait, Answered
<1>4. QED
  BY <1>1, <1>2, <1>3, GuardAlways, PTL DEF GuardSpec, NoAnswerMissed

(* ------------------------- the delays of the line ---------------------- *)

(* Nobody waits longer for the map than all the others' sleeps, one after  *)
(* another, take: who sleeps while a task stands in the line came to the   *)
(* guard before it, and comes back behind it.  So every request that has   *)
(* been served, or is gone, since the task joined the line buys it one     *)
(* more sleep, and there are no more of them than other requests.          *)
Sleep  == PollInterval + WakeLate
Others == Cardinality(Requests) - 1

Ahead(x) == {y \in Requests : Precedes(y, x, line)}
Spent(A) == (Others - Cardinality(A)) * Sleep

(* By when a task has come to the line. *)
Due0(r) == IF req[r].pc = "poll" THEN req[r].wake + WakeLate
           ELSE req[r].since + MaxUpstream

Waits(r) == req[r].pc = "poll" \/ Holding(r)

OutInTime ==
  \A r \in Requests : Waits(r) /\ ~InLine(r) => now <= Due0(r)

SleepsEnd == \A a \in asleep : req[a].wake <= now + PollInterval

LineInTime ==
  \A r \in Requests :
    Waits(r) /\ InLine(r) =>
      /\ now <= Due0(r) + Spent(Ahead(r))
      /\ \A a \in asleep : req[a].wake + WakeLate <= Due0(r) + Spent(Ahead(r))

DelayInv == OutInTime /\ SleepsEnd /\ LineInTime

(* Fewer ahead is more spent. *)
LEMMA Spending ==
  ASSUME NEW r \in Requests, NEW B \in SUBSET (Requests \ {r}),
         NEW A \in SUBSET B
  PROVE  /\ Spent(A) \in Nat /\ Spent(B) \in Nat /\ Others * Sleep \in Nat
         /\ Spent(A) <= Others * Sleep
         /\ Spent(B) <= Spent(A)
         /\ A # B => Spent(B) + Sleep <= Spent(A)
<1>1. Sleep \in Nat
  BY HandlerAssumption, GuardAssumption DEF Sleep
<1>2. \A a, b, c \in Nat : /\ a * b \in Nat
                           /\ (a + c) * b = a * b + c * b
                           /\ c > 0 => b <= c * b
  <2>1. \A a, b, c \in Nat : a * b \in Nat /\ (a + c) * b = a * b + c * b
    OBVIOUS
  <2>2. ASSUME NEW b \in Nat, NEW c \in Nat, c > 0
        PROVE  b <= c * b
    <3>1. c - 1 \in Nat /\ c = (c - 1) + 1
      BY <2>2
    <3>2. c * b = (c - 1) * b + 1 * b /\ (c - 1) * b \in Nat
      BY <2>1, <3>1
    <3>3. QED
      BY <3>2
  <2>3. QED
    BY <2>1, <2>2
<1>3. /\ IsFiniteSet(Requests) /\ IsFiniteSet(Requests \ {r})
      /\ Cardinality(Requests \ {r}) = Others /\ Others \in Nat
  <2>1. IsFiniteSet(Requests)
    BY GuardAssumption
  <2>2. /\ IsFiniteSet(Requests \ {r})
        /\ Cardinality(Requests \ {r}) = Cardinality(Requests) - 1
    BY <2>1, FS_RemoveElement
  <2>3. Cardinality(Requests \ {r}) \in Nat
    BY <2>2, FS_CardinalityType
  <2>4. QED
    BY <2>1, <2>2, <2>3 DEF Others
<1>4. /\ IsFiniteSet(B) /\ Cardinality(B) <= Others /\ Cardinality(B) \in Nat
  BY <1>3, FS_Subset, FS_CardinalityType
<1>5. /\ Cardinality(A) \in Nat /\ Cardinality(A) <= Cardinality(B)
      /\ A # B => Cardinality(A) < Cardinality(B)
  BY <1>4, FS_Subset, FS_CardinalityType
<1> DEFINE a == Cardinality(A)
           b == Cardinality(B)
           c == b - a
<1>6. /\ Others - b \in Nat /\ c \in Nat /\ a \in Nat
      /\ Others - a = (Others - b) + c
      /\ Others = (Others - a) + a /\ Others - a \in Nat
      /\ A # B => c > 0
  BY <1>3, <1>4, <1>5
<1>7. /\ Spent(B) = (Others - b) * Sleep
      /\ Spent(A) = (Others - a) * Sleep
  BY DEF Spent
<1> HIDE DEF a, b, c
<1>8. /\ Spent(A) = Spent(B) + c * Sleep
      /\ Others * Sleep = Spent(A) + a * Sleep
      /\ Spent(A) \in Nat /\ Spent(B) \in Nat
      /\ c * Sleep \in Nat /\ a * Sleep \in Nat
      /\ Others * Sleep \in Nat
  <2>1. \A m, n \in Nat : /\ (m + n) * Sleep = m * Sleep + n * Sleep
                          /\ m * Sleep \in Nat
    BY <1>1, <1>2
  <2>2. (Others - a) * Sleep = (Others - b) * Sleep + c * Sleep
    BY <1>6, <2>1
  <2>3. Others * Sleep = (Others - a) * Sleep + a * Sleep
    BY <1>6, <2>1
  <2>4. /\ (Others - a) * Sleep \in Nat /\ (Others - b) * Sleep \in Nat
        /\ c * Sleep \in Nat /\ a * Sleep \in Nat /\ Others * Sleep \in Nat
    BY <1>3, <1>6, <2>1
  <2>5. QED
    BY <1>7, <2>2, <2>3, <2>4
<1>9. A # B => Sleep <= c * Sleep
  BY <1>1, <1>2, <1>6
<1>10. QED
  BY <1>1, <1>8, <1>9

(* Nobody stands before himself. *)
LEMMA AheadOthers ==
  ASSUME GuardTypeOK, NEW r \in Requests
  PROVE  Ahead(r) \subseteq Requests \ {r}
<1>1. IsInjective(line) /\ DOMAIN line = 1 .. Len(line) /\ Len(line) \in Nat
  BY LenProperties DEF GuardTypeOK
<1>2. QED
  BY <1>1 DEF Ahead, Precedes, IsInjective

(* The first stands before all others. *)
LEMMA FirstAhead ==
  ASSUME GuardTypeOK, NEW r \in Requests, NEW x \in Requests \ {r},
         First(r, line), InLine(x)
  PROVE  r \in Ahead(x)
<1>1. DOMAIN line = 1 .. Len(line) /\ Len(line) \in Nat
  BY LenProperties DEF GuardTypeOK
<1>2. PICK j \in 1 .. Len(line) : line[j] = x
  BY <1>1 DEF InLine, Range
<1>3. line[1] = r /\ 1 \in 1 .. Len(line)
  BY <1>1, <1>2 DEF First
<1>4. 1 < j
  BY <1>1, <1>2, <1>3
<1>5. QED
  BY <1>2, <1>3, <1>4 DEF Ahead, Precedes

(* The amounts of time of one request. *)
LEMMA Times ==
  ASSUME GuardTypeOK, NEW r \in Requests
  PROVE  /\ now \in Nat /\ req[r].wake \in Nat /\ req[r].since \in Nat
         /\ Due0(r) \in Nat /\ WakeLate \in Nat /\ PollInterval \in Nat
         /\ MaxUpstream \in Nat /\ Sleep = PollInterval + WakeLate
  BY HandlerAssumption, GuardAssumption
  DEF GuardTypeOK, ProxyTypeOK, HandlerTypeOK, Due0, Sleep

(* Whoever has had its turn and goes on is in time at the line again.      *)
LEMMA ActsInTime ==
  ASSUME GuardInv, OutInTime, NEW r \in Requests, Acts(r), Waits(r)'
  PROVE  now <= Due0(r)'
<1> USE DEF GuardInv
<1>1. req \in [Requests -> [pc    : {"new"} \cup Active \cup Outcomes,
                            held  : BOOLEAN, since : Nat, left : Nat,
                            wake  : Nat, got : Requests \cup {Nobody}]]
  BY DEF GuardTypeOK, ProxyTypeOK, HandlerTypeOK
<1>2. req'[r].pc \in Working \cup {"poll"}
  BY DEF Waits, Holding
<1>3. /\ now \in Nat /\ now <= now + MaxUpstream /\ now <= now + WakeLate
      /\ now <= now + PollInterval + WakeLate
  BY Times
<1>4. CASE WriteTurn(r)
  <2>1. CASE ObtainKey(r)
    <3>1. req'[r].pc = "forward" /\ req'[r].since = now
      BY <1>1, <2>1 DEF ObtainKey, GotKey
    <3>2. QED
      BY <1>3, <3>1 DEF Due0
  <2>2. CASE ObtainDenied(r)
    <3>1. req'[r].pc = "poll" /\ req'[r].wake = now
      BY <1>1, <2>2 DEF ObtainDenied, KeyTaken
    <3>2. QED
      BY <1>3, <3>1 DEF Due0
  <2>3. CASE Publish(r) \/ Discard(r)
    <3>1. CASE Published(r)
      BY <1>1, <1>2, <3>1 DEF Published, Working
    <3>2. CASE PublishFails(r)
      BY <1>1, <1>2, <3>2 DEF PublishFails, Goto, Working
    <3>3. CASE Discarded(r)
      BY <1>1, <1>2, <3>3 DEF Discarded, Goto, Working
    <3>4. QED
      BY <2>3, <3>1, <3>2, <3>3 DEF Publish, Discard
  <2>4. QED
    BY <1>4, <2>1, <2>2, <2>3 DEF WriteTurn
<1>5. CASE PollTurn(r)
  <2>1. req'[r].pc = "poll"
    <3>1. Poll(r)
      BY <1>5 DEF PollTurn
    <3>2. ASSUME NEW v, PollHit(r, v)
          PROVE  FALSE
      <4>1. req'[r] = [req[r] EXCEPT !.pc = "answered", !.got = v]
        BY <1>1, <3>2 DEF PollHit
      <4>2. req'[r].pc = "answered"
        BY <1>1, <4>1
      <4>3. QED
        BY <1>2, <4>2 DEF Working
    <3>3. ~PollMiss(r)
      BY <1>1, <1>2 DEF PollMiss, Goto, Working
    <3>4. PollAgain(r)
      BY <3>1, <3>2, <3>3 DEF Poll
    <3>5. QED
      BY <1>1, <3>4 DEF PollAgain, MayLook
  <2>2. req'[r].wake = now + PollInterval
    BY <1>5, <2>1, PollsAgain DEF PollTurn, GuardTypeOK
  <2>3. QED
    BY <1>3, <2>1, <2>2 DEF Due0
<1>6. CASE Wake(r)
  <2>1. r \in asleep /\ req[r].pc = "poll" /\ ~InLine(r)
    BY <1>6 DEF Wake, GuardTypeOK
  <2>2. ~PollTimeout(r)
    BY <1>1, <1>2 DEF PollTimeout, Goto, Working
  <2>3. UNCHANGED req
    BY <1>6, <2>2 DEF Wake
  <2>4. now <= Due0(r)
    BY <2>1 DEF OutInTime, Waits
  <2>5. QED
    BY <2>3, <2>4 DEF Due0
<1>7. CASE Leave(r)
  <2>1. req'[r].pc \in {"gone", "new"}
    BY <1>1, <1>7 DEF Leave, Disconnect, Arriving
  <2>2. QED
    BY <1>2, <2>1 DEF Working
<1>8. CASE Elsewhere(r)
  <2>1. ~Reject(r)
    BY <1>1, <1>2 DEF Reject, Goto, Working
  <2>2. /\ req[r].pc \in {"forward", "await"} /\ req'[r].pc # "poll"
        /\ req'[r].since = req[r].since
    BY <1>1, <1>8, <2>1
    DEF Elsewhere, Forwarding, Send, BadBody, UpstreamAnswers, UpstreamRefuses,
        UpstreamFails, Goto
  <2>3. ~InLine(r)
    BY <2>2 DEF LineKinds
  <2>4. now <= Due0(r)
    BY <2>2, <2>3 DEF OutInTime, Waits, Holding, Working
  <2>5. QED
    BY <2>2, <2>4 DEF Due0
<1>9. QED
  BY <1>4, <1>5, <1>6, <1>7, <1>8 DEF Acts

(* Who is in time in the line still is when some before it have left it.   *)
LEMMA StaysInTime ==
  ASSUME GuardInv, LineInTime, NEW s \in Requests, Waits(s), InLine(s),
         NEW A \in SUBSET Ahead(s)
  PROVE  /\ now <= Due0(s) + Spent(A)
         /\ \A a \in asleep : req[a].wake + WakeLate <= Due0(s) + Spent(A)
<1>1. Ahead(s) \subseteq Requests \ {s}
  BY AheadOthers DEF GuardInv
<1> DEFINE old == Spent(Ahead(s))
           new == Spent(A)
           due == Due0(s)
<1>2. old \in Nat /\ new \in Nat /\ old <= new /\ due \in Nat
  BY <1>1, Spending, Times DEF GuardInv
<1>3. /\ now <= due + old
      /\ \A a \in asleep : req[a].wake + WakeLate <= due + old
  BY DEF LineInTime
<1> HIDE DEF old, new, due
<1>4. \A t \in Nat : t <= due + old => t <= due + new
  BY <1>2
<1>5. now \in Nat /\ \A a \in asleep : req[a].wake + WakeLate \in Nat
  BY Times DEF GuardInv, GuardTypeOK
<1>6. /\ now <= due + new
      /\ \A a \in asleep : req[a].wake + WakeLate <= due + new
  BY <1>3, <1>4, <1>5
<1>7. QED
  BY <1>6 DEF new, due

LEMMA ActsKeepDelays ==
  ASSUME GuardInv, GuardInv', DelayInv, NEW r \in Requests, Acts(r)
  PROVE  DelayInv'
<1> USE DEF GuardInv, DelayInv
<1>1. UNCHANGED now /\ \A s \in Requests \ {r} : req'[s] = req[s]
  BY ActsHandle, OneAtATime DEF GuardTypeOK
<1>2. /\ LeftBy(r, line, line') /\ asleep' \subseteq asleep \cup {r}
      /\ r \in asleep' => /\ PollTurn(r) /\ First(r, line)
                          /\ req'[r].pc = "poll"
  BY ActsLeave
<1>3. \A s \in Requests : InLine(s)' <=> InLine(s) /\ s # r
  BY <1>2 DEF LeftBy, InLine
<1>4. \A s \in Requests \ {r} :
        Due0(s)' = Due0(s) /\ (Waits(s)' <=> Waits(s))
  BY <1>1 DEF Due0, Waits, Holding
<1>5. OutInTime'
  BY <1>1, <1>3, <1>4, ActsInTime DEF OutInTime
<1>6. r \in asleep' => req'[r].wake = now + PollInterval
  BY <1>2, PollsAgain DEF PollTurn, GuardTypeOK
<1>7. SleepsEnd'
  <2>1. \A a \in asleep' : a \in Requests
    BY DEF GuardTypeOK
  <2>2. now + PollInterval <= now + PollInterval
    BY Times
  <2>3. QED
    BY <1>1, <1>2, <1>6, <2>1, <2>2 DEF SleepsEnd
<1>8. ASSUME NEW s \in Requests, Waits(s)', InLine(s)'
      PROVE  /\ now' <= Due0(s)' + Spent(Ahead(s))'
             /\ \A a \in asleep' :
                  req'[a].wake + WakeLate <= Due0(s)' + Spent(Ahead(s))'
  <2>1. /\ s # r /\ InLine(s) /\ Waits(s) /\ Due0(s)' = Due0(s)
    BY <1>3, <1>4, <1>8
  <2>2. Ahead(s)' \subseteq Ahead(s) /\ Ahead(s) \subseteq Requests \ {s}
    BY <1>2, AheadOthers DEF Ahead, LeftBy
  <2>3. Spent(Ahead(s))' = Spent(Ahead(s)')
    BY DEF Spent
  <2>4. /\ now <= Due0(s) + Spent(Ahead(s)')
        /\ \A a \in asleep :
             req[a].wake + WakeLate <= Due0(s) + Spent(Ahead(s)')
    BY <2>1, <2>2, StaysInTime
  <2>5. ASSUME NEW a \in asleep', a # r
        PROVE  req'[a].wake + WakeLate <= Due0(s) + Spent(Ahead(s)')
    BY <1>1, <1>2, <2>4, <2>5 DEF GuardTypeOK
  <2>6. ASSUME r \in asleep'
        PROVE  req'[r].wake + WakeLate <= Due0(s) + Spent(Ahead(s)')
    <3>1. r \in Ahead(s)
      BY <1>2, <2>1, <2>6, FirstAhead
    <3>2. r \notin Ahead(s)'
      <4>1. r \notin Range(line)'
        BY <1>2 DEF LeftBy
      <4>2. DOMAIN line' = 1 .. Len(line')
        BY LenProperties DEF GuardTypeOK
      <4>3. \A y, x : Precedes(y, x, line') => y \in Range(line')
        BY <4>2 DEF Precedes, Range
      <4>4. QED
        BY <4>1, <4>3 DEF Ahead
    <3> DEFINE old == Spent(Ahead(s))
               new == Spent(Ahead(s)')
               due == Due0(s)
    <3>3. old \in Nat /\ new \in Nat /\ old + Sleep <= new
      BY <2>2, <3>1, <3>2, Spending
    <3>4. /\ due \in Nat /\ now \in Nat /\ now <= due + old
          /\ Sleep = PollInterval + WakeLate
          /\ PollInterval \in Nat /\ WakeLate \in Nat
      BY <2>1, Times DEF LineInTime
    <3>5. req'[r].wake = now + PollInterval
      BY <1>6, <2>6
    <3> HIDE DEF old, new, due
    <3>6. now + PollInterval + WakeLate <= due + new
      BY <3>3, <3>4
    <3>7. QED
      BY <3>5, <3>6 DEF new, due
  <2>7. QED
    BY <1>1, <2>1, <2>3, <2>4, <2>5, <2>6
<1>9. LineInTime'
  BY <1>8 DEF LineInTime
<1>10. QED
  BY <1>5, <1>7, <1>9

(* Who comes to the line in time finds at most one sleep for every other   *)
(* request before it.                                                      *)
LEMMA JoinKeepsDelays ==
  ASSUME GuardInv, GuardInv', DelayInv,
         NEW x \in Requests \cup Cleaners, Join(x)
  PROVE  DelayInv'
<1> USE DEF GuardInv, DelayInv
<1>1. /\ x \notin Range(line) /\ line' = Append(line, x)
      /\ UNCHANGED <<now, req, asleep>>
  BY DEF Join, InLine, proxyVars
<1>2. line \in Seq(Requests \cup Cleaners) /\ IsInjective(line)
  BY DEF GuardTypeOK
<1>3. /\ Range(line') = Range(line) \cup {x}
      /\ \A y, z : Precedes(y, z, line') =>
           y \in Range(line) /\ (z = x \/ Precedes(y, z, line))
  BY <1>1, <1>2, JoinsLine
<1>4. OutInTime' /\ SleepsEnd'
  BY <1>1, <1>3 DEF OutInTime, SleepsEnd, InLine, Waits, Holding, Due0
<1>5. ASSUME NEW s \in Requests, Waits(s)', InLine(s)'
      PROVE  /\ now <= Due0(s) + Spent(Ahead(s)')
             /\ \A a \in asleep :
                  req[a].wake + WakeLate <= Due0(s) + Spent(Ahead(s)')
  <2>1. Waits(s) /\ (InLine(s) \/ s = x)
    BY <1>1, <1>3, <1>5 DEF Waits, Holding, InLine
  <2>2. CASE s # x
    <3>1. Ahead(s)' \subseteq Ahead(s)
      BY <1>3, <2>2 DEF Ahead
    <3>2. QED
      BY <2>1, <2>2, <3>1, StaysInTime
  <2>3. CASE s = x
    <3> DEFINE A == Ahead(s)'
    <3>1. A \subseteq Requests /\ \A y \in A : y \in Range(line)
      BY <1>3 DEF Ahead
    <3>2. s \notin A
      BY <1>1, <2>3, <3>1
    <3>3. now <= Due0(s)
      BY <1>1, <2>1, <2>3 DEF OutInTime, InLine
    <3>4. Spent(A) \in Nat
      BY <3>1, <3>2, Spending
    <3>5. ASSUME NEW a \in asleep
          PROVE  req[a].wake + WakeLate <= Due0(s) + Spent(A)
      <4>1. a \in Requests /\ a \notin Range(line) /\ a # s
        <5>1. a \in Requests /\ ~InLine(a) /\ ~InLine(a)'
          BY <1>1, <3>5 DEF GuardTypeOK
        <5>2. QED
          BY <1>3, <2>3, <5>1 DEF InLine
      <4> DEFINE B == A \cup {a}
      <4>2. B \subseteq Requests \ {s} /\ A \subseteq B /\ A # B
        BY <3>1, <3>2, <4>1
      <4> HIDE DEF A, B
      <4>3. Spent(B) \in Nat /\ Spent(B) + Sleep <= Spent(A)
        BY <4>2, Spending
      <4>4. req[a].wake <= now + PollInterval
        BY <3>5 DEF SleepsEnd
      <4>5. /\ now \in Nat /\ Due0(s) \in Nat /\ req[a].wake \in Nat
            /\ Sleep = PollInterval + WakeLate
            /\ PollInterval \in Nat /\ WakeLate \in Nat
        BY <4>1, Times
      <4> DEFINE due == Due0(s)
                 b == Spent(B)
                 c == Spent(A)
      <4>6. /\ b \in Nat /\ c \in Nat /\ b + Sleep <= c /\ now <= due
            /\ due \in Nat
        BY <3>3, <3>4, <4>3, <4>5 DEF A
      <4> HIDE DEF due, b, c
      <4>7. req[a].wake + WakeLate <= due + c
        BY <4>4, <4>5, <4>6
      <4>8. QED
        BY <4>7 DEF due, c
    <3>6. now <= Due0(s) + Spent(A)
      <4>1. now \in Nat /\ Due0(s) \in Nat
        BY Times
      <4> HIDE DEF A
      <4>2. QED
        BY <3>3, <3>4, <4>1
    <3>7. QED
      BY <3>5, <3>6
  <2>4. QED
    BY <2>1, <2>2, <2>3
<1>6. LineInTime'
  <2>1. \A s \in Requests : /\ Due0(s)' = Due0(s)
                            /\ Spent(Ahead(s))' = Spent(Ahead(s)')
    BY <1>1 DEF Due0, Spent
  <2>2. QED
    BY <1>1, <1>5, <2>1 DEF LineInTime
<1>7. QED
  BY <1>4, <1>6

(* A cleaner's turn brings everyone forward. *)
LEMMA SweepKeepsDelays ==
  ASSUME GuardInv, DelayInv, NEW c \in Cleaners, SweepTurn(c)
  PROVE  DelayInv'
<1> USE DEF GuardInv, DelayInv
<1>1. First(c, line) /\ line' = Tail(line) /\ UNCHANGED <<now, req, asleep>>
  BY DEF SweepTurn, MayWrite
<1>2. LeftBy(c, line, line')
  BY <1>1, LeavesLine DEF GuardTypeOK
<1>3. \A s \in Requests : InLine(s)' <=> InLine(s)
  BY <1>2, GuardAssumption DEF LeftBy, InLine
<1>4. \A s \in Requests : /\ Due0(s)' = Due0(s) /\ (Waits(s)' <=> Waits(s))
                          /\ Spent(Ahead(s))' = Spent(Ahead(s)')
                          /\ Ahead(s)' \subseteq Ahead(s)
  BY <1>1, <1>2 DEF Due0, Waits, Holding, Spent, Ahead, LeftBy
<1>5. OutInTime' /\ SleepsEnd'
  BY <1>1, <1>3, <1>4 DEF OutInTime, SleepsEnd
<1>6. LineInTime'
  BY <1>1, <1>3, <1>4, StaysInTime DEF LineInTime
<1>7. QED
  BY <1>5, <1>6

(* While the clock moves on, the first in line awaits the end of a sleep.  *)
LEMMA SomeoneSleeps ==
  ASSUME GuardInv, GuardMayWait, NEW r \in Requests, InLine(r)
  PROVE  \E a \in asleep : a \in Requests /\ now < req[a].wake + WakeLate
<1>1. /\ line \in Seq(Requests \cup Cleaners) /\ DOMAIN line = 1 .. Len(line)
      /\ Len(line) \in Nat
  BY LenProperties DEF GuardInv, GuardTypeOK
<1>2. line # <<>> /\ 1 \in 1 .. Len(line)
  BY <1>1, EmptySeq DEF InLine, Range
<1>3. Head(line) \in Range(line)
  BY <1>1, <1>2 DEF Range
<1>4. ~Ready(Head(line))
  BY <1>3 DEF GuardMayWait
<1>5. asleep # {}
  BY <1>2, <1>4 DEF Ready, MayWrite, First
<1>6. PICK a \in asleep : TRUE
  BY <1>5
<1>7. a \in Requests
  BY DEF GuardInv, GuardTypeOK
<1>8. QED
  BY <1>6, <1>7 DEF GuardMayWait

(* What is still to come of everyone's delays when the clock moves on.     *)
LEMMA ClockWaits ==
  ASSUME GuardInv, DelayInv, GuardMayWait, NEW r \in Requests, Waits(r)
  PROVE  /\ ~InLine(r) => now < Due0(r)
         /\ InLine(r) => now < Due0(r) + Spent(Ahead(r))
<1>1. CASE ~InLine(r)
  <2>1. CASE req[r].pc = "poll"
    BY <1>1, <2>1 DEF GuardMayWait, Due0
  <2>2. CASE Holding(r)
    <3>1. req[r].pc # "poll" /\ r \notin asleep
      BY <2>2 DEF Holding, Working, GuardInv, GuardTypeOK
    <3>2. req[r].pc \in {"forward", "await"}
      BY <1>1, <2>2, <3>1 DEF Holding, Working, GuardMayWait
    <3>3. now < req[r].since + MaxUpstream
      BY <3>2 DEF GuardMayWait
    <3>4. Due0(r) = req[r].since + MaxUpstream
      BY <3>1 DEF Due0
    <3>5. QED
      BY <1>1, <3>3, <3>4
  <2>3. QED
    BY <1>1, <2>1, <2>2 DEF Waits
<1>2. CASE InLine(r)
  <2>1. PICK a \in asleep : a \in Requests /\ now < req[a].wake + WakeLate
    BY <1>2, SomeoneSleeps
  <2>2. req[a].wake + WakeLate <= Due0(r) + Spent(Ahead(r))
    BY <1>2, <2>1 DEF DelayInv, LineInTime
  <2>3. now \in Nat /\ req[a].wake + WakeLate \in Nat /\ Due0(r) \in Nat
    BY <2>1, Times DEF GuardInv
  <2>4. Spent(Ahead(r)) \in Nat
    BY AheadOthers, Spending DEF GuardInv
  <2> DEFINE d == Due0(r) + Spent(Ahead(r))
             w == req[a].wake + WakeLate
  <2>5. d \in Nat /\ w \in Nat /\ now < w /\ w <= d
    BY <2>1, <2>2, <2>3, <2>4
  <2> HIDE DEF d, w
  <2>6. now < d
    BY <2>3, <2>5
  <2>7. QED
    BY <1>2, <2>6 DEF d
<1>3. QED
  BY <1>1, <1>2

LEMMA TickKeepsDelays ==
  ASSUME GuardInv, DelayInv, GuardMayWait, Tick,
         UNCHANGED <<cacheVars, req, line, asleep>>
  PROVE  DelayInv'
<1> USE DEF GuardInv, DelayInv
<1>1. now' = now + 1 /\ UNCHANGED <<req, line, asleep>>
  BY DEF Tick
<1>2. \A s \in Requests :
        /\ Due0(s)' = Due0(s) /\ (Waits(s)' <=> Waits(s))
        /\ Ahead(s)' = Ahead(s) /\ Spent(Ahead(s))' = Spent(Ahead(s))
        /\ (InLine(s)' <=> InLine(s))
  BY <1>1 DEF Due0, Waits, Holding, Ahead, Spent, InLine
<1>3. \A t, d \in Nat : t < d => t + 1 <= d
  OBVIOUS
<1>4. OutInTime'
  BY <1>1, <1>2, <1>3, ClockWaits, Times DEF OutInTime
<1>5. SleepsEnd'
  <2>1. ASSUME NEW a \in asleep
        PROVE  req[a].wake <= now + 1 + PollInterval
    <3>1. a \in Requests /\ req[a].wake <= now + PollInterval
      BY DEF GuardTypeOK, SleepsEnd
    <3>2. QED
      BY <3>1, Times
  <2>2. QED
    BY <1>1, <2>1 DEF SleepsEnd
<1>6. LineInTime'
  <2> SUFFICES ASSUME NEW s \in Requests, Waits(s), InLine(s)
               PROVE  /\ now' <= Due0(s) + Spent(Ahead(s))
                      /\ \A a \in asleep :
                           req[a].wake + WakeLate <= Due0(s) + Spent(Ahead(s))
    BY <1>1, <1>2 DEF LineInTime
  <2>1. now < Due0(s) + Spent(Ahead(s))
    BY ClockWaits
  <2>2. Due0(s) + Spent(Ahead(s)) \in Nat /\ now \in Nat
    <3>1. Spent(Ahead(s)) \in Nat
      BY AheadOthers, Spending
    <3>2. QED
      BY <3>1, Times
  <2>3. QED
    BY <1>1, <1>3, <2>1, <2>2 DEF LineInTime
<1>7. QED
  BY <1>4, <1>5, <1>6

LEMMA Delays == GuardSpec => []DelayInv
<1>1. GuardInit => DelayInv
  BY DEF GuardInit, ProxyInit, HandlerInit, DelayInv, OutInTime, SleepsEnd,
         LineInTime, Waits, Holding, Working
<1>2. GuardInv /\ GuardInv' /\ DelayInv /\ [GuardNext]_guardVars => DelayInv'
  <2> SUFFICES ASSUME GuardInv, GuardInv', DelayInv, [GuardNext]_guardVars
               PROVE  DelayInv'
    OBVIOUS
  <2>1. CASE UNCHANGED <<now, req, line, asleep>>
    BY <2>1 DEF DelayInv, OutInTime, SleepsEnd, LineInTime, Waits, Holding,
                InLine, Due0, Ahead, Spent
  <2>2. QED
    BY <2>1, GuardSteps, ActsKeepDelays, JoinKeepsDelays, SweepKeepsDelays,
       TickKeepsDelays DEF guardVars, proxyVars
<1>3. QED
  BY <1>1, <1>2, GuardAlways, PTL DEF GuardSpec

(* -------------------- the line is there for nothing -------------------- *)

(* The bounds of MemoryProxy leave room for the line: who has the response *)
(* in time, or wakes in time, also has its turn in time when every other   *)
(* request sleeps once before it.                                          *)
LineIsShort == /\ MaxUpstream + Others * Sleep <= MaxHold
               /\ WakeLate + Others * Sleep <= PollLate

(* Then the clock of MemoryProxy never has to wait for the line.           *)
LEMMA LineLetsWait ==
  ASSUME LineIsShort, GuardInv, DelayInv, GuardMayWait
  PROVE  MayWait
<1> SUFFICES ASSUME NEW r \in Requests, Waits(r)
             PROVE  /\ Holding(r) => now < req[r].since + MaxHold
                    /\ req[r].pc = "poll" => now < req[r].wake + PollLate
  BY DEF MayWait, Waits
<1> DEFINE all == Others * Sleep
           spent == Spent(Ahead(r))
<1>1. spent \in Nat /\ all \in Nat /\ spent <= all
  BY AheadOthers, Spending DEF GuardInv
<1>2. /\ now \in Nat /\ req[r].wake \in Nat /\ req[r].since \in Nat
      /\ Due0(r) \in Nat /\ MaxUpstream \in Nat /\ WakeLate \in Nat
      /\ MaxHold \in Nat /\ PollLate \in Nat
  BY Times, HandlerAssumption DEF GuardInv
<1>3. MaxUpstream + all <= MaxHold /\ WakeLate + all <= PollLate
  BY DEF LineIsShort
<1>4. now < Due0(r) \/ now < Due0(r) + spent
  BY ClockWaits
<1> HIDE DEF all, spent
<1>5. now < Due0(r) + all
  BY <1>1, <1>2, <1>4
<1>6. ASSUME Holding(r)
      PROVE  now < req[r].since + MaxHold
  <2>1. Due0(r) = req[r].since + MaxUpstream
    BY <1>6 DEF Holding, Working, Due0
  <2>2. QED
    BY <1>1, <1>2, <1>3, <1>5, <2>1
<1>7. ASSUME req[r].pc = "poll"
      PROVE  now < req[r].wake + PollLate
  <2>1. Due0(r) = req[r].wake + WakeLate
    BY <1>7 DEF Due0
  <2>2. QED
    BY <1>1, <1>2, <1>3, <1>5, <2>1
<1>8. QED
  BY <1>6, <1>7

(* The line before the lock changes when things happen, not what: every    *)
(* behaviour of the proxy with its line is one of MemoryProxy, for any     *)
(* number of requests, keys and cleaners.                                  *)
THEOREM GuardImplementsProxy ==
  ASSUME LineIsShort
  PROVE  GuardSpec => ImplementsMemoryProxy
<1>1. GuardInit => ProxyInit
  BY DEF GuardInit
<1>2. GuardInv /\ DelayInv /\ [GuardNext]_guardVars => [ProxyNext]_proxyVars
  <2> SUFFICES ASSUME GuardInv, DelayInv, [GuardNext]_guardVars
               PROVE  [ProxyNext]_proxyVars
    OBVIOUS
  <2>1. ASSUME NEW r \in Requests, Acts(r)
        PROVE  [ProxyNext]_proxyVars
    BY <2>1, ActsHandle DEF ProxyNext, proxyVars
  <2>2. ASSUME NEW c \in Cleaners,
               \/ SweepTurn(c)
               \/ Arm(c) /\ UNCHANGED <<now, req, line, asleep>>
        PROVE  [ProxyNext]_proxyVars
    BY <2>2 DEF ProxyNext, SweepTurn, Clean
  <2>3. CASE Tick /\ GuardMayWait /\ UNCHANGED <<cacheVars, req, line, asleep>>
    <3>1. MayWait
      BY <2>3, LineLetsWait
    <3>2. Tick /\ UNCHANGED <<cacheVars, req>>
      BY <2>3
    <3>3. QED
      BY <3>1, <3>2 DEF ProxyNext
  <2>4. CASE UNCHANGED proxyVars
    BY <2>4
  <2>5. QED
    BY <2>1, <2>2, <2>3, <2>4, GuardSteps DEF Join, guardVars
<1>3. QED
  BY <1>1, <1>2, GuardAlways, Delays, PTL
  DEF GuardSpec, ProxySpec, ImplementsMemoryProxy

(* So what MemoryProxy promises holds behind the line too.  First: clients *)
(* get the one answer of the upstream service, and of its own key.         *)
THEOREM GuardIsIdempotent ==
  ASSUME LineIsShort, MaxHold < TTL
  PROVE  GuardSpec => ImplementsIdempotency
<1>1. GuardSpec => ProxySpec
  BY GuardImplementsProxy DEF ImplementsMemoryProxy
<1>2. ProxySpec => ImplementsIdempotency
  BY MemoryProxyIsIdempotent
<1>3. QED
  BY <1>1, <1>2

(* Answers agree whatever the line does to the leases: they may end while  *)
(* a holder stands in it.                                                  *)
THEOREM GuardAnswers ==
  ASSUME LineIsShort
  PROVE  GuardSpec => []AnswersAgree
<1>1. GuardSpec => ProxySpec
  BY GuardImplementsProxy DEF ImplementsMemoryProxy
<1>2. ProxySpec => []AnswersAgree
  BY Answers
<1>3. QED
  BY <1>1, <1>2

(* Second: a response that came in time is cached, so a request that got   *)
(* it for its client leaves it for those who wait.  This is what the line  *)
(* can break (as the run of the convoy shows), and how short it has to be. *)
THEOREM PromptAnswersCached ==
  ASSUME LineIsShort, MaxHold < TTL
  PROVE  GuardSpec => PromptAnswerCached
<1>1. LeaseInv => \A r \in Requests : ~(PublishFails(r) /\ WriteTurn(r))
  <2> SUFFICES ASSUME LeaseInv, NEW r \in Requests,
                      PublishFails(r), WriteTurn(r)
               PROVE  FALSE
    OBVIOUS
  <2>1. req[r].pc = "publish" /\ req' = [req EXCEPT ![r].pc = "failed"]
    BY DEF PublishFails, Goto
  <2>2. HandlerTypeOK
    BY DEF LeaseInv, ProxyTypeOK
  <2>3. ~Published(r)
    <3>1. req'[r].pc = "failed"
      BY <2>1, <2>2 DEF HandlerTypeOK
    <3>2. Published(r) => req'[r].pc = "answered"
      BY <2>2 DEF Published, HandlerTypeOK
    <3>3. QED
      BY <3>1, <3>2
  <2>4. Publish(r)
    BY <2>1 DEF WriteTurn, ObtainKey, ObtainDenied, GotKey, KeyTaken, Arriving,
                Discard, Discarded, Goto
  <2>5. ~Live(KeyOf[r])
    BY <2>3, <2>4 DEF Publish, SetExpired, SetMissing, Live
  <2>6. Holding(r)
    BY <2>1 DEF Holding, Working
  <2>7. QED
    BY <2>5, <2>6, HolderLive
<1>2. GuardSpec => []LeaseInv
  BY GuardImplementsProxy, Leases, PTL DEF ImplementsMemoryProxy
<1>3. QED
  BY <1>1, <1>2, PTL DEF GuardSpec, PromptAnswerCached

=============================================================================
