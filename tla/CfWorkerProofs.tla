---------------------------- MODULE CfWorkerProofs ----------------------------
(***************************************************************************)
(* Theorems about CfWorker for any number of requests, keys and durations, *)
(* with nothing assumed of the upstream, the evictions or the messages.    *)
(*                                                                         *)
(* OneForwardUnlessFailed is not inductive.  WindowInv adds why it holds   *)
(* of a key no request of which has failed: a del() on its way is that of  *)
(* the one request that owns the lock, so nothing but the alarm of a       *)
(* stored response, a whole TTL after set(), makes way for another.        *)
(***************************************************************************)
EXTENDS CfWorker, TLAPS

ObjectOK ==
  /\ status \in [Keys -> {0, 1, 2, Out}]
  /\ disk \in [Keys -> [s : {0, 1, 2}, v : Requests \cup {Nobody}]]
  /\ alarm \in [Keys -> Nat]
  /\ \A k \in Keys : /\ status[k] \in {Out, disk[k].s}
                     /\ disk[k].s = 2 <=> alarm[k] # NoAlarm
                     /\ disk[k].s = 2 <=> disk[k].v # Nobody

(* What a request's invocation is at each place: only a holder of the key  *)
(* fetches, and only one that released it or failed has a del() under way. *)
InvocationsOK ==
  /\ now \in Nat
  /\ req \in [Requests -> [pc    : {"new"} \cup Active \cup Outcomes,
                           held  : BOOLEAN, since : Nat, left : Nat,
                           wake  : Nat, got : Requests \cup {Nobody},
                           dels  : 0 .. 2]]
  /\ \A r \in Requests :
       /\ req[r].pc \in {"new", "poll"} => ~req[r].held
       /\ req[r].pc \in {"fetch", "store", "relay", "passed"} => req[r].held
       /\ req[r].dels > 0 => req[r].pc \in {"relay", "passed", "failed"}
       /\ req[r].pc \in {"relay", "passed"} => req[r].dels <= 1
       /\ req[r].held => req[r].since <= now
       /\ req[r].pc # "answered" => req[r].got = Nobody

WorkerInv == ObjectOK /\ InvocationsOK

(* Below, of keys no request of which has failed.  An owner is a request   *)
(* whose set() or del() is still to come; a request is kept as long as its *)
(* response, or the key it left behind, may count against another's.       *)
Owner(r) == \/ req[r].pc \in {"fetch", "store"}
            \/ req[r].pc \in {"relay", "passed"} /\ req[r].dels > 0

Kept(r) == req[r].held /\ req[r].pc \notin {"relay", "passed", "failed"}

Spoiled(r) == SomeoneFailed(KeyOf[r])

(* The owner has the lock for itself. *)
OwnerLocks ==
  \A r \in Requests :
    Owner(r) /\ ~Spoiled(r) =>
      /\ disk[KeyOf[r]].s = 1
      /\ \A s \in Requests \ {r} :
           KeyOf[s] = KeyOf[r] =>
             ~Owner(s) /\ (Kept(s) => now >= req[s].since + TTL)

(* In the window of a kept request the key is locked, or its alarm is not  *)
(* before the window's end.                                                *)
WindowKept ==
  \A r \in Requests :
    Kept(r) /\ ~Spoiled(r) /\ now < req[r].since + TTL =>
      \/ disk[KeyOf[r]].s = 1
      \/ disk[KeyOf[r]].s = 2 /\ alarm[KeyOf[r]] >= req[r].since + TTL

WindowInv == OwnerLocks /\ WindowKept /\ OneForwardUnlessFailed

(* --------------------------- the durable object ------------------------ *)

(* A call reads the status that is on disk. *)
LEMMA StatusIsDisk ==
  ASSUME ObjectOK, NEW k \in Keys
  PROVE  Status(k) = disk[k].s
  BY DEF ObjectOK, Status

(* An invocation makes one call of its object, or none. *)
Calls(r) == \/ Untouched \/ Woken(KeyOf[r])
            \/ Obtain(KeyOf[r]) \/ Set(KeyOf[r], r) \/ Del(KeyOf[r])

LEMMA InvocationCalls ==
  ASSUME NEW r \in Requests, Invocation(r)
  PROVE  Calls(r)
  BY DEF Calls, Invocation, Reject, ObtainKey, ObtainDenied, Poll, PollTimeout,
     FetchAnswers, FetchRefuses, FetchFails, Relay, RelayFails, Store,
     ObtainLost, StoreLost, PollLost, Leave, DelArrives, DelLost

(* Every call, and an eviction, leaves memory, disk and alarm in step. *)
LEMMA CallsAgree ==
  ASSUME WorkerInv, NEW r \in Requests,
         Calls(r) \/ \E k \in Keys : Del(k) \/ Evict(k)
  PROVE  ObjectOK'
<1>1. KeyOf[r] \in Keys /\ Nobody \notin Requests
  BY WorkerAssumption
<1>2. now + TTL \in Nat /\ now + TTL # 0
  BY TimeAssumption DEF WorkerInv, InvocationsOK
<1>3. CASE Untouched
  BY <1>3 DEF Untouched, objVars, WorkerInv, ObjectOK
<1>4. CASE Woken(KeyOf[r])
  <2>1. status' = [status EXCEPT ![KeyOf[r]] = disk[KeyOf[r]].s]
    BY <1>1, <1>4, StatusIsDisk DEF Woken, WorkerInv
  <2>2. QED
    BY <1>1, <1>4, <2>1 DEF Woken, WorkerInv, ObjectOK, Out
<1>5. CASE Obtain(KeyOf[r])
  <2>1. disk[KeyOf[r]].s = 0
    BY <1>1, <1>5, StatusIsDisk DEF Obtain, WorkerInv
  <2>2. QED
    BY <1>1, <1>5, <2>1 DEF Obtain, WorkerInv, ObjectOK, Out
<1>6. CASE Set(KeyOf[r], r)
  BY <1>1, <1>2, <1>6 DEF Set, WorkerInv, ObjectOK, Out, NoAlarm
<1>7. ASSUME NEW k \in Keys, Del(k)
      PROVE  ObjectOK'
  BY <1>7 DEF Del, Blank, WorkerInv, ObjectOK, Out, NoAlarm
<1>8. ASSUME NEW k \in Keys, Evict(k)
      PROVE  ObjectOK'
  BY <1>8 DEF Evict, WorkerInv, ObjectOK, Out
<1>9. QED
  BY <1>1, <1>3, <1>4, <1>5, <1>6, <1>7, <1>8 DEF Calls

(* ----------------------------- the invocations ------------------------- *)

(* Every step of an invocation keeps it one, and moves no other request.   *)
LEMMA InvocationTypes ==
  ASSUME WorkerInv, UNCHANGED now, NEW r \in Requests, Invocation(r)
  PROVE  InvocationsOK' /\ \A s \in Requests \ {r} : req'[s] = req[s]
<1> USE DEF InvocationsOK, Active, Outcomes
<1>1. InvocationsOK
  BY DEF WorkerInv
<1>2. CASE Catch(r) /\ req[r].pc \in {"new", "poll", "fetch", "relay", "store"}
  <2>1. req[r].dels + 1 \in 0 .. 2
    BY <1>1, <1>2
  <2>2. QED
    BY <1>1, <1>2, <2>1, ZenonT(60) DEF Catch
<1>3. CASE \/ Goto(r, "new", "rejected") \/ Goto(r, "fetch", "store")
           \/ Goto(r, "fetch", "gone") \/ Goto(r, "relay", "passed")
  BY <1>1, <1>3 DEF Goto
<1>4. CASE ObtainKey(r)
  <2>1. /\ req[r].pc = "new" /\ now <= now
        /\ req' = [req EXCEPT ![r] = [@ EXCEPT !.pc = "fetch", !.held = TRUE,
                                               !.since = now]]
    BY <1>1, <1>4 DEF ObtainKey, Arriving
  <2>2. req' \in [Requests -> [pc    : {"new"} \cup Active \cup Outcomes,
                           held  : BOOLEAN, since : Nat, left : Nat,
                           wake  : Nat, got : Requests \cup {Nobody},
                           dels  : 0 .. 2]]
    BY ZenonT(60), <1>1, <2>1
  <2>3. QED
    BY <1>1, <2>1, <2>2
<1>5. CASE ObtainDenied(r)
  <2> DEFINE n == TTL \div PollInterval
  <2>1. n \in Nat
    BY TimeAssumption, WorkerAssumption
  <2>2. /\ req[r].pc = "new"
        /\ req' = [req EXCEPT ![r] = [@ EXCEPT !.pc = "poll", !.since = now,
                                               !.left = n, !.wake = now]]
    BY <1>5 DEF ObtainDenied, Arriving
  <2> HIDE DEF n
  <2>3. QED
    BY ZenonT(60), <1>1, <2>1, <2>2
<1>6. CASE MayLook(r) /\ PollAgain(r)
  <2>1. now + PollInterval \in Nat /\ req[r].left - 1 \in Nat
    BY <1>1, <1>6, WorkerAssumption DEF MayLook
  <2>2. QED
    BY <1>1, <1>6, <2>1, ZenonT(60) DEF MayLook, PollAgain
<1>7. CASE /\ req[r].pc = "poll"
           /\ req' = [req EXCEPT ![r] = [@ EXCEPT !.pc = "answered",
                                                  !.got = disk[KeyOf[r]].v]]
  <2>1. disk[KeyOf[r]].v \in Requests \cup {Nobody}
    BY WorkerAssumption DEF WorkerInv, ObjectOK
  <2>2. QED
    BY ZenonT(60), <1>1, <1>7, <2>1
<1>8. CASE FetchRefuses(r)
  <2>1. /\ req[r].pc = "fetch" /\ 1 \in 0 .. 2
        /\ req' = [req EXCEPT ![r] = [@ EXCEPT !.pc = "relay", !.dels = 1]]
    BY <1>8 DEF FetchRefuses
  <2>2. req' \in [Requests -> [pc    : {"new"} \cup Active \cup Outcomes,
                           held  : BOOLEAN, since : Nat, left : Nat,
                           wake  : Nat, got : Requests \cup {Nobody},
                           dels  : 0 .. 2]]
    <3> DEFINE one == 1
    <3>1. /\ one \in 0 .. 2
          /\ req' = [req EXCEPT ![r] = [@ EXCEPT !.pc = "relay", !.dels = one]]
      BY <2>1
    <3> HIDE DEF one
    <3>2. QED
      BY ZenonT(60), <1>1, <3>1
  <2>3. QED
    BY <1>1, <2>1, <2>2
<1>9. CASE Store(r)
  BY <1>1, <1>9, ZenonT(60) DEF Store
<1>10. CASE /\ req[r].pc \in {"new", "store", "poll"}
            /\ req' = [req EXCEPT ![r].pc = "gone"]
  BY <1>1, <1>10
<1>11. CASE DelSent(r)
  <2>1. req[r].dels - 1 \in 0 .. 2 /\ req[r].dels - 1 < req[r].dels
    BY <1>1, <1>11 DEF DelSent
  <2>2. QED
    BY <1>1, <1>11, <2>1 DEF DelSent
<1>12. QED
  BY <1>2, <1>3, <1>4, <1>5, <1>6, <1>7, <1>8, <1>9, <1>10, <1>11
  DEF Invocation, Reject, Poll, MayLook, PollTimeout, FetchAnswers, FetchFails,
      Relay, RelayFails, ObtainLost, StoreLost, PollLost, Leave, DelArrives,
      DelLost, Lost, Arriving

(* Memory, disk and alarm tell one story, whatever is lost or evicted. *)
LEMMA WorkerAlways == WorkerSpec => []WorkerInv
<1>1. WorkerInit => WorkerInv
  BY WorkerAssumption
  DEF WorkerInit, WorkerInv, ObjectOK, InvocationsOK, Blank, NoAlarm, Active,
      Outcomes, Out
<1>2. WorkerInv /\ [WorkerNext]_workerVars => WorkerInv'
  <2> SUFFICES ASSUME WorkerInv, [WorkerNext]_workerVars
               PROVE  WorkerInv'
    OBVIOUS
  <2>1. ASSUME NEW r \in Requests, Invocation(r), UNCHANGED now
        PROVE  WorkerInv'
    BY <2>1, InvocationCalls, InvocationTypes, CallsAgree DEF WorkerInv
  <2>2. ASSUME NEW k \in Keys, Alarm(k) \/ Evict(k), UNCHANGED now
        PROVE  WorkerInv'
    <3>1. InvocationsOK'
      BY <2>2 DEF Alarm, Evict, WorkerInv, InvocationsOK
    <3>2. ObjectOK'
      <4>1. CASE Del(k)
        BY <4>1 DEF Del, Blank, WorkerInv, ObjectOK, Out, NoAlarm
      <4>2. CASE Evict(k)
        BY <4>2 DEF Evict, WorkerInv, ObjectOK, Out
      <4>3. QED
        BY <2>2, <4>1, <4>2 DEF Alarm
    <3>3. QED
      BY <3>1, <3>2 DEF WorkerInv
  <2>3. CASE Clock
    <3>1. now' \in Nat /\ now <= now' /\ now \in Nat
      BY <2>3 DEF Clock, Tick, WorkerInv, InvocationsOK
    <3>2. \A r \in Requests : req[r].since \in Nat
      BY DEF WorkerInv, InvocationsOK
    <3>3. QED
      BY <2>3, <3>1, <3>2
      DEF Clock, Tick, objVars, WorkerInv, ObjectOK, InvocationsOK
  <2>4. CASE UNCHANGED workerVars
    BY <2>4 DEF workerVars, objVars, WorkerInv, ObjectOK, InvocationsOK
  <2>5. QED
    BY <2>1, <2>2, <2>3, <2>4 DEF WorkerNext, Quiet
<1>3. QED
  BY <1>1, <1>2, PTL DEF WorkerSpec

THEOREM ObjectsAgree == WorkerSpec => []ObjectConsistent
<1>1. WorkerInv => ObjectConsistent
  BY DEF WorkerInv, ObjectOK, InvocationsOK, ObjectConsistent, WorkerTypeOK
<1>2. QED
  BY <1>1, WorkerAlways, PTL

(* ------------------------------ the windows ---------------------------- *)

(* The types, read off one request at a time. *)
LEMMA Facts ==
  ASSUME WorkerInv, NEW r \in Requests
  PROVE  /\ KeyOf[r] \in Keys /\ req[r].since \in Nat /\ now \in Nat
         /\ TTL \in Nat /\ TTL > 0 /\ alarm[KeyOf[r]] \in Nat
         /\ req[r].dels \in Nat
         /\ disk[KeyOf[r]].s \in {0, 1, 2}
  BY WorkerAssumption, TimeAssumption DEF WorkerInv, ObjectOK, InvocationsOK

(* What a step makes of one request that does not obtain its key. *)
Moves(r) ==
  /\ UNCHANGED now
  /\ \A s \in Requests \ {r} : req'[s] = req[s]
  /\ Owner(r)' => Owner(r)
  /\ Kept(r)' => Kept(r) /\ req'[r].since = req[r].since
  /\ req[r].pc = "failed" => req'[r].pc = "failed"

(* A key that has no failed request after a step had none before. *)
LEMMA SpoiledStays ==
  ASSUME NEW r \in Requests, \A s \in Requests \ {r} : req'[s] = req[s],
         req[r].pc = "failed" => req'[r].pc = "failed",
         NEW s \in Requests, ~Spoiled(s)'
  PROVE  ~Spoiled(s)
  BY DEF Spoiled, SomeoneFailed

(* A request that is kept after a move was kept before, at the same time. *)
LEMMA MoveKeeps ==
  ASSUME WindowInv, NEW r \in Requests, Moves(r)
  PROVE  /\ \A s \in Requests :
              /\ Owner(s)' => Owner(s)
              /\ Kept(s)' => Kept(s) /\ req'[s].since = req[s].since
              /\ ~Spoiled(s)' => ~Spoiled(s)
         /\ OneForwardUnlessFailed'
<1>1. ASSUME NEW s \in Requests
      PROVE  /\ Owner(s)' => Owner(s)
             /\ Kept(s)' => Kept(s) /\ req'[s].since = req[s].since
  BY DEF Moves, Owner, Kept
<1>2. \A s \in Requests : ~Spoiled(s)' => ~Spoiled(s)
  BY SpoiledStays DEF Moves
<1>3. OneForwardUnlessFailed'
  <2> SUFFICES ASSUME NEW s \in Requests, NEW t \in Requests,
                      TwoForwards(s, t)', ~Spoiled(s)'
               PROVE  req'[t].since >= req'[s].since + TTL
    BY DEF OneForwardUnlessFailed, Spoiled
  <2>1. Kept(s)' /\ Kept(t)'
    BY DEF TwoForwards, Kept
  <2>2. /\ Kept(s) /\ Kept(t) /\ ~Spoiled(s)
        /\ req'[s].since = req[s].since /\ req'[t].since = req[t].since
    BY <1>1, <1>2, <2>1
  <2>3. TwoForwards(s, t)
    BY <2>2 DEF TwoForwards, Kept
  <2>4. QED
    BY <2>2, <2>3 DEF WindowInv, OneForwardUnlessFailed, Spoiled
<1>4. QED
  BY <1>1, <1>2, <1>3

(* A move that leaves disk and alarm alone keeps the windows ... *)
LEMMA BystanderKeeps ==
  ASSUME WindowInv, NEW r \in Requests, Moves(r), UNCHANGED <<disk, alarm>>
  PROVE  WindowInv'
<1>1. /\ \A s \in Requests :
           /\ Owner(s)' => Owner(s)
           /\ Kept(s)' => Kept(s) /\ req'[s].since = req[s].since
           /\ ~Spoiled(s)' => ~Spoiled(s)
      /\ OneForwardUnlessFailed'
  BY MoveKeeps
<1>2. OwnerLocks'
  BY <1>1 DEF Moves, WindowInv, OwnerLocks
<1>3. WindowKept'
  BY <1>1 DEF Moves, WindowInv, WindowKept
<1>4. QED
  BY <1>1, <1>2, <1>3 DEF WindowInv

(* ... and so does the lock of a client that is gone before it hears of    *)
(* it ...                                                                  *)
LEMMA LockLostKeeps ==
  ASSUME WorkerInv, WindowInv, NEW r \in Requests, Moves(r), Obtain(KeyOf[r])
  PROVE  WindowInv'
<1> DEFINE k == KeyOf[r]
<1>1. /\ \A s \in Requests :
           /\ Owner(s)' => Owner(s)
           /\ Kept(s)' => Kept(s) /\ req'[s].since = req[s].since
           /\ ~Spoiled(s)' => ~Spoiled(s)
      /\ OneForwardUnlessFailed'
  BY MoveKeeps
<1>2. /\ k \in Keys /\ disk[k].s = 0 /\ disk'[k].s = 1 /\ UNCHANGED alarm
      /\ \A j \in Keys \ {k} : disk'[j] = disk[j]
  BY Facts, StatusIsDisk DEF Obtain, WorkerInv, ObjectOK
<1>3. \A s \in Requests : KeyOf[s] \in Keys
  BY Facts
<1>4. OwnerLocks'
  BY <1>1, <1>2, <1>3 DEF Moves, WindowInv, OwnerLocks
<1>5. WindowKept'
  BY <1>1, <1>2, <1>3 DEF Moves, WindowInv, WindowKept
<1>6. QED
  BY <1>1, <1>4, <1>5 DEF WindowInv

(* ... and a response stored by the owner of the lock, whose alarm no      *)
(* window outlives ...                                                     *)
LEMMA StoreKeeps ==
  ASSUME WorkerInv, WindowInv, NEW r \in Requests, Moves(r),
         Owner(r), ~Owner(r)', Set(KeyOf[r], r)
  PROVE  WindowInv'
<1> DEFINE k == KeyOf[r]
<1>1. /\ \A s \in Requests :
           /\ Owner(s)' => Owner(s)
           /\ Kept(s)' => Kept(s) /\ req'[s].since = req[s].since
           /\ ~Spoiled(s)' => ~Spoiled(s)
      /\ OneForwardUnlessFailed'
  BY MoveKeeps
<1>2. /\ k \in Keys /\ disk'[k].s = 2 /\ alarm'[k] = now + TTL
      /\ \A j \in Keys \ {k} : disk'[j] = disk[j] /\ alarm'[j] = alarm[j]
  BY Facts DEF Set, WorkerInv, ObjectOK
<1>3. \A s \in Requests : KeyOf[s] \in Keys
  BY Facts
<1>4. OwnerLocks'
  <2> SUFFICES ASSUME NEW s \in Requests, Owner(s)', ~Spoiled(s)'
               PROVE  /\ disk'[KeyOf[s]].s = 1
                      /\ \A t \in Requests \ {s} :
                           KeyOf[t] = KeyOf[s] =>
                             ~Owner(t)' /\ (Kept(t)' => now >= req'[t].since + TTL)
    BY DEF OwnerLocks, Moves
  <2>1. Owner(s) /\ ~Spoiled(s) /\ s # r
    BY <1>1
  <2>2. KeyOf[s] # k
    BY <2>1 DEF WindowInv, OwnerLocks
  <2>3. QED
    BY <1>1, <1>2, <1>3, <2>1, <2>2 DEF WindowInv, OwnerLocks
<1>5. WindowKept'
  <2> SUFFICES ASSUME NEW s \in Requests, Kept(s)', ~Spoiled(s)',
                      now < req'[s].since + TTL
               PROVE  \/ disk'[KeyOf[s]].s = 1
                      \/ /\ disk'[KeyOf[s]].s = 2
                         /\ alarm'[KeyOf[s]] >= req'[s].since + TTL
    BY DEF WindowKept, Moves
  <2>1. Kept(s) /\ ~Spoiled(s) /\ req'[s].since = req[s].since
    BY <1>1
  <2>2. req[s].since <= now /\ req[s].since \in Nat /\ now \in Nat /\ TTL \in Nat
    BY <2>1, Facts DEF Kept, WorkerInv, InvocationsOK
  <2>3. CASE KeyOf[s] = k
    BY <1>2, <2>1, <2>2, <2>3
  <2>4. CASE KeyOf[s] # k
    BY <1>2, <1>3, <2>1, <2>4 DEF WindowInv, WindowKept
  <2>5. QED
    BY <2>3, <2>4
<1>6. QED
  BY <1>1, <1>4, <1>5 DEF WindowInv

(* ... and a key that comes free, by the del() of its owner or the alarm   *)
(* of its response, when no window is open.                                *)
LEMMA FreeKeeps ==
  ASSUME WorkerInv, WindowInv, NEW r \in Requests, Moves(r), NEW k \in Keys,
         Del(k),
         \A s \in Requests : KeyOf[s] = k /\ ~Spoiled(s) =>
           /\ ~Owner(s)'
           /\ Kept(s)' => now >= req[s].since + TTL
  PROVE  WindowInv'
<1>1. /\ \A s \in Requests :
           /\ Owner(s)' => Owner(s)
           /\ Kept(s)' => Kept(s) /\ req'[s].since = req[s].since
           /\ ~Spoiled(s)' => ~Spoiled(s)
      /\ OneForwardUnlessFailed'
  BY MoveKeeps
<1>2. \A j \in Keys \ {k} : disk'[j] = disk[j] /\ alarm'[j] = alarm[j]
  BY DEF Del, WorkerInv, ObjectOK
<1>3. \A s \in Requests : /\ KeyOf[s] \in Keys /\ req[s].since \in Nat
                          /\ now \in Nat /\ TTL \in Nat
  BY Facts
<1>4. OwnerLocks'
  BY <1>1, <1>2, <1>3 DEF Moves, WindowInv, OwnerLocks
<1>5. WindowKept'
  <2> SUFFICES ASSUME NEW s \in Requests, Kept(s)', ~Spoiled(s)',
                      now < req'[s].since + TTL
               PROVE  \/ disk'[KeyOf[s]].s = 1
                      \/ /\ disk'[KeyOf[s]].s = 2
                         /\ alarm'[KeyOf[s]] >= req'[s].since + TTL
    BY DEF WindowKept, Moves
  <2>1. Kept(s) /\ ~Spoiled(s) /\ req'[s].since = req[s].since
    BY <1>1
  <2>2. KeyOf[s] # k
    BY <1>3, <2>1
  <2>3. QED
    BY <1>2, <1>3, <2>1, <2>2 DEF WindowInv, WindowKept
<1>6. QED
  BY <1>1, <1>4, <1>5 DEF WindowInv

(* Obtaining a key makes an owner, when no window is open. *)
LEMMA ObtainKeeps ==
  ASSUME WorkerInv, WorkerInv', WindowInv, UNCHANGED now,
         NEW r \in Requests, ObtainKey(r)
  PROVE  WindowInv'
<1> DEFINE k == KeyOf[r]
<1>1. /\ \A s \in Requests \ {r} : req'[s] = req[s]
      /\ req[r].pc = "new" /\ ~req[r].held
      /\ req'[r].pc = "fetch" /\ req'[r].held /\ req'[r].since = now
  BY DEF ObtainKey, Arriving, WorkerInv, InvocationsOK
<1>2. /\ k \in Keys /\ disk[k].s = 0 /\ disk'[k].s = 1 /\ UNCHANGED alarm
      /\ \A j \in Keys \ {k} : disk'[j] = disk[j]
  BY Facts, StatusIsDisk DEF ObtainKey, Obtain, WorkerInv, ObjectOK
<1>3. \A s \in Requests : /\ KeyOf[s] \in Keys /\ req[s].since \in Nat
                          /\ now \in Nat /\ TTL \in Nat /\ TTL > 0
  BY Facts
<1>4. \A s \in Requests : ~Spoiled(s)' => ~Spoiled(s)
  BY <1>1, SpoiledStays
<1>5. ASSUME NEW s \in Requests, KeyOf[s] = k, ~Spoiled(s)
      PROVE  ~Owner(s) /\ (Kept(s) => now >= req[s].since + TTL)
  BY <1>2, <1>3, <1>5 DEF WindowInv, OwnerLocks, WindowKept
<1>6. ASSUME NEW s \in Requests \ {r}
      PROVE  (Owner(s)' <=> Owner(s)) /\ (Kept(s)' <=> Kept(s))
  BY <1>1 DEF Owner, Kept
<1>7. OwnerLocks'
  <2> SUFFICES ASSUME NEW s \in Requests, Owner(s)', ~Spoiled(s)'
               PROVE  /\ disk'[KeyOf[s]].s = 1
                      /\ \A t \in Requests \ {s} :
                           KeyOf[t] = KeyOf[s] =>
                             ~Owner(t)' /\ (Kept(t)' => now >= req'[t].since + TTL)
    BY DEF OwnerLocks
  <2>1. CASE s = r
    <3>1. \A t \in Requests : KeyOf[t] = k => ~Spoiled(t)
      BY <1>4, <2>1 DEF Spoiled
    <3>2. QED
      BY <1>1, <1>2, <1>5, <1>6, <2>1, <3>1
  <2>2. CASE s # r
    <3>1. Owner(s) /\ ~Spoiled(s) /\ KeyOf[s] # k
      BY <1>4, <1>5, <1>6, <2>2
    <3>2. QED
      BY <1>1, <1>2, <1>3, <1>6, <3>1 DEF WindowInv, OwnerLocks
  <2>3. QED
    BY <2>1, <2>2
<1>8. WindowKept'
  <2> SUFFICES ASSUME NEW s \in Requests, Kept(s)', ~Spoiled(s)',
                      now < req'[s].since + TTL
               PROVE  \/ disk'[KeyOf[s]].s = 1
                      \/ /\ disk'[KeyOf[s]].s = 2
                         /\ alarm'[KeyOf[s]] >= req'[s].since + TTL
    BY DEF WindowKept
  <2>1. CASE KeyOf[s] = k
    BY <1>2, <2>1
  <2>2. CASE KeyOf[s] # k
    BY <1>1, <1>2, <1>3, <1>4, <1>6, <2>2 DEF WindowInv, WindowKept
  <2>3. QED
    BY <2>1, <2>2
<1>9. OneForwardUnlessFailed'
  <2> SUFFICES ASSUME NEW s \in Requests, NEW t \in Requests,
                      TwoForwards(s, t)', ~Spoiled(s)'
               PROVE  req'[t].since >= req'[s].since + TTL
    BY DEF OneForwardUnlessFailed, Spoiled
  <2>1. /\ s # t /\ KeyOf[s] = KeyOf[t] /\ Kept(s)' /\ Kept(t)'
        /\ req'[s].since <= req'[t].since
    BY DEF TwoForwards, Kept
  <2>2. ~Spoiled(s) /\ ~Spoiled(t)
    BY <1>4, <2>1 DEF Spoiled
  <2>3. CASE t = r
    BY <1>1, <1>5, <1>6, <2>1, <2>2, <2>3
  <2>4. CASE s = r
    <3>1. Kept(t) /\ now >= req[t].since + TTL /\ req'[t] = req[t]
      BY <1>1, <1>5, <1>6, <2>1, <2>2, <2>4
    <3>2. QED
      BY <1>1, <1>3, <2>1, <2>4, <3>1
  <2>5. CASE s # r /\ t # r
    <3>1. TwoForwards(s, t)
      BY <1>1, <2>5 DEF TwoForwards
    <3>2. QED
      BY <1>1, <2>2, <2>5, <3>1 DEF WindowInv, OneForwardUnlessFailed, Spoiled
  <2>6. QED
    BY <2>3, <2>4, <2>5
<1>10. QED
  BY <1>7, <1>8, <1>9 DEF WindowInv

(* Whatever else an invocation does is a move. *)
LEMMA InvocationMoves ==
  ASSUME WorkerInv, UNCHANGED now, NEW r \in Requests, Invocation(r),
         ~ObtainKey(r)
  PROVE  Moves(r)
<1> USE DEF Owner, Kept
<1>1. InvocationsOK
  BY DEF WorkerInv
<1>2. \A s \in Requests \ {r} : req'[s] = req[s]
  BY InvocationTypes
<1>3. SUFFICES /\ Owner(r)' => Owner(r)
               /\ Kept(r)' => Kept(r) /\ req'[r].since = req[r].since
               /\ req[r].pc = "failed" => req'[r].pc = "failed"
  BY <1>2 DEF Moves
<1> USE DEF InvocationsOK, Active, Outcomes
<1>4. CASE Catch(r)
  <2>1. req'[r].pc = "failed"
    BY <1>1, <1>4 DEF Catch
  <2>2. QED
    BY <2>1
<1>5. CASE \/ Goto(r, "new", "rejected") \/ Goto(r, "fetch", "store")
           \/ Goto(r, "fetch", "gone") \/ Goto(r, "relay", "passed")
  BY <1>1, <1>5 DEF Goto
<1>6. CASE ObtainDenied(r)
  <2> DEFINE n == TTL \div PollInterval
  <2>1. /\ req[r].pc = "new"
        /\ req' = [req EXCEPT ![r] = [@ EXCEPT !.pc = "poll", !.since = now,
                                               !.left = n, !.wake = now]]
    BY <1>6 DEF ObtainDenied, Arriving
  <2> HIDE DEF n
  <2>2. QED
    BY <1>1, <2>1
<1>7. CASE MayLook(r) /\ PollAgain(r)
  BY <1>1, <1>7 DEF MayLook, PollAgain
<1>8. CASE /\ req[r].pc = "poll"
           /\ req' = [req EXCEPT ![r] = [@ EXCEPT !.pc = "answered",
                                                  !.got = disk[KeyOf[r]].v]]
  <2> DEFINE v == disk[KeyOf[r]].v
  <2>1. req' = [req EXCEPT ![r] = [@ EXCEPT !.pc = "answered", !.got = v]]
    BY <1>8
  <2> HIDE DEF v
  <2>2. QED
    BY <1>1, <1>8, <2>1
<1>9. CASE FetchRefuses(r)
  <2> DEFINE one == 1
  <2>1. /\ req[r].pc = "fetch"
        /\ req' = [req EXCEPT ![r] = [@ EXCEPT !.pc = "relay", !.dels = one]]
    BY <1>9 DEF FetchRefuses
  <2> HIDE DEF one
  <2>2. QED
    BY <1>1, <2>1
<1>10. CASE Store(r)
  <2>1. req'[r].pc = "answered" /\ req[r].pc = "store"
    BY <1>1, <1>10 DEF Store
  <2>2. req'[r].held = req[r].held /\ req'[r].since = req[r].since
    BY <1>1, <1>10 DEF Store
  <2>3. QED
    BY <2>1, <2>2
<1>11. CASE /\ req[r].pc \in {"new", "store", "poll"}
            /\ req' = [req EXCEPT ![r].pc = "gone"]
  BY <1>1, <1>11
<1>12. CASE DelSent(r)
  <2> DEFINE n == req[r].dels - 1
  <2>1. req' = [req EXCEPT ![r].dels = n] /\ req[r].dels > 0
    BY <1>12 DEF DelSent
  <2> HIDE DEF n
  <2>2. /\ req'[r].pc = req[r].pc /\ req'[r].held = req[r].held
        /\ req'[r].since = req[r].since
    BY <1>1, <2>1
  <2>3. QED
    BY <2>1, <2>2
<1> HIDE DEF Owner, Kept, InvocationsOK, Active, Outcomes
<1>13. \/ Catch(r)
       \/ Goto(r, "new", "rejected") \/ Goto(r, "fetch", "store")
       \/ Goto(r, "fetch", "gone") \/ Goto(r, "relay", "passed")
       \/ ObtainDenied(r)
       \/ MayLook(r) /\ PollAgain(r)
       \/ /\ req[r].pc = "poll"
          /\ req' = [req EXCEPT ![r] = [@ EXCEPT !.pc = "answered",
                                                 !.got = disk[KeyOf[r]].v]]
       \/ FetchRefuses(r) \/ Store(r) \/ DelSent(r)
       \/ /\ req[r].pc \in {"new", "store", "poll"}
          /\ req' = [req EXCEPT ![r].pc = "gone"]
  <2>1. CASE Poll(r)
    BY <2>1 DEF Poll, MayLook
  <2>2. CASE \/ Reject(r) \/ FetchAnswers(r) \/ Relay(r) \/ Leave(r)
             \/ PollTimeout(r) \/ FetchFails(r) \/ RelayFails(r)
    BY <2>2 DEF Reject, PollTimeout, FetchAnswers, FetchFails, Relay,
                RelayFails, Leave
  <2>3. CASE ObtainLost(r) \/ StoreLost(r) \/ PollLost(r)
    <3>1. /\ req[r].pc \in {"new", "store", "poll"}
          /\ Catch(r) \/ req' = [req EXCEPT ![r].pc = "gone"]
      BY <2>3 DEF ObtainLost, StoreLost, PollLost, Lost, Arriving
    <3>2. QED
      BY <3>1
  <2>4. CASE DelArrives(r) \/ DelLost(r)
    BY <2>4 DEF DelArrives, DelLost
  <2>5. QED
    BY <2>1, <2>2, <2>3, <2>4 DEF Invocation
<1>14. QED
  BY <1>4, <1>5, <1>6, <1>7, <1>8, <1>9, <1>10, <1>11, <1>12, <1>13

(* No step of an invocation breaks into a window. *)
LEMMA InvocationKeeps ==
  ASSUME WorkerInv, WorkerInv', WindowInv, UNCHANGED now,
         NEW r \in Requests, Invocation(r)
  PROVE  WindowInv'
<1>1. CASE ObtainKey(r)
  BY <1>1, ObtainKeeps
<1>2. CASE ~ObtainKey(r) /\ (Untouched \/ Woken(KeyOf[r]))
  <2>1. UNCHANGED <<disk, alarm>>
    BY <1>2 DEF Untouched, objVars, Woken
  <2>2. QED
    BY <1>2, <2>1, InvocationMoves, BystanderKeeps
<1>3. CASE ~ObtainKey(r) /\ Obtain(KeyOf[r])
  BY <1>3, InvocationMoves, LockLostKeeps
<1>4. CASE (Store(r) \/ StoreLost(r)) /\ Set(KeyOf[r], r)
  <2>1. req[r].pc = "store" /\ Owner(r)
    BY <1>4 DEF Store, StoreLost, Owner
  <2>2. ~ObtainKey(r)
    BY <2>1 DEF ObtainKey, Arriving
  <2>3. req'[r].pc \in {"answered", "failed", "gone"}
    BY <1>4, ZenonT(60) DEF Store, StoreLost, Lost, Catch, WorkerInv, InvocationsOK
  <2>4. ~Owner(r)'
    BY <2>3 DEF Owner
  <2>5. QED
    BY <1>4, <2>1, <2>2, <2>4, InvocationMoves, StoreKeeps
<1>5. CASE DelArrives(r)
  <2> DEFINE k == KeyOf[r]
  <2>1. /\ req[r].pc \in {"relay", "passed", "failed"} /\ req[r].dels > 0
        /\ req[r].dels \in Nat /\ k \in Keys /\ Del(k)
        /\ req' = [req EXCEPT ![r].dels = req[r].dels - 1]
    BY <1>5, Facts DEF DelArrives, DelSent, WorkerInv, InvocationsOK
  <2>2. Moves(r)
    <3>1. ~ObtainKey(r)
      BY <2>1 DEF ObtainKey, Arriving
    <3>2. QED
      BY <3>1, InvocationMoves
  <2>3. ASSUME NEW s \in Requests, KeyOf[s] = k, ~Spoiled(s)
        PROVE  ~Owner(s)' /\ (Kept(s)' => now >= req[s].since + TTL)
    <3>1. req[r].pc \in {"relay", "passed"}
      BY <2>1, <2>3 DEF Spoiled, SomeoneFailed
    <3>2. Owner(r) /\ ~Kept(r) /\ ~Spoiled(r)
      BY <2>1, <2>3, <3>1 DEF Owner, Kept, Spoiled
    <3>3. ~Owner(r)' /\ ~Kept(r)'
      <4> DEFINE n == req[r].dels - 1
      <4>1. n = 0
        BY <2>1, <3>1 DEF WorkerInv, InvocationsOK
      <4>2. req' = [req EXCEPT ![r].dels = n]
        BY <2>1
      <4> HIDE DEF n
      <4>3. req'[r].pc = req[r].pc /\ req'[r].dels = 0
        BY <4>1, <4>2 DEF WorkerInv, InvocationsOK
      <4>4. QED
        BY <3>1, <4>3 DEF Owner, Kept
    <3>4. CASE s = r
      BY <3>3, <3>4
    <3>5. CASE s # r
      <4>1. ~Owner(s) /\ (Kept(s) => now >= req[s].since + TTL)
        BY <2>3, <3>2, <3>5 DEF WindowInv, OwnerLocks
      <4>2. QED
        BY <2>2, <3>5, <4>1 DEF Moves, Owner, Kept
    <3>6. QED
      BY <3>4, <3>5
  <2>4. QED
    BY <2>1, <2>2, <2>3, FreeKeeps
<1>6. QED
  <2>1. \/ ObtainKey(r) \/ DelArrives(r) \/ Untouched \/ Woken(KeyOf[r])
        \/ ObtainLost(r) /\ Obtain(KeyOf[r])
        \/ (Store(r) \/ StoreLost(r)) /\ Set(KeyOf[r], r)
    BY DEF Invocation, Reject, ObtainDenied, Poll, PollTimeout, FetchAnswers,
       FetchRefuses, FetchFails, Relay, RelayFails, Store, ObtainLost,
       StoreLost, PollLost, Leave, DelLost
  <2>2. QED
    BY <1>1, <1>2, <1>3, <1>4, <1>5, <2>1

(* The alarm of a stored response ends no window: it is due a whole TTL    *)
(* after set(), and the key has no owner.                                  *)
LEMMA AlarmKeeps ==
  ASSUME WorkerInv, WindowInv, UNCHANGED now, NEW k \in Keys, Alarm(k)
  PROVE  WindowInv'
<1>1. /\ disk[k].s = 2 /\ alarm[k] <= now /\ Del(k) /\ req' = req
      /\ alarm[k] \in Nat
  BY DEF Alarm, WorkerInv, ObjectOK
<1>2. ASSUME NEW s \in Requests
      PROVE  /\ KeyOf[s] \in Keys /\ req[s].since \in Nat
             /\ now \in Nat /\ TTL \in Nat
  BY Facts
<1>3. ASSUME NEW s \in Requests, KeyOf[s] = k, ~Spoiled(s)
      PROVE  ~Owner(s) /\ (Kept(s) => now >= req[s].since + TTL)
  BY <1>1, <1>2, <1>3 DEF WindowInv, OwnerLocks, WindowKept
<1>4. ASSUME NEW r \in Requests
      PROVE  WindowInv'
  <2>1. Moves(r)
    BY <1>1 DEF Moves, Owner, Kept
  <2>2. \A s \in Requests : Owner(s)' = Owner(s) /\ Kept(s)' = Kept(s)
    BY <1>1 DEF Owner, Kept
  <2>3. QED
    BY <1>1, <1>3, <2>1, <2>2, FreeKeeps
<1>5. CASE Requests = {}
  BY <1>5 DEF WindowInv, OwnerLocks, WindowKept, OneForwardUnlessFailed
<1>6. QED
  BY <1>4, <1>5

(* Nor do an eviction and the passing of time, which leave the requests    *)
(* and what is on disk as they are.                                        *)
LEMMA RestKeeps ==
  ASSUME WorkerInv, WorkerInv', WindowInv, now <= now',
         UNCHANGED <<disk, alarm, req>>
  PROVE  WindowInv'
<1>1. ASSUME NEW s \in Requests
      PROVE  /\ req[s].since \in Nat /\ TTL \in Nat
             /\ now \in Nat /\ now' \in Nat
             /\ Owner(s)' = Owner(s) /\ Kept(s)' = Kept(s)
             /\ Spoiled(s)' = Spoiled(s)
  BY Facts DEF WorkerInv, InvocationsOK, Owner, Kept, Spoiled, SomeoneFailed
<1>2. OwnerLocks'
  BY <1>1 DEF WindowInv, OwnerLocks
<1>3. WindowKept'
  BY <1>1 DEF WindowInv, WindowKept
<1>4. OneForwardUnlessFailed'
  BY DEF WindowInv, OneForwardUnlessFailed, TwoForwards, SomeoneFailed
<1>5. QED
  BY <1>2, <1>3, <1>4 DEF WindowInv

LEMMA WindowsKept == WorkerSpec => []WindowInv
<1>1. WorkerInit => WindowInv
  BY DEF WorkerInit, WindowInv, OwnerLocks, WindowKept, Owner, Kept,
     OneForwardUnlessFailed, TwoForwards
<1>2. /\ WorkerInv /\ WorkerInv' /\ WindowInv /\ [WorkerNext]_workerVars
      => WindowInv'
  <2> SUFFICES ASSUME WorkerInv, WorkerInv', WindowInv,
                      [WorkerNext]_workerVars
               PROVE  WindowInv'
    OBVIOUS
  <2>1. ASSUME NEW r \in Requests, Invocation(r), UNCHANGED now
        PROVE  WindowInv'
    BY <2>1, InvocationKeeps
  <2>2. ASSUME NEW k \in Keys, Alarm(k), UNCHANGED now
        PROVE  WindowInv'
    BY <2>2, AlarmKeeps
  <2>3. CASE \/ \E k \in Keys : Evict(k) /\ UNCHANGED now
             \/ Clock
             \/ UNCHANGED workerVars
    <3>1. now \in Nat /\ now <= now' /\ UNCHANGED <<disk, alarm, req>>
      BY <2>3 DEF Evict, Clock, Tick, workerVars, objVars, WorkerInv,
         InvocationsOK
    <3>2. QED
      BY <3>1, RestKeeps
  <2>4. QED
    BY <2>1, <2>2, <2>3 DEF WorkerNext, Quiet
<1>3. QED
  BY <1>1, <1>2, WorkerAlways, PTL DEF WorkerSpec

(* Only the first request of a key is forwarded while its response may be  *)
(* asked for, as long as no request of the key has ended in the catch      *)
(* block.                                                                  *)
THEOREM OneForward == WorkerSpec => []OneForwardUnlessFailed
<1>1. WindowInv => OneForwardUnlessFailed
  BY DEF WindowInv
<1>2. QED
  BY <1>1, WindowsKept, PTL

(* ------------------------------- answers ------------------------------- *)

(* A stored response was fetched for its key by a request that obtained it *)
(* and has told its own client nothing else.                               *)
Made(v) == /\ req[v].held /\ req[v].pc \in {"answered", "failed", "gone"}
           /\ req[v].got \in {v, Nobody}

ResponsesMade ==
  \A k \in Keys, v \in Requests : disk[k].v = v => KeyOf[v] = k /\ Made(v)

AnswersInv == ResponsesMade /\ AnswersAgree

(* A request with an outcome keeps it: only its del()s are still to come. *)
LEMMA OutcomeStays ==
  ASSUME WorkerInv, UNCHANGED now, NEW r \in Requests, Invocation(r),
         NEW v \in Requests, Made(v)
  PROVE  Made(v)' /\ req'[v].got = req[v].got
<1>1. CASE v # r
  BY <1>1, InvocationTypes DEF Made
<1>2. CASE v = r
  <2>1. DelSent(r)
    BY <1>2 DEF Made, Invocation, Reject, ObtainKey, ObtainDenied, Poll, MayLook,
       PollTimeout, FetchAnswers, FetchRefuses, FetchFails, Relay, RelayFails,
       Store, ObtainLost, StoreLost, PollLost, Leave, DelArrives, DelLost,
       Goto, Arriving
  <2> DEFINE n == req[r].dels - 1
  <2>2. req' = [req EXCEPT ![r].dels = n]
    BY <2>1 DEF DelSent
  <2> HIDE DEF n
  <2>3. QED
    BY <1>2, <2>2 DEF Made, WorkerInv, InvocationsOK
<1>3. QED
  BY <1>1, <1>2

(* What a step makes of the answer of its request. *)
LEMMA Answered ==
  ASSUME WorkerInv, UNCHANGED now, NEW r \in Requests, Invocation(r)
  PROVE  \/ req'[r].got = req[r].got
         \/ req[r].pc = "poll" /\ req'[r].got = disk[KeyOf[r]].v
         \/ Store(r)
<1> USE DEF WorkerInv, InvocationsOK
<1>1. CASE DelSent(r)
  <2> DEFINE n == req[r].dels - 1
  <2>1. req' = [req EXCEPT ![r].dels = n]
    BY <1>1 DEF DelSent
  <2> HIDE DEF n
  <2>2. QED
    BY <2>1
<1>2. CASE Catch(r)
  <2> DEFINE n == req[r].dels + 1
  <2>1. req' = [req EXCEPT ![r] = [@ EXCEPT !.pc = "failed", !.dels = n]]
    BY <1>2 DEF Catch
  <2> HIDE DEF n
  <2>2. QED
    BY <2>1
<1>3. CASE Poll(r) /\ ~Catch(r)
  <2>1. CASE PollAgain(r)
    <3> DEFINE n == req[r].left - 1
               w == now + PollInterval
    <3>1. req' = [req EXCEPT ![r] = [@ EXCEPT !.left = n, !.wake = w]]
      BY <2>1 DEF PollAgain
    <3> HIDE DEF n, w
    <3>2. QED
      BY <3>1
  <2>2. CASE ~PollAgain(r)
    <3> DEFINE v == disk[KeyOf[r]].v
    <3>1. /\ req[r].pc = "poll"
          /\ req' = [req EXCEPT ![r] = [@ EXCEPT !.pc = "answered", !.got = v]]
      BY <1>3, <2>2 DEF Poll, MayLook
    <3> HIDE DEF v
    <3>2. req[r].pc = "poll" /\ req'[r].got = v
      BY <3>1
    <3>3. QED
      BY <3>2 DEF v
  <2>3. QED
    BY <2>1, <2>2
<1>4. CASE ObtainDenied(r)
  <2> DEFINE n == TTL \div PollInterval
  <2>1. req' = [req EXCEPT ![r] = [@ EXCEPT !.pc = "poll", !.since = now,
                                            !.left = n, !.wake = now]]
    BY <1>4 DEF ObtainDenied
  <2> HIDE DEF n
  <2>2. QED
    BY <2>1
<1>5. CASE ObtainKey(r) \/ FetchRefuses(r)
  BY <1>5, ZenonT(60) DEF ObtainKey, FetchRefuses
<1>6. CASE \E a, b \in {"new", "fetch", "store", "relay"} \cup Outcomes : Goto(r, a, b)
  BY <1>6 DEF Goto
<1>7. CASE req' = [req EXCEPT ![r].pc = "gone"]
  BY <1>7
<1>8. QED
  BY <1>1, <1>2, <1>3, <1>4, <1>5, <1>6, <1>7
  DEF Invocation, Reject, PollTimeout, FetchAnswers, FetchFails, Relay,
      RelayFails, ObtainLost, StoreLost, PollLost, Lost, Leave, DelArrives,
      DelLost, Outcomes

(* A response is stored when its request has its outcome. *)
LEMMA StoredIsMade ==
  ASSUME WorkerInv, NEW r \in Requests, Store(r) \/ StoreLost(r)
  PROVE  Made(r)'
<1>1. req[r].held /\ req[r].got = Nobody
  BY DEF Store, StoreLost, WorkerInv, InvocationsOK
<1>2. CASE Store(r)
  BY <1>1, <1>2 DEF Store, Made, WorkerInv, InvocationsOK
<1>3. CASE Catch(r)
  <2> DEFINE n == req[r].dels + 1
  <2>1. req' = [req EXCEPT ![r] = [@ EXCEPT !.pc = "failed", !.dels = n]]
    BY <1>3 DEF Catch
  <2> HIDE DEF n
  <2>2. QED
    BY <1>1, <2>1 DEF Made, WorkerInv, InvocationsOK
<1>4. CASE req' = [req EXCEPT ![r].pc = "gone"]
  BY <1>1, <1>4 DEF Made, WorkerInv, InvocationsOK
<1>5. QED
  BY <1>2, <1>3, <1>4 DEF StoreLost, Lost

LEMMA InvocationAnswers ==
  ASSUME WorkerInv, WorkerInv', AnswersInv, UNCHANGED now,
         NEW r \in Requests, Invocation(r)
  PROVE  AnswersInv'
<1>1. Nobody \notin Requests /\ \A s \in Requests : KeyOf[s] \in Keys
  BY WorkerAssumption
<1>2. \A v \in Requests : Made(v) => Made(v)'
  BY OutcomeStays
<1>3. ResponsesMade'
  <2> SUFFICES ASSUME NEW k \in Keys, NEW v \in Requests, disk'[k].v = v
               PROVE  KeyOf[v] = k /\ Made(v)'
    BY DEF ResponsesMade
  <2>1. CASE disk[k].v = v
    BY <1>2, <2>1 DEF AnswersInv, ResponsesMade
  <2>2. CASE disk[k].v # v
    <3>1. \/ Store(r) /\ Set(KeyOf[r], r)
          \/ StoreLost(r) /\ Set(KeyOf[r], r)
      <4>1. ~Untouched /\ ~Woken(KeyOf[r])
        BY <2>2 DEF Untouched, objVars, Woken
      <4>2. ~Obtain(KeyOf[r])
        BY <1>1, <2>2 DEF Obtain, WorkerInv, ObjectOK
      <4>3. ~Del(KeyOf[r])
        BY <1>1, <2>2 DEF Del, Blank, WorkerInv, ObjectOK
      <4>4. QED
        BY <4>1, <4>2, <4>3
        DEF Invocation, Reject, ObtainKey, ObtainDenied, Poll, PollTimeout,
            FetchAnswers, FetchRefuses, FetchFails, Relay, RelayFails, Store,
            ObtainLost, StoreLost, PollLost, Leave, DelArrives, DelLost
    <3>2. k = KeyOf[r] /\ v = r
      BY <1>1, <2>2, <3>1 DEF Set, WorkerInv, ObjectOK
    <3>3. QED
      BY <3>1, <3>2, StoredIsMade
  <2>3. QED
    BY <2>1, <2>2
<1>4. AnswersAgree'
  <2> SUFFICES ASSUME NEW s \in Requests, NEW v \in Requests,
                      req'[s].got = v
               PROVE  KeyOf[v] = KeyOf[s] /\ Made(v)'
    BY DEF AnswersAgree, Made
  <2>1. CASE req[s].got = v
    BY <1>2, <2>1 DEF AnswersInv, AnswersAgree, Made
  <2>2. CASE req[s].got # v
    <3>1. s = r
      BY <2>2, InvocationTypes
    <3>2. CASE Store(r)
      <4>1. req'[r].got = r
        BY <3>2 DEF Store, WorkerInv, InvocationsOK
      <4>2. QED
        BY <3>1, <3>2, <4>1, StoredIsMade
    <3>3. CASE disk[KeyOf[r]].v = v
      BY <1>1, <1>2, <3>1, <3>3 DEF AnswersInv, ResponsesMade
    <3>4. QED
      BY <2>2, <3>1, <3>2, <3>3, Answered
  <2>3. QED
    BY <2>1, <2>2
<1>5. QED
  BY <1>3, <1>4 DEF AnswersInv

(* Every answer is a response fetched for the request's own key by a       *)
(* request that gave its own client no other.                              *)
THEOREM Answers == WorkerSpec => []AnswersAgree
<1>1. WorkerInit => AnswersInv
  BY WorkerAssumption DEF WorkerInit, AnswersInv, ResponsesMade, AnswersAgree, Blank
<1>2. /\ WorkerInv /\ WorkerInv' /\ AnswersInv /\ [WorkerNext]_workerVars
      => AnswersInv'
  <2> SUFFICES ASSUME WorkerInv, WorkerInv', AnswersInv,
                      [WorkerNext]_workerVars
               PROVE  AnswersInv'
    OBVIOUS
  <2>1. ASSUME NEW r \in Requests, Invocation(r), UNCHANGED now
        PROVE  AnswersInv'
    BY <2>1, InvocationAnswers
  <2>2. ASSUME NEW k \in Keys, Alarm(k)
        PROVE  AnswersInv'
    <3>1. \A j \in Keys : disk'[j].v \in {disk[j].v, Nobody}
      BY <2>2 DEF Alarm, Del, Blank, WorkerInv, ObjectOK
    <3>2. UNCHANGED req
      BY <2>2 DEF Alarm
    <3>3. QED
      BY <3>1, <3>2, WorkerAssumption
      DEF AnswersInv, ResponsesMade, AnswersAgree, Made
  <2>3. CASE \/ \E k \in Keys : Evict(k)
             \/ Clock
             \/ UNCHANGED workerVars
    <3>1. UNCHANGED <<disk, req>>
      BY <2>3 DEF Evict, Clock, workerVars, objVars
    <3>2. QED
      BY <3>1 DEF AnswersInv, ResponsesMade, AnswersAgree, Made
  <2>4. QED
    BY <2>1, <2>2, <2>3 DEF WorkerNext, Quiet
<1>3. AnswersInv => AnswersAgree
  BY DEF AnswersInv
<1>4. QED
  BY <1>1, <1>2, <1>3, WorkerAlways, PTL DEF WorkerSpec

(* ------------------------------ the waiters ---------------------------- *)

(* A poll costs a waiter its interval and what the timer was late.  What   *)
(* it has waited and what the polls it has left may still cost never       *)
(* exceed what all its polls cost.                                         *)
Polls == TTL \div PollInterval
Turn  == PollInterval + PollLate

PollsInTime ==
  \A r \in Requests :
    req[r].pc = "poll" =>
      /\ req[r].wake + req[r].left * Turn <= req[r].since + Polls * Turn
      /\ now <= req[r].wake + PollLate

LEMMA Turns ==
  /\ Polls \in Nat /\ Turn \in Nat /\ PollInterval \in Nat /\ PollLate \in Nat
  /\ Polls * Turn \in Nat
  /\ Polls * PollInterval + (Polls + 1) * PollLate = Polls * Turn + PollLate
  /\ \A n \in Nat : n * Turn \in Nat
  /\ \A n \in Nat : n > 0 => n * Turn = (n - 1) * Turn + Turn
<1>1. /\ Polls \in Nat /\ Turn \in Nat /\ PollInterval \in Nat
      /\ PollLate \in Nat
  BY TimeAssumption, WorkerAssumption DEF Polls, Turn
<1>2. \A a, b, c \in Nat : /\ a * (b + c) = a * b + a * c
                           /\ (a + 1) * c = a * c + c
                           /\ a * b \in Nat
  OBVIOUS
<1>3. Polls * PollInterval + (Polls + 1) * PollLate = Polls * Turn + PollLate
  <2> DEFINE p == Polls * PollInterval
             q == Polls * PollLate
  <2>1. p \in Nat /\ q \in Nat
    BY <1>1, <1>2
  <2>2. Polls * Turn = p + q /\ (Polls + 1) * PollLate = q + PollLate
    BY <1>1, <1>2 DEF Turn
  <2> HIDE DEF p, q
  <2>3. p + (q + PollLate) = p + q + PollLate
    BY <1>1, <2>1
  <2>4. QED
    BY <2>2, <2>3 DEF p
<1>4. ASSUME NEW n \in Nat, n > 0
      PROVE  n * Turn = (n - 1) * Turn + Turn
  <2>1. n - 1 \in Nat /\ n = (n - 1) + 1
    BY <1>4
  <2>2. QED
    BY <1>1, <1>2, <2>1
<1>5. QED
  BY <1>1, <1>2, <1>3, <1>4

(* A request polls after a step of its own because it did before and does  *)
(* so again, or because it was just denied the key.                        *)
LEMMA Polling ==
  ASSUME WorkerInv, NEW r \in Requests, Invocation(r), req'[r].pc = "poll"
  PROVE  \/ /\ MayLook(r) /\ PollAgain(r)
         \/ /\ req'[r].since = now /\ req'[r].wake = now
            /\ req'[r].left = Polls
         \/ req[r].pc = "poll" /\ DelSent(r)
<1>1. req \in [Requests -> [pc    : {"new"} \cup Active \cup Outcomes,
                            held  : BOOLEAN, since : Nat, left : Nat,
                            wake  : Nat, got : Requests \cup {Nobody},
                            dels  : 0 .. 2]]
  BY DEF WorkerInv, InvocationsOK
<1>2. \A from, to : Goto(r, from, to) => req'[r].pc = to
  BY <1>1 DEF Goto
<1>3. /\ Catch(r) => req'[r].pc = "failed"
      /\ Lost(r) => req'[r].pc # "poll"
  <2>1. Catch(r) => req'[r].pc = "failed"
    BY <1>1 DEF Catch
  <2>2. req' = [req EXCEPT ![r].pc = "gone"] => req'[r].pc = "gone"
    BY <1>1
  <2>3. QED
    BY <2>1, <2>2 DEF Lost
<1>4. CASE ObtainDenied(r)
  BY <1>1, <1>4 DEF ObtainDenied, Polls
<1>5. CASE ObtainKey(r) \/ FetchRefuses(r) \/ Store(r)
  BY <1>1, <1>5 DEF ObtainKey, FetchRefuses, Store
<1>6. CASE Poll(r)
  <2>1. MayLook(r)
    BY <1>6 DEF Poll
  <2>2. req' # [req EXCEPT ![r] = [@ EXCEPT !.pc = "answered",
                                            !.got = disk[KeyOf[r]].v]]
    <3>1. [req EXCEPT ![r] = [@ EXCEPT !.pc = "answered",
                                       !.got = disk[KeyOf[r]].v]][r].pc
            = "answered"
      BY <1>1
    <3>2. QED
      BY <3>1
  <2>3. QED
    BY <1>3, <1>6, <2>1, <2>2 DEF Poll
<1>7. CASE DelSent(r)
  <2>1. req'[r].pc = req[r].pc
    BY <1>1, <1>7 DEF DelSent
  <2>2. QED
    BY <1>7, <2>1
<1>8. QED
  BY <1>2, <1>3, <1>4, <1>5, <1>6, <1>7
  DEF Invocation, Reject, PollTimeout, FetchAnswers, FetchFails, Relay,
      RelayFails, ObtainLost, StoreLost, PollLost, Leave, DelArrives, DelLost

LEMMA InvocationPolls ==
  ASSUME WorkerInv, PollsInTime, UNCHANGED now,
         NEW r \in Requests, Invocation(r)
  PROVE  PollsInTime'
<1>1. \A s \in Requests \ {r} : req'[s] = req[s]
  BY InvocationTypes
<1>2. /\ req[r].since \in Nat /\ req[r].left \in Nat /\ req[r].wake \in Nat
      /\ now \in Nat
  BY DEF WorkerInv, InvocationsOK
<1>3. ASSUME req'[r].pc = "poll"
      PROVE  /\ req'[r].wake + req'[r].left * Turn
                  <= req'[r].since + Polls * Turn
             /\ now' <= req'[r].wake + PollLate
  <2>1. CASE MayLook(r) /\ PollAgain(r)
    <3>1. /\ req'[r].left = req[r].left - 1 /\ req'[r].since = req[r].since
          /\ req'[r].wake = now + PollInterval
      BY <2>1 DEF PollAgain, WorkerInv, InvocationsOK
    <3>2. /\ req[r].left > 0 /\ now <= req[r].wake + PollLate
          /\ req[r].wake + req[r].left * Turn
               <= req[r].since + Polls * Turn
      BY <2>1 DEF MayLook, PollsInTime
    <3>3. req[r].left * Turn = (req[r].left - 1) * Turn + Turn
      BY <1>2, <3>2, Turns
    <3>4. req[r].left - 1 \in Nat /\ (req[r].left - 1) * Turn \in Nat
      BY <1>2, <3>2, Turns
    <3> DEFINE n == (req[r].left - 1) * Turn
               all == Polls * Turn
    <3>5. n \in Nat /\ all \in Nat /\ Turn = PollInterval + PollLate
      BY <3>4, Turns DEF Turn
    <3>6. req[r].wake + (n + Turn) <= req[r].since + all
      BY <3>2, <3>3
    <3> HIDE DEF n, all
    <3>7. now + PollInterval + n <= req[r].since + all
      BY <1>2, <3>2, <3>5, <3>6, Turns
    <3>8. now <= now + PollInterval + PollLate
      BY <1>2, Turns
    <3>9. QED
      BY <3>1, <3>7, <3>8 DEF n, all
  <2>2. CASE /\ req'[r].since = now /\ req'[r].wake = now
             /\ req'[r].left = Polls
    <3>1. \A n \in Nat : n <= n /\ n <= n + PollLate
      BY Turns
    <3>2. now + Polls * Turn \in Nat
      BY <1>2, Turns
    <3>3. QED
      BY <1>2, <2>2, <3>1, <3>2
  <2>3. CASE req[r].pc = "poll" /\ DelSent(r)
    <3>1. /\ req'[r].left = req[r].left /\ req'[r].since = req[r].since
          /\ req'[r].wake = req[r].wake
      BY <2>3 DEF DelSent, WorkerInv, InvocationsOK
    <3>2. QED
      BY <2>3, <3>1 DEF PollsInTime
  <2>4. QED
    BY <1>3, <2>1, <2>2, <2>3, Polling
<1>4. QED
  BY <1>1, <1>3 DEF PollsInTime

(* A waiter has its answer or its error after TTL and what the timers were *)
(* late.                                                                   *)
THEOREM WaitersEnd == WorkerSpec => []WaiterEndsInTime
<1>1. WorkerInit => PollsInTime
  BY DEF WorkerInit, PollsInTime
<1>2. WorkerInv /\ PollsInTime /\ [WorkerNext]_workerVars => PollsInTime'
  <2> SUFFICES ASSUME WorkerInv, PollsInTime, [WorkerNext]_workerVars
               PROVE  PollsInTime'
    OBVIOUS
  <2>1. ASSUME NEW r \in Requests, Invocation(r), UNCHANGED now
        PROVE  PollsInTime'
    BY <2>1, InvocationPolls
  <2>2. CASE Clock
    <3>1. now' = now + 1 /\ now \in Nat /\ UNCHANGED req
      BY <2>2 DEF Clock, Tick, WorkerInv, InvocationsOK
    <3>2. ASSUME NEW r \in Requests, req[r].pc = "poll"
          PROVE  now' <= req[r].wake + PollLate
      <4>1. now < req[r].wake + PollLate /\ req[r].wake \in Nat
        BY <2>2, <3>2 DEF Clock, WorkerInv, InvocationsOK
      <4>2. QED
        BY <3>1, <4>1, Turns
    <3>3. QED
      BY <3>1, <3>2 DEF PollsInTime
  <2>3. CASE \/ UNCHANGED now /\ \E k \in Keys : Alarm(k) \/ Evict(k)
             \/ UNCHANGED workerVars
    <3>1. UNCHANGED <<now, req>>
      BY <2>3 DEF Alarm, Evict, workerVars
    <3>2. QED
      BY <3>1 DEF PollsInTime
  <2>4. QED
    BY <2>1, <2>2, <2>3 DEF WorkerNext, Quiet
<1>3. WorkerInv /\ PollsInTime => WaiterEndsInTime
  <2> SUFFICES ASSUME WorkerInv, PollsInTime,
                      NEW r \in Requests, req[r].pc = "poll"
               PROVE  now <= req[r].since + Polls * PollInterval
                              + (Polls + 1) * PollLate
    BY DEF WaiterEndsInTime, Polls
  <2> DEFINE all == Polls * Turn
             rest == req[r].left * Turn
             p == Polls * PollInterval
             q == (Polls + 1) * PollLate
  <2>1. /\ req[r].since \in Nat /\ req[r].left \in Nat /\ req[r].wake \in Nat
        /\ now \in Nat
    BY DEF WorkerInv, InvocationsOK
  <2>2. all \in Nat /\ rest \in Nat /\ p + q = all + PollLate
    BY <2>1, Turns
  <2>3. p \in Nat /\ q \in Nat /\ PollLate \in Nat
    <3>1. \A a, b \in Nat : a * b \in Nat
      OBVIOUS
    <3>2. QED
      BY <3>1, Turns
  <2>4. req[r].wake + rest <= req[r].since + all /\ now <= req[r].wake + PollLate
    BY DEF PollsInTime
  <2> HIDE DEF all, rest, p, q
  <2>5. now <= req[r].since + p + q
    BY <2>1, <2>2, <2>3, <2>4
  <2>6. QED
    BY <2>5 DEF p, q
<1>4. QED
  BY <1>1, <1>2, <1>3, WorkerAlways, PTL DEF WorkerSpec

=============================================================================
