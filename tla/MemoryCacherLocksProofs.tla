----------------------- MODULE MemoryCacherLocksProofs -----------------------
(***************************************************************************)
(* MemoryCacherLocks implements MemoryCacher as long as no handler is      *)
(* dropped between its two locks, for any callers, cleaners, keys and TTL, *)
(* and then every entry has its tag.  Wherever they are dropped, writers   *)
(* are alone and responses keep their tags.                                *)
(*                                                                         *)
(* The argument: a call that is between its locks is alone (Alone), so     *)
(* that what it is about to write is what the map and the queue will have  *)
(* when it is done (Prepared), and nobody has looked meanwhile.            *)
(***************************************************************************)
EXTENDS MemoryCacherLocks, SequenceTheorems, TLAPS

Shapes ==
  /\ now \in Nat
  /\ map \in [Keys -> [expire : Nat, val : Values \cup {Empty, NoValue}]]
  /\ task \in [Callers -> [pc  : {"idle", "wantKv", "asleep", "wantPq"},
                           op  : {"obtain", "poll", "set", "del"},
                           key : Keys, val : Values \cup {Empty},
                           at  : Nat, old : Nat]]
  /\ cleaner \in [Cleaners -> [pc : {"idle", "promised", "spawned", "wantPq",
                                     "wantKv"}, at : Nat]]

(* While a call is between its two locks no other is, nor asleep. *)
Alone ==
  \A p, q \in Callers :
    task[p].pc = "wantPq" /\ q # p => task[q].pc \notin {"wantPq", "asleep"}

(* What such a call has seen of the map and done to it. *)
Prepared ==
  \A p \in Callers :
    /\ task[p].op = "set" <=> task[p].val # Empty
    /\ task[p].pc = "wantPq" =>
         /\ task[p].op # "poll"
         /\ task[p].op = "del" => map[task[p].key] = Absent

(* A key that is not stored has no entry at all; no tag is for time 0. *)
Vacant == /\ \A k \in Keys : ~Stored(k) => map[k] = Absent
          /\ \A k \in Keys : <<0, k>> \notin tags

LockInv == Shapes /\ Alone /\ Prepared /\ Vacant

(* ------------------------------ the types ------------------------------ *)
LEMMA SpawnShapes ==
  ASSUME Shapes, NEW as \in {"promised", "spawned"}, Spawn(as)
  PROVE  cleaner' \in [Cleaners -> [pc : {"idle", "promised", "spawned",
                                          "wantPq", "wantKv"}, at : Nat]]
<1>1. CASE UNCHANGED cleaner
  BY <1>1 DEF Shapes
<1>2. CASE \E c \in Cleaners : cleaner' = [cleaner EXCEPT ![c].pc = as]
  <2>1. PICK c \in Cleaners : cleaner' = [cleaner EXCEPT ![c].pc = as]
    BY <1>2
  <2>2. as \in {"idle", "promised", "spawned", "wantPq", "wantKv"}
    OBVIOUS
  <2>3. QED
    BY <2>1, <2>2 DEF Shapes
<1>3. QED
  BY <1>1, <1>2 DEF Spawn

LEMMA ReturnShapes ==
  ASSUME Shapes, NEW p \in Callers, Return(p)
  PROVE  /\ task' \in [Callers -> [pc  : {"idle", "wantKv", "asleep", "wantPq"},
                           op  : {"obtain", "poll", "set", "del"},
                           key : Keys, val : Values \cup {Empty},
                           at  : Nat, old : Nat]]
         /\ \A q \in Callers \ {p} : task'[q] = task[q]
         /\ task'[p].pc = "idle" /\ task'[p].val = Empty /\ task'[p].op = "poll"
  BY DEF Shapes, Return, NoCall

LEMMA GoOnShapes ==
  ASSUME Shapes, NEW p \in Callers, GoOn(p)
  PROVE  /\ task' \in [Callers -> [pc  : {"idle", "wantKv", "asleep", "wantPq"},
                           op  : {"obtain", "poll", "set", "del"},
                           key : Keys, val : Values \cup {Empty},
                           at  : Nat, old : Nat]]
         /\ \A q \in Callers \ {p} : task'[q] = task[q]
         /\ task'[p].pc = "wantPq" /\ task'[p].val = task[p].val
         /\ task'[p].op = task[p].op /\ task'[p].key = task[p].key
         /\ task'[p].at = now /\ task'[p].old = map[task[p].key].expire
<1> DEFINE e == map[task[p].key].expire
<1>1. e \in Nat /\ now \in Nat
  BY DEF Shapes
<1>2. task' = [task EXCEPT ![p] = [@ EXCEPT !.pc = "wantPq", !.at = now,
                                            !.old = e]]
  BY DEF GoOn
<1> HIDE DEF e
<1>3. /\ task' \in [Callers -> [pc  : {"idle", "wantKv", "asleep", "wantPq"},
                           op  : {"obtain", "poll", "set", "del"},
                           key : Keys, val : Values \cup {Empty},
                           at  : Nat, old : Nat]]
      /\ \A q \in Callers \ {p} : task'[q] = task[q]
  BY <1>1, <1>2, ZenonT(60) DEF Shapes
<1>4. /\ task'[p].pc = "wantPq" /\ task'[p].val = task[p].val
      /\ task'[p].op = task[p].op /\ task'[p].key = task[p].key
      /\ task'[p].at = now /\ task'[p].old = e
  BY <1>1, <1>2 DEF Shapes
<1>5. QED
  BY <1>3, <1>4 DEF e

(* ------------------------- the inductive invariant --------------------- *)

(* The four calls, when they have the map. *)
LEMMA TurnKeeps ==
  ASSUME LockInv, NEW p \in Callers, KvTurn(p)
  PROVE  LockInv'
<1> DEFINE k == task[p].key
<1> USE DEF LockInv
<1>1. k \in Keys /\ now \in Nat /\ now + TTL \in Nat /\ now + TTL # 0
  BY TimeAssumption DEF Shapes
<1>2. UNCHANGED <<now, tags>> /\ ~KvWriteGuardOut
  BY DEF KvTurn, ObtainTurn, SetTurn, DelTurn, PollTurn, MayWrite, MayRead
<1>3. \A q \in Callers : task[q].pc # "wantPq"
  BY <1>2 DEF KvWriteGuardOut
<1>4. CASE Return(p) /\ UNCHANGED <<map, cleaner>>
  <2>1. Shapes'
    BY <1>2, <1>4, ReturnShapes DEF Shapes
  <2>2. Alone' /\ Prepared'
    BY <1>3, <1>4, ReturnShapes DEF Alone, Prepared
  <2>3. Vacant'
    BY <1>2, <1>4 DEF Vacant, Stored
  <2>4. QED
    BY <2>1, <2>2, <2>3
<1>5. CASE Return(p) /\ Spawn("spawned")
           /\ (UNCHANGED map \/ map' = [map EXCEPT ![k] = Absent])
  <2>1. map' \in [Keys -> [expire : Nat, val : Values \cup {Empty, NoValue}]]
    BY <1>1, <1>5 DEF Shapes, Absent
  <2>2. Shapes'
    BY <1>2, <1>5, <2>1, ReturnShapes, SpawnShapes DEF Shapes
  <2>3. Alone' /\ Prepared'
    BY <1>3, <1>5, ReturnShapes DEF Alone, Prepared
  <2>4. Vacant'
    BY <1>1, <1>2, <1>5 DEF Vacant, Stored, Shapes
  <2>5. QED
    BY <2>2, <2>3, <2>4
<1>6. CASE /\ GoOn(p) /\ UNCHANGED cleaner /\ ~KvReadGuardOut
           /\ task[p].op \in {"obtain", "set"}
           /\ \/ UNCHANGED map
              \/ map' = [map EXCEPT ![k] = [expire |-> now + TTL, val |-> Empty]]
  <2>1. map' \in [Keys -> [expire : Nat, val : Values \cup {Empty, NoValue}]]
    BY <1>1, <1>6 DEF Shapes
  <2>2. Shapes'
    BY <1>2, <1>6, <2>1, GoOnShapes DEF Shapes
  <2>3. /\ \A q \in Callers \ {p} : task'[q] = task[q]
        /\ task'[p].val = task[p].val /\ task'[p].op = task[p].op
    BY <1>6, GoOnShapes
  <2>4. Alone'
    BY <1>3, <1>6, <2>3 DEF Alone, KvReadGuardOut
  <2>5. Prepared'
    BY <1>3, <1>6, <2>3 DEF Prepared
  <2>6. \A j \in Keys : map'[j] = map[j] \/ map'[j].val # NoValue
    BY <1>1, <1>6, LockAssumption DEF Shapes
  <2>7. Vacant'
    BY <1>2, <2>6 DEF Vacant, Stored
  <2>8. QED
    BY <2>2, <2>4, <2>5, <2>7
<1>7. CASE /\ GoOn(p) /\ task[p].op = "del" /\ Spawn("promised")
           /\ map' = [map EXCEPT ![k] = Absent] /\ ~KvReadGuardOut
  <2>1. /\ map' \in [Keys -> [expire : Nat, val : Values \cup {Empty, NoValue}]]
        /\ map'[k] = Absent
    BY <1>1, <1>7 DEF Shapes, Absent
  <2>2. Shapes'
    BY <1>2, <1>7, <2>1, GoOnShapes, SpawnShapes DEF Shapes
  <2>3. Alone' /\ Prepared'
    BY <1>3, <1>7, <2>1, GoOnShapes DEF Alone, Prepared, KvReadGuardOut
  <2>4. Vacant'
    BY <1>1, <1>2, <1>7 DEF Vacant, Stored, Shapes
  <2>5. QED
    BY <2>2, <2>3, <2>4
<1>8. CASE PollTurn(p)
  <2>1. cleaner' \in [Cleaners -> [pc : {"idle", "promised", "spawned",
                                         "wantPq", "wantKv"}, at : Nat]]
    BY <1>8, SpawnShapes DEF PollTurn, Shapes
  <2>2. UNCHANGED map
    BY <1>8 DEF PollTurn
  <2>3. CASE Return(p)
    <3>1. Shapes'
      BY <1>2, <2>1, <2>2, <2>3, ReturnShapes DEF Shapes
    <3>2. Alone' /\ Prepared'
      BY <1>3, <2>2, <2>3, ReturnShapes DEF Alone, Prepared
    <3>3. QED
      BY <1>2, <2>2, <3>1, <3>2 DEF Vacant, Stored
  <2>4. CASE task' = [task EXCEPT ![p].pc = "asleep"]
    <3>1. Shapes'
      <4>1. task' \in [Callers -> [pc  : {"idle", "wantKv", "asleep", "wantPq"},
                           op  : {"obtain", "poll", "set", "del"},
                           key : Keys, val : Values \cup {Empty},
                           at  : Nat, old : Nat]]
        BY <2>4, SMTT(30) DEF Shapes
      <4>2. QED
        BY <1>2, <2>1, <2>2, <4>1 DEF Shapes
    <3>2. Alone' /\ Prepared'
      BY <1>3, <2>2, <2>4 DEF Shapes, Alone, Prepared
    <3>3. QED
      BY <1>2, <2>2, <3>1, <3>2 DEF Vacant, Stored
  <2>5. QED
    BY <1>8, <2>3, <2>4 DEF PollTurn
<1>9. QED
  BY <1>4, <1>5, <1>6, <1>7, <1>8
  DEF KvTurn, ObtainTurn, SetTurn, DelTurn, MayWrite

(* The queue's lock: what was prepared is done. *)
LEMMA DoneKeeps ==
  ASSUME LockInv, NEW p \in Callers, PqTurn(p)
  PROVE  LockInv'
<1> USE DEF LockInv
<1>1. /\ task[p].key \in Keys /\ task[p].pc = "wantPq"
      /\ task[p].at + TTL \in Nat /\ task[p].at + TTL # 0
      /\ task[p].val \in Values \cup {Empty}
  BY TimeAssumption DEF PqTurn, Shapes
<1>2. Return(p) /\ UNCHANGED now
  BY DEF PqTurn
<1>3. \/ task[p].op # "del" /\ map' = [map EXCEPT ![task[p].key] = Entry(p)]
      \/ UNCHANGED map
  BY DEF PqTurn
<1>4. Entry(p) \in [expire : Nat, val : Values \cup {Empty, NoValue}]
  BY <1>1 DEF Entry
<1>5. cleaner' \in [Cleaners -> [pc : {"idle", "promised", "spawned",
                                       "wantPq", "wantKv"}, at : Nat]]
  <2>1. CASE task[p].op = "del"
    <3>1. cleaner' = [c \in Cleaners |->
                        IF cleaner[c].pc = "promised"
                        THEN [cleaner[c] EXCEPT !.pc = "spawned"]
                        ELSE cleaner[c]]
      BY <2>1 DEF PqTurn
    <3>2. \A c \in Cleaners :
            /\ cleaner[c] \in [pc : {"idle", "promised", "spawned", "wantPq",
                                     "wantKv"}, at : Nat]
            /\ [cleaner[c] EXCEPT !.pc = "spawned"]
                 \in [pc : {"idle", "promised", "spawned", "wantPq", "wantKv"},
                      at : Nat]
      BY DEF Shapes
    <3>3. QED
      BY <3>1, <3>2
  <2>2. CASE task[p].op # "del"
    BY <2>2 DEF PqTurn, Shapes
  <2>3. QED
    BY <2>1, <2>2
<1>6. Shapes'
  BY <1>1, <1>2, <1>3, <1>4, <1>5, ReturnShapes, SMTT(30) DEF Shapes
<1>7. \A q \in Callers : task'[q].pc # "wantPq"
  BY <1>1, <1>2, ReturnShapes DEF Alone
<1>8. Alone' /\ Prepared'
  BY <1>2, <1>7, ReturnShapes DEF Alone, Prepared
<1>9. Vacant'
  <2>1. \A k \in Keys : <<0, k>> \notin tags'
    BY <1>1 DEF Vacant, PqTurn, Retag, NewTag
  <2>2. Entry(p).val # NoValue
    BY <1>1, LockAssumption DEF Entry
  <2>3. \A k \in Keys : map'[k] = map[k] \/ map'[k].val # NoValue
    BY <1>1, <1>3, <2>2 DEF Shapes
  <2>4. QED
    BY <2>1, <2>3 DEF Vacant, Stored
<1>10. QED
  BY <1>6, <1>8, <1>9

(* A call begins, goes to sleep again or is dropped: the map is not seen.  *)
LEMMA AsideKeeps ==
  ASSUME LockInv, NEW p \in Callers, Call(p) \/ Wake(p) \/ Cancel(p)
  PROVE  LockInv'
<1> USE DEF LockInv
<1>1. UNCHANGED <<now, map, tags>>
  BY DEF Call, Wake, Cancel
<1>2. Vacant'
  BY <1>1 DEF Vacant, Stored
<1>3. cleaner' \in [Cleaners -> [pc : {"idle", "promised", "spawned", "wantPq",
                                       "wantKv"}, at : Nat]]
  <2>1. \A c \in Cleaners :
          cleaner[c].pc = "promised" => NoCleaner \in [pc : {"idle"}, at : Nat]
    BY DEF NoCleaner
  <2>2. \/ UNCHANGED cleaner
        \/ cleaner' = [c \in Cleaners |->
                         IF cleaner[c].pc = "promised" THEN NoCleaner
                         ELSE cleaner[c]]
    BY DEF Call, Wake, Cancel
  <2>3. QED
    BY <2>1, <2>2 DEF Shapes
<1>4. CASE Return(p)
  <2>1. Shapes'
    BY <1>1, <1>3, <1>4, ReturnShapes DEF Shapes
  <2>2. Alone' /\ Prepared'
    BY <1>1, <1>4, ReturnShapes DEF Alone, Prepared
  <2>3. QED
    BY <1>2, <2>1, <2>2
<1>5. CASE task' = [task EXCEPT ![p].pc = "wantKv"]
  <2>1. task' \in [Callers -> [pc  : {"idle", "wantKv", "asleep", "wantPq"},
                           op  : {"obtain", "poll", "set", "del"},
                           key : Keys, val : Values \cup {Empty},
                           at  : Nat, old : Nat]]
    BY <1>5, SMTT(30) DEF Shapes
  <2>2. Shapes'
    BY <1>1, <1>3, <2>1 DEF Shapes
  <2>3. \A q \in Callers : /\ task'[q].pc \in {task[q].pc, "wantKv"}
                           /\ task'[q].op = task[q].op /\ task'[q].val = task[q].val
                           /\ task'[q].key = task[q].key
    BY <1>5 DEF Shapes
  <2>4. Alone' /\ Prepared'
    BY <1>1, <2>3 DEF Alone, Prepared
  <2>5. QED
    BY <1>2, <2>2, <2>4
<1>6. CASE Call(p)
  <2>1. PICK op \in {"obtain", "poll", "set", "del"}, k \in Keys,
             v \in Values \cup {Empty} :
          /\ v = Empty <=> op # "set"
          /\ task' = [task EXCEPT ![p] = [pc |-> "wantKv", op |-> op, key |-> k,
                                          val |-> v, at |-> 0, old |-> 0]]
    BY <1>6 DEF Call
  <2>3. /\ task' \in [Callers -> [pc  : {"idle", "wantKv", "asleep", "wantPq"},
                           op  : {"obtain", "poll", "set", "del"},
                           key : Keys, val : Values \cup {Empty},
                           at  : Nat, old : Nat]]
        /\ \A q \in Callers \ {p} : task'[q] = task[q]
        /\ task'[p].pc = "wantKv" /\ task'[p].op = op /\ task'[p].val = v
    BY <2>1 DEF Shapes
  <2>4. Shapes'
    BY <1>1, <1>3, <2>3 DEF Shapes
  <2>5. Alone' /\ Prepared'
    BY <1>1, <2>1, <2>3 DEF Alone, Prepared
  <2>6. QED
    BY <1>2, <2>4, <2>5
<1>7. QED
  BY <1>4, <1>5, <1>6 DEF Wake, Cancel

LEMMA CleanerKeeps ==
  ASSUME LockInv, NEW c \in Cleaners, Arm(c) \/ TakeQueue(c) \/ Sweep(c)
  PROVE  LockInv'
<1> USE DEF LockInv
<1>1. UNCHANGED <<now, task>>
  BY DEF Arm, TakeQueue, Sweep
<1>2. cleaner' \in [Cleaners -> [pc : {"idle", "promised", "spawned", "wantPq",
                                       "wantKv"}, at : Nat]]
  <2>1. CASE Arm(c)
    BY <2>1 DEF Arm, Shapes
  <2>2. CASE TakeQueue(c)
    BY <2>2 DEF TakeQueue, Shapes
  <2>3. CASE Sweep(c)
    BY <2>3 DEF Sweep, NoCleaner, Shapes
  <2>4. QED
    BY <2>1, <2>2, <2>3
<1>3. \/ UNCHANGED <<map, tags>>
      \/ /\ tags' \subseteq tags /\ ~KvWriteGuardOut
         /\ map' \in [Keys -> [expire : Nat, val : Values \cup {Empty, NoValue}]]
         /\ \A k \in Keys : map'[k] \in {map[k], Absent}
  <2>1. CASE Sweep(c)
    <3> DEFINE ks == {k \in Keys : \E p \in {q \in tags : q[1] <= cleaner[c].at} :
                                     p[2] = k}
    <3>1. /\ map' = [k \in Keys |-> IF k \in ks THEN Absent ELSE map[k]]
          /\ tags' \subseteq tags /\ ~KvWriteGuardOut
      BY <2>1 DEF Sweep, MayWrite
    <3> HIDE DEF ks
    <3>2. QED
      BY <3>1 DEF Shapes, Absent
  <2>2. QED
    BY <2>1 DEF Arm, TakeQueue
<1>4. Shapes'
  BY <1>1, <1>2, <1>3 DEF Shapes
<1>5. Alone' /\ Prepared'
  BY <1>1, <1>3 DEF Alone, Prepared, KvWriteGuardOut
<1>6. Vacant'
  BY <1>3 DEF Vacant, Stored
<1>7. QED
  BY <1>4, <1>5, <1>6

LEMMA LocksKept == LockSpec => []LockInv
<1>1. LockInit => LockInv
  <2> SUFFICES ASSUME LockInit PROVE LockInv
    OBVIOUS
  <2>1. (CHOOSE k \in Keys : TRUE) \in Keys
    BY LockAssumption
  <2>2. Shapes /\ Alone /\ Prepared
    BY <2>1 DEF LockInit, Absent, NoCall, NoCleaner, Shapes, Alone, Prepared
  <2>3. Vacant
    BY DEF LockInit, Vacant, Stored
  <2>4. QED
    BY <2>2, <2>3 DEF LockInv
<1>2. LockInv /\ [LockNext]_lockVars => LockInv'
  <2> SUFFICES ASSUME LockInv, [LockNext]_lockVars
               PROVE  LockInv'
    OBVIOUS
  <2>1. ASSUME NEW p \in Callers,
               Call(p) \/ KvTurn(p) \/ Wake(p) \/ PqTurn(p) \/ Cancel(p)
        PROVE  LockInv'
    BY <2>1, TurnKeeps, DoneKeeps, AsideKeeps
  <2>2. ASSUME NEW c \in Cleaners, Arm(c) \/ TakeQueue(c) \/ Sweep(c)
        PROVE  LockInv'
    BY <2>2, CleanerKeeps
  <2>3. CASE \/ Tick /\ UNCHANGED <<map, tags, task, cleaner, kvLine, pqLine>>
             \/ UNCHANGED lockVars
    <3>1. UNCHANGED <<map, tags, task, cleaner>> /\ now' \in Nat
      BY <2>3 DEF Tick, lockVars, LockInv, Shapes
    <3>2. QED
      BY <3>1 DEF LockInv, Shapes, Alone, Prepared, Vacant, Stored
  <2>4. QED
    BY <2>1, <2>2, <2>3 DEF LockNext
<1>3. QED
  BY <1>1, <1>2, PTL DEF LockSpec

(* ------------------------------- the lines ----------------------------- *)
LEMMA LeavesLine ==
  ASSUME NEW S, NEW s \in Seq(S), NEW x
  PROVE  Without(s, x) \in Seq(S)
<1> DEFINE k == CHOOSE i \in DOMAIN s : s[i] = x
<1>1. CASE ~\E i \in DOMAIN s : s[i] = x
  BY <1>1 DEF Without
<1>2. CASE \E i \in DOMAIN s : s[i] = x
  <2>1. k \in 1 .. Len(s) /\ Len(s) \in Nat
    BY <1>2, LenProperties
  <2>2. Without(s, x) = RemoveAt(s, k)
    BY <1>2 DEF Without
  <2> HIDE DEF k
  <2>3. SubSeq(s, 1, k - 1) \in Seq(S) /\ SubSeq(s, k + 1, Len(s)) \in Seq(S)
    <3>1. \A i \in 1 .. Len(s) : s[i] \in S
      BY ElementOfSeq
    <3>2. \A i \in 1 .. k - 1 : s[i] \in S
      BY <2>1, <3>1
    <3>3. \A i \in k + 1 .. Len(s) : s[i] \in S
      BY <2>1, <3>1
    <3>4. QED
      BY <2>1, <3>2, <3>3, SubSeqProperties
  <2>4. QED
    BY <2>2, <2>3, ConcatProperties DEF RemoveAt
<1>3. QED
  BY <1>1, <1>2

LEMMA ShortensLine ==
  ASSUME NEW S, NEW s \in Seq(S), NEW x, First(x, s)
  PROVE  Tail(s) \in Seq(S)
  BY HeadTailProperties DEF First

(* Who stands in the lines, and of what the tags are. *)
LinesOK ==
  /\ tags \subseteq Nat \X Keys
  /\ kvLine \in Seq(Callers \cup Cleaners)
  /\ pqLine \in Seq(Callers \cup Cleaners)

LEMMA CallerLines ==
  ASSUME LockInv, LinesOK, NEW p \in Callers,
         Call(p) \/ KvTurn(p) \/ Wake(p) \/ PqTurn(p) \/ Cancel(p)
  PROVE  LinesOK'
<1> USE DEF LinesOK
<1>1. p \in Callers \cup Cleaners
  OBVIOUS
<1>2. /\ Append(kvLine, p) \in Seq(Callers \cup Cleaners)
      /\ Append(pqLine, p) \in Seq(Callers \cup Cleaners)
  BY <1>1, AppendProperties
<1>3. CASE Call(p) \/ Wake(p)
  BY <1>2, <1>3 DEF Call, Wake
<1>4. CASE KvTurn(p)
  <2>1. kvLine' = Without(kvLine, p) /\ UNCHANGED tags
    BY <1>4 DEF KvTurn
  <2>2. pqLine' = pqLine \/ pqLine' = Append(pqLine, p)
    BY <1>4 DEF KvTurn, ObtainTurn, SetTurn, DelTurn, PollTurn, GoOn
  <2>3. QED
    BY <1>2, <2>1, <2>2, LeavesLine
<1>5. CASE PqTurn(p)
  <2>1. First(p, pqLine) /\ pqLine' = Tail(pqLine) /\ UNCHANGED kvLine
    BY <1>5 DEF PqTurn, MayQueue
  <2>2. NewTag(p) \in Nat \X Keys
    BY TimeAssumption DEF NewTag, LockInv, Shapes
  <2>3. tags' \subseteq tags \cup {NewTag(p)}
    BY <1>5 DEF PqTurn, Retag
  <2>4. QED
    BY <2>1, <2>2, <2>3, ShortensLine
<1>6. CASE Cancel(p)
  <2>1. /\ kvLine' = Without(kvLine, p) /\ pqLine' = Without(pqLine, p)
        /\ UNCHANGED tags
    BY <1>6 DEF Cancel
  <2>2. QED
    BY <2>1, LeavesLine
<1>7. QED
  BY <1>3, <1>4, <1>5, <1>6

LEMMA CleanerLines ==
  ASSUME LinesOK, NEW c \in Cleaners, Arm(c) \/ TakeQueue(c) \/ Sweep(c)
  PROVE  LinesOK'
<1> USE DEF LinesOK
<1>1. c \in Callers \cup Cleaners
  OBVIOUS
<1>2. /\ Append(kvLine, c) \in Seq(Callers \cup Cleaners)
      /\ Append(pqLine, c) \in Seq(Callers \cup Cleaners)
  BY <1>1, AppendProperties
<1>3. CASE Arm(c)
  BY <1>2, <1>3 DEF Arm
<1>4. CASE TakeQueue(c)
  BY <1>2, <1>4, ShortensLine DEF TakeQueue, MayQueue
<1>5. CASE Sweep(c)
  BY <1>5, ShortensLine DEF Sweep, MayWrite
<1>6. QED
  BY <1>3, <1>4, <1>5

(* A writer is alone and the lines are kept, whoever is dropped, and       *)
(* wherever: between its two locks a call meets no sleeping poller and no  *)
(* other call.                                                             *)
THEOREM WritersAlone == LockSpec => []WriterAlone
<1>1. LockInit => LinesOK
  BY EmptySeq DEF LockInit, LinesOK
<1>2. LockInv /\ LinesOK /\ [LockNext]_lockVars => LinesOK'
  <2> SUFFICES ASSUME LockInv, LinesOK, [LockNext]_lockVars
               PROVE  LinesOK'
    OBVIOUS
  <2>1. CASE UNCHANGED <<tags, kvLine, pqLine>>
    BY <2>1 DEF LinesOK
  <2>2. QED
    BY <2>1, CallerLines, CleanerLines DEF LockNext, lockVars
<1>3. LockInv /\ LinesOK => WriterAlone
  BY DEF LockInv, Shapes, Alone, LinesOK, WriterAlone, LockTypeOK, Deciding
<1>4. QED
  BY <1>1, <1>2, <1>3, LocksKept, PTL DEF LockSpec

(* ------------------------- what dropping costs -------------------------- *)
(* Stronger than ResponseKeepsTag, and inductive: also a call between its  *)
(* locks has not yet touched a response's entry, nor its tag.              *)
ResponsesTagged ==
  \A k \in Keys : map[k].val \in Values => <<map[k].expire, k>> \in tags

LEMMA TurnTags ==
  ASSUME LockInv, ResponsesTagged, NEW p \in Callers, KvTurn(p)
  PROVE  ResponsesTagged'
<1> DEFINE k == task[p].key
<1>1. k \in Keys /\ UNCHANGED tags
  BY DEF LockInv, Shapes, KvTurn
<1>2. \/ UNCHANGED map
      \/ map' = [map EXCEPT ![k] = Absent]
      \/ map' = [map EXCEPT ![k] = [expire |-> now + TTL, val |-> Empty]]
  BY DEF KvTurn, ObtainTurn, SetTurn, DelTurn, PollTurn
<1>3. \A j \in Keys : map'[j] = map[j] \/ map'[j].val \in {Empty, NoValue}
  BY <1>1, <1>2 DEF LockInv, Shapes, Absent
<1>4. QED
  BY <1>1, <1>3, LockAssumption DEF ResponsesTagged

LEMMA DoneTags ==
  ASSUME LockInv, ResponsesTagged, NEW p \in Callers, PqTurn(p)
  PROVE  ResponsesTagged'
<1> DEFINE k == task[p].key
<1>1. k \in Keys /\ task[p].pc = "wantPq"
  BY DEF LockInv, Shapes, PqTurn
<1>2. ASSUME NEW j \in Keys \ {k}
      PROVE  /\ map'[j] = map[j]
             /\ \A t \in Nat : <<t, j>> \in tags => <<t, j>> \in tags'
  <2>1. map'[j] = map[j]
    BY <1>1 DEF PqTurn, LockInv, Shapes
  <2>2. \A t \in Nat : <<t, j>> # OldTag(p)
    BY DEF OldTag
  <2>3. QED
    BY <2>1, <2>2 DEF PqTurn, Retag
<1>3. map'[k].val \in Values => <<map'[k].expire, k>> \in tags'
  <2>1. CASE task[p].op = "del"
    <3>1. map'[k] = Absent
      BY <1>1, <2>1 DEF PqTurn, LockInv, Prepared
    <3>2. QED
      BY <3>1, LockAssumption DEF Absent
  <2>2. CASE task[p].op # "del"
    <3>1. map'[k] = Entry(p) /\ NewTag(p) \in tags'
      BY <1>1, <2>2 DEF PqTurn, Retag, LockInv, Shapes
    <3>2. QED
      BY <3>1 DEF Entry, NewTag
  <2>3. QED
    BY <2>1, <2>2
<1>4. \A j \in Keys : map[j].expire \in Nat
  BY DEF LockInv, Shapes
<1>5. QED
  BY <1>2, <1>3, <1>4 DEF ResponsesTagged

LEMMA SweepTags ==
  ASSUME LockInv, ResponsesTagged, NEW c \in Cleaners, Sweep(c)
  PROVE  ResponsesTagged'
<1> DEFINE due == {p \in tags : p[1] <= cleaner[c].at}
<1>1. /\ tags' = tags \ due
      /\ map' = [k \in Keys |-> IF \E p \in due : p[2] = k THEN Absent ELSE map[k]]
  BY DEF Sweep
<1> HIDE DEF due
<1>2. ASSUME NEW k \in Keys, map'[k].val \in Values
      PROVE  <<map'[k].expire, k>> \in tags'
  <2>1. /\ ~\E p \in due : p[2] = k
        /\ map'[k] = map[k]
    BY <1>1, <1>2, LockAssumption DEF Absent
  <2>2. <<map[k].expire, k>> \in tags
    BY <1>2, <2>1 DEF ResponsesTagged
  <2>3. QED
    BY <1>1, <2>1, <2>2
<1>3. QED
  BY <1>2 DEF ResponsesTagged

(* Dropped handlers cost placeholders, never responses: wherever they are  *)
(* dropped, between their locks too, every cached response keeps its tag.  *)
THEOREM ResponsesKeepTags == LockSpec => []ResponseKeepsTag
<1>1. ASSUME LockInit PROVE ResponsesTagged
  <2>1. \A k \in Keys : map[k].val = NoValue
    BY <1>1 DEF LockInit, Absent
  <2>2. QED
    BY <2>1, LockAssumption DEF ResponsesTagged
<1>2. LockInv /\ ResponsesTagged /\ [LockNext]_lockVars => ResponsesTagged'
  <2> SUFFICES ASSUME LockInv, ResponsesTagged, [LockNext]_lockVars
               PROVE  ResponsesTagged'
    OBVIOUS
  <2>1. CASE UNCHANGED <<map, tags>>
    BY <2>1 DEF ResponsesTagged
  <2>2. QED
    BY <2>1, TurnTags, DoneTags, SweepTags
    DEF LockNext, lockVars, Call, Wake, Cancel, Arm, TakeQueue
<1>3. ResponsesTagged => ResponseKeepsTag
  BY DEF ResponsesTagged, ResponseKeepsTag
<1>4. QED
  BY <1>1, <1>2, <1>3, LocksKept, PTL DEF LockSpec

(* ------------------------- what counts as written ---------------------- *)

(* When no call is between its locks, map and queue are what they are ...  *)
LEMMA Undecided ==
  ASSUME Shapes, \A q \in Callers : task[q].pc # "wantPq"
  PROVE  KvOf = map /\ PqOf = tags
<1>1. Deciding = {} /\ Restamping = {}
  BY DEF Deciding, Restamping
<1>2. QED
  BY <1>1 DEF KvOf, PqOf, Shapes

LEMMA UndecidedNext ==
  ASSUME Shapes', \A q \in Callers : task'[q].pc # "wantPq"
  PROVE  KvOf' = map' /\ PqOf' = tags'
<1>1. Deciding' = {} /\ Restamping' = {}
  BY DEF Deciding, Restamping
<1>2. QED
  BY <1>1 DEF KvOf, PqOf, Shapes

(* ... and when one is, what it is about to make of them. *)
Written(m, p) ==
  IF task[p].op = "del" THEN m ELSE [m EXCEPT ![task[p].key] = Entry(p)]

Retagged(p) ==
  IF task[p].op = "del" THEN tags \ {OldTag(p)}
  ELSE (tags \ {OldTag(p)}) \cup {NewTag(p)}

LEMMA Decided ==
  ASSUME Shapes, Alone, NEW p \in Callers, task[p].pc = "wantPq"
  PROVE  KvOf = Written(map, p) /\ PqOf = Retagged(p)
<1>1. Deciding = {p} /\ Restamping = IF task[p].op = "del" THEN {} ELSE {p}
  BY DEF Deciding, Restamping, Alone
<1>2. task[p].key \in Keys
  BY DEF Shapes
<1>3. CASE task[p].op = "del"
  BY <1>1, <1>3 DEF KvOf, PqOf, Shapes, Written, Retagged
<1>4. CASE task[p].op # "del"
  <2>1. Restamping = {p}
    BY <1>1, <1>4
  <2>2. (CHOOSE q \in {p} : task[q].key = task[p].key) = p
    OBVIOUS
  <2>3. \A k \in Keys : KvOf[k] = IF k = task[p].key THEN Entry(p) ELSE map[k]
    BY <2>1, <2>2 DEF KvOf
  <2>4. KvOf = Written(map, p)
    BY <1>2, <1>4, <2>3 DEF KvOf, Written, Shapes
  <2>5. QED
    BY <1>1, <1>4, <2>1, <2>4 DEF PqOf, Retagged
<1>5. QED
  BY <1>3, <1>4

LEMMA DecidedNext ==
  ASSUME Shapes', Alone', NEW p \in Callers, task'[p].pc = "wantPq"
  PROVE  KvOf' = Written(map, p)' /\ PqOf' = Retagged(p)'
<1>1. /\ Deciding' = {p}
      /\ Restamping' = IF task'[p].op = "del" THEN {} ELSE {p}
  BY DEF Deciding, Restamping, Alone
<1>2. task'[p].key \in Keys
  BY DEF Shapes
<1>3. CASE task'[p].op = "del"
  BY <1>1, <1>3 DEF KvOf, PqOf, Shapes, Written, Retagged
<1>4. CASE task'[p].op # "del"
  <2>1. Restamping' = {p}
    BY <1>1, <1>4
  <2>2. (CHOOSE q \in {p} : task'[q].key = task'[p].key) = p
    OBVIOUS
  <2>3. \A k \in Keys :
          KvOf'[k] = IF k = task'[p].key THEN Entry(p)' ELSE map'[k]
    BY <2>1, <2>2 DEF KvOf
  <2>4. KvOf' = Written(map, p)'
    BY <1>2, <1>4, <2>3 DEF KvOf, Written, Shapes
  <2>5. QED
    BY <1>1, <1>4, <2>1, <2>4 DEF PqOf, Retagged
<1>5. QED
  BY <1>3, <1>4

(* Calls elsewhere do not show. *)
LEMMA SameView ==
  ASSUME LockInv, LockInv', UNCHANGED <<map, tags>>,
         \A q \in Callers :
           /\ task'[q].pc = "wantPq" <=> task[q].pc = "wantPq"
           /\ task[q].pc = "wantPq" => task'[q] = task[q]
  PROVE  UNCHANGED <<KvOf, PqOf>>
<1>1. CASE \A q \in Callers : task[q].pc # "wantPq"
  BY <1>1, Undecided, UndecidedNext DEF LockInv
<1>2. ASSUME NEW p \in Callers, task[p].pc = "wantPq"
      PROVE  UNCHANGED <<KvOf, PqOf>>
  <2>1. task'[p] = task[p]
    BY <1>2
  <2>2. Written(map, p)' = Written(map, p) /\ Retagged(p)' = Retagged(p)
    BY <2>1 DEF Written, Retagged, Entry, OldTag, NewTag
  <2>3. QED
    BY <1>2, <2>1, <2>2, Decided, DecidedNext DEF LockInv
<1>3. QED
  BY <1>1, <1>2

LEMMA SpawnSeen ==
  ASSUME Shapes, NEW as \in {"promised", "spawned"}, Spawn(as)
  PROVE  Steps!Spawn
<1>1. CASE \E c \in Cleaners : /\ cleaner[c].pc = "idle"
                               /\ cleaner' = [cleaner EXCEPT ![c].pc = as]
  <2>1. PICK c \in Cleaners : /\ cleaner[c].pc = "idle"
                              /\ cleaner' = [cleaner EXCEPT ![c].pc = as]
    BY <1>1
  <2>2. /\ cleaner'[c].pc = as /\ cleaner'[c].at = cleaner[c].at
        /\ \A d \in Cleaners \ {c} : cleaner'[d] = cleaner[d]
    BY <2>1 DEF Shapes
  <2>3. /\ CleanerOf[c].pc = "idle"
        /\ CleanerOf[c] = [pc |-> "idle", at |-> cleaner[c].at]
    BY <2>1 DEF CleanerOf
  <2>4. CleanerOf'[c] = [pc |-> "spawned", at |-> cleaner[c].at]
    <3>1. CleanerOf'[c] = [pc |-> IF cleaner'[c].pc = "promised" THEN "spawned"
                                  ELSE IF cleaner'[c].pc \in {"wantPq", "wantKv"}
                                  THEN "armed" ELSE cleaner'[c].pc,
                           at |-> cleaner'[c].at]
      BY DEF CleanerOf
    <3>2. QED
      BY <2>2, <3>1
  <2>5. \A d \in Cleaners \ {c} : CleanerOf'[d] = CleanerOf[d]
    BY <2>2 DEF CleanerOf
  <2>6. [CleanerOf[c] EXCEPT !.pc = "spawned"] = CleanerOf'[c]
    BY <2>3, <2>4
  <2>7. CleanerOf' = [CleanerOf EXCEPT ![c].pc = "spawned"]
    BY <2>5, <2>6, ZenonT(60) DEF CleanerOf
  <2>8. QED
    BY <2>3, <2>7 DEF Steps!Spawn
<1>2. CASE (\A c \in Cleaners : cleaner[c].pc # "idle") /\ UNCHANGED cleaner
  BY <1>2 DEF Steps!Spawn, CleanerOf
<1>3. QED
  BY <1>1, <1>2 DEF Spawn

(* ------------------------------ the steps ------------------------------ *)

(* A call that begins, sleeps again, or is dropped before its first lock. *)
LEMMA AsideUnseen ==
  ASSUME LockInv, LockInv', "wantPq" \notin Cancellable,
         NEW p \in Callers, Call(p) \/ Wake(p) \/ Cancel(p)
  PROVE  UNCHANGED Steps!vars
<1>1. UNCHANGED <<now, map, tags>>
  BY DEF Call, Wake, Cancel
<1>2. task[p].pc # "wantPq" /\ UNCHANGED cleaner
  BY DEF Call, Wake, Cancel
<1>3. task'[p].pc # "wantPq" /\ \A q \in Callers \ {p} : task'[q] = task[q]
  BY ReturnShapes, SMTT(30) DEF Call, Wake, Cancel, LockInv, Shapes
<1>4. UNCHANGED <<KvOf, PqOf>>
  BY <1>1, <1>2, <1>3, SameView
<1>5. UNCHANGED CleanerOf
  BY <1>2 DEF CleanerOf
<1>6. QED
  BY <1>1, <1>4, <1>5 DEF Steps!vars, Steps!cacheVars

(* The queue's lock: what counted as written is. *)
LEMMA DoneUnseen ==
  ASSUME LockInv, LockInv', NEW p \in Callers, PqTurn(p)
  PROVE  UNCHANGED Steps!vars
<1>1. task[p].pc = "wantPq" /\ UNCHANGED now
  BY DEF PqTurn
<1>2. KvOf = Written(map, p) /\ PqOf = Retagged(p)
  BY <1>1, Decided DEF LockInv
<1>3. \A q \in Callers : task'[q].pc # "wantPq"
  BY <1>1, ReturnShapes DEF PqTurn, LockInv, Alone
<1>4. KvOf' = map' /\ PqOf' = tags'
  BY <1>3, UndecidedNext DEF LockInv
<1>5. map' = Written(map, p) /\ tags' = Retagged(p)
  BY DEF PqTurn, Retag, Written, Retagged
<1>6. UNCHANGED CleanerOf
  <2>1. CASE task[p].op = "del"
    <3>1. \A c \in Cleaners :
            cleaner'[c] = IF cleaner[c].pc = "promised"
                          THEN [cleaner[c] EXCEPT !.pc = "spawned"]
                          ELSE cleaner[c]
      BY <2>1 DEF PqTurn
    <3>2. \A c \in Cleaners :
            cleaner[c].pc = "promised" =>
              cleaner'[c].pc = "spawned" /\ cleaner'[c].at = cleaner[c].at
      BY <3>1 DEF LockInv, Shapes
    <3>3. \A c \in Cleaners : CleanerOf'[c] = CleanerOf[c]
      BY <3>1, <3>2 DEF CleanerOf
    <3>4. QED
      BY <3>3 DEF CleanerOf
  <2>2. CASE task[p].op # "del"
    BY <2>2 DEF PqTurn, CleanerOf
  <2>3. QED
    BY <2>1, <2>2
<1>7. QED
  BY <1>1, <1>2, <1>4, <1>5, <1>6 DEF Steps!vars, Steps!cacheVars

(* A call that decides: the entry and the tag of its key change at once. *)
LEMMA GoOnSeen ==
  ASSUME LockInv, LockInv', NEW p \in Callers, GoOn(p),
         \A q \in Callers : task[q].pc # "wantPq",
         UNCHANGED <<now, tags>>,
         NEW k \in Keys, k = task[p].key
  PROVE  /\ KvOf = map /\ PqOf = tags
         /\ task[p].op = "del" =>
              KvOf' = map' /\ PqOf' = tags \ {<<map[k].expire, k>>}
         /\ task[p].op # "del" =>
              /\ KvOf' = [map' EXCEPT ![k] = [expire |-> now + TTL,
                                              val |-> task[p].val]]
              /\ PqOf' = (tags \ {<<map[k].expire, k>>})
                           \cup {<<now + TTL, k>>}
<1>1. KvOf = map /\ PqOf = tags
  BY Undecided DEF LockInv
<1>2. /\ task'[p].pc = "wantPq" /\ task'[p].val = task[p].val
      /\ task'[p].op = task[p].op /\ task'[p].key = k
      /\ task'[p].at = now /\ task'[p].old = map[k].expire
  BY GoOnShapes DEF LockInv
<1>3. KvOf' = Written(map, p)' /\ PqOf' = Retagged(p)'
  BY <1>2, DecidedNext DEF LockInv
<1>4. /\ Entry(p)' = [expire |-> now + TTL, val |-> task[p].val]
      /\ NewTag(p)' = <<now + TTL, k>> /\ OldTag(p)' = <<map[k].expire, k>>
  BY <1>2 DEF Entry, NewTag, OldTag
<1>5. QED
  BY <1>1, <1>2, <1>3, <1>4 DEF Written, Retagged

LEMMA TurnSeen ==
  ASSUME LockInv, LockInv', NEW p \in Callers, KvTurn(p)
  PROVE  [Steps!Next]_(Steps!vars)
<1> DEFINE k == task[p].key
<1> USE DEF LockInv
<1>1. /\ k \in Keys /\ UNCHANGED <<now, tags>>
      /\ \A q \in Callers : task[q].pc # "wantPq"
  BY DEF KvTurn, ObtainTurn, SetTurn, DelTurn, PollTurn, MayWrite, MayRead,
         KvWriteGuardOut, Shapes
<1>2. KvOf = map /\ PqOf = tags
  BY <1>1, Undecided
<1>3. ASSUME task'[p].pc # "wantPq", \A q \in Callers \ {p} : task'[q] = task[q]
      PROVE  KvOf' = map' /\ PqOf' = tags
  <2>1. \A q \in Callers : task'[q].pc # "wantPq"
    BY <1>1, <1>3
  <2>2. QED
    BY <1>1, <2>1, UndecidedNext
<1>4. Return(p) => KvOf' = map' /\ PqOf' = tags
  BY <1>3, ReturnShapes
<1>5. /\ Steps!Stored(k) <=> Stored(k)
      /\ Steps!Live(k) <=> Live(k)
      /\ Steps!Tag(k) = <<map[k].expire, k>>
  BY <1>2 DEF Steps!Stored, Steps!Live, Steps!Tag, Stored, Live
<1>6. UNCHANGED cleaner => UNCHANGED CleanerOf
  BY DEF CleanerOf
<1>7. Steps!Call(k) => Steps!Next
  BY <1>1 DEF Steps!Next
<1>8. CASE Return(p) /\ UNCHANGED <<map, cleaner>>
  BY <1>1, <1>2, <1>4, <1>6, <1>8 DEF Steps!vars, Steps!cacheVars
<1>9. CASE ObtainTurn(p) /\ GoOn(p)
  <2>1. task[p].op = "obtain" /\ ~Live(k) /\ UNCHANGED cleaner
    BY <1>9, <1>1, LockAssumption DEF ObtainTurn, GoOn, Return, NoCall, Shapes, Live
  <2>2. task[p].val = Empty
    BY <2>1 DEF Prepared
  <2>3. \/ UNCHANGED map
        \/ map' = [map EXCEPT ![k] = [expire |-> now + TTL, val |-> Empty]]
    BY <1>9 DEF ObtainTurn
  <2>4. /\ KvOf' = [map' EXCEPT ![k] = [expire |-> now + TTL, val |-> Empty]]
        /\ PqOf' = (tags \ {<<map[k].expire, k>>}) \cup {<<now + TTL, k>>}
    BY <1>1, <1>9, <2>1, <2>2, GoOnSeen
  <2>5. KvOf' = [map EXCEPT ![k] = [expire |-> now + TTL, val |-> Empty]]
    BY <1>1, <2>3, <2>4 DEF Shapes
  <2>6. Steps!Obtain(k)
    BY <1>2, <1>5, <1>6, <2>1, <2>4, <2>5 DEF Steps!Obtain, Steps!Restamp
  <2>7. QED
    BY <1>7, <2>6 DEF Steps!Call
<1>10. CASE SetTurn(p) /\ Live(k) /\ GoOn(p) /\ UNCHANGED <<map, cleaner>>
  <2>1. task[p].val \in Values /\ task[p].op = "set"
    BY <1>10 DEF SetTurn, Prepared, Shapes
  <2>2. /\ KvOf' = [map EXCEPT ![k] = [expire |-> now + TTL,
                                       val |-> task[p].val]]
        /\ PqOf' = (tags \ {<<map[k].expire, k>>}) \cup {<<now + TTL, k>>}
    BY <1>1, <1>10, <2>1, GoOnSeen
  <2>3. Steps!SetLive(k, task[p].val)
    BY <1>2, <1>5, <1>6, <1>10, <2>2 DEF Steps!SetLive, Steps!Restamp
  <2>4. QED
    BY <1>7, <2>1, <2>3 DEF Steps!Call
<1>11. CASE /\ SetTurn(p) /\ Stored(k) /\ ~Live(k) /\ Return(p)
            /\ map' = [map EXCEPT ![k] = Absent] /\ Spawn("spawned")
  <2>1. Steps!SetExpired(k)
    BY <1>2, <1>4, <1>5, <1>11, SpawnSeen
    DEF Steps!SetExpired, Steps!Absent, Absent
  <2>2. QED
    BY <1>7, <2>1 DEF Steps!Call
<1>12. CASE DelTurn(p)
  <2>1. KvOf' = [map EXCEPT ![k] = Absent]
        /\ PqOf' = tags \ {<<map[k].expire, k>>}
    <3>1. CASE GoOn(p) /\ map' = [map EXCEPT ![k] = Absent]
      BY <1>1, <1>12, <3>1, GoOnSeen DEF DelTurn
    <3>2. CASE ~Stored(k) /\ Return(p) /\ UNCHANGED map
      <4>1. map[k] = Absent /\ <<map[k].expire, k>> \notin tags
        BY <1>1, <3>2 DEF Vacant, Absent
      <4>2. [map EXCEPT ![k] = Absent] = map
        BY <4>1 DEF Shapes
      <4>3. tags \ {<<map[k].expire, k>>} = tags
        BY <4>1
      <4>4. KvOf' = map /\ PqOf' = tags
        BY <1>4, <3>2
      <4>5. QED
        BY <4>2, <4>3, <4>4
    <3>3. QED
      BY <1>12, <3>1, <3>2 DEF DelTurn
  <2>2. Steps!Spawn
    BY <1>12, SpawnSeen DEF DelTurn
  <2>3. Steps!Del(k)
    BY <1>2, <1>5, <2>1, <2>2 DEF Steps!Del, Steps!Absent, Absent
  <2>4. QED
    BY <1>7, <2>3 DEF Steps!Call
<1>13. CASE PollTurn(p)
  <2>1. task'[p].pc # "wantPq" /\ \A q \in Callers \ {p} : task'[q] = task[q]
    BY <1>13, ReturnShapes DEF PollTurn, Shapes
  <2>2. UNCHANGED <<KvOf, PqOf>>
    BY <1>1, <1>2, <1>3, <1>13, <2>1 DEF PollTurn
  <2>3. IF Stored(k) /\ ~Live(k) THEN Steps!Spawn ELSE UNCHANGED CleanerOf
    BY <1>6, <1>13, SpawnSeen DEF PollTurn
  <2>4. Steps!Look(k)
    BY <1>5, <2>2, <2>3 DEF Steps!Look
  <2>5. QED
    BY <1>7, <2>4 DEF Steps!Call
<1>14. QED
  BY <1>8, <1>9, <1>10, <1>11, <1>12, <1>13 DEF KvTurn, ObtainTurn, SetTurn

LEMMA CleanerSeen ==
  ASSUME LockInv, LockInv', NEW c \in Cleaners, Arm(c) \/ TakeQueue(c) \/ Sweep(c)
  PROVE  [Steps!Next]_(Steps!vars)
<1> USE DEF LockInv
<1>1. UNCHANGED <<now, task>>
  BY DEF Arm, TakeQueue, Sweep
<1>2. CASE Arm(c) \/ TakeQueue(c)
  <2>1. UNCHANGED <<KvOf, PqOf>>
    BY <1>1, <1>2, SameView DEF Arm, TakeQueue
  <2>2. CASE Arm(c)
    <3>1. /\ cleaner[c].pc = "spawned"
          /\ cleaner' = [cleaner EXCEPT ![c] = [pc |-> "wantPq", at |-> now]]
      BY <2>2 DEF Arm
    <3>2. cleaner'[c].pc = "wantPq" /\ cleaner'[c].at = now
          /\ \A d \in Cleaners \ {c} : cleaner'[d] = cleaner[d]
      BY <3>1 DEF Shapes
    <3>3. CleanerOf[c].pc = "spawned"
      BY <3>1 DEF CleanerOf
    <3>4. CleanerOf'[c] = [pc |-> "armed", at |-> now]
          /\ \A d \in Cleaners \ {c} : CleanerOf'[d] = CleanerOf[d]
      BY <3>2 DEF CleanerOf
    <3>5. CleanerOf' = [CleanerOf EXCEPT ![c] = [pc |-> "armed", at |-> now]]
      BY <3>4 DEF CleanerOf
    <3>6. Steps!Arm(c)
      BY <2>1, <3>3, <3>5 DEF Steps!Arm
    <3>7. QED
      BY <1>1, <3>6 DEF Steps!Next, Steps!Clean
  <2>3. CASE TakeQueue(c)
    <3>1. /\ cleaner[c].pc = "wantPq" /\ cleaner'[c].pc = "wantKv"
          /\ cleaner'[c].at = cleaner[c].at
          /\ \A d \in Cleaners \ {c} : cleaner'[d] = cleaner[d]
      BY <2>3 DEF TakeQueue, Shapes
    <3>2. UNCHANGED CleanerOf
      BY <3>1 DEF CleanerOf
    <3>3. QED
      BY <1>1, <2>1, <3>2 DEF Steps!vars, Steps!cacheVars
  <2>4. QED
    BY <1>2, <2>2, <2>3
<1>3. CASE Sweep(c)
  <2>1. \A q \in Callers : task[q].pc # "wantPq"
    BY <1>3 DEF Sweep, MayWrite, KvWriteGuardOut
  <2>2. KvOf = map /\ PqOf = tags /\ KvOf' = map' /\ PqOf' = tags'
    BY <1>1, <2>1, Undecided, UndecidedNext
  <2>3. /\ cleaner[c].pc = "wantKv" /\ cleaner'[c] = NoCleaner
        /\ \A d \in Cleaners \ {c} : cleaner'[d] = cleaner[d]
    BY <1>3 DEF Sweep, Shapes
  <2>4. CleanerOf[c].pc = "armed" /\ CleanerOf[c].at = cleaner[c].at
    BY <2>3 DEF CleanerOf
  <2>5. CleanerOf'[c] = Steps!Idle
        /\ \A d \in Cleaners \ {c} : CleanerOf'[d] = CleanerOf[d]
    BY <2>3 DEF CleanerOf, NoCleaner, Steps!Idle
  <2>6. CleanerOf' = [CleanerOf EXCEPT ![c] = Steps!Idle]
    BY <2>5 DEF CleanerOf
  <2>7. Steps!Sweep(c)
    BY <1>3, <2>2, <2>4, <2>6
    DEF Sweep, Steps!Sweep, Steps!Due, Absent, Steps!Absent
  <2>8. QED
    BY <1>1, <2>7 DEF Steps!Next, Steps!Clean
<1>4. QED
  BY <1>2, <1>3

(* As long as no handler is dropped between the map's lock and the queue's, *)
(* the two locks make of each call of the cacher one step.                  *)
THEOREM LocksImplementMemoryCacher ==
  ASSUME "wantPq" \notin Cancellable
  PROVE  LockSpec => ImplementsMemoryCacher
<1>1. LockInit => Steps!Init
  <2> SUFFICES ASSUME LockInit PROVE Steps!Init
    OBVIOUS
  <2>1. Deciding = {} /\ Restamping = {}
    BY DEF LockInit, NoCall, Deciding, Restamping
  <2>2. KvOf = [k \in Keys |-> Absent] /\ PqOf = {}
    BY <2>1 DEF LockInit, KvOf, PqOf
  <2>3. CleanerOf = [c \in Cleaners |-> Steps!Idle]
    BY DEF LockInit, CleanerOf, NoCleaner, Steps!Idle
  <2>4. QED
    BY <2>2, <2>3 DEF LockInit, Steps!Init, Steps!CacheInit, Steps!Absent, Absent
<1>2. LockInv /\ LockInv' /\ [LockNext]_lockVars => [Steps!Next]_(Steps!vars)
  <2> SUFFICES ASSUME LockInv, LockInv', [LockNext]_lockVars
               PROVE  [Steps!Next]_(Steps!vars)
    OBVIOUS
  <2>1. ASSUME NEW p \in Callers, Call(p) \/ KvTurn(p) \/ Wake(p) \/ PqTurn(p) \/ Cancel(p)
        PROVE  [Steps!Next]_(Steps!vars)
    BY <2>1, AsideUnseen, DoneUnseen, TurnSeen
  <2>2. ASSUME NEW c \in Cleaners, Arm(c) \/ TakeQueue(c) \/ Sweep(c)
        PROVE  [Steps!Next]_(Steps!vars)
    BY <2>2, CleanerSeen
  <2>3. CASE \/ Tick /\ UNCHANGED <<map, tags, task, cleaner, kvLine, pqLine>>
             \/ UNCHANGED lockVars
    <3>1. UNCHANGED <<map, tags, task, cleaner>> /\ (Tick \/ UNCHANGED now)
      BY <2>3 DEF lockVars
    <3>2. UNCHANGED <<KvOf, PqOf, CleanerOf>>
      BY <3>1, SameView DEF CleanerOf
    <3>3. QED
      BY <3>1, <3>2 DEF Steps!Next, Steps!vars, Steps!cacheVars, Steps!Tick, Tick
  <2>4. QED
    BY <2>1, <2>2, <2>3 DEF LockNext
<1>3. QED
  BY <1>1, <1>2, LocksKept, PTL DEF LockSpec, ImplementsMemoryCacher, Steps!Spec

(* ------------------------- no entry without a tag ---------------------- *)
Kept == INSTANCE MemoryCacherProofs
          WITH kv <- KvOf, pq <- PqOf, cleaner <- CleanerOf

(* Under the same assumption every entry has its tag whenever no call is   *)
(* between the locks: it has in MemoryCacher.                              *)
THEOREM NoOrphans ==
  ASSUME "wantPq" \notin Cancellable
  PROVE  LockSpec => []NoOrphanEntry
<1>1. LockSpec => Steps!Spec
  BY LocksImplementMemoryCacher DEF ImplementsMemoryCacher
<1>2. Kept!Spec => []Kept!QueueCoversStore
  <2>1. Kept!TimeAssumption /\ Kept!ValueAssumption
    BY TimeAssumption, LockAssumption DEF Kept!TimeAssumption, Kept!ValueAssumption
  <2>2. QED
    BY <2>1, Kept!QueueAlwaysCovers
<1>3. LockInv /\ Steps!QueueCoversStore => NoOrphanEntry
  <2> SUFFICES ASSUME LockInv, Steps!QueueCoversStore, Deciding = {}
               PROVE  \A k \in Keys : Stored(k) => <<map[k].expire, k>> \in tags
    BY DEF NoOrphanEntry
  <2>1. \A q \in Callers : task[q].pc # "wantPq"
    BY DEF Deciding
  <2>2. KvOf = map /\ PqOf = tags
    BY <2>1, Undecided DEF LockInv
  <2>3. QED
    BY <2>2 DEF Steps!QueueCoversStore, Steps!Stored, Steps!Tag, Stored
<1>4. Steps!Init => Kept!Init
  BY DEF Steps!Init, Kept!Init, Steps!CacheInit, Kept!CacheInit,
         Steps!Absent, Kept!Absent, Steps!Idle, Kept!Idle
<1>5. [Steps!Next]_(Steps!vars) => [Kept!Next]_(Kept!vars)
  BY DEF Steps!Next, Kept!Next, Steps!Call, Kept!Call, Steps!Obtain,
         Kept!Obtain, Steps!Restamp, Kept!Restamp, Steps!Look,
        Kept!Look, Steps!Spawn, Kept!Spawn, Steps!SetLive,
        Kept!SetLive, Steps!SetExpired, Kept!SetExpired,
        Steps!SetMissing, Kept!SetMissing, Steps!Del, Kept!Del,
        Steps!Clean, Kept!Clean, Steps!Arm, Kept!Arm, Steps!Sweep,
        Kept!Sweep, Steps!Due, Kept!Due, Steps!Tag, Kept!Tag,
        Steps!Live, Kept!Live, Steps!Stored, Kept!Stored,
        Steps!Absent, Kept!Absent, Steps!Idle, Kept!Idle, Steps!Tick,
        Kept!Tick, Steps!vars, Kept!vars, Steps!cacheVars,
        Kept!cacheVars
<1>6. Steps!Spec => Kept!Spec
  BY <1>4, <1>5, PTL DEF Steps!Spec, Kept!Spec
<1>7. Kept!QueueCoversStore => Steps!QueueCoversStore
  BY DEF Steps!QueueCoversStore, Kept!QueueCoversStore, Steps!Stored,
         Kept!Stored, Steps!Tag, Kept!Tag
<1>8. QED
  BY <1>1, <1>2, <1>3, <1>6, <1>7, LocksKept, PTL


=============================================================================
