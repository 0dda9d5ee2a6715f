-------------------------- MODULE MemoryCacherLocks --------------------------
(***************************************************************************)
(* The inside of MemoryCacher's steps: its two tokio::sync::RwLocks.       *)
(*                                                                         *)
(* A task keeps a lock across an await in three places, and only there is  *)
(* the lock visible to others:                                             *)
(*   - obtain, set and del await the queue's lock holding the map's write  *)
(*     guard                          (task "wantPq");                     *)
(*   - polling_get sleeps holding the map's read guard (task "asleep");    *)
(*   - a cleaner awaits the map's lock holding the queue's write guard     *)
(*                                    (cleaner "wantKv").                  *)
(* tokio's locks are fair: a request joins the lock's line (kvLine, pqLine)*)
(* and is served when it is first and compatible with the guards out.  A   *)
(* turn is the code from one await to the next.                            *)
(***************************************************************************)
EXTENDS ProxyTime, FairLine

CONSTANTS Values, Empty, NoValue, Cleaners,
          Callers,      \* the handler tasks that call the cacher
          Cancellable   \* the awaits at which a client may disconnect, so
                        \* that the handler is dropped there

ASSUME LockAssumption ==
  /\ Cancellable \subseteq {"wantKv", "asleep", "wantPq"}
  /\ Callers \cap Cleaners = {} /\ Keys # {}
  /\ Empty \notin Values /\ NoValue \notin Values /\ Empty # NoValue

VARIABLES map, tags,    \* what the two locks protect
          task,         \* the call each caller is in
          cleaner,      \* the cleaning tasks
          kvLine, pqLine

lockVars == <<now, map, tags, task, cleaner, kvLine, pqLine>>

Absent    == [expire |-> 0, val |-> NoValue]
NoCleaner == [pc |-> "idle", at |-> 0]
NoCall(k) == [pc |-> "idle", op |-> "poll", key |-> k, val |-> Empty,
              at |-> 0, old |-> 0]

LockTypeOK ==
  /\ map \in [Keys -> [expire : Nat, val : Values \cup {Empty, NoValue}]]
  /\ tags \subseteq Nat \X Keys
  /\ task \in [Callers -> [pc  : {"idle", "wantKv", "asleep", "wantPq"},
                           op  : {"obtain", "poll", "set", "del"},
                           key : Keys,
                           val : Values \cup {Empty},  \* to be written
                           at  : Nat,                  \* clock when decided
                           old : Nat]]                 \* tag to be removed
  /\ cleaner \in [Cleaners -> [pc : {"idle", "promised", "spawned", "wantPq",
                                     "wantKv"}, at : Nat]]
  /\ kvLine \in Seq(Callers \cup Cleaners)
  /\ pqLine \in Seq(Callers \cup Cleaners)

LockInit ==
  /\ now = 0
  /\ map = [k \in Keys |-> Absent]
  /\ tags = {}
  /\ task = [p \in Callers |-> NoCall(CHOOSE k \in Keys : TRUE)]
  /\ cleaner = [c \in Cleaners |-> NoCleaner]
  /\ kvLine = <<>> /\ pqLine = <<>>

(* ------------------------------ the guards ----------------------------- *)
KvWriteGuardOut == \E p \in Callers : task[p].pc = "wantPq"
KvReadGuardOut  == \E p \in Callers : task[p].pc = "asleep"
PqGuardOut      == \E c \in Cleaners : cleaner[c].pc = "wantKv"

(* Mutant of MayWrite: the map is locked for reading only. *)
MayWriteBesideReaders(x) == First(x, kvLine) /\ ~KvWriteGuardOut

(* Mutant of MayRead: a reader does not wait for the writers before it. *)
MayReadAhead(p) == p \in Range(kvLine) /\ ~KvWriteGuardOut

MayRead(p)  == First(p, kvLine) /\ ~KvWriteGuardOut
MayWrite(x) == First(x, kvLine) /\ ~KvWriteGuardOut /\ ~KvReadGuardOut
MayQueue(x) == First(x, pqLine) /\ ~PqGuardOut

Stored(k) == map[k].val # NoValue
Live(k)   == Stored(k) /\ map[k].expire > now

(* As in MemoryCacher: with every task of the bound out, none is added.    *)
(* del() spawns at its very end; the slot is set aside when it decides.    *)
Spawn(as) ==
  \/ \E c \in Cleaners :
       /\ cleaner[c].pc = "idle"
       /\ cleaner' = [cleaner EXCEPT ![c].pc = as]
  \/ (\A c \in Cleaners : cleaner[c].pc # "idle") /\ UNCHANGED cleaner

(* ------------------------------ the callers ---------------------------- *)
Call(p) ==
  /\ task[p].pc = "idle"
  /\ \E op \in {"obtain", "poll", "set", "del"}, k \in Keys,
        v \in Values \cup {Empty} :
       /\ v = Empty <=> op # "set"
       /\ task' = [task EXCEPT ![p] = [pc |-> "wantKv", op |-> op, key |-> k,
                                       val |-> v, at |-> 0, old |-> 0]]
  /\ kvLine' = Append(kvLine, p)
  /\ UNCHANGED <<now, map, tags, cleaner, pqLine>>

Return(p) == task' = [task EXCEPT ![p] = NoCall(task[p].key)]

(* The call has decided and goes on to the queue, keeping the map.         *)
GoOn(p) ==
  /\ task' = [task EXCEPT ![p] = [@ EXCEPT !.pc = "wantPq", !.at = now,
                                           !.old = map[task[p].key].expire]]
  /\ pqLine' = Append(pqLine, p)

ObtainTurn(p) ==
  LET k == task[p].key
  IN  /\ task[p].op = "obtain" /\ MayWrite(p)
      /\ \/ Live(k) /\ Return(p) /\ UNCHANGED <<map, pqLine>>
         \/ Stored(k) /\ ~Live(k) /\ GoOn(p) /\ UNCHANGED map
         \/ /\ ~Stored(k) /\ GoOn(p)
            /\ map' = [map EXCEPT ![k] = [expire |-> now + TTL, val |-> Empty]]
      /\ UNCHANGED cleaner

SetTurn(p) ==
  LET k == task[p].key
  IN  /\ task[p].op = "set" /\ MayWrite(p)
      /\ \/ Live(k) /\ GoOn(p) /\ UNCHANGED <<map, cleaner>>
         \/ /\ Stored(k) /\ ~Live(k) /\ Return(p)
            /\ map' = [map EXCEPT ![k] = Absent]
            /\ Spawn("spawned") /\ UNCHANGED pqLine
         \/ ~Stored(k) /\ Return(p) /\ UNCHANGED <<map, cleaner, pqLine>>

DelTurn(p) ==
  LET k == task[p].key
  IN  /\ task[p].op = "del" /\ MayWrite(p)
      /\ \/ /\ Stored(k) /\ GoOn(p)
            /\ map' = [map EXCEPT ![k] = Absent]
            /\ Spawn("promised")
         \/ /\ ~Stored(k) /\ Return(p)
            /\ Spawn("spawned") /\ UNCHANGED <<map, pqLine>>

(* An empty entry sends the poller to sleep with the read guard in hand. *)
PollTurn(p) ==
  LET k == task[p].key
  IN  /\ task[p].op = "poll" /\ MayRead(p)
      /\ IF Stored(k) /\ ~Live(k) THEN Spawn("spawned") ELSE UNCHANGED cleaner
      /\ IF map[k].val = Empty THEN task' = [task EXCEPT ![p].pc = "asleep"]
                               ELSE Return(p)
      /\ UNCHANGED <<map, pqLine>>

KvTurn(p) == /\ ObtainTurn(p) \/ SetTurn(p) \/ DelTurn(p) \/ PollTurn(p)
             /\ kvLine' = Without(kvLine, p)
             /\ UNCHANGED <<now, tags>>

(* The sleep ends and the guard is dropped; a poll is left or none is. *)
Wake(p) == /\ task[p].pc = "asleep"
           /\ \/ Return(p) /\ UNCHANGED kvLine
              \/ /\ task' = [task EXCEPT ![p].pc = "wantKv"]
                 /\ kvLine' = Append(kvLine, p)
           /\ UNCHANGED <<now, map, tags, cleaner, pqLine>>

Entry(p)  == [expire |-> task[p].at + TTL, val |-> task[p].val]
NewTag(p) == <<task[p].at + TTL, task[p].key>>
OldTag(p) == <<task[p].old, task[p].key>>

(* Mutants of Retag: no tag is left for the new expiry, del() does not     *)
(* look for the tag.                                                       *)
RetagLost(p) == tags' = tags \ {OldTag(p)}

RetagKeepsOld(p) ==
  tags' = IF task[p].op = "del" THEN tags
          ELSE (tags \ {OldTag(p)}) \cup {NewTag(p)}

Retag(p) ==
  tags' = IF task[p].op = "del" THEN tags \ {OldTag(p)}
          ELSE (tags \ {OldTag(p)}) \cup {NewTag(p)}

(* The queue's lock at last: both collections are brought up to date. *)
PqTurn(p) ==
  /\ task[p].pc = "wantPq" /\ MayQueue(p)
  /\ Retag(p) /\ Return(p)
  /\ IF task[p].op = "del"
     THEN /\ cleaner' = [c \in Cleaners |->
                           IF cleaner[c].pc = "promised"
                           THEN [cleaner[c] EXCEPT !.pc = "spawned"]
                           ELSE cleaner[c]]
          /\ UNCHANGED map
     ELSE map' = [map EXCEPT ![task[p].key] = Entry(p)] /\ UNCHANGED cleaner
  /\ pqLine' = Tail(pqLine)
  /\ UNCHANGED <<now, kvLine>>

(* A handler task is dropped at an await: it leaves the line it stands in, *)
(* and its guards are released with the work half done.                    *)
Cancel(p) ==
  /\ task[p].pc \in Cancellable
  /\ Return(p)
  /\ kvLine' = Without(kvLine, p) /\ pqLine' = Without(pqLine, p)
  /\ IF task[p].pc = "wantPq" /\ task[p].op = "del"
     THEN cleaner' = [c \in Cleaners |->
                        IF cleaner[c].pc = "promised" THEN NoCleaner
                        ELSE cleaner[c]]
     ELSE UNCHANGED cleaner
  /\ UNCHANGED <<now, map, tags>>

(* ------------------------------ the cleaners --------------------------- *)
Arm(c) == /\ cleaner[c].pc = "spawned"
          /\ cleaner' = [cleaner EXCEPT ![c] = [pc |-> "wantPq", at |-> now]]
          /\ pqLine' = Append(pqLine, c)
          /\ UNCHANGED <<now, map, tags, task, kvLine>>

TakeQueue(c) == /\ cleaner[c].pc = "wantPq" /\ MayQueue(c)
                /\ cleaner' = [cleaner EXCEPT ![c].pc = "wantKv"]
                /\ pqLine' = Tail(pqLine)
                /\ kvLine' = Append(kvLine, c)
                /\ UNCHANGED <<now, map, tags, task>>

Sweep(c) ==
  LET due == {p \in tags : p[1] <= cleaner[c].at}
  IN  /\ cleaner[c].pc = "wantKv" /\ MayWrite(c)
      /\ tags' = tags \ due
      /\ map' = [k \in Keys |->
                   IF \E p \in due : p[2] = k THEN Absent ELSE map[k]]
      /\ cleaner' = [cleaner EXCEPT ![c] = NoCleaner]
      /\ kvLine' = Tail(kvLine)
      /\ UNCHANGED <<now, task, pqLine>>

LockNext ==
  \/ \E p \in Callers : Call(p) \/ KvTurn(p) \/ Wake(p) \/ PqTurn(p) \/ Cancel(p)
  \/ \E c \in Cleaners : Arm(c) \/ TakeQueue(c) \/ Sweep(c)
  \/ Tick /\ UNCHANGED <<map, tags, task, cleaner, kvLine, pqLine>>

LockSpec == LockInit /\ [][LockNext]_lockVars

(* tokio runs every task that is ready, grants each lock in the order of   *)
(* its line, and a sleep ends; a turn awaits nothing else.  Nothing obliges *)
(* a client to come or to leave, and the body that a client is sending is  *)
(* not read in here, with or without an end (handler.rs:180).              *)
FairLockSpec ==
  /\ LockSpec
  /\ \A p \in Callers : /\ WF_lockVars(KvTurn(p)) /\ WF_lockVars(PqTurn(p))
                        /\ WF_lockVars(Wake(p))
  /\ \A c \in Cleaners : WF_lockVars(TakeQueue(c)) /\ WF_lockVars(Sweep(c))

(***************************************************************************)
(* As long as no handler is dropped between its two locks, they make each  *)
(* call one step of MemoryCacher, taken when the call decides: what it is  *)
(* about to write counts as written.                                       *)
(***************************************************************************)
Deciding  == {p \in Callers : task[p].pc = "wantPq"}
Restamping == {p \in Deciding : task[p].op # "del"}

KvOf ==
  [k \in Keys |->
     IF \E p \in Restamping : task[p].key = k
     THEN Entry(CHOOSE p \in Restamping : task[p].key = k) ELSE map[k]]

PqOf ==
  (tags \ {OldTag(p) : p \in Deciding}) \cup {NewTag(p) : p \in Restamping}

CleanerOf ==
  [c \in Cleaners |->
     [pc |-> IF cleaner[c].pc = "promised" THEN "spawned"
             ELSE IF cleaner[c].pc \in {"wantPq", "wantKv"}
             THEN "armed" ELSE cleaner[c].pc,
      at |-> cleaner[c].at]]

Steps == INSTANCE MemoryCacher
           WITH kv <- KvOf, pq <- PqOf, cleaner <- CleanerOf

ImplementsMemoryCacher == Steps!Spec

(* No two tasks wait for each other's lock.  The code breaks it: obtain,   *)
(* set and del take the map's lock and then the queue's, a cleaner takes   *)
(* them the other way round, and both then wait for ever.                  *)
NoCircularWait == ~(KvWriteGuardOut /\ PqGuardOut)

(* Nobody stands in a line for ever, behind pollers that sleep on the map  *)
(* and come back, cleaners that keep the queue while they stand in line    *)
(* for the map, or handlers that were dropped in line: every call and      *)
(* every sweep gets its turns, unless it meets that circular wait.         *)
EveryTurnComes ==
  \A x \in Callers \cup Cleaners :
    x \in Range(kvLine) \cup Range(pqLine)
      ~> (x \notin Range(kvLine) \cup Range(pqLine) \/ ~NoCircularWait)

(* A writer is alone: while a call is between its two locks no poller      *)
(* sleeps on the map and no other call is there, dropped handlers or not.  *)
(* Types are kept.                                                         *)
WriterAlone ==
  /\ LockTypeOK
  /\ \A p \in Deciding : \A q \in Callers \ {p} : task[q].pc \notin {"wantPq", "asleep"}

(* Dropped handlers cost placeholders, never responses: every cached       *)
(* response keeps its tag, so that it is removed in the end.               *)
ResponseKeepsTag ==
  \A k \in Keys :
    map[k].val \in Values /\ (\A p \in Deciding : task[p].key # k)
      => <<map[k].expire, k>> \in tags

(* When no call is between its two locks, every entry has its tag, even if *)
(* handlers are dropped in line for the map or asleep.  One dropped between *)
(* the locks breaks it: it leaves an entry no sweep will ever find.        *)
NoOrphanEntry ==
  Deciding = {} => \A k \in Keys : Stored(k) => <<map[k].expire, k>> \in tags

=============================================================================
