-------------------------- MODULE ProxyTokenProofs --------------------------
(***************************************************************************)
(* Proofs of the invariants of ProxyToken, for any agents, signers, tasks, *)
(* intervals and times a reply may take.                                   *)
(*                                                                         *)
(* That the key and the tokens are of the one who signs holds whatever     *)
(* signatures cost.  That no token ends before the next one comes needs    *)
(* EnoughGrace, the condition TokensLive names; it rests on DueInTime,     *)
(* which bounds what every task under way, the timers, and the signatures  *)
(* refused so far leave of the oldest token.                               *)
(***************************************************************************)
EXTENDS ProxyToken, FiniteSetTheorems, WellFoundedInduction, TLAPS

(* The names of a task's agents that have no token of the task yet.        *)
Unnamed(job) == {n \in NamesIn(job.list) : job.fresh[n] = NoToken}

(* All names signed one after the other, and as much again with the one    *)
(* signature that was under way, fit the grace.                            *)
AllSigned   == Cardinality(Names) * MaxSign
EnoughGrace == 2 * AllSigned + MaxSign <= Grace

(* ------------------------------- types --------------------------------- *)
Jobs == [pc    : {"idle", "key", "sign"},
         kind  : {"refresh", "startup", "admin"},
         list  : Lists \cup {<<>>},
         by    : Signers \cup {NoSigner},
         fresh : [Names -> Token],
         exp   : Nat,
         since : Nat]

(* A task that signs has a name left to sign.                              *)
SomeUnnamed == \A t \in Tasks : task[t].pc = "sign" => Unnamed(task[t]) # {}

Typed == TokenShape /\ SomeUnnamed

(* ------------------------------ identities ----------------------------- *)
(* No task outlives the signer it began with; what it has signed is the    *)
(* signer's, each token for its own name; and only the startup task awaits *)
(* a key.                                                                  *)
OfSigner ==
  \A t \in Tasks : Busy(t) =>
    /\ task[t].by = signer
    /\ \A n \in Names : task[t].fresh[n] # NoToken =>
         task[t].fresh[n].by = signer /\ task[t].fresh[n].name = n
    /\ task[t].pc = "key" => task[t].kind = "startup"

(* The key shown is the signer's, or it is still to be asked for, awaited  *)
(* or was refused.                                                         *)
KeyInTime ==
  \/ key = signer \/ starting \/ "key" \in refused
  \/ \E t \in Tasks : task[t].pc = "key"

(* The agents' tokens are the signer's, or the startup task is due or      *)
(* under way, or a signature was refused; and they are of their names.     *)
TokensInTime ==
  \/ starting \/ "sign" \in refused
  \/ \E t \in Tasks : Busy(t) /\ task[t].kind = "startup"
  \/ \A n \in NamesIn(agents) : token[n].by = signer

TokensNamed == \A n \in NamesIn(agents) : token[n].name = n

RefusalsNoted == missed > 0 => "sign" \in refused

Identities == /\ Typed /\ OfSigner /\ KeyInTime /\ TokensInTime
              /\ TokensNamed /\ RefusalsNoted

(* -------------------------------- times -------------------------------- *)
(* When a task under way is done at the latest.                            *)
Finish(job) == job.since + (IF job.pc = "key" THEN MaxSign + AllSigned
                            ELSE Cardinality(Unnamed(job)) * MaxSign)

BusyTasks == {t \in Tasks : Busy(t)}

(* The timer is due within an interval, and every reply comes in time.     *)
TimersInTime ==
  /\ now <= timer /\ timer <= now + interval
  /\ \A t \in Tasks : Busy(t) => now <= task[t].since + MaxSign

(* What a task has signed and is signing outlives the task by the interval *)
(* and the grace, less the time that all its signatures take.              *)
Outlives(e, job) == e + AllSigned >= Finish(job) + interval + Grace

FreshOutlive ==
  \A t \in Tasks : task[t].pc = "sign" =>
    /\ Outlives(task[t].exp, task[t])
    /\ \A n \in NamesIn(task[t].list) :
         task[t].fresh[n] # NoToken => Outlives(task[t].fresh[n].exp, task[t])

(* The signatures refused, as intervals, and those of the tasks F.         *)
Borrowed(F) == (missed + Cardinality(F)) * Longest

(* A token that ends at e, with the intervals that refusals have cost and  *)
(* would cost if all of F failed, lasts until another task is done, or     *)
(* until the next task of a timer is.                                      *)
LastsFor(e, F) ==
  \/ \E t \in BusyTasks \ F : e + Borrowed(F) >= Finish(task[t])
  \/ e + Borrowed(F) >= timer + AllSigned + MaxSign
  \/ starting /\ e + Borrowed(F) >= now + AllSigned + MaxSign

(* While the timer of init() or post_upgrade() is due, its task is one     *)
(* more that may fail before the interval timer's.                         *)
LastsBeyond(e, F) ==
  starting =>
    \/ \E t \in BusyTasks \ F : e + Borrowed(F) + Longest >= Finish(task[t])
    \/ e + Borrowed(F) + Longest >= timer + AllSigned + MaxSign

DueInTime ==
  \A n \in NamesIn(agents), F \in SUBSET BusyTasks :
    LastsFor(token[n].exp, F) /\ LastsBeyond(token[n].exp, F)

Times == Identities /\ TimersInTime /\ FreshOutlive /\ DueInTime

(* ------------------------------- lemmas -------------------------------- *)
(* Products of natural numbers are natural numbers, ordered as their       *)
(* factors are.                                                            *)
LEMMA Products ==
  ASSUME NEW a \in Nat, NEW b \in Nat, NEW o \in Nat
  PROVE  /\ a * o \in Nat
         /\ (a + 1) * o = a * o + o
         /\ a <= b => a * o <= b * o
<1>1. ASSUME NEW d \in Nat, b = a + d
      PROVE  a * o <= b * o
  <2>1. b * o = a * o + d * o
    BY <1>1
  <2>2. d * o >= 0
    OBVIOUS
  <2>3. QED
    BY <2>1, <2>2
<1>2. a * o \in Nat /\ (a + 1) * o = a * o + o
  OBVIOUS
<1>3. a <= b => b - a \in Nat /\ b = a + (b - a)
  OBVIOUS
<1>4. QED
  BY <1>1, <1>2, <1>3

(* A set of natural numbers that is not empty has a least one.             *)
LEMMA Least ==
  ASSUME NEW S \in SUBSET Nat, S # {}
  PROVE  \E i \in S : \A h \in S : i <= h
<1>1. \E i \in S : \A h \in S : ~(<<h, i>> \in OpToRel(<, Nat))
  BY NatLessThanWellFounded, WFMin
<1>2. ASSUME NEW i \in S, NEW h \in S, ~(<<h, i>> \in OpToRel(<, Nat))
      PROVE  i <= h
  BY <1>2 DEF OpToRel
<1>3. QED
  BY <1>1, <1>2

(* A list of agents, the one of a canister without any included, is a      *)
(* sequence of names.                                                      *)
LEMMA ListsAreOfNames ==
  ASSUME NEW l \in Lists \cup {<<>>}
  PROVE  /\ l \in Seq(Names) /\ NamesIn(l) \in SUBSET Names
         /\ l = <<>> <=> NamesIn(l) = {}
<1>1. l \in Seq(Names)
  <2>1. <<>> \in Seq(Names)
    OBVIOUS
  <2>2. QED
    BY <2>1, ListAssumption
<1>2. DOMAIN l = 1 .. Len(l) /\ \A i \in 1 .. Len(l) : l[i] \in Names
  BY <1>1
<1>3. NamesIn(l) \in SUBSET Names
  BY <1>2 DEF NamesIn
<1>4. l = <<>> <=> Len(l) = 0
  BY <1>1
<1>5. l = <<>> <=> NamesIn(l) = {}
  <2>1. ASSUME l = <<>>
        PROVE  NamesIn(l) = {}
    <3>1. DOMAIN l = {}
      BY <2>1
    <3>2. QED
      BY <3>1 DEF NamesIn
  <2>2. ASSUME l # <<>>
        PROVE  NamesIn(l) # {}
    <3>1. 1 \in DOMAIN l
      BY <1>1, <1>4, <2>2
    <3>2. QED
      BY <3>1 DEF NamesIn
  <2>3. QED
    BY <2>1, <2>2
<1>6. QED
  BY <1>1, <1>3, <1>5

(* The next name to sign is one without a token.                           *)
LEMMA NextIsUnnamed ==
  ASSUME NEW job \in Jobs
  PROVE  /\ Unsigned(job) = {} <=> Unnamed(job) = {}
         /\ Unnamed(job) # {} => NextName(job) \in Unnamed(job)
<1>1. job.list \in Lists \cup {<<>>}
  BY DEF Jobs
<1>2. job.list \in Seq(Names)
  BY <1>1, ListsAreOfNames
<1>3. DOMAIN job.list \in SUBSET Nat
  BY <1>2
<1>4. Unsigned(job) = {} <=> Unnamed(job) = {}
  BY DEF Unsigned, Unnamed, NamesIn
<1>5. Unsigned(job) \in SUBSET Nat
  BY <1>3 DEF Unsigned
<1>6. ASSUME Unnamed(job) # {}
      PROVE  NextName(job) \in Unnamed(job)
  <2>1. \E i \in Unsigned(job) : \A h \in Unsigned(job) : i <= h
    BY <1>4, <1>5, <1>6, Least
  <2>2. PICK i \in Unsigned(job) : NextName(job) = job.list[i]
    BY <2>1 DEF NextName
  <2>3. QED
    BY <2>2 DEF Unsigned, Unnamed, NamesIn
<1>7. QED
  BY <1>4, <1>6

(* The longest interval is one that is allowed.                            *)
LEMMA LongestIs ==
  /\ Longest \in Nat /\ Longest \in Allowed
  /\ \A i \in Allowed : i \in Nat /\ i <= Longest
<1>1. Allowed \in SUBSET Nat
  BY TokenAssumption DEF Allowed
<1>2. Longest \in Allowed /\ \A i \in Allowed : i <= Longest
  BY IntervalAssumption DEF Longest
<1>3. QED
  BY <1>1, <1>2

(* The numbers of names and of seconds that proofs calculate with.         *)
LEMMA Amounts ==
  /\ AllSigned \in Nat /\ MaxSign \in Nat /\ Grace \in Nat
  /\ \A S \in SUBSET Names :
       /\ IsFiniteSet(S) /\ Cardinality(S) \in Nat
       /\ Cardinality(S) * MaxSign \in Nat
       /\ Cardinality(S) * MaxSign <= AllSigned
<1>1. MaxSign \in Nat /\ Grace \in Nat
  BY TokenAssumption
<1>2. ASSUME NEW S \in SUBSET Names
      PROVE  /\ IsFiniteSet(S) /\ Cardinality(S) \in Nat
             /\ Cardinality(S) <= Cardinality(Names)
  BY ListAssumption, FS_Subset, FS_CardinalityType
<1>3. Cardinality(Names) \in Nat
  BY ListAssumption, FS_CardinalityType
<1>4. AllSigned \in Nat
  BY <1>1, <1>3, Products DEF AllSigned
<1>5. ASSUME NEW S \in SUBSET Names
      PROVE  /\ Cardinality(S) * MaxSign \in Nat
             /\ Cardinality(S) * MaxSign <= AllSigned
  BY <1>1, <1>2, <1>3, Products DEF AllSigned
<1>6. QED
  BY <1>1, <1>2, <1>4, <1>5

(* --------------------------- what tasks become ------------------------- *)
Kinds == {"refresh", "startup", "admin"}

(* A task that has asked for the first of its signatures.                  *)
FirstAsked(kind, list) ==
  [pc |-> "sign", kind |-> kind, list |-> list, by |-> signer,
   fresh |-> [n \in Names |-> NoToken], exp |-> Expiry, since |-> now]

(* A task that awaits the key.                                             *)
KeyAsked == [pc |-> "key", kind |-> "startup", list |-> <<>>, by |-> signer,
             fresh |-> [n \in Names |-> NoToken], exp |-> 0, since |-> now]

(* What a task has signed once the signature under way has arrived.        *)
Arrived(job) ==
  [job.fresh EXCEPT ![NextName(job)] =
     [exp |-> job.exp, by |-> job.by, name |-> NextName(job)]]

(* A task that has asked for another signature.                            *)
NextAsked(job) ==
  [pc |-> "sign", kind |-> job.kind, list |-> job.list, by |-> job.by,
   fresh |-> Arrived(job), exp |-> Expiry, since |-> now]

(* The tasks put in the place of another are tasks, and a new one has all  *)
(* of its names to sign.                                                   *)
LEMMA NewJobs ==
  ASSUME TokenShape, NEW kind \in Kinds, NEW list \in Lists \cup {<<>>}
  PROVE  /\ IdleTask \in Jobs /\ KeyAsked \in Jobs
         /\ FirstAsked(kind, list) \in Jobs
         /\ Unnamed(FirstAsked(kind, list)) = NamesIn(list)
         /\ Expiry \in Nat
<1>1. NoToken \in Token
  BY DEF NoToken, Token
<1>2. [n \in Names |-> NoToken] \in [Names -> Token]
  BY <1>1
<1>3. Expiry \in Nat
  BY LongestIs, Amounts DEF Expiry, TokenShape
<1>4. IdleTask \in Jobs
  BY <1>2 DEF IdleTask, Jobs
<1>5. now \in Nat /\ signer \in Signers
  BY DEF TokenShape
<1>6. KeyAsked \in Jobs
  BY <1>2, <1>5 DEF KeyAsked, Jobs
<1>7. FirstAsked(kind, list) \in Jobs
  BY <1>2, <1>3, <1>5 DEF FirstAsked, Jobs, Kinds
<1>8. Unnamed(FirstAsked(kind, list)) = NamesIn(list)
  <2>1. \A n \in NamesIn(list) : FirstAsked(kind, list).fresh[n] = NoToken
    BY ListsAreOfNames DEF FirstAsked
  <2>2. FirstAsked(kind, list).list = list
    BY DEF FirstAsked
  <2>3. QED
    BY <2>1, <2>2 DEF Unnamed
<1>9. QED
  BY <1>3, <1>4, <1>6, <1>7, <1>8

(* What the record updates of the model's actions come to.                 *)
LEMMA Asks ==
  ASSUME NEW job \in Jobs, NEW e \in Nat, NEW s \in Nat
  PROVE  [job EXCEPT !.pc = "sign", !.exp = e, !.since = s]
           = [pc |-> "sign", kind |-> job.kind, list |-> job.list,
              by |-> job.by, fresh |-> job.fresh, exp |-> e, since |-> s]
<1> DEFINE k == [job EXCEPT !.pc = "sign", !.exp = e, !.since = s]
           r == [pc |-> "sign", kind |-> job.kind, list |-> job.list,
                 by |-> job.by, fresh |-> job.fresh, exp |-> e, since |-> s]
<1>1. /\ k \in Jobs /\ k.pc = "sign" /\ k.kind = job.kind /\ k.list = job.list
      /\ k.by = job.by /\ k.fresh = job.fresh /\ k.exp = e /\ k.since = s
  BY DEF Jobs
<1>2. /\ r.pc = "sign" /\ r.kind = job.kind /\ r.list = job.list
      /\ r.by = job.by /\ r.fresh = job.fresh /\ r.exp = e /\ r.since = s
  OBVIOUS
<1>3. r \in Jobs
  BY DEF Jobs
<1>4. \A x, y \in Jobs :
        /\ x.pc = y.pc /\ x.kind = y.kind /\ x.list = y.list /\ x.by = y.by
        /\ x.fresh = y.fresh /\ x.exp = y.exp /\ x.since = y.since
        => x = y
  BY DEF Jobs
<1>5. QED
  BY <1>1, <1>2, <1>3, <1>4

LEMMA JobIs ==
  ASSUME TokenShape, NEW kind \in Kinds, NEW list \in Lists \cup {<<>>}
  PROVE  /\ Job(kind, list) \in Jobs
         /\ Job(kind, list) =
              [pc |-> "idle", kind |-> kind, list |-> list, by |-> signer,
               fresh |-> [n \in Names |-> NoToken], exp |-> 0, since |-> 0]
<1> DEFINE k == Job(kind, list)
           r == [pc |-> "idle", kind |-> kind, list |-> list, by |-> signer,
                 fresh |-> [n \in Names |-> NoToken], exp |-> 0, since |-> 0]
<1>1. /\ IdleTask \in Jobs
      /\ IdleTask.pc = "idle" /\ IdleTask.exp = 0 /\ IdleTask.since = 0
      /\ IdleTask.fresh = [n \in Names |-> NoToken]
  BY NewJobs DEF IdleTask
<1>2. signer \in Signers /\ kind \in {"refresh", "startup", "admin"}
  BY DEF TokenShape, Kinds
<1>3. /\ k \in Jobs /\ k.pc = "idle" /\ k.kind = kind /\ k.list = list
      /\ k.by = signer /\ k.fresh = IdleTask.fresh /\ k.exp = 0 /\ k.since = 0
  BY <1>1, <1>2 DEF Job, Jobs
<1>4. [n \in Names |-> NoToken] \in [Names -> Token]
  BY DEF NoToken, Token
<1>5. r \in Jobs
  BY <1>2, <1>4 DEF Jobs
<1>6. \A x, y \in Jobs :
        /\ x.pc = y.pc /\ x.kind = y.kind /\ x.list = y.list /\ x.by = y.by
        /\ x.fresh = y.fresh /\ x.exp = y.exp /\ x.since = y.since
        => x = y
  BY DEF Jobs
<1>7. QED
  BY <1>1, <1>3, <1>5, <1>6

(* A task that begins with agents asks for the first signature; without    *)
(* any it is over.                                                         *)
LEMMA Begins ==
  ASSUME TokenShape, NEW t \in Tasks, NEW kind \in Kinds,
         NEW list \in Lists \cup {<<>>}, Begin(t, kind, list)
  PROVE  /\ UNCHANGED <<agents, token, missed, refused>>
         /\ task' = [task EXCEPT ![t] = IF list = <<>> THEN IdleTask
                                        ELSE FirstAsked(kind, list)]
<1>1. CASE list = <<>>
  BY <1>1 DEF Begin
<1>2. CASE list # <<>>
  <2> DEFINE j == Job(kind, list)
  <2>1. j \in Jobs /\
        j = [pc |-> "idle", kind |-> kind, list |-> list, by |-> signer,
             fresh |-> [n \in Names |-> NoToken], exp |-> 0, since |-> 0]
    BY JobIs
  <2>2. Unsigned(j) # {}
    <3>1. \A i \in DOMAIN list : list[i] \in Names
      BY ListsAreOfNames DEF NamesIn
    <3>2. NamesIn(list) # {}
      BY <1>2, ListsAreOfNames
    <3>3. PICK i \in DOMAIN list : TRUE
      BY <3>2 DEF NamesIn
    <3>4. j.list = list /\ j.fresh = [n \in Names |-> NoToken]
      BY <2>1
    <3>5. QED
      BY <3>1, <3>3, <3>4 DEF Unsigned
  <2>3. [j EXCEPT !.pc = "sign", !.exp = Expiry, !.since = now]
          = FirstAsked(kind, list)
    <3>1. Expiry \in Nat /\ now \in Nat
      BY NewJobs DEF TokenShape
    <3>2. /\ j.kind = kind /\ j.list = list /\ j.by = signer
          /\ j.fresh = [n \in Names |-> NoToken]
      BY <2>1
    <3>3. j \in Jobs
      BY JobIs
    <3> HIDE DEF j
    <3>4. [j EXCEPT !.pc = "sign", !.exp = Expiry, !.since = now]
            = [pc |-> "sign", kind |-> j.kind, list |-> j.list, by |-> j.by,
               fresh |-> j.fresh, exp |-> Expiry, since |-> now]
      BY <3>1, <3>3, Asks
    <3>5. QED
      BY <3>2, <3>4 DEF FirstAsked
  <2>4. Proceed(t, j)
    BY <1>2 DEF Begin
  <2>5. QED
    BY <1>2, <2>2, <2>3, <2>4 DEF Proceed
<1>3. QED
  BY <1>1, <1>2

(* A signature that arrives gives one more name its token; then the copy   *)
(* is put in the place of the agents, or the next signature is asked for.  *)
LEMMA SignatureArrives ==
  ASSUME Typed, OfSigner, NEW t \in Tasks, Signed(t)
  PROVE  /\ task[t] \in Jobs /\ task[t].pc = "sign"
         /\ NextName(task[t]) \in Unnamed(task[t])
         /\ NextAsked(task[t]) \in Jobs
         /\ Unnamed(NextAsked(task[t])) =
              Unnamed(task[t]) \ {NextName(task[t])}
         /\ UNCHANGED <<now, signer, key, interval, timer, starting>>
         /\ \/ /\ Unnamed(NextAsked(task[t])) = {}
               /\ agents' = task[t].list
               /\ token' = [n \in Names |-> IF n \in NamesIn(task[t].list)
                                            THEN Arrived(task[t])[n] ELSE token[n]]
               /\ task' = [task EXCEPT ![t] = IdleTask]
               /\ missed' = 0 /\ refused' = refused \ {"sign"}
            \/ /\ Unnamed(NextAsked(task[t])) # {}
               /\ task' = [task EXCEPT ![t] = NextAsked(task[t])]
               /\ UNCHANGED <<agents, token, missed, refused>>
<1> DEFINE job == task[t]
           m == NextName(job)
           next == [job EXCEPT !.fresh[m] =
                      [exp |-> job.exp, by |-> job.by, name |-> m]]
<1>1. job \in Jobs /\ job.pc = "sign"
  BY DEF Typed, TokenShape, Jobs, Signed
<1>2. m \in Unnamed(job)
  BY <1>1, NextIsUnnamed DEF Typed, SomeUnnamed
<1>3. job.list \in Lists \cup {<<>>} /\ NamesIn(job.list) \in SUBSET Names
  BY <1>1, ListsAreOfNames DEF Jobs
<1>4. m \in Names
  BY <1>2, <1>3 DEF Unnamed
<1>5. /\ job.fresh \in [Names -> Token] /\ job.exp \in Nat /\ job.kind \in Kinds
      /\ job.by \in Signers \cup {NoSigner}
  BY <1>1 DEF Jobs, Kinds
<1>6. [exp |-> job.exp, by |-> job.by, name |-> m] \in Token
  BY <1>4, <1>5 DEF Token
<1>7. Arrived(job) \in [Names -> Token]
  BY <1>4, <1>5, <1>6 DEF Arrived
<1>8. Expiry \in Nat /\ now \in Nat
  BY LongestIs, Amounts DEF Expiry, Typed, TokenShape
<1>9. NextAsked(job) \in Jobs
  BY <1>3, <1>5, <1>7, <1>8 DEF NextAsked, Jobs, Kinds
<1>10. next = [pc |-> "sign", kind |-> job.kind, list |-> job.list,
               by |-> job.by, fresh |-> Arrived(job), exp |-> job.exp,
               since |-> job.since]
  BY <1>1 DEF Arrived, Jobs
<1>11. next \in Jobs /\ Unnamed(next) = Unnamed(NextAsked(job))
  BY <1>1, <1>3, <1>5, <1>7, <1>10 DEF NextAsked, Jobs, Unnamed
<1>12. Unnamed(NextAsked(job)) = Unnamed(job) \ {m}
  <2>1. \A n \in Names : Arrived(job)[n] =
          IF n = m THEN [exp |-> job.exp, by |-> job.by, name |-> m]
                   ELSE job.fresh[n]
    BY <1>4, <1>5 DEF Arrived
  <2>2. [exp |-> job.exp, by |-> job.by, name |-> m] # NoToken
    <3>1. job.by \in Signers
      BY <1>1 DEF OfSigner, Busy, Typed, TokenShape
    <3>2. [exp |-> job.exp, by |-> job.by, name |-> m].by # NoToken.by
      BY <3>1, TokenAssumption DEF NoToken
    <3>3. QED
      BY <3>2
  <2>3. NextAsked(job).list = job.list /\ NextAsked(job).fresh = Arrived(job)
    BY DEF NextAsked
  <2>4. QED
    BY <1>2, <1>3, <1>4, <2>1, <2>2, <2>3 DEF Unnamed
<1>13. Proceed(t, next) /\ UNCHANGED <<now, signer, key, interval, timer, starting>>
  BY DEF Signed
<1>14. Unsigned(next) = {} <=> Unnamed(NextAsked(job)) = {}
  BY <1>11, NextIsUnnamed
<1>15. CASE Unsigned(next) = {}
  <2>1. Install(t, next)
    BY <1>13, <1>15 DEF Proceed
  <2>2. next.list = job.list /\ next.fresh = Arrived(job)
    BY <1>10
  <2>3. /\ agents' = next.list
        /\ token' = [n \in Names |-> IF n \in NamesIn(next.list)
                                     THEN next.fresh[n] ELSE token[n]]
        /\ task' = [task EXCEPT ![t] = IdleTask]
        /\ missed' = 0 /\ refused' = refused \ {"sign"}
    BY <2>1 DEF Install
  <2> HIDE DEF next
  <2>4. QED
    BY <1>1, <1>2, <1>9, <1>12, <1>13, <1>14, <1>15, <2>2, <2>3
<1>16. CASE Unsigned(next) # {}
  <2>1. /\ task' = [task EXCEPT ![t] = [next EXCEPT !.pc = "sign",
                                          !.exp = Expiry, !.since = now]]
        /\ UNCHANGED <<agents, token, missed, refused>>
    BY <1>13, <1>16 DEF Proceed
  <2>2. [next EXCEPT !.pc = "sign", !.exp = Expiry, !.since = now] = NextAsked(job)
    <3>1. /\ next.kind = job.kind /\ next.list = job.list /\ next.by = job.by
          /\ next.fresh = Arrived(job)
      BY <1>10
    <3>2. next \in Jobs
      BY <1>11
    <3> HIDE DEF next
    <3>3. [next EXCEPT !.pc = "sign", !.exp = Expiry, !.since = now]
            = [pc |-> "sign", kind |-> next.kind, list |-> next.list,
               by |-> next.by, fresh |-> next.fresh, exp |-> Expiry, since |-> now]
      BY <1>8, <3>2, Asks
    <3>4. QED
      BY <3>1, <3>3 DEF NextAsked
  <2>3. QED
    BY <1>1, <1>2, <1>9, <1>12, <1>13, <1>14, <1>16, <2>1, <2>2
<1>17. QED
  BY <1>15, <1>16

(* The task of the zero-second timer asks for the key; and it goes on with *)
(* the agents of the moment the key is refused.                            *)
LEMMA KeySteps ==
  ASSUME TokenShape, NEW t \in Tasks
  PROVE  /\ StartupFires(t) => task' = [task EXCEPT ![t] = KeyAsked]
         /\ KeyFails(t) => task' = [task EXCEPT ![t] =
              IF agents = <<>> THEN IdleTask ELSE FirstAsked("startup", agents)]
<1>1. /\ <<>> \in Lists \cup {<<>>} /\ agents \in Lists \cup {<<>>}
      /\ "startup" \in Kinds /\ now \in Nat /\ signer \in Signers
  BY DEF TokenShape, Kinds
<1>2. [Job("startup", <<>>) EXCEPT !.pc = "key", !.since = now] = KeyAsked
  <2> DEFINE j == Job("startup", <<>>)
             k == [j EXCEPT !.pc = "key", !.since = now]
  <2>1. /\ j \in Jobs
        /\ j = [pc |-> "idle", kind |-> "startup", list |-> <<>>, by |-> signer,
                fresh |-> [n \in Names |-> NoToken], exp |-> 0, since |-> 0]
    BY <1>1, JobIs
  <2>2. /\ j.kind = "startup" /\ j.list = <<>> /\ j.by = signer /\ j.exp = 0
        /\ j.fresh = [n \in Names |-> NoToken]
    BY <2>1
  <2>3. j \in Jobs
    BY <2>1
  <2> HIDE DEF j
  <2>4. /\ k \in Jobs /\ k.pc = "key" /\ k.kind = j.kind /\ k.list = j.list
        /\ k.by = j.by /\ k.fresh = j.fresh /\ k.exp = j.exp /\ k.since = now
    BY <1>1, <2>3 DEF Jobs
  <2> HIDE DEF k
  <2>5. KeyAsked \in Jobs
    BY <1>1, NewJobs
  <2>6. /\ KeyAsked.pc = "key" /\ KeyAsked.kind = "startup" /\ KeyAsked.list = <<>>
        /\ KeyAsked.by = signer /\ KeyAsked.fresh = [n \in Names |-> NoToken]
        /\ KeyAsked.exp = 0 /\ KeyAsked.since = now
    BY DEF KeyAsked
  <2>7. \A x, y \in Jobs :
          /\ x.pc = y.pc /\ x.kind = y.kind /\ x.list = y.list /\ x.by = y.by
          /\ x.fresh = y.fresh /\ x.exp = y.exp /\ x.since = y.since
          => x = y
    BY DEF Jobs
  <2>8. k = KeyAsked
    BY <2>2, <2>4, <2>5, <2>6, <2>7
  <2>9. QED
    BY <2>8 DEF j, k
<1>3. [Job("startup", agents) EXCEPT !.pc = "sign", !.exp = Expiry, !.since = now]
        = FirstAsked("startup", agents)
  <2> DEFINE j == Job("startup", agents)
  <2>1. /\ j \in Jobs
        /\ j = [pc |-> "idle", kind |-> "startup", list |-> agents, by |-> signer,
                fresh |-> [n \in Names |-> NoToken], exp |-> 0, since |-> 0]
    BY <1>1, JobIs
  <2>2. /\ j.kind = "startup" /\ j.list = agents /\ j.by = signer
        /\ j.fresh = [n \in Names |-> NoToken]
    BY <2>1
  <2>3. j \in Jobs /\ Expiry \in Nat
    BY <1>1, <2>1, NewJobs
  <2> HIDE DEF j
  <2>4. [j EXCEPT !.pc = "sign", !.exp = Expiry, !.since = now]
          = [pc |-> "sign", kind |-> j.kind, list |-> j.list, by |-> j.by,
             fresh |-> j.fresh, exp |-> Expiry, since |-> now]
    BY <1>1, <2>3, Asks
  <2>5. QED
    BY <2>2, <2>4 DEF FirstAsked, j
<1>4. QED
  BY <1>2, <1>3 DEF StartupFires, KeyFails

(* A new task, or none in its place, is as a task has to be.               *)
LEMMA NewTaskKeeps ==
  ASSUME Identities, NEW t \in Tasks, NEW job,
         \/ job = IdleTask \/ job = KeyAsked
         \/ \E kind \in Kinds, list \in Lists \cup {<<>>} :
              list # <<>> /\ job = FirstAsked(kind, list),
         task' = [task EXCEPT ![t] = job], signer' = signer
  PROVE  /\ task' \in [Tasks -> Jobs]
         /\ SomeUnnamed' /\ OfSigner'
         /\ task'[t] = job /\ \A u \in Tasks \ {t} : task'[u] = task[u]
<1>1. task \in [Tasks -> Jobs]
  BY DEF Identities, Typed, TokenShape, Jobs
<1>2. job \in Jobs
  BY NewJobs DEF Identities, Typed, Kinds
<1>3. /\ task' \in [Tasks -> Jobs] /\ task'[t] = job
      /\ \A u \in Tasks \ {t} : task'[u] = task[u]
  BY <1>1, <1>2
<1>4. job.pc = "sign" => Unnamed(job) # {}
  <2>1. IdleTask.pc = "idle" /\ KeyAsked.pc = "key"
    BY DEF IdleTask, KeyAsked
  <2>2. ASSUME NEW kind \in Kinds, NEW list \in Lists \cup {<<>>}, list # <<>>
        PROVE  Unnamed(FirstAsked(kind, list)) # {}
    BY <2>2, NewJobs, ListsAreOfNames DEF Identities, Typed
  <2>3. QED
    BY <2>1, <2>2
<1>5. SomeUnnamed'
  BY <1>3, <1>4 DEF Identities, Typed, SomeUnnamed, Unnamed
<1>6. job.pc # "idle" =>
        /\ job.by = signer /\ \A n \in Names : job.fresh[n] = NoToken
        /\ job.pc = "key" => job.kind = "startup"
  BY DEF IdleTask, KeyAsked, FirstAsked
<1>7. OfSigner'
  BY <1>3, <1>6 DEF Identities, OfSigner, Busy
<1>8. QED
  BY <1>3, <1>5, <1>7

(* -------------------- keys and tokens are the signer's ------------------ *)
(* Every step that begins a task, and every one that ends a startup task   *)
(* of a canister without agents, keeps them so.                            *)
LEMMA TimerKeeps ==
  ASSUME Identities, NEW t \in Tasks, TimerFires(t)
  PROVE  Identities'
<1> DEFINE job == IF agents = <<>> THEN IdleTask ELSE FirstAsked("refresh", agents)
<1>1. /\ agents \in Lists \cup {<<>>} /\ "refresh" \in Kinds
      /\ timer \in Nat /\ interval \in Nat
  BY LongestIs DEF Identities, Typed, TokenShape, Kinds
<1>2. /\ task' = [task EXCEPT ![t] = job]
      /\ UNCHANGED <<agents, token, missed, refused>>
  BY <1>1, Begins DEF TimerFires, Identities, Typed
<1>3. /\ task[t].pc = "idle" /\ timer' = timer + interval
      /\ UNCHANGED <<now, signer, key, interval, starting>>
  BY DEF TimerFires, Busy
<1>4. /\ task' \in [Tasks -> Jobs]
      /\ SomeUnnamed' /\ OfSigner'
      /\ task'[t] = job /\ \A u \in Tasks \ {t} : task'[u] = task[u]
  BY <1>1, <1>2, <1>3, NewTaskKeeps
<1>5. Typed'
  BY <1>1, <1>2, <1>3, <1>4 DEF Identities, Typed, TokenShape, Jobs
<1>6. KeyInTime'
  BY <1>2, <1>3, <1>4 DEF Identities, KeyInTime
<1>7. TokensInTime'
  BY <1>2, <1>3, <1>4 DEF Identities, TokensInTime, Busy
<1>8. QED
  BY <1>2, <1>3, <1>4, <1>5, <1>6, <1>7
  DEF Identities, TokensNamed, RefusalsNoted

LEMMA AdminKeeps ==
  ASSUME Identities, NEW t \in Tasks, AdminSetAgents(t)
  PROVE  Identities'
<1>1. PICK list \in Lists : list # <<>> /\ Begin(t, "admin", list)
  BY DEF AdminSetAgents
<1> DEFINE job == FirstAsked("admin", list)
<1>2. "admin" \in Kinds
  BY DEF Kinds
<1>3. /\ task' = [task EXCEPT ![t] = job]
      /\ UNCHANGED <<agents, token, missed, refused>>
  BY <1>1, <1>2, Begins DEF Identities, Typed
<1>4. /\ task[t].pc = "idle"
      /\ UNCHANGED <<now, signer, key, interval, timer, starting>>
  BY DEF AdminSetAgents, Busy
<1>5. /\ task' \in [Tasks -> Jobs]
      /\ SomeUnnamed' /\ OfSigner'
      /\ task'[t] = job /\ \A u \in Tasks \ {t} : task'[u] = task[u]
  BY <1>1, <1>2, <1>3, <1>4, NewTaskKeeps
<1>6. Typed'
  BY <1>3, <1>4, <1>5 DEF Identities, Typed, TokenShape, Jobs
<1>7. KeyInTime'
  BY <1>3, <1>4, <1>5 DEF Identities, KeyInTime
<1>8. TokensInTime'
  BY <1>3, <1>4, <1>5 DEF Identities, TokensInTime, Busy
<1>9. QED
  BY <1>3, <1>4, <1>5, <1>6, <1>7, <1>8
  DEF Identities, TokensNamed, RefusalsNoted

LEMMA StartupKeeps ==
  ASSUME Identities, NEW t \in Tasks, StartupFires(t)
  PROVE  Identities'
<1>1. task' = [task EXCEPT ![t] = KeyAsked]
  BY KeySteps DEF Identities, Typed
<1>2. /\ starting' = FALSE
      /\ UNCHANGED <<now, agents, token, signer, key, interval, timer, missed,
                     refused>>
  BY DEF StartupFires
<1>3. /\ task' \in [Tasks -> Jobs]
      /\ SomeUnnamed' /\ OfSigner'
      /\ task'[t] = KeyAsked
  BY <1>1, <1>2, NewTaskKeeps
<1>4. KeyAsked.pc = "key" /\ KeyAsked.kind = "startup"
  BY DEF KeyAsked
<1>5. Typed'
  BY <1>2, <1>3 DEF Identities, Typed, TokenShape, Jobs
<1>6. KeyInTime' /\ TokensInTime'
  BY <1>3, <1>4 DEF KeyInTime, TokensInTime, Busy
<1>7. QED
  BY <1>2, <1>3, <1>5, <1>6 DEF Identities, TokensNamed, RefusalsNoted

(* The startup task goes on, key or no key: only without agents it ends.   *)
LEMMA StartupGoesOn ==
  ASSUME Identities, NEW t \in Tasks, KeyArrives(t) \/ KeyFails(t)
  PROVE  /\ task[t].pc = "key" /\ task[t].by = signer
         /\ task' = [task EXCEPT ![t] = IF agents = <<>> THEN IdleTask
                                        ELSE FirstAsked("startup", agents)]
         /\ UNCHANGED <<now, agents, token, signer, interval, timer, starting,
                        missed>>
         /\ \/ key' = signer /\ refused' = refused
            \/ key' = key /\ refused' = refused \cup {"key"}
<1>1. agents \in Lists \cup {<<>>} /\ "startup" \in Kinds
  BY DEF Identities, Typed, TokenShape, Kinds
<1>2. task[t].pc = "key" /\ task[t].by = signer
  BY DEF KeyArrives, KeyFails, Identities, OfSigner, Busy
<1>3. CASE KeyArrives(t)
  BY <1>1, <1>2, <1>3, Begins DEF KeyArrives, Identities, Typed
<1>4. CASE KeyFails(t)
  BY <1>2, <1>4, KeySteps DEF KeyFails, Identities, Typed
<1>5. QED
  BY <1>3, <1>4

LEMMA KeyReplyKeeps ==
  ASSUME Identities, NEW t \in Tasks, KeyArrives(t) \/ KeyFails(t)
  PROVE  Identities'
<1> DEFINE job == IF agents = <<>> THEN IdleTask ELSE FirstAsked("startup", agents)
<1>1. /\ task[t].pc = "key"
      /\ task' = [task EXCEPT ![t] = job]
      /\ UNCHANGED <<now, agents, token, signer, interval, timer, starting, missed>>
      /\ \/ key' = signer /\ refused' = refused
         \/ key' = key /\ refused' = refused \cup {"key"}
  BY StartupGoesOn
<1>2. agents \in Lists \cup {<<>>} /\ "startup" \in Kinds /\ signer \in Signers
  BY DEF Identities, Typed, TokenShape, Kinds
<1>3. /\ task' \in [Tasks -> Jobs]
      /\ SomeUnnamed' /\ OfSigner'
      /\ task'[t] = job /\ \A u \in Tasks \ {t} : task'[u] = task[u]
  BY <1>1, <1>2, NewTaskKeeps
<1>4. Typed'
  BY <1>1, <1>2, <1>3 DEF Identities, Typed, TokenShape, Jobs
<1>5. KeyInTime'
  BY <1>1 DEF KeyInTime
<1>6. TokensInTime'
  <2>1. CASE agents = <<>>
    <3>1. NamesIn(agents') = {}
      BY <1>1, <1>2, <2>1, ListsAreOfNames
    <3>2. QED
      BY <3>1 DEF TokensInTime
  <2>2. CASE agents # <<>>
    <3>1. job.pc = "sign" /\ job.kind = "startup"
      BY <2>2 DEF FirstAsked
    <3>2. QED
      BY <1>3, <3>1 DEF TokensInTime, Busy
  <2>3. QED
    BY <2>1, <2>2
<1>7. QED
  BY <1>1, <1>3, <1>4, <1>5, <1>6 DEF Identities, TokensNamed, RefusalsNoted

(* A signature that arrives: what the task has signed is the signer's, and *)
(* so are the agents once it is their turn.                                *)
LEMMA SignedKeeps ==
  ASSUME Identities, NEW t \in Tasks, Signed(t)
  PROVE  Identities'
<1> DEFINE job  == task[t]
           m    == NextName(task[t])
           next == NextAsked(task[t])
<1>1. /\ job \in Jobs /\ job.pc = "sign" /\ m \in Unnamed(job) /\ next \in Jobs
      /\ Unnamed(next) = Unnamed(job) \ {m}
      /\ UNCHANGED <<now, signer, key, interval, timer, starting>>
      /\ \/ /\ Unnamed(next) = {}
            /\ agents' = job.list
            /\ token' = [n \in Names |-> IF n \in NamesIn(job.list)
                                         THEN Arrived(job)[n] ELSE token[n]]
            /\ task' = [task EXCEPT ![t] = IdleTask]
            /\ missed' = 0 /\ refused' = refused \ {"sign"}
         \/ /\ Unnamed(next) # {}
            /\ task' = [task EXCEPT ![t] = next]
            /\ UNCHANGED <<agents, token, missed, refused>>
  BY SignatureArrives DEF Identities
<1>2. /\ TokenShape /\ OfSigner /\ SomeUnnamed /\ task \in [Tasks -> Jobs]
  BY DEF Identities, Typed, TokenShape, Jobs
<1>3. job.list \in Lists \cup {<<>>} /\ NamesIn(job.list) \in SUBSET Names
  BY <1>1, ListsAreOfNames DEF Jobs
<1>4. m \in Names
  BY <1>1, <1>3 DEF Unnamed
<1>5. /\ next.pc = "sign" /\ next.kind = job.kind /\ next.list = job.list
      /\ next.by = job.by /\ next.fresh = Arrived(job)
  BY DEF NextAsked
<1>6. job.by = signer /\ \A n \in Names : job.fresh[n] # NoToken =>
        job.fresh[n].by = signer /\ job.fresh[n].name = n
  BY <1>1, <1>2 DEF OfSigner, Busy
<1>7. /\ Arrived(job) \in [Names -> Token]
      /\ \A n \in Names : Arrived(job)[n] # NoToken =>
           Arrived(job)[n].by = signer /\ Arrived(job)[n].name = n
  <2>1. Arrived(job) \in [Names -> Token]
    BY <1>1, <1>5 DEF Jobs
  <2>2. \A n \in Names : Arrived(job)[n] =
          IF n = m THEN [exp |-> job.exp, by |-> job.by, name |-> m]
                   ELSE job.fresh[n]
    BY <1>1, <1>4 DEF Arrived, Jobs
  <2>3. QED
    BY <1>6, <2>1, <2>2
<1> HIDE DEF job, m, next
<1>8. CASE Unnamed(next) = {}
  <2>1. /\ agents' = job.list
        /\ token' = [n \in Names |-> IF n \in NamesIn(job.list)
                                     THEN Arrived(job)[n] ELSE token[n]]
        /\ task' = [task EXCEPT ![t] = IdleTask]
        /\ missed' = 0 /\ refused' = refused \ {"sign"}
    BY <1>1, <1>8
  <2>2. /\ task' \in [Tasks -> Jobs]
        /\ SomeUnnamed' /\ OfSigner'
        /\ task'[t] = IdleTask /\ \A u \in Tasks \ {t} : task'[u] = task[u]
    BY <1>1, <2>1, NewTaskKeeps
  <2>3. token' \in [Names -> Token]
    BY <1>2, <1>7, <2>1 DEF TokenShape
  <2>4. Typed'
    BY <1>1, <1>2, <1>3, <2>1, <2>2, <2>3, TokenAssumption DEF Typed, TokenShape, Jobs
  <2>5. \A n \in NamesIn(job.list) : Arrived(job)[n] # NoToken
    BY <1>5, <1>8 DEF Unnamed
  <2>6. \A n \in NamesIn(agents') : token'[n].by = signer' /\ token'[n].name = n
    BY <1>1, <1>3, <1>7, <2>1, <2>5
  <2>7. KeyInTime'
    <3>1. \A u \in Tasks : task[u].pc = "key" => task'[u].pc = "key"
      BY <1>1, <2>2 DEF job
    <3>2. QED
      BY <1>1, <2>1, <3>1 DEF Identities, KeyInTime
  <2>8. QED
    BY <2>1, <2>2, <2>4, <2>6, <2>7
    DEF Identities, TokensInTime, TokensNamed, RefusalsNoted
<1>9. CASE Unnamed(next) # {}
  <2>1. /\ task' = [task EXCEPT ![t] = next]
        /\ UNCHANGED <<agents, token, missed, refused>>
    BY <1>1, <1>9
  <2>2. /\ task' \in [Tasks -> Jobs] /\ task'[t] = next
        /\ \A u \in Tasks \ {t} : task'[u] = task[u]
    BY <1>1, <1>2, <2>1
  <2>3. Typed'
    <3>1. TokenShape'
      BY <1>1, <1>2, <2>1, <2>2 DEF TokenShape, Jobs
    <3>2. SomeUnnamed'
      BY <1>2, <1>9, <2>2 DEF SomeUnnamed, Unnamed
    <3>3. QED
      BY <3>1, <3>2 DEF Typed
  <2>4. OfSigner'
    BY <1>1, <1>2, <1>5, <1>6, <1>7, <2>2 DEF OfSigner, Busy
  <2>5. KeyInTime'
    <3>1. \A u \in Tasks : task[u].pc = "key" => task'[u].pc = "key"
      BY <1>1, <2>2 DEF job
    <3>2. QED
      BY <1>1, <2>1, <3>1 DEF Identities, KeyInTime
  <2>6. TokensInTime'
    <3>1. \A u \in Tasks : Busy(u) /\ task[u].kind = "startup"
                             => task'[u].pc # "idle" /\ task'[u].kind = "startup"
      BY <1>5, <2>2 DEF job, Busy
    <3>2. QED
      BY <1>1, <2>1, <3>1 DEF Identities, TokensInTime, Busy
  <2>7. QED
    BY <2>1, <2>3, <2>4, <2>5, <2>6 DEF Identities, TokensNamed, RefusalsNoted
<1>10. QED
  BY <1>8, <1>9

LEMMA RefusalKeeps ==
  ASSUME Identities, NEW t \in Tasks, SignFails(t)
  PROVE  Identities'
<1>1. /\ task[t].pc = "sign" /\ missed < MaxRefused
      /\ task' = [task EXCEPT ![t] = IdleTask]
      /\ missed' = missed + 1 /\ refused' = refused \cup {"sign"}
      /\ UNCHANGED <<now, agents, token, signer, key, interval, timer, starting>>
  BY DEF SignFails
<1>2. /\ task' \in [Tasks -> Jobs]
      /\ SomeUnnamed' /\ OfSigner'
      /\ task'[t] = IdleTask /\ \A u \in Tasks \ {t} : task'[u] = task[u]
  BY <1>1, NewTaskKeeps
<1>3. Typed'
  BY <1>1, <1>2, TokenAssumption DEF Identities, Typed, TokenShape, Jobs
<1>4. KeyInTime'
  BY <1>1, <1>2 DEF Identities, KeyInTime
<1>5. QED
  BY <1>1, <1>2, <1>3, <1>4
  DEF Identities, TokensInTime, TokensNamed, RefusalsNoted

(* An upgrade waits for the tasks, so that none is of the signer before;   *)
(* and it asks for key and tokens anew.                                    *)
LEMMA UpgradeKeeps ==
  ASSUME Identities, Upgrade
  PROVE  Identities'
<1>1. /\ \A t \in Tasks : ~Busy(t)
      /\ signer' \in Signers
      /\ interval' \in {interval} \cup {i \in Intervals : Valid(i)}
      /\ timer' = now + interval' /\ starting' = TRUE
      /\ refused' = refused \ {"key"}
      /\ UNCHANGED <<now, agents, token, key, task, missed>>
  BY DEF Upgrade
<1>2. interval' \in Allowed
  BY <1>1 DEF Identities, Typed, TokenShape, Allowed
<1>3. Typed'
  <2>1. timer' \in Nat
    <3>1. now \in Nat /\ interval' \in Nat
      BY <1>2, LongestIs DEF Identities, Typed, TokenShape
    <3>2. timer' = now + interval'
      BY DEF Upgrade
    <3>3. \A a, b \in Nat : a + b \in Nat
      OBVIOUS
    <3>4. now + interval' \in Nat
      BY <3>1, <3>3
    <3>5. QED
      BY <3>2, <3>4
  <2>2. TokenShape'
    BY <1>1, <1>2, <2>1 DEF Identities, Typed, TokenShape
  <2>3. SomeUnnamed'
    BY <1>1 DEF SomeUnnamed, Busy
  <2>4. QED
    BY <2>2, <2>3 DEF Typed
<1>4. OfSigner'
  BY <1>1 DEF OfSigner, Busy
<1>5. KeyInTime' /\ TokensInTime'
  BY <1>1 DEF KeyInTime, TokensInTime
<1>6. QED
  BY <1>1, <1>3, <1>4, <1>5 DEF Identities, TokensNamed, RefusalsNoted

(* Time changes nothing of it.                                             *)
LEMMA ClockKeeps ==
  ASSUME Identities, Clock \/ UNCHANGED vars
  PROVE  Identities'
<1>1. /\ now' \in Nat
      /\ UNCHANGED <<agents, token, signer, key, interval, timer, starting, task,
                     missed, refused>>
  BY DEF Clock, vars, Identities, Typed, TokenShape
<1>2. QED
  BY <1>1 DEF Identities, Typed, TokenShape, SomeUnnamed, Unnamed, OfSigner,
              Busy, KeyInTime, TokensInTime, TokensNamed, RefusalsNoted

LEMMA IdentitiesInit ==
  ASSUME Init
  PROVE  Identities
<1>1. /\ now = 0 /\ agents = <<>> /\ token = [n \in Names |-> NoToken]
      /\ signer \in Signers /\ key = NoSigner
      /\ interval \in Allowed /\ timer = interval
      /\ starting = TRUE /\ missed = 0 /\ refused = {}
      /\ task = [t \in Tasks |-> IdleTask]
  BY DEF Init, Allowed
<1>2. NoToken \in Token
  BY DEF NoToken, Token
<1>3. IdleTask \in Jobs /\ IdleTask.pc = "idle"
  BY <1>2 DEF IdleTask, Jobs
<1>4. TokenShape
  BY <1>1, <1>2, <1>3, LongestIs, TokenAssumption DEF TokenShape, Jobs
<1>5. NamesIn(agents) = {}
  BY <1>1, ListsAreOfNames
<1>6. QED
  BY <1>1, <1>3, <1>4, <1>5 DEF Identities, Typed, SomeUnnamed, OfSigner, Busy,
     KeyInTime, TokensInTime, TokensNamed, RefusalsNoted

LEMMA IdentitiesNext ==
  ASSUME Identities, [Next]_vars
  PROVE  Identities'
<1>1. ASSUME NEW t \in Tasks,
             \/ TimerFires(t) \/ StartupFires(t) \/ KeyArrives(t) \/ KeyFails(t)
             \/ AdminSetAgents(t) \/ Signed(t) \/ SignFails(t)
      PROVE  Identities'
  BY <1>1, TimerKeeps, StartupKeeps, KeyReplyKeeps, AdminKeeps, SignedKeeps,
     RefusalKeeps
<1>2. CASE Upgrade
  BY <1>2, UpgradeKeeps
<1>3. CASE Clock \/ UNCHANGED vars
  BY <1>3, ClockKeeps
<1>4. QED
  BY <1>1, <1>2, <1>3 DEF Next

(* Once nothing is on its way, what is shown and used is the signer's.     *)
LEMMA Matches ==
  ASSUME Identities
  PROVE  KeyMatchesTokens
<1>1. SUFFICES ASSUME Settled
               PROVE  /\ "key" \notin refused => key = signer
                      /\ "sign" \notin refused =>
                           \A n \in NamesIn(agents) : token[n].by = signer
  BY DEF KeyMatchesTokens
<1>2. ~starting /\ \A t \in Tasks : Busy(t) => task[t].kind # "startup"
  BY <1>1 DEF Settled
<1>3. \A t \in Tasks : task[t].pc # "key"
  BY <1>2 DEF Identities, OfSigner, Busy
<1>4. QED
  BY <1>2, <1>3 DEF Identities, KeyInTime, TokensInTime

(* Every variable keeps its type; a task that signs has a name left to     *)
(* sign, so that the one it asks for next is there (tasks.rs:20-38).       *)
THEOREM TokenTypes == Spec => []TokenTypeOK
<1>1. Identities => TokenTypeOK
  BY NextIsUnnamed DEF Identities, Typed, TokenShape, SomeUnnamed, Jobs, TokenTypeOK
<1>2. QED
  BY <1>1, IdentitiesInit, IdentitiesNext, PTL DEF Spec

(* Once the startup task is over, the canister shows the signer's key and  *)
(* its tokens are the signer's, up to what was refused: whatever tasks     *)
(* overlap and whenever another signer comes with an upgrade.              *)
THEOREM KeysMatch == Spec => []KeyMatchesTokens
  BY IdentitiesInit, IdentitiesNext, Matches, PTL DEF Spec

(* ------------------------- no token ends too soon ----------------------- *)
(* One more task among F, or one more refusal, is one more interval.       *)
LEMMA Borrows ==
  ASSUME TokenShape, NEW F \in SUBSET Tasks, NEW k \in Nat
  PROVE  /\ Cardinality(F) \in Nat /\ (k + Cardinality(F)) * Longest \in Nat
         /\ (k + Cardinality({})) * Longest = k * Longest
         /\ (k + 1 + Cardinality(F)) * Longest
              = (k + Cardinality(F)) * Longest + Longest
         /\ \A t \in Tasks \ F : (k + Cardinality(F \cup {t})) * Longest
                                   = (k + Cardinality(F)) * Longest + Longest
<1>1. IsFiniteSet(F) /\ Cardinality(F) \in Nat
  BY TokenAssumption, FS_Subset, FS_CardinalityType
<1>2. Longest \in Nat
  BY LongestIs
<1>3. k + Cardinality(F) \in Nat
  BY <1>1
<1>4. /\ (k + Cardinality(F)) * Longest \in Nat
      /\ (k + Cardinality(F) + 1) * Longest = (k + Cardinality(F)) * Longest + Longest
  BY <1>2, <1>3, Products
<1>5. k + 1 + Cardinality(F) = k + Cardinality(F) + 1
  BY <1>1
<1>6. ASSUME NEW t \in Tasks \ F
      PROVE  (k + Cardinality(F \cup {t})) * Longest
               = (k + Cardinality(F)) * Longest + Longest
  <2>1. Cardinality(F \cup {t}) = Cardinality(F) + 1
    BY <1>1, FS_AddElement
  <2>2. k + Cardinality(F \cup {t}) = k + Cardinality(F) + 1
    BY <1>1, <2>1
  <2>3. QED
    BY <1>4, <2>2
<1>7. k + Cardinality({}) = k
  BY FS_EmptySet
<1>8. QED
  BY <1>1, <1>4, <1>5, <1>6, <1>7

(* When a task is done at the latest, from what it waits for.              *)
LEMMA Finishes ==
  ASSUME NEW job \in Jobs
  PROVE  /\ Finish(job) \in Nat
         /\ job.pc = "key" => Finish(job) = job.since + MaxSign + AllSigned
         /\ job.pc # "key" =>
              /\ Finish(job) = job.since + Cardinality(Unnamed(job)) * MaxSign
              /\ Finish(job) <= job.since + AllSigned
              /\ \A m \in Unnamed(job) :
                   Finish(job) = job.since + MaxSign
                     + Cardinality(Unnamed(job) \ {m}) * MaxSign
<1>1. job.since \in Nat /\ job.list \in Lists \cup {<<>>}
  BY DEF Jobs
<1>2. Unnamed(job) \in SUBSET Names
  BY <1>1, ListsAreOfNames DEF Unnamed
<1>3. /\ IsFiniteSet(Unnamed(job)) /\ Cardinality(Unnamed(job)) \in Nat
      /\ Cardinality(Unnamed(job)) * MaxSign \in Nat
      /\ Cardinality(Unnamed(job)) * MaxSign <= AllSigned
  BY <1>2, Amounts
<1>4. ASSUME NEW m \in Unnamed(job)
      PROVE  Cardinality(Unnamed(job)) * MaxSign
               = Cardinality(Unnamed(job) \ {m}) * MaxSign + MaxSign
  <2>1. Cardinality(Unnamed(job) \ {m}) = Cardinality(Unnamed(job)) - 1
    BY <1>3, FS_RemoveElement
  <2>2. Cardinality(Unnamed(job) \ {m}) \in Nat
    BY <1>2, Amounts
  <2>3. Cardinality(Unnamed(job)) = Cardinality(Unnamed(job) \ {m}) + 1
    BY <1>3, <2>1
  <2>4. (Cardinality(Unnamed(job) \ {m}) + 1) * MaxSign
          = Cardinality(Unnamed(job) \ {m}) * MaxSign + MaxSign
    BY <2>2, Amounts, Products
  <2>5. QED
    BY <2>3, <2>4
<1>5. \A m \in Unnamed(job) : Cardinality(Unnamed(job) \ {m}) * MaxSign \in Nat
  BY <1>2, Amounts
<1>6. CASE job.pc = "key"
  <2>1. Finish(job) = job.since + (MaxSign + AllSigned)
    BY <1>6 DEF Finish
  <2>2. QED
    BY <1>1, <1>6, <2>1, Amounts
<1>7. CASE job.pc # "key"
  <2>1. Finish(job) = job.since + Cardinality(Unnamed(job)) * MaxSign
    BY <1>7 DEF Finish
  <2> DEFINE x == Cardinality(Unnamed(job)) * MaxSign
  <2>2. x \in Nat /\ x <= AllSigned /\ Finish(job) = job.since + x
    BY <1>3, <2>1
  <2>3. \A m \in Unnamed(job) :
          x = Cardinality(Unnamed(job) \ {m}) * MaxSign + MaxSign
    BY <1>4
  <2> HIDE DEF x
  <2>4. Finish(job) \in Nat /\ Finish(job) <= job.since + AllSigned
    BY <1>1, <2>2, Amounts
  <2>5. ASSUME NEW m \in Unnamed(job)
        PROVE  Finish(job) = job.since + MaxSign
                 + Cardinality(Unnamed(job) \ {m}) * MaxSign
    BY <1>1, <1>5, <2>2, <2>3, Amounts
  <2>6. QED
    BY <1>7, <2>1, <2>4, <2>5
<1>8. QED
  BY <1>6, <1>7

(* The numbers of a state.                                                 *)
LEMMA Numbers ==
  ASSUME Identities
  PROVE  /\ now \in Nat /\ timer \in Nat /\ interval \in Nat
         /\ interval <= Longest /\ Longest \in Nat /\ missed \in Nat
         /\ \A n \in NamesIn(agents) : n \in Names /\ token[n].exp \in Nat
         /\ \A t \in Tasks : task[t] \in Jobs /\ Finish(task[t]) \in Nat
         /\ Expiry = now + interval + Grace /\ Expiry \in Nat
<1>1. TokenShape
  BY DEF Identities, Typed
<1>2. now \in Nat /\ timer \in Nat /\ interval \in Allowed /\ missed \in Nat
  BY <1>1, TokenAssumption DEF TokenShape
<1>3. \A n \in NamesIn(agents) : n \in Names /\ token[n].exp \in Nat
  BY <1>1, ListsAreOfNames DEF TokenShape, Token
<1>4. \A t \in Tasks : task[t] \in Jobs
  BY <1>1 DEF TokenShape, Jobs
<1>5. QED
  BY <1>2, <1>3, <1>4, LongestIs, Finishes, Amounts DEF Expiry

(* What lasts for a task that goes on lasts for it when it is closer to    *)
(* its end.                                                                *)
LEMMA DueGoingOn ==
  ASSUME Identities, DueInTime, Identities',
         UNCHANGED <<now, agents, token, timer, starting, missed>>,
         \A u \in Tasks : /\ (task'[u].pc = "idle" <=> task[u].pc = "idle")
                          /\ Finish(task'[u]) <= Finish(task[u])
  PROVE  DueInTime'
<1>1. BusyTasks' = BusyTasks
  BY DEF BusyTasks, Busy
<1>2. \A F : Borrowed(F)' = Borrowed(F)
  BY DEF Borrowed
<1>3. SUFFICES ASSUME NEW n \in NamesIn(agents), NEW F \in SUBSET BusyTasks
      PROVE  LastsFor(token[n].exp, F)' /\ LastsBeyond(token[n].exp, F)'
  BY <1>1 DEF DueInTime
<1>4. LastsFor(token[n].exp, F) /\ LastsBeyond(token[n].exp, F)
  BY DEF DueInTime
<1> DEFINE e == token[n].exp
           b == Borrowed(F)
<1>5. /\ e \in Nat /\ Longest \in Nat
      /\ \A u \in Tasks : Finish(task[u]) \in Nat /\ task'[u] \in Jobs
  BY Numbers DEF Identities, Typed, TokenShape, Jobs
<1>6. \A u \in Tasks : Finish(task'[u]) \in Nat
  BY <1>5, Finishes
<1>7. b \in Nat
  <2>1. F \in SUBSET Tasks /\ missed \in Nat /\ TokenShape
    BY Numbers DEF BusyTasks, Identities, Typed
  <2>2. QED
    BY <2>1, Borrows DEF Borrowed
<1>8. \A u \in Tasks : Finish(task[u])' = Finish(task'[u])
  BY DEF Finish, Unnamed
<1> HIDE DEF e, b
<1>9. \A u \in Tasks : /\ e + b >= Finish(task[u]) => e + b >= Finish(task'[u])
                       /\ e + b + Longest >= Finish(task[u]) =>
                            e + b + Longest >= Finish(task'[u])
  BY <1>5, <1>6, <1>7
<1>10. BusyTasks \in SUBSET Tasks
  BY DEF BusyTasks
<1>11. LastsFor(token[n].exp, F)'
  BY <1>1, <1>2, <1>4, <1>8, <1>9, <1>10 DEF LastsFor, e, b
<1>12. LastsBeyond(token[n].exp, F)'
  BY <1>1, <1>2, <1>4, <1>8, <1>9, <1>10 DEF LastsBeyond, e, b
<1>13. QED
  BY <1>11, <1>12

(* A task that begins can fail as well as those under way; it is then the  *)
(* next one that tokens have to last for, and the timer is put off by an   *)
(* interval at most.                                                       *)
LEMMA DueBegun ==
  ASSUME Identities, TimersInTime, DueInTime, NEW t \in Tasks, ~Busy(t),
         UNCHANGED <<now, agents, token, starting, missed>>,
         \A u \in Tasks \ {t} : task'[u] = task[u],
         task'[t] \in Jobs, task'[t].pc # "idle",
         Finish(task'[t]) <= now + AllSigned,
         timer' \in Nat, timer <= timer', timer' <= timer + Longest
  PROVE  DueInTime'
<1>1. BusyTasks' = BusyTasks \cup {t} /\ t \notin BusyTasks
      /\ BusyTasks \in SUBSET Tasks
  BY DEF BusyTasks, Busy
<1>2. SUFFICES ASSUME NEW n \in NamesIn(agents), NEW F \in SUBSET (BusyTasks \cup {t})
      PROVE  LastsFor(token[n].exp, F)' /\ LastsBeyond(token[n].exp, F)'
  BY <1>1 DEF DueInTime
<1> DEFINE G == F \ {t}
           e == token[n].exp
           b == Borrowed(G)
           c == Borrowed(F)
<1>3. G \in SUBSET BusyTasks
  BY <1>1
<1>4. LastsFor(e, G) /\ LastsBeyond(e, G)
  BY <1>3 DEF DueInTime
<1>5. /\ e \in Nat /\ Longest \in Nat /\ now \in Nat /\ timer \in Nat
      /\ now <= timer /\ AllSigned \in Nat /\ MaxSign \in Nat
      /\ \A u \in Tasks : Finish(task[u]) \in Nat
  BY Numbers, Amounts DEF TimersInTime
<1>6. Finish(task'[t]) \in Nat
  BY Finishes
<1>7. b \in Nat /\ (t \in F => c = b + Longest) /\ (t \notin F => c = b)
  <2>1. missed \in Nat /\ TokenShape /\ G \in SUBSET Tasks
    BY <1>1, <1>3, Numbers DEF Identities, Typed
  <2>2. b \in Nat /\ Borrowed(G \cup {t}) = b + Longest
    BY <2>1, Borrows DEF Borrowed
  <2>3. (t \in F => F = G \cup {t}) /\ (t \notin F => F = G)
    OBVIOUS
  <2>4. QED
    BY <2>2, <2>3
<1>8. Borrowed(F)' = c
  BY DEF Borrowed
<1>9. \A u \in Tasks : Finish(task[u])' = Finish(task'[u])
  BY DEF Finish, Unnamed
<1>10. /\ \/ \E u \in BusyTasks \ G : e + b >= Finish(task[u])
          \/ e + b >= timer + AllSigned + MaxSign
          \/ starting /\ e + b >= now + AllSigned + MaxSign
       /\ starting =>
            \/ \E u \in BusyTasks \ G : e + b + Longest >= Finish(task[u])
            \/ e + b + Longest >= timer + AllSigned + MaxSign
  BY <1>4 DEF LastsFor, LastsBeyond
<1>11. \A u \in BusyTasks \ G : u \in BusyTasks' \ F /\ task'[u] = task[u] /\ u \in Tasks
  BY <1>1
<1>12. t \in BusyTasks' /\ starting' = starting /\ token' = token /\ now' = now
  BY <1>1
<1> HIDE DEF G, e, b, c
<1>13. CASE t \in F
  <2>1. c = b + Longest
    BY <1>7, <1>13
  <2>2. \/ \E u \in BusyTasks' \ F : e + c >= Finish(task'[u])
        \/ e + c >= timer' + AllSigned + MaxSign
        \/ starting /\ e + c >= now + AllSigned + MaxSign
    <3>1. \A u \in BusyTasks \ G :
            e + b >= Finish(task[u]) => e + c >= Finish(task'[u])
      BY <1>5, <1>7, <1>11, <2>1
    <3>2. e + b >= timer + AllSigned + MaxSign
            => e + c >= timer' + AllSigned + MaxSign
      BY <1>5, <1>7, <2>1
    <3>3. e + b >= now + AllSigned + MaxSign => e + c >= now + AllSigned + MaxSign
      BY <1>5, <1>7, <2>1
    <3>4. QED
      BY <1>10, <1>11, <3>1, <3>2, <3>3
  <2>3. starting =>
          \/ \E u \in BusyTasks' \ F : e + c + Longest >= Finish(task'[u])
          \/ e + c + Longest >= timer' + AllSigned + MaxSign
    <3>1. \A u \in BusyTasks \ G :
            e + b + Longest >= Finish(task[u]) => e + c + Longest >= Finish(task'[u])
      BY <1>5, <1>7, <1>11, <2>1
    <3>2. e + b + Longest >= timer + AllSigned + MaxSign
            => e + c + Longest >= timer' + AllSigned + MaxSign
      BY <1>5, <1>7, <2>1
    <3>3. QED
      BY <1>10, <1>11, <3>1, <3>2
  <2>4. QED
    BY <1>8, <1>9, <1>11, <1>12, <2>2, <2>3, <1>1 DEF LastsFor, LastsBeyond, e
<1>14. CASE t \notin F
  <2>1. c = b /\ t \in BusyTasks' \ F
    BY <1>7, <1>12, <1>14
  <2>2. \/ \E u \in BusyTasks' \ F : e + c >= Finish(task'[u])
        \/ starting /\ e + c >= now + AllSigned + MaxSign
    <3>1. e + b >= timer + AllSigned + MaxSign => e + c >= Finish(task'[t])
      BY <1>5, <1>6, <1>7, <2>1
    <3>2. QED
      BY <1>10, <1>11, <2>1, <3>1
  <2>3. starting => \E u \in BusyTasks' \ F : e + c + Longest >= Finish(task'[u])
    <3>1. e + b + Longest >= timer + AllSigned + MaxSign
            => e + c + Longest >= Finish(task'[t])
      BY <1>5, <1>6, <1>7, <2>1
    <3>2. QED
      BY <1>10, <1>11, <2>1, <3>1
  <2>4. QED
    BY <1>8, <1>9, <1>11, <1>12, <2>2, <2>3, <1>1 DEF LastsFor, LastsBeyond, e
<1>15. QED
  BY <1>13, <1>14

(* The startup task that begins: it was to be waited for as a timer, and   *)
(* now is as a task; the interval timer has another interval in reserve.   *)
LEMMA DueStarted ==
  ASSUME Identities, DueInTime, NEW t \in Tasks, ~Busy(t), starting, ~starting',
         UNCHANGED <<now, agents, token, timer, missed>>,
         \A u \in Tasks \ {t} : task'[u] = task[u],
         task'[t] = KeyAsked
  PROVE  DueInTime'
<1>1. KeyAsked.pc = "key" /\ KeyAsked.since = now /\ KeyAsked \in Jobs
  BY NewJobs DEF KeyAsked, Identities, Typed, Kinds
<1>2. Finish(task'[t]) = now + MaxSign + AllSigned
  BY <1>1, Finishes
<1>3. BusyTasks' = BusyTasks \cup {t} /\ t \notin BusyTasks
      /\ BusyTasks \in SUBSET Tasks
  BY <1>1 DEF BusyTasks, Busy
<1>4. SUFFICES ASSUME NEW n \in NamesIn(agents), NEW F \in SUBSET (BusyTasks \cup {t})
      PROVE  LastsFor(token[n].exp, F)'
  BY <1>3 DEF DueInTime, LastsBeyond
<1> DEFINE G == F \ {t}
           e == token[n].exp
           b == Borrowed(G)
           c == Borrowed(F)
<1>5. G \in SUBSET BusyTasks
  BY <1>3
<1>6. LastsFor(e, G) /\ LastsBeyond(e, G)
  BY <1>5 DEF DueInTime
<1>7. /\ e \in Nat /\ Longest \in Nat /\ now \in Nat /\ timer \in Nat
      /\ AllSigned \in Nat /\ MaxSign \in Nat
      /\ \A u \in Tasks : Finish(task[u]) \in Nat
  BY Numbers, Amounts
<1>8. b \in Nat /\ (t \in F => c = b + Longest) /\ (t \notin F => c = b)
  <2>1. missed \in Nat /\ TokenShape /\ G \in SUBSET Tasks
    BY <1>3, <1>5, Numbers DEF Identities, Typed
  <2>2. b \in Nat /\ Borrowed(G \cup {t}) = b + Longest
    BY <2>1, Borrows DEF Borrowed
  <2>3. (t \in F => F = G \cup {t}) /\ (t \notin F => F = G)
    OBVIOUS
  <2>4. QED
    BY <2>2, <2>3
<1>9. Borrowed(F)' = c
  BY DEF Borrowed
<1>10. \A u \in Tasks : Finish(task[u])' = Finish(task'[u])
  BY DEF Finish, Unnamed
<1>11. /\ \/ \E u \in BusyTasks \ G : e + b >= Finish(task[u])
          \/ e + b >= timer + AllSigned + MaxSign
          \/ e + b >= now + AllSigned + MaxSign
       /\ \/ \E u \in BusyTasks \ G : e + b + Longest >= Finish(task[u])
          \/ e + b + Longest >= timer + AllSigned + MaxSign
  BY <1>6 DEF LastsFor, LastsBeyond
<1>12. \A u \in BusyTasks \ G : u \in BusyTasks' \ F /\ task'[u] = task[u] /\ u \in Tasks
  BY <1>3
<1> HIDE DEF G, e, b, c
<1>13. CASE t \in F
  <2>1. c = b + Longest
    BY <1>8, <1>13
  <2>2. \/ \E u \in BusyTasks' \ F : e + c >= Finish(task'[u])
        \/ e + c >= timer + AllSigned + MaxSign
    <3>1. \A u \in BusyTasks \ G :
            e + b + Longest >= Finish(task[u]) => e + c >= Finish(task'[u])
      BY <1>7, <1>8, <1>12, <2>1
    <3>2. e + b + Longest >= timer + AllSigned + MaxSign
            => e + c >= timer + AllSigned + MaxSign
      BY <1>7, <1>8, <2>1
    <3>3. QED
      BY <1>11, <1>12, <3>1, <3>2
  <2>3. QED
    BY <1>3, <1>9, <1>10, <2>2 DEF LastsFor, e
<1>14. CASE t \notin F
  <2>1. c = b /\ t \in BusyTasks' \ F
    BY <1>3, <1>8, <1>14
  <2>2. \/ \E u \in BusyTasks' \ F : e + c >= Finish(task'[u])
        \/ e + c >= timer + AllSigned + MaxSign
    <3>1. e + b >= now + AllSigned + MaxSign => e + c >= Finish(task'[t])
      BY <1>2, <1>7, <1>8, <2>1
    <3>2. QED
      BY <1>11, <1>12, <2>1, <3>1
  <2>3. QED
    BY <1>3, <1>9, <1>10, <2>2 DEF LastsFor, e
<1>15. QED
  BY <1>13, <1>14

(* A refused signature: the task was one of those that might have failed.  *)
LEMMA DueRefused ==
  ASSUME Identities, DueInTime, NEW t \in Tasks, Busy(t),
         UNCHANGED <<now, agents, token, timer, starting>>,
         \A u \in Tasks \ {t} : task'[u] = task[u],
         task'[t] = IdleTask, missed' = missed + 1
  PROVE  DueInTime'
<1>1. BusyTasks' = BusyTasks \ {t} /\ t \in BusyTasks
      /\ BusyTasks \in SUBSET Tasks
  BY DEF BusyTasks, Busy, IdleTask
<1>2. SUFFICES ASSUME NEW n \in NamesIn(agents), NEW F \in SUBSET (BusyTasks \ {t})
      PROVE  LastsFor(token[n].exp, F)' /\ LastsBeyond(token[n].exp, F)'
  BY <1>1 DEF DueInTime
<1> DEFINE G == F \cup {t}
           e == token[n].exp
           b == Borrowed(G)
<1>3. G \in SUBSET BusyTasks
  BY <1>1
<1>4. LastsFor(e, G) /\ LastsBeyond(e, G)
  BY <1>3 DEF DueInTime
<1>5. Borrowed(F)' = b
  <2>1. missed \in Nat /\ TokenShape /\ F \in SUBSET Tasks /\ t \in Tasks \ F
    BY <1>1, Numbers DEF Identities, Typed
  <2>2. Borrowed(F)' = (missed + 1 + Cardinality(F)) * Longest
    BY DEF Borrowed
  <2>3. b = (missed + Cardinality(F)) * Longest + Longest
    BY <2>1, Borrows DEF Borrowed
  <2>4. (missed + 1 + Cardinality(F)) * Longest
          = (missed + Cardinality(F)) * Longest + Longest
    BY <2>1, Borrows
  <2>5. QED
    BY <2>2, <2>3, <2>4
<1>6. \A u \in Tasks : Finish(task[u])' = Finish(task'[u])
  BY DEF Finish, Unnamed
<1>7. BusyTasks' \ F = BusyTasks \ G
      /\ \A u \in BusyTasks \ G : u \in Tasks /\ task'[u] = task[u]
  BY <1>1
<1> HIDE DEF G, b, e
<1>8. LastsFor(token[n].exp, F)'
  BY <1>4, <1>5, <1>6, <1>7 DEF LastsFor, b, e
<1>9. LastsBeyond(token[n].exp, F)'
  BY <1>4, <1>5, <1>6, <1>7 DEF LastsBeyond, b, e
<1>10. QED
  BY <1>8, <1>9

(* New agents: their tokens, with the grace, last for a task of the next   *)
(* timer.                                                                  *)
LEMMA DueInstalled ==
  ASSUME Identities, Identities', EnoughGrace, TimersInTime,
         UNCHANGED <<now, timer, interval, starting>>,
         \A n \in NamesIn(agents') : token'[n].exp + AllSigned >= now + interval + Grace
  PROVE  DueInTime'
<1>1. SUFFICES ASSUME NEW n \in NamesIn(agents'), NEW F \in SUBSET BusyTasks'
      PROVE  LastsFor(token[n].exp, F)' /\ LastsBeyond(token[n].exp, F)'
  BY DEF DueInTime
<1> DEFINE e == token'[n].exp
           c == Borrowed(F)'
<1>2. /\ now \in Nat /\ timer \in Nat /\ interval \in Nat /\ timer <= now + interval
      /\ AllSigned \in Nat /\ MaxSign \in Nat /\ Grace \in Nat /\ Longest \in Nat
  BY Numbers, Amounts DEF TimersInTime
<1>3. e \in Nat
  <2>1. /\ token' \in [Names -> Token] /\ agents' \in Lists \cup {<<>>}
    BY DEF Identities, Typed, TokenShape
  <2>2. QED
    BY <2>1, ListsAreOfNames DEF Token
<1>4. c \in Nat
  <2>1. missed' \in Nat /\ TokenShape /\ F \in SUBSET Tasks
    BY TokenAssumption DEF Identities, Typed, TokenShape, BusyTasks
  <2>2. (missed' + Cardinality(F)) * Longest \in Nat
    BY <2>1, Borrows
  <2>3. QED
    BY <2>2 DEF Borrowed
<1>5. e + AllSigned >= now + interval + Grace
  OBVIOUS
<1> HIDE DEF e, c
<1>6. 2 * AllSigned + MaxSign <= Grace
  BY DEF EnoughGrace
<1>7. e >= timer + AllSigned + MaxSign
  BY <1>2, <1>3, <1>5, <1>6
<1>8. e + c >= timer + AllSigned + MaxSign /\ e + c + Longest >= timer + AllSigned + MaxSign
  BY <1>2, <1>3, <1>4, <1>7
<1>9. timer' = timer
  OBVIOUS
<1>10. QED
  BY <1>8, <1>9 DEF LastsFor, LastsBeyond, e, c

(* An upgrade: no task is under way, and what lasted for the timer there   *)
(* was lasts for the startup task, and with an interval more for the new   *)
(* timer.                                                                  *)
LEMMA DueUpgraded ==
  ASSUME Identities, Identities', TimersInTime, DueInTime, Upgrade
  PROVE  DueInTime'
<1>1. /\ BusyTasks = {} /\ BusyTasks' = {}
      /\ timer' = now + interval' /\ starting' = TRUE
      /\ UNCHANGED <<now, agents, token, missed>>
  BY DEF Upgrade, BusyTasks, Busy
<1>2. SUFFICES ASSUME NEW n \in NamesIn(agents)
      PROVE  LastsFor(token[n].exp, {})' /\ LastsBeyond(token[n].exp, {})'
  BY <1>1 DEF DueInTime
<1>3. LastsFor(token[n].exp, {})
  BY DEF DueInTime
<1> DEFINE e == token[n].exp
           b == Borrowed({})
<1>4. /\ e \in Nat /\ Longest \in Nat /\ now \in Nat /\ timer \in Nat /\ now <= timer
      /\ AllSigned \in Nat /\ MaxSign \in Nat
  BY Numbers, Amounts DEF TimersInTime
<1>5. interval' \in Nat /\ interval' <= Longest
  BY LongestIs DEF Identities, Typed, TokenShape
<1>6. b \in Nat
  <2>1. missed \in Nat /\ TokenShape
    BY Numbers DEF Identities, Typed
  <2>2. QED
    BY <2>1, Borrows DEF Borrowed
<1>7. Borrowed({})' = b
  BY <1>1 DEF Borrowed
<1>8. \/ e + b >= timer + AllSigned + MaxSign
      \/ e + b >= now + AllSigned + MaxSign
  BY <1>1, <1>3 DEF LastsFor
<1> HIDE DEF e, b
<1>9. e + b >= now + AllSigned + MaxSign
  BY <1>4, <1>6, <1>8
<1>10. \A i \in Nat : i <= Longest =>
         e + b + Longest >= (now + i) + AllSigned + MaxSign
  BY <1>4, <1>6, <1>9
<1>11. e + b + Longest >= timer' + AllSigned + MaxSign
  BY <1>1, <1>5, <1>10
<1>12. QED
  BY <1>1, <1>7, <1>9, <1>11 DEF LastsFor, LastsBeyond, e

(* Time passes only when no timer is due.                                  *)
LEMMA DueLater ==
  ASSUME DueInTime, Clock
  PROVE  DueInTime'
<1>1. /\ ~starting
      /\ UNCHANGED <<agents, token, signer, key, interval, timer, starting, task,
                     missed, refused>>
  BY DEF Clock
<1>2. BusyTasks' = BusyTasks
  BY <1>1 DEF BusyTasks, Busy
<1>3. SUFFICES ASSUME NEW n \in NamesIn(agents), NEW F \in SUBSET BusyTasks
      PROVE  LastsFor(token[n].exp, F)' /\ LastsBeyond(token[n].exp, F)'
  BY <1>1, <1>2 DEF DueInTime
<1>4. LastsFor(token[n].exp, F)
  BY DEF DueInTime
<1>5. Borrowed(F)' = Borrowed(F)
  BY <1>1 DEF Borrowed
<1>6. \A u \in Tasks : Finish(task[u])' = Finish(task[u])
  BY <1>1 DEF Finish, Unnamed
<1>7. BusyTasks \in SUBSET Tasks
  BY DEF BusyTasks
<1>8. QED
  BY <1>1, <1>2, <1>4, <1>5, <1>6, <1>7 DEF LastsFor, LastsBeyond

(* ------------------------------- its steps ------------------------------ *)
(* What a first signature is asked for outlives its task as it should, and *)
(* the task is done within the time of all signatures.                     *)
LEMMA FirstOutlives ==
  ASSUME Identities, NEW kind \in Kinds, NEW list \in Lists \cup {<<>>}
  PROVE  LET job == FirstAsked(kind, list)
         IN  /\ Finish(job) <= now + AllSigned
             /\ Outlives(job.exp, job)
             /\ \A n \in NamesIn(list) : job.fresh[n] = NoToken
<1> DEFINE job == FirstAsked(kind, list)
<1>1. job \in Jobs
  BY NewJobs DEF Identities, Typed
<1>2. /\ job.pc = "sign" /\ job.since = now /\ job.exp = Expiry
      /\ job.fresh = [n \in Names |-> NoToken]
  BY DEF FirstAsked
<1> HIDE DEF job
<1>3. Finish(job) \in Nat /\ Finish(job) <= now + AllSigned
  BY <1>1, <1>2, Finishes
<1>4. Outlives(job.exp, job)
  <2>1. Expiry = now + interval + Grace /\ now \in Nat /\ interval \in Nat
        /\ AllSigned \in Nat /\ Grace \in Nat
    BY Numbers, Amounts
  <2>2. Expiry + AllSigned >= Finish(job) + interval + Grace
    BY <1>3, <2>1
  <2>3. QED
    BY <1>2, <2>2 DEF Outlives
<1>5. \A n \in NamesIn(list) : job.fresh[n] = NoToken
  BY <1>2, ListsAreOfNames
<1>6. QED
  BY <1>3, <1>4, <1>5 DEF job

(* A new task, or none in its place, has signed nothing yet and is asked   *)
(* in time.                                                                *)
LEMMA NewTaskTimes ==
  ASSUME Times, NEW t \in Tasks, NEW job,
         \/ job = IdleTask \/ job = KeyAsked
         \/ \E kind \in Kinds, list \in Lists \cup {<<>>} : job = FirstAsked(kind, list),
         task'[t] = job, \A u \in Tasks \ {t} : task'[u] = task[u],
         UNCHANGED <<now, interval>>
  PROVE  /\ FreshOutlive'
         /\ \A u \in Tasks : Busy(u)' => now' <= task'[u].since + MaxSign
<1>1. now \in Nat /\ MaxSign \in Nat
  BY Numbers, Amounts DEF Times
<1>2. \A u \in Tasks \ {t} : Busy(u)' => now' <= task'[u].since + MaxSign
  BY DEF Busy, Times, TimersInTime
<1>3. job.pc # "idle" => job.since = now
  BY DEF IdleTask, KeyAsked, FirstAsked
<1>4. Busy(t)' => now' <= task'[t].since + MaxSign
  BY <1>1, <1>3 DEF Busy
<1>5. job.pc = "sign" =>
        Outlives(job.exp, job) /\ \A n \in NamesIn(job.list) : job.fresh[n] = NoToken
  <2>1. IdleTask.pc = "idle" /\ KeyAsked.pc = "key"
    BY DEF IdleTask, KeyAsked
  <2>2. ASSUME NEW kind \in Kinds, NEW list \in Lists \cup {<<>>},
               job = FirstAsked(kind, list)
        PROVE  Outlives(job.exp, job)
               /\ \A n \in NamesIn(job.list) : job.fresh[n] = NoToken
    <3>1. job.list = list
      BY <2>2 DEF FirstAsked
    <3>2. QED
      BY <2>2, <3>1, FirstOutlives DEF Times
  <2>3. QED
    BY <2>1, <2>2
<1>6. FreshOutlive' <=> \A u \in Tasks : task'[u].pc = "sign" =>
        /\ task'[u].exp + AllSigned >= Finish(task'[u]) + interval' + Grace
        /\ \A n \in NamesIn(task'[u].list) : task'[u].fresh[n] # NoToken =>
             task'[u].fresh[n].exp + AllSigned >= Finish(task'[u]) + interval' + Grace
  BY DEF FreshOutlive, Outlives, Finish, Unnamed
<1>7. \A u \in Tasks \ {t} : task'[u].pc = "sign" =>
        /\ task'[u].exp + AllSigned >= Finish(task'[u]) + interval' + Grace
        /\ \A n \in NamesIn(task'[u].list) : task'[u].fresh[n] # NoToken =>
             task'[u].fresh[n].exp + AllSigned >= Finish(task'[u]) + interval' + Grace
  BY DEF Times, FreshOutlive, Outlives
<1>8. FreshOutlive'
  BY <1>5, <1>6, <1>7 DEF Outlives
<1>9. QED
  BY <1>2, <1>4, <1>8

LEMMA NoAgentsDue ==
  ASSUME Identities', agents' = <<>>
  PROVE  DueInTime'
  BY ListsAreOfNames DEF DueInTime

LEMMA TimerTimes ==
  ASSUME Times, NEW t \in Tasks, TimerFires(t)
  PROVE  Times'
<1> DEFINE job == IF agents = <<>> THEN IdleTask ELSE FirstAsked("refresh", agents)
<1>1. /\ agents \in Lists \cup {<<>>} /\ "refresh" \in Kinds
      /\ timer \in Nat /\ interval \in Nat /\ now \in Nat
      /\ interval <= Longest /\ Longest \in Nat
  BY Numbers DEF Times, Identities, Typed, TokenShape, Kinds
<1>2. /\ task' = [task EXCEPT ![t] = job]
      /\ UNCHANGED <<agents, token, missed, refused>>
  BY <1>1, Begins DEF TimerFires, Times, Identities, Typed
<1>3. /\ ~Busy(t) /\ now >= timer /\ timer' = timer + interval
      /\ UNCHANGED <<now, signer, key, interval, starting>>
  BY DEF TimerFires
<1>4. Identities'
  BY TimerKeeps DEF Times
<1>5. task \in [Tasks -> Jobs]
  BY DEF Times, Identities, Typed, TokenShape, Jobs
<1>6. task'[t] = job /\ \A u \in Tasks \ {t} : task'[u] = task[u]
  BY <1>2, <1>5
<1>7. /\ FreshOutlive'
      /\ \A u \in Tasks : Busy(u)' => now' <= task'[u].since + MaxSign
  BY <1>1, <1>3, <1>6, NewTaskTimes
<1>8. TimersInTime'
  <2>1. now <= timer /\ timer <= now + interval
    BY DEF Times, TimersInTime
  <2>2. now' <= timer' /\ timer' <= now' + interval'
    BY <1>1, <1>3, <2>1
  <2>3. QED
    BY <1>7, <2>2 DEF TimersInTime
<1>9. DueInTime'
  <2>1. CASE agents = <<>>
    BY <1>2, <1>4, <2>1, NoAgentsDue
  <2>2. CASE agents # <<>>
    <3>1. Finish(task'[t]) <= now + AllSigned /\ task'[t].pc # "idle"
      <4>1. task'[t] = FirstAsked("refresh", agents)
        BY <1>6, <2>2
      <4>2. Finish(FirstAsked("refresh", agents)) <= now + AllSigned
        BY <1>1, FirstOutlives DEF Times
      <4>3. FirstAsked("refresh", agents).pc = "sign"
        BY DEF FirstAsked
      <4>4. QED
        BY <4>1, <4>2, <4>3
    <3>2. task'[t] \in Jobs
      BY <1>4 DEF Identities, Typed, TokenShape, Jobs
    <3>3. timer' \in Nat /\ timer <= timer' /\ timer' <= timer + Longest
      BY <1>1, <1>3
    <3>4. QED
      BY <1>2, <1>3, <1>6, <3>1, <3>2, <3>3, DueBegun DEF Times
  <2>3. QED
    BY <2>1, <2>2
<1>10. QED
  BY <1>4, <1>7, <1>8, <1>9 DEF Times

LEMMA AdminTimes ==
  ASSUME Times, NEW t \in Tasks, AdminSetAgents(t)
  PROVE  Times'
<1>1. PICK list \in Lists : list # <<>> /\ Begin(t, "admin", list)
  BY DEF AdminSetAgents
<1> DEFINE job == FirstAsked("admin", list)
<1>2. "admin" \in Kinds
  BY DEF Kinds
<1>3. /\ task' = [task EXCEPT ![t] = job]
      /\ UNCHANGED <<agents, token, missed, refused>>
  BY <1>1, <1>2, Begins DEF Times, Identities, Typed
<1>4. ~Busy(t) /\ UNCHANGED <<now, signer, key, interval, timer, starting>>
  BY DEF AdminSetAgents
<1>5. Identities'
  BY AdminKeeps DEF Times
<1>6. task \in [Tasks -> Jobs]
  BY DEF Times, Identities, Typed, TokenShape, Jobs
<1>7. task'[t] = job /\ \A u \in Tasks \ {t} : task'[u] = task[u]
  BY <1>3, <1>6
<1>8. /\ FreshOutlive'
      /\ \A u \in Tasks : Busy(u)' => now' <= task'[u].since + MaxSign
  BY <1>2, <1>4, <1>7, NewTaskTimes
<1>9. TimersInTime'
  BY <1>4, <1>8 DEF TimersInTime, Times
<1>10. DueInTime'
  <2>1. Finish(task'[t]) <= now + AllSigned
    BY <1>2, <1>7, FirstOutlives DEF Times
  <2>2. task'[t].pc # "idle"
    BY <1>7 DEF FirstAsked
  <2>3. task'[t] \in Jobs
    BY <1>5 DEF Identities, Typed, TokenShape, Jobs
  <2>4. timer' \in Nat /\ timer <= timer' /\ timer' <= timer + Longest
    BY <1>4, Numbers DEF Times
  <2>5. QED
    BY <1>3, <1>4, <1>7, <2>1, <2>2, <2>3, <2>4, DueBegun DEF Times
<1>11. QED
  BY <1>5, <1>8, <1>9, <1>10 DEF Times

LEMMA StartupTimes ==
  ASSUME Times, NEW t \in Tasks, StartupFires(t)
  PROVE  Times'
<1>1. task' = [task EXCEPT ![t] = KeyAsked]
  BY KeySteps DEF Times, Identities, Typed
<1>2. /\ ~Busy(t) /\ starting /\ starting' = FALSE
      /\ UNCHANGED <<now, agents, token, signer, key, interval, timer, missed,
                     refused>>
  BY DEF StartupFires
<1>3. Identities'
  BY StartupKeeps DEF Times
<1>4. task \in [Tasks -> Jobs]
  BY DEF Times, Identities, Typed, TokenShape, Jobs
<1>5. task'[t] = KeyAsked /\ \A u \in Tasks \ {t} : task'[u] = task[u]
  BY <1>1, <1>4
<1>6. /\ FreshOutlive'
      /\ \A u \in Tasks : Busy(u)' => now' <= task'[u].since + MaxSign
  BY <1>2, <1>5, NewTaskTimes
<1>7. TimersInTime'
  BY <1>2, <1>6 DEF TimersInTime, Times
<1>8. DueInTime'
  BY <1>2, <1>5, DueStarted DEF Times
<1>9. QED
  BY <1>3, <1>6, <1>7, <1>8 DEF Times

LEMMA KeyReplyTimes ==
  ASSUME Times, NEW t \in Tasks, KeyArrives(t) \/ KeyFails(t)
  PROVE  Times'
<1> DEFINE job == IF agents = <<>> THEN IdleTask ELSE FirstAsked("startup", agents)
<1>1. /\ task[t].pc = "key"
      /\ task' = [task EXCEPT ![t] = job]
      /\ UNCHANGED <<now, agents, token, signer, interval, timer, starting, missed>>
  BY StartupGoesOn DEF Times
<1>2. agents \in Lists \cup {<<>>} /\ "startup" \in Kinds
  BY DEF Times, Identities, Typed, TokenShape, Kinds
<1>3. Identities'
  BY KeyReplyKeeps DEF Times
<1>4. task \in [Tasks -> Jobs]
  BY DEF Times, Identities, Typed, TokenShape, Jobs
<1>5. task'[t] = job /\ \A u \in Tasks \ {t} : task'[u] = task[u]
  BY <1>1, <1>4
<1>6. /\ FreshOutlive'
      /\ \A u \in Tasks : Busy(u)' => now' <= task'[u].since + MaxSign
  BY <1>1, <1>2, <1>5, NewTaskTimes
<1>7. TimersInTime'
  BY <1>1, <1>6 DEF TimersInTime, Times
<1>8. DueInTime'
  <2>1. CASE agents = <<>>
    BY <1>1, <1>3, <2>1, NoAgentsDue
  <2>2. CASE agents # <<>>
    <3>1. task'[t] = FirstAsked("startup", agents)
      BY <1>5, <2>2
    <3>2. /\ Finish(task'[t]) <= now + AllSigned /\ task'[t].pc = "sign"
          /\ task'[t] \in Jobs
      BY <1>2, <3>1, NewJobs, FirstOutlives DEF FirstAsked, Times, Identities, Typed
    <3>3. Finish(task[t]) = task[t].since + MaxSign + AllSigned
      BY <1>1, <1>4, Finishes
    <3>4. now <= task[t].since + MaxSign
      BY <1>1 DEF Times, TimersInTime, Busy
    <3>5. /\ now \in Nat /\ MaxSign \in Nat /\ AllSigned \in Nat
          /\ task[t].since \in Nat /\ Finish(task'[t]) \in Nat
          /\ \A u \in Tasks : Finish(task[u]) \in Nat
      BY <1>4, <3>2, Numbers, Amounts, Finishes DEF Times, Jobs
    <3>6. Finish(task'[t]) <= Finish(task[t])
      BY <3>2, <3>3, <3>4, <3>5
    <3>7. \A u \in Tasks : /\ (task'[u].pc = "idle" <=> task[u].pc = "idle")
                           /\ Finish(task'[u]) <= Finish(task[u])
      BY <1>1, <1>5, <3>2, <3>5, <3>6
    <3>8. QED
      BY <1>1, <1>3, <3>7, DueGoingOn DEF Times
  <2>3. QED
    BY <2>1, <2>2
<1>9. QED
  BY <1>3, <1>6, <1>7, <1>8 DEF Times

(* A signature that arrives brings a task nearer to its end, and what it   *)
(* has signed outlives it as before; the last one makes it the agents'.    *)
LEMMA SignedTimes ==
  ASSUME Times, EnoughGrace, NEW t \in Tasks, Signed(t)
  PROVE  Times'
<1> DEFINE job  == task[t]
           m    == NextName(task[t])
           next == NextAsked(task[t])
<1>1. /\ job \in Jobs /\ job.pc = "sign" /\ m \in Unnamed(job) /\ next \in Jobs
      /\ Unnamed(next) = Unnamed(job) \ {m}
      /\ UNCHANGED <<now, signer, key, interval, timer, starting>>
      /\ \/ /\ Unnamed(next) = {}
            /\ agents' = job.list
            /\ token' = [n \in Names |-> IF n \in NamesIn(job.list)
                                         THEN Arrived(job)[n] ELSE token[n]]
            /\ task' = [task EXCEPT ![t] = IdleTask]
            /\ missed' = 0 /\ refused' = refused \ {"sign"}
         \/ /\ Unnamed(next) # {}
            /\ task' = [task EXCEPT ![t] = next]
            /\ UNCHANGED <<agents, token, missed, refused>>
  BY SignatureArrives DEF Times, Identities
<1>2. Identities'
  BY SignedKeeps DEF Times
<1>3. task \in [Tasks -> Jobs]
  BY DEF Times, Identities, Typed, TokenShape, Jobs
<1>4. NamesIn(job.list) \in SUBSET Names /\ m \in Names
  BY <1>1, ListsAreOfNames DEF Jobs, Unnamed
<1>5. /\ next.pc = "sign" /\ next.list = job.list /\ next.since = now
      /\ next.exp = Expiry /\ next.fresh = Arrived(job)
  BY DEF NextAsked
<1>6. \A n \in Names : Arrived(job)[n].exp =
        IF n = m THEN job.exp ELSE job.fresh[n].exp
  <2>1. \A n \in Names : Arrived(job)[n] =
          IF n = m THEN [exp |-> job.exp, by |-> job.by, name |-> m]
                   ELSE job.fresh[n]
    BY <1>1, <1>4 DEF Arrived, Jobs
  <2>2. [exp |-> job.exp, by |-> job.by, name |-> m].exp = job.exp
    OBVIOUS
  <2>3. QED
    BY <2>1, <2>2
<1>7. /\ Outlives(job.exp, job)
      /\ \A n \in NamesIn(job.list) :
           job.fresh[n] # NoToken => Outlives(job.fresh[n].exp, job)
  BY <1>1 DEF Times, FreshOutlive
<1>8. \A n \in NamesIn(job.list) : n \notin Unnamed(next) =>
        Outlives(Arrived(job)[n].exp, job)
  <2>1. ASSUME NEW n \in NamesIn(job.list), n \notin Unnamed(next), n # m
        PROVE  job.fresh[n] # NoToken
    BY <1>1, <2>1 DEF Unnamed
  <2>2. QED
    BY <1>4, <1>6, <1>7, <2>1
<1>9. now <= job.since + MaxSign
  BY <1>1 DEF Times, TimersInTime, Busy
<1>10. /\ now \in Nat /\ MaxSign \in Nat /\ AllSigned \in Nat /\ interval \in Nat
       /\ Grace \in Nat /\ Expiry = now + interval + Grace
       /\ \A u \in Tasks : Finish(task[u]) \in Nat
  BY Numbers, Amounts DEF Times
<1>11. /\ job.since \in Nat /\ job.exp \in Nat
       /\ \A n \in Names : Arrived(job)[n].exp \in Nat
  BY <1>1, <1>5 DEF Jobs, Token
<1>12. \A u \in Tasks \ {t} : task'[u] = task[u]
  BY <1>1, <1>3
<1>13. FreshOutlive' <=> \A u \in Tasks : task'[u].pc = "sign" =>
        /\ task'[u].exp + AllSigned >= Finish(task'[u]) + interval' + Grace
        /\ \A n \in NamesIn(task'[u].list) : task'[u].fresh[n] # NoToken =>
             task'[u].fresh[n].exp + AllSigned >= Finish(task'[u]) + interval' + Grace
  BY DEF FreshOutlive, Outlives, Finish, Unnamed
<1>14. \A u \in Tasks \ {t} : task'[u].pc = "sign" =>
        /\ task'[u].exp + AllSigned >= Finish(task'[u]) + interval' + Grace
        /\ \A n \in NamesIn(task'[u].list) : task'[u].fresh[n] # NoToken =>
             task'[u].fresh[n].exp + AllSigned >= Finish(task'[u]) + interval' + Grace
  BY <1>1, <1>12 DEF Times, FreshOutlive, Outlives
<1>15. /\ Cardinality(Unnamed(job) \ {m}) * MaxSign \in Nat
       /\ Finish(job) = job.since + MaxSign + Cardinality(Unnamed(job) \ {m}) * MaxSign
       /\ Finish(job) \in Nat
  <2>1. Unnamed(job) \ {m} \in SUBSET Names
    BY <1>4 DEF Unnamed
  <2>2. QED
    BY <1>1, <2>1, Amounts, Finishes
<1> DEFINE rest == Cardinality(Unnamed(job) \ {m}) * MaxSign
<1> HIDE DEF job, m, next, rest
<1>16. Finish(job) >= now
  BY <1>9, <1>10, <1>11, <1>15 DEF rest
<1>17. CASE Unnamed(next) = {}
  <2>1. /\ agents' = job.list
        /\ token' = [n \in Names |-> IF n \in NamesIn(job.list)
                                     THEN Arrived(job)[n] ELSE token[n]]
        /\ task' = [task EXCEPT ![t] = IdleTask]
    BY <1>1, <1>17
  <2>2. task'[t] = IdleTask /\ IdleTask.pc = "idle"
    BY <1>3, <2>1 DEF IdleTask
  <2>3. FreshOutlive'
    BY <1>13, <1>14, <2>2
  <2>4. TimersInTime'
    BY <1>1, <1>12, <2>2 DEF Times, TimersInTime, Busy
  <2>5. \A n \in NamesIn(agents') :
          token'[n].exp + AllSigned >= now + interval + Grace
    <3>1. TAKE n \in NamesIn(agents')
    <3>2. n \in Names /\ token'[n] = Arrived(job)[n]
      BY <1>4, <2>1
    <3>3. Arrived(job)[n].exp + AllSigned >= Finish(job) + interval + Grace
      BY <1>8, <1>17, <2>1 DEF Outlives
    <3>4. Arrived(job)[n].exp \in Nat
      BY <1>11, <3>2
    <3>5. Arrived(job)[n].exp + AllSigned >= now + interval + Grace
      BY <1>10, <1>15, <1>16, <3>3, <3>4
    <3>6. QED
      BY <3>2, <3>5
  <2>6. DueInTime'
    BY <1>1, <1>2, <2>5, DueInstalled DEF Times
  <2>7. QED
    BY <1>2, <2>3, <2>4, <2>6 DEF Times
<1>18. CASE Unnamed(next) # {}
  <2>1. /\ task' = [task EXCEPT ![t] = next]
        /\ UNCHANGED <<agents, token, missed, refused>>
    BY <1>1, <1>18
  <2>2. task'[t] = next
    BY <1>3, <2>1
  <2>3. /\ Finish(next) \in Nat /\ Finish(next) <= now + AllSigned
        /\ Finish(next) = now + rest
    BY <1>1, <1>5, Finishes DEF rest
  <2>4. Finish(next) <= Finish(job)
    BY <1>9, <1>10, <1>11, <1>15, <2>3 DEF rest
  <2>5. next.exp + AllSigned >= Finish(next) + interval + Grace
    BY <1>5, <1>10, <2>3
  <2>6. \A n \in NamesIn(next.list) : next.fresh[n] # NoToken =>
          next.fresh[n].exp + AllSigned >= Finish(next) + interval + Grace
    <3>1. SUFFICES ASSUME NEW n \in NamesIn(job.list), Arrived(job)[n] # NoToken
                   PROVE  Arrived(job)[n].exp + AllSigned
                            >= Finish(next) + interval + Grace
      BY <1>5
    <3>2. n \notin Unnamed(next)
      BY <1>5, <3>1 DEF Unnamed
    <3>3. Arrived(job)[n].exp + AllSigned >= Finish(job) + interval + Grace
      BY <1>8, <3>2 DEF Outlives
    <3>4. Arrived(job)[n].exp \in Nat
      BY <1>4, <1>11
    <3>5. QED
      BY <1>10, <1>15, <2>3, <2>4, <3>3, <3>4
  <2>7. FreshOutlive'
    BY <1>1, <1>13, <1>14, <2>2, <2>5, <2>6
  <2>8. TimersInTime'
    <3>1. now <= next.since + MaxSign
      BY <1>5, <1>10
    <3>2. QED
      BY <1>1, <1>12, <2>2, <3>1 DEF Times, TimersInTime, Busy
  <2>9. DueInTime'
    <3>1. \A u \in Tasks : /\ (task'[u].pc = "idle" <=> task[u].pc = "idle")
                           /\ Finish(task'[u]) <= Finish(task[u])
      BY <1>1, <1>5, <1>10, <1>12, <2>2, <2>4 DEF job
    <3>2. QED
      BY <1>1, <1>2, <2>1, <3>1, DueGoingOn DEF Times
  <2>10. QED
    BY <1>2, <2>7, <2>8, <2>9 DEF Times
<1>19. QED
  BY <1>17, <1>18

LEMMA RefusalTimes ==
  ASSUME Times, NEW t \in Tasks, SignFails(t)
  PROVE  Times'
<1>1. /\ task[t].pc = "sign"
      /\ task' = [task EXCEPT ![t] = IdleTask] /\ missed' = missed + 1
      /\ UNCHANGED <<now, agents, token, signer, key, interval, timer, starting>>
  BY DEF SignFails
<1>2. Identities'
  BY RefusalKeeps DEF Times
<1>3. task \in [Tasks -> Jobs]
  BY DEF Times, Identities, Typed, TokenShape, Jobs
<1>4. task'[t] = IdleTask /\ \A u \in Tasks \ {t} : task'[u] = task[u]
  BY <1>1, <1>3
<1>5. /\ FreshOutlive'
      /\ \A u \in Tasks : Busy(u)' => now' <= task'[u].since + MaxSign
  BY <1>1, <1>4, NewTaskTimes
<1>6. TimersInTime'
  BY <1>1, <1>5 DEF TimersInTime, Times
<1>7. DueInTime'
  BY <1>1, <1>4, DueRefused DEF Times, Busy
<1>8. QED
  BY <1>2, <1>5, <1>6, <1>7 DEF Times

LEMMA UpgradeTimes ==
  ASSUME Times, Upgrade
  PROVE  Times'
<1>1. Identities'
  BY UpgradeKeeps DEF Times
<1>2. /\ \A t \in Tasks : task'[t] = task[t] /\ task[t].pc = "idle"
      /\ timer' = now + interval' /\ now' = now
  BY DEF Upgrade, Busy
<1>3. now \in Nat /\ interval' \in Nat
  BY <1>1, LongestIs, Numbers DEF Times, Identities, Typed, TokenShape
<1>4. \A a, b \in Nat : a <= a + b
  OBVIOUS
<1>5. now <= now + interval'
  BY <1>3, <1>4
<1>6. timer' <= now' + interval'
  <2>1. \A a, b \in Nat : a + b <= a + b
    OBVIOUS
  <2>2. QED
    BY <1>2, <1>3, <2>1
<1>7. TimersInTime'
  BY <1>2, <1>5, <1>6 DEF TimersInTime, Busy
<1>8. FreshOutlive'
  BY <1>2 DEF FreshOutlive
<1>9. DueInTime'
  BY <1>1, DueUpgraded DEF Times
<1>10. QED
  BY <1>1, <1>7, <1>8, <1>9 DEF Times

LEMMA ClockTimes ==
  ASSUME Times, Clock
  PROVE  Times'
<1>1. Identities'
  BY ClockKeeps DEF Times
<1>2. /\ now' = now + 1 /\ now < timer
      /\ \A t \in Tasks : Busy(t) => now < task[t].since + MaxSign
      /\ UNCHANGED <<agents, token, signer, key, interval, timer, starting, task,
                     missed, refused>>
  BY DEF Clock
<1>3. /\ now \in Nat /\ timer \in Nat /\ interval \in Nat /\ MaxSign \in Nat
      /\ \A t \in Tasks : task[t].since \in Nat
  BY Numbers, Amounts DEF Times, Jobs
<1>4. TimersInTime'
  <2>1. timer <= now + interval
    BY DEF Times, TimersInTime
  <2>2. now' <= timer' /\ timer' <= now' + interval'
    BY <1>2, <1>3, <2>1
  <2>3. \A t \in Tasks : Busy(t) => now' <= task[t].since + MaxSign
    BY <1>2, <1>3
  <2>4. QED
    BY <1>2, <2>2, <2>3 DEF TimersInTime, Busy
<1>5. FreshOutlive'
  BY <1>2 DEF Times, FreshOutlive, Outlives, Finish, Unnamed
<1>6. DueInTime'
  BY DueLater DEF Times
<1>7. QED
  BY <1>1, <1>4, <1>5, <1>6 DEF Times

LEMMA StutterTimes ==
  ASSUME Times, UNCHANGED vars
  PROVE  Times'
<1>1. Identities'
  BY ClockKeeps DEF Times
<1>2. TimersInTime' /\ FreshOutlive'
  BY DEF vars, Times, TimersInTime, FreshOutlive, Outlives, Finish, Unnamed, Busy
<1>3. DueInTime'
  <2>1. \A u \in Tasks : Finish(task[u]) <= Finish(task[u])
    BY Numbers DEF Times
  <2>2. QED
    BY <1>1, <2>1, DueGoingOn DEF Times, vars
<1>4. QED
  BY <1>1, <1>2, <1>3 DEF Times

LEMMA TimesInit ==
  ASSUME Init
  PROVE  Times
<1>1. Identities
  BY IdentitiesInit
<1>2. /\ now = 0 /\ agents = <<>> /\ timer = interval
      /\ task = [t \in Tasks |-> IdleTask]
  BY DEF Init
<1>3. \A t \in Tasks : task[t].pc = "idle"
  BY <1>2 DEF IdleTask
<1>4. timer \in Nat
  BY <1>1, Numbers
<1>5. TimersInTime
  BY <1>2, <1>3, <1>4 DEF TimersInTime, Busy
<1>6. FreshOutlive
  BY <1>3 DEF FreshOutlive
<1>7. NamesIn(agents) = {}
  BY <1>2, ListsAreOfNames
<1>8. QED
  BY <1>1, <1>5, <1>6, <1>7 DEF Times, DueInTime

LEMMA TimesNext ==
  ASSUME Times, EnoughGrace, [Next]_vars
  PROVE  Times'
<1>1. ASSUME NEW t \in Tasks,
             \/ TimerFires(t) \/ StartupFires(t) \/ KeyArrives(t) \/ KeyFails(t)
             \/ AdminSetAgents(t) \/ Signed(t) \/ SignFails(t)
      PROVE  Times'
  BY <1>1, TimerTimes, StartupTimes, KeyReplyTimes, AdminTimes, SignedTimes,
     RefusalTimes
<1>2. CASE Upgrade
  BY <1>2, UpgradeTimes
<1>3. CASE Clock
  BY <1>3, ClockTimes
<1>4. CASE UNCHANGED vars
  BY <1>4, StutterTimes
<1>5. QED
  BY <1>1, <1>2, <1>3, <1>4 DEF Next

(* What is due in time is live now.                                        *)
LEMMA Live ==
  ASSUME Times
  PROVE  TokensLive
<1>1. SUFFICES ASSUME NEW n \in NamesIn(agents)
               PROVE  token[n].exp + missed * Longest >= now
  BY DEF TokensLive
<1> DEFINE e == token[n].exp
           b == missed * Longest
<1>2. Borrowed({}) = b /\ b \in Nat
  <2>1. missed \in Nat /\ TokenShape
    BY Numbers DEF Times, Identities, Typed
  <2>2. (missed + Cardinality({})) * Longest = b
    BY <2>1, Borrows
  <2>3. b \in Nat
    BY <2>1, LongestIs, Products
  <2>4. QED
    BY <2>2, <2>3 DEF Borrowed
<1>3. /\ e \in Nat /\ now \in Nat /\ timer \in Nat /\ now <= timer
      /\ AllSigned \in Nat /\ MaxSign \in Nat
  BY Numbers, Amounts DEF Times, TimersInTime
<1>4. LastsFor(e, {})
  BY DEF Times, DueInTime
<1>5. ASSUME NEW t \in BusyTasks
      PROVE  Finish(task[t]) \in Nat /\ Finish(task[t]) >= now
  <2>1. /\ task[t] \in Jobs /\ task[t].since \in Nat /\ Busy(t) /\ t \in Tasks
        /\ Finish(task[t]) \in Nat
    BY Numbers DEF Times, BusyTasks, Jobs
  <2>2. now <= task[t].since + MaxSign
    BY <2>1 DEF Times, TimersInTime
  <2>3. CASE task[t].pc = "key"
    BY <1>3, <2>1, <2>2, <2>3, Finishes
  <2>4. CASE task[t].pc # "key"
    <3>1. task[t].pc = "sign"
      BY <2>1, <2>4 DEF Busy, Jobs
    <3>2. PICK m \in Unnamed(task[t]) : TRUE
      BY <2>1, <3>1 DEF Times, Identities, Typed, SomeUnnamed
    <3>3. Finish(task[t]) = task[t].since + MaxSign
                              + Cardinality(Unnamed(task[t]) \ {m}) * MaxSign
      BY <2>1, <2>4, Finishes
    <3>4. Cardinality(Unnamed(task[t]) \ {m}) * MaxSign \in Nat
      <4>1. Unnamed(task[t]) \ {m} \in SUBSET Names
        BY <2>1, ListsAreOfNames DEF Unnamed, Jobs
      <4>2. QED
        BY <4>1, Amounts
    <3>5. QED
      BY <1>3, <2>1, <2>2, <3>3, <3>4
  <2>5. QED
    BY <2>3, <2>4
<1> HIDE DEF e, b
<1>6. \/ \E t \in BusyTasks : e + b >= Finish(task[t])
      \/ e + b >= timer + AllSigned + MaxSign
      \/ e + b >= now + AllSigned + MaxSign
  BY <1>2, <1>4 DEF LastsFor
<1>7. \A t \in BusyTasks : e + b >= Finish(task[t]) => e + b >= now
  BY <1>2, <1>3, <1>5
<1>8. e + b >= now
  BY <1>2, <1>3, <1>6, <1>7
<1>9. QED
  BY <1>8 DEF e, b

(* A live token of the signer, for an agent by its name, gets any request  *)
(* of the canister through the checks of a proxy with the signer's key.    *)
LEMMA Through ==
  ASSUME NEW n, NEW tok, NEW names, NEW url \in Urls, NEW worker \in BOOLEAN,
         NEW clock \in Nat, NEW k, tok.exp \in Nat,
         tok.exp + PermittedDrift >= clock, tok.by = k, tok.name = n,
         names = {} \/ n \in names,
         url = [host |-> "host", path |-> "/"] => ~worker
  PROVE  Outcome([ecdsa |-> {k}, ed25519 |-> {}, agents |-> names,
                  vars |-> Variables, worker |-> worker],
                 Built(tok, "GET", url, "key"), clock)
           = [entry |-> <<n, "GET", "key">>]
<1> DEFINE proxy   == [ecdsa |-> {k}, ed25519 |-> {}, agents |-> names,
                       vars |-> Variables, worker |-> worker]
           request == Built(tok, "GET", url, "key")
<1>1. /\ proxy.ecdsa = {k} /\ proxy.ed25519 = {} /\ proxy.agents = names
      /\ proxy.vars = Variables /\ proxy.worker = worker
  OBVIOUS
<1>2. request.token = tok /\ request.method = "GET" /\ request.key = "key"
  BY DEF Built
<1>3. Restricted(proxy) /\ Verified(proxy, request.token, clock)
  BY <1>1, <1>2 DEF Restricted, Verified, Fresh, KeysTried
<1>4. Agent(proxy, request) = n
  BY <1>2, <1>3 DEF Agent
<1>5. ~Undefined(proxy, request)
  BY <1>1 DEF Undefined
<1>6. \/ request.path \in Variables /\ request.path # "/"
      \/ request.path \in {"/", "/path"} /\ request.host = "host"
         /\ (request.path = "/" => url = [host |-> "host", path |-> "/"])
  <2>1. CASE \E v \in Variables : url = [var |-> v]
    <3>1. PICK v \in Variables : url = [var |-> v]
      BY <2>1
    <3>2. "var" \in DOMAIN url /\ url.var = v
      BY <3>1
    <3>3. request.path = v
      BY <3>2 DEF Built
    <3>4. QED
      BY <3>3, VariableAssumption
  <2>2. CASE \E p \in {"/", "/path"} : url = [host |-> "host", path |-> p]
    <3>1. PICK p \in {"/", "/path"} : url = [host |-> "host", path |-> p]
      BY <2>2
    <3>2. "var" \notin DOMAIN url /\ url.path = p /\ url.host = "host"
      BY <3>1
    <3>3. request.path = p /\ request.host = "host"
      BY <3>2 DEF Built
    <3>4. QED
      BY <3>1, <3>3
  <2>3. QED
    BY <2>1, <2>2 DEF Urls
<1>7. ~Incomplete(request)
  BY <1>2, <1>6, ListAssumption DEF Incomplete
<1>8. ~OwnPage(proxy, request)
  BY <1>1, <1>6 DEF OwnPage
<1> HIDE DEF proxy, request
<1>9. ~(proxy.agents # {} /\ Agent(proxy, request) \notin proxy.agents)
  <2>1. proxy.agents = names
    BY <1>1
  <2>2. QED
    BY <1>4, <2>1
<1>10. Outcome(proxy, request, clock)
         = [entry |-> <<Agent(proxy, request), request.method, request.key>>]
  BY <1>3, <1>5, <1>7, <1>8, <1>9 DEF Outcome
<1>11. QED
  BY <1>2, <1>4, <1>10 DEF proxy, request

LEMMA Admits ==
  ASSUME Times
  PROVE  AgentsAdmitted
<1>1. SUFFICES ASSUME Settled, refused = {},
                      NEW n \in NamesIn(agents), NEW names \in {{}, NamesIn(agents)},
                      NEW url \in Urls
      PROVE  /\ Admitted(n, SetUp("ecdsa", names, FALSE), url)
             /\ url = [host |-> "host", path |-> "/"] \/
                  Admitted(n, SetUp("ecdsa", names, TRUE), url)
  BY DEF AgentsAdmitted
<1>2. key = signer /\ token[n].by = signer
  BY <1>1, Matches DEF Times, KeyMatchesTokens
<1>3. token[n].name = n
  BY DEF Times, Identities, TokensNamed
<1>4. token[n].exp \in Nat /\ now \in Nat /\ missed \in Nat /\ PermittedDrift \in Nat
  BY Numbers, DriftAssumption DEF Times
<1>5. missed = 0
  <2>1. ~(missed > 0)
    BY <1>1 DEF Times, Identities, RefusalsNoted
  <2>2. QED
    BY <1>4, <2>1
<1>6. token[n].exp >= now
  <2>1. token[n].exp + missed * Longest >= now
    BY Live DEF TokensLive
  <2>2. missed * Longest = 0
    BY <1>5, LongestIs
  <2>3. QED
    BY <1>4, <2>1, <2>2
<1>7. token[n].exp + PermittedDrift >= now + PermittedDrift
      /\ now + PermittedDrift \in Nat
  BY <1>4, <1>6
<1>8. ASSUME NEW worker \in BOOLEAN, url = [host |-> "host", path |-> "/"] => ~worker
      PROVE  Admitted(n, SetUp("ecdsa", names, worker), url)
  <2>1. SetUp("ecdsa", names, worker)
          = [ecdsa |-> {key}, ed25519 |-> {}, agents |-> names,
             vars |-> Variables, worker |-> worker]
    BY DEF SetUp
  <2>2. names = {} \/ n \in names
    OBVIOUS
  <2>3. Outcome([ecdsa |-> {key}, ed25519 |-> {}, agents |-> names,
                 vars |-> Variables, worker |-> worker],
                Built(token[n], "GET", url, "key"), now + PermittedDrift)
          = [entry |-> <<n, "GET", "key">>]
    BY <1>2, <1>3, <1>4, <1>7, <1>8, <2>2, Through
  <2>4. QED
    BY <2>1, <2>3 DEF Admitted
<1>9. QED
  BY <1>8

(* If a task's signatures, twice, and one more fit the grace, no agent is  *)
(* left with an expired token, up to an interval for each refusal: however *)
(* tasks overlap, end or fail, whenever an upgrade comes and whatever      *)
(* interval it brings (tasks.rs:5-60, init.rs:23-80).                      *)
THEOREM TokensStayLive == ASSUME EnoughGrace PROVE Spec => []TokensLive
  BY TimesInit, TimesNext, Live, PTL DEF Spec

(* Under the same condition, when nothing is refused and the startup task  *)
(* is over, every request of every agent gets past the checks of a proxy   *)
(* that has the canister's key, server or worker, to the cache entry of    *)
(* its own name.                                                           *)
THEOREM AgentsAreAdmitted == ASSUME EnoughGrace PROVE Spec => []AgentsAdmitted
  BY TimesInit, TimesNext, Admits, PTL DEF Spec

=============================================================================
