---------------------------- MODULE OutcallsProofs ----------------------------
(***************************************************************************)
(* Theorems about Outcalls for any number of attempts, agents and replicas *)
(* and any quorum of more than half of them.                               *)
(*                                                                         *)
(* None of the properties is inductive.  CallsInv adds why they hold: a    *)
(* response that a proxy has not forgotten is in the lease of its key for  *)
(* a TTL from when its attempt began (Remembered), so that of the replicas *)
(* of one attempt, which send less than a TTL apart, no two make upstream  *)
(* calls that are answered (OneCall); and one that made the result of an earlier attempt is what   *)
(* the next attempt finds (Undisturbed).                                   *)
(***************************************************************************)
EXTENDS Outcalls, FiniteSetTheorems, TLAPS

(* ---------------------------- the invariants --------------------------- *)
StartOf(r) == attempt[r[1]].start

OutcallTypes ==
  /\ OutcallTypeOK /\ now \in Nat
  /\ lease \in [Keys -> [until : Nat, answer : Requests \cup {Nobody}]]
  /\ status \in [Requests -> {"idle", "forwarding", "waiting", "ended"}]
  /\ got \in [Requests -> Requests \cup {Nobody}]
  /\ reply = [r \in Requests |-> reply[r]]
  /\ attempt = [n \in Tries |-> [pc     |-> attempt[n].pc,
                                 start  |-> attempt[n].start,
                                 result |-> attempt[n].result]]
  /\ \A n \in Tries : attempt[n].start \in Nat

(* Attempts follow each other, and send nothing before they begin. *)
Sequential ==
  /\ \A n \in Tries :
       /\ attempt[n].start <= now
       /\ attempt[n].pc # "ended" => attempt[n].result = NoReply
       /\ attempt[n].pc # "idle" =>
            \A m \in 1 .. n - 1 : /\ attempt[m].pc = "ended"
                                  /\ attempt[m].start <= attempt[n].start
  /\ \A r \in Requests : status[r] # "idle" => attempt[r[1]].pc # "idle"

(* A holder is alone with its lease, which ends a TTL after it arrived. *)
HoldersLease ==
  \A r \in Requests : status[r] = "forwarding" =>
    /\ Running(KeyOf[r]) /\ lease[KeyOf[r]].answer = Nobody
    /\ lease[KeyOf[r]].until <= StartOf(r) + Spread + TTL
    /\ \A s \in Requests : KeyOf[s] = KeyOf[r] /\ status[s] = "forwarding" => s = r

(* What the upstream has said of a request whose response was stored. *)
SaidByUpstream ==
  \A v \in Requests : said[v] # 0 =>
    status[v] = "ended" /\ Cacheable(said[v]) /\ ~Unreadable(Response(v, said[v]), Mask)

LeasedAnswers ==
  \A k \in Keys : lease[k].answer # Nobody =>
    LET v == lease[k].answer
    IN  KeyOf[v] = k /\ said[v] # 0 /\ lease[k].until < StartOf(v) + Spread + 2 * TTL

Remembered ==
  \A v \in Requests :
    said[v] # 0 /\ v[1] \notin forgotten /\ now < StartOf(v) + TTL =>
      lease[KeyOf[v]].answer = v /\ lease[KeyOf[v]].until >= StartOf(v) + TTL

(* What a waiter may be given was there, or came, after it began. *)
WaitersLease ==
  \A r \in Requests : status[r] = "waiting" /\ lease[KeyOf[r]].answer # Nobody =>
    lease[KeyOf[r]].until > StartOf(r)

Answered ==
  \A r \in Requests :
    got[r] # Nobody => /\ status[r] = "ended"
                       /\ KeyOf[got[r]] = KeyOf[r] /\ said[got[r]] # 0
                       /\ StartOf(r) < StartOf(got[r]) + Spread + 2 * TTL

(* A reply is the response that was got, or else a failure's, which the    *)
(* server does not give the status of an answer.                           *)
Genuine(r) == got[r] # Nobody /\ reply[r] = ReplyOf(r, got[r], said[got[r]])

Failing(raw) ==
  Worker \/ Transformed(raw).status \in {502} \cup {c \in Statuses : ~Cacheable(c)}

RepliesMade ==
  \A r \in Requests :
    /\ status[r] = "ended" => r \in faulty \/ Genuine(r)
    /\ reply[r] # NoReply => Genuine(r) \/ (r \in faulty /\ Failing(reply[r]))

CallsInv == /\ OutcallTypes /\ Sequential /\ HoldersLease /\ SaidByUpstream
            /\ LeasedAnswers /\ Remembered /\ WaitersLease /\ Answered
            /\ RepliesMade

(* Of one attempt at most one upstream call is answered, and none is under *)
(* way once one is.                                                        *)
OneCall ==
  \A v, w \in Requests :
    /\ v[1] = w[1] /\ v[1] \notin forgotten
    /\ said[v] # 0 /\ (said[w] # 0 \/ status[w] = "forwarding")
    => v = w

(* The result of attempt n is the response to v. *)
MadeOf(n, v) ==
  /\ KeyOf[v] = AgentOf[n] /\ said[v] # 0
  /\ attempt[n].result = Transformed(ReplyOf(v, v, said[v]))

ResultsMade ==
  \A n \in Tries : IsAnswer(attempt[n].result) =>
    \E v \in Requests :
      MadeOf(n, v) /\ attempt[n].start < StartOf(v) + Spread + 2 * TTL

(* Attempt n follows m on the same agent, soon after the response v. *)
Follows(n, m, v) ==
  /\ m < n /\ AgentOf[m] = AgentOf[n] /\ MadeOf(m, v) /\ v[1] \notin forgotten
  /\ attempt[n].start + Spread < StartOf(v) + TTL

Undisturbed ==
  \A m, n \in Tries, v \in Requests : Open(n) /\ Follows(n, m, v) =>
    /\ lease[AgentOf[n]].answer \in {v, Nobody}
    /\ \A w \in Requests : KeyOf[w] = AgentOf[n] => status[w] # "forwarding"
    /\ \A y \in Of(n) : got[y] \in {v, Nobody}

StableResults ==
  \A m, n \in Tries, v \in Requests :
    Follows(n, m, v) /\ IsAnswer(attempt[n].result) =>
      attempt[n].result = attempt[m].result

-----------------------------------------------------------------------------
(* ----------------------- requests and their replies -------------------- *)
LEMMA RequestFacts ==
  ASSUME NEW r \in Requests
  PROVE  /\ r[1] \in Tries /\ r[1] \in Nat
         /\ KeyOf[r] = AgentOf[r[1]] /\ KeyOf[r] \in Keys
         /\ r # Nobody
  BY OutcallAssumption DEF Tries

LEMMA TimeFacts == TTL \in Nat /\ TTL > 0 /\ Spread \in Nat
  BY TimeAssumption, OutcallAssumption

(* The body of the response to v, as it is stored. *)
Shown(code) == IF code < 300 /\ Mask # {} THEN Mask ELSE Mask \cup {"rest"}

StoredBody(v, code) ==
  [kind   |-> IF code \in Garbled THEN "broken" ELSE "object",
   fields |-> Shown(code) \X {v}]

(* Masking leaves the fields asked for, of successes. *)
LEMMA BodyIsStored ==
  ASSUME NEW v \in Requests, NEW code \in Statuses,
         ~Unreadable(Response(v, code), Mask)
  PROVE  WithBody(Response(v, code), Mask) = StoredBody(v, code)
<1> DEFINE R == Response(v, code)
<1>1. /\ R.status = code /\ R.mime = "json"
      /\ R.body = [kind   |-> IF code \in Garbled THEN "broken" ELSE "object",
                   fields |-> (Mask \cup {"rest"}) \X {v}]
  BY DEF Response
<1>2. Masks(R, Mask) <=> Mask # {} /\ code < 300
  BY <1>1 DEF Masks
<1>3. CASE ~Masks(R, Mask)
  BY <1>1, <1>2, <1>3 DEF WithBody, StoredBody, Shown
<1>4. CASE Masks(R, Mask)
  <2>1. R.body.kind = "object" /\ code \notin Garbled
    BY <1>1, <1>4 DEF Unreadable
  <2>2. {f \in (Mask \cup {"rest"}) \X {v} : NameOf(f) \in Mask} = Mask \X {v}
    BY DEF NameOf
  <2>3. R.body = [kind |-> "object", fields |-> (Mask \cup {"rest"}) \X {v}]
    BY <1>1, <2>1
  <2>4. WithBody(R, Mask) =
          [[kind |-> "object", fields |-> (Mask \cup {"rest"}) \X {v}]
             EXCEPT !.fields = {f \in @ : NameOf(f) \in Mask}]
    BY <1>4, <2>1, <2>3 DEF WithBody
  <2>5. WithBody(R, Mask) = [kind |-> "object", fields |-> Mask \X {v}]
    BY <2>2, <2>4
  <2>6. QED
    BY <1>2, <1>4, <2>1, <2>5 DEF StoredBody, Shown
<1>5. QED
  BY <1>3, <1>4

(* What the canister sees of a stored response, whoever it was served to:  *)
(* the date has gone with the headers.                                     *)
LEMMA ShownReply ==
  ASSUME NEW r \in Requests, NEW v \in Requests, NEW code \in Statuses,
         ~Unreadable(Response(v, code), Mask)
  PROVE  /\ ReplyOf(r, v, code).status = IF Worker THEN 200 ELSE code
         /\ Transformed(ReplyOf(r, v, code)) =
              [status |-> IF Worker THEN 200 ELSE code, headers |-> {},
               body |-> StoredBody(v, code)]
<1> DEFINE F == Filtered(Response(v, code), Names, Mask)
           A == ReplyOf(r, v, code)
<1>1. F.status = code /\ F.body = WithBody(Response(v, code), Mask)
  BY DEF Filtered, Response
<1>2. F.body = StoredBody(v, code)
  BY <1>1, BodyIsStored
<1>3. \E h : Served(F, r) = [status |-> code, body |-> StoredBody(v, code),
                             headers |-> h]
  BY <1>1, <1>2 DEF Served
<1>4. \E h : A = [status |-> IF Worker THEN 200 ELSE code,
                  body |-> StoredBody(v, code), headers |-> h]
  <2>1. PICK h : Served(F, r) = [status |-> code, body |-> StoredBody(v, code),
                                 headers |-> h]
    BY <1>3
  <2>2. CASE Worker
    <3>1. A = [[status |-> code, body |-> StoredBody(v, code), headers |-> h]
                 EXCEPT !.status = 200]
      BY <2>1, <2>2 DEF ReplyOf, Serve, ServedByWorker
    <3>2. A = [status |-> 200, body |-> StoredBody(v, code), headers |-> h]
      BY <3>1
    <3>3. QED
      BY <2>2, <3>2
  <2>3. CASE ~Worker
    BY <2>1, <2>3 DEF ReplyOf, Serve
  <2>4. QED
    BY <2>2, <2>3
<1>5. QED
  BY <1>4 DEF Transformed

(* One response is shown as the same to all, and two as different ones. *)
LEMMA SameShown ==
  ASSUME NEW r \in Requests, NEW s \in Requests, NEW v \in Requests,
         NEW code \in Statuses, ~Unreadable(Response(v, code), Mask)
  PROVE  Transformed(ReplyOf(r, v, code)) = Transformed(ReplyOf(s, v, code))
  BY ShownReply

LEMMA ShownApart ==
  ASSUME NEW v \in Requests, NEW w \in Requests,
         NEW c \in Statuses, NEW d \in Statuses,
         ~Unreadable(Response(v, c), Mask), ~Unreadable(Response(w, d), Mask),
         Transformed(ReplyOf(v, v, c)) = Transformed(ReplyOf(w, w, d))
  PROVE  v = w
<1>1. StoredBody(v, c) = StoredBody(w, d)
  BY ShownReply
<1>2. Shown(c) \X {v} = Shown(d) \X {w}
  BY <1>1 DEF StoredBody
<1>3. PICK x : x \in Shown(c)
  BY DEF Shown
<1>4. <<x, v>> \in Shown(d) \X {w}
  BY <1>2, <1>3
<1>5. QED
  BY <1>4

-----------------------------------------------------------------------------
(* -------------------------- what a step changes ------------------------ *)
LEMMA ReplyAfter ==
  ASSUME OutcallTypes, NEW r \in Requests, NEW x, Replied(r, x)
  PROVE  /\ reply'[r] = x
         /\ \A s \in Requests \ {r} : reply'[s] = reply[s]
         /\ reply' = [s \in Requests |-> reply'[s]]
<1>1. reply = [s \in Requests |-> reply[s]]
  BY DEF OutcallTypes
<1>2. reply' = [s \in Requests |-> IF s = r THEN x ELSE reply[s]]
  BY <1>1, Zenon DEF Replied
<1>3. QED
  BY <1>2

LEMMA AskAfter ==
  ASSUME OutcallTypes, NEW n \in Tries, Ask(n)
  PROVE  /\ attempt'[n] = [pc |-> "open", start |-> now, result |-> attempt[n].result]
         /\ \A m \in Tries \ {n} : attempt'[m] = attempt[m]
         /\ attempt' = [m \in Tries |-> attempt'[m]]
<1> DEFINE A == [pc |-> attempt[n].pc, start |-> attempt[n].start,
                 result |-> attempt[n].result]
<1>1. attempt = [m \in Tries |-> attempt[m]] /\ attempt[n] = A
  BY DEF OutcallTypes
<1>2. attempt' = [m \in Tries |-> IF m = n THEN [[attempt[n] EXCEPT !.pc = "open"]
                                                   EXCEPT !.start = now]
                                           ELSE attempt[m]]
  BY <1>1, Zenon DEF Ask
<1>3. attempt'[n] = [[A EXCEPT !.pc = "open"] EXCEPT !.start = now]
  BY <1>1, <1>2
<1>4. QED
  BY <1>2, <1>3

LEMMA SettleAfter ==
  ASSUME OutcallTypes, NEW n \in Tries, Settle(n)
  PROVE  /\ attempt'[n] =
              [pc |-> "ended", start |-> attempt[n].start,
               result |-> IF Agreeing(n) = {} THEN NoReply
                          ELSE Transformed(reply[CHOOSE x \in Agreeing(n) : TRUE])]
         /\ \A m \in Tries \ {n} : attempt'[m] = attempt[m]
         /\ attempt' = [m \in Tries |-> attempt'[m]]
<1> DEFINE A == [pc |-> attempt[n].pc, start |-> attempt[n].start,
                 result |-> attempt[n].result]
           x == IF Agreeing(n) = {} THEN NoReply
                ELSE Transformed(reply[CHOOSE y \in Agreeing(n) : TRUE])
<1>1. attempt = [m \in Tries |-> attempt[m]] /\ attempt[n] = A
  BY DEF OutcallTypes
<1>2. attempt' = [attempt EXCEPT ![n].pc = "ended", ![n].result = x]
  BY DEF Settle
<1> HIDE DEF x
<1>3. attempt' = [m \in Tries |-> IF m = n THEN [[attempt[n] EXCEPT !.pc = "ended"]
                                                   EXCEPT !.result = x]
                                           ELSE attempt[m]]
  BY <1>1, <1>2, Zenon
<1>4. attempt'[n] = [[A EXCEPT !.pc = "ended"] EXCEPT !.result = x]
  BY <1>1, <1>3
<1>5. attempt'[n] = [pc |-> "ended", start |-> attempt[n].start, result |-> x]
  BY <1>4
<1>6. QED
  BY <1>3, <1>5 DEF x

LEMMA StatusAfter ==
  ASSUME OutcallTypes, NEW r \in Requests, NEW x, Becomes(r, x)
  PROVE  /\ status'[r] = x
         /\ \A s \in Requests \ {r} : status'[s] = status[s]
  BY DEF OutcallTypes, Becomes

LEMMA GrantAfter ==
  ASSUME OutcallTypes, NEW r \in Requests, NEW x, Grant(r, x)
  PROVE  /\ lease'[KeyOf[r]] = [until |-> now + TTL, answer |-> x]
         /\ \A k \in Keys \ {KeyOf[r]} : lease'[k] = lease[k]
  BY RequestFacts DEF OutcallTypes, Grant

-----------------------------------------------------------------------------
(* ------------------------- what keeps the leases ----------------------- *)
LeasesInv == /\ HoldersLease /\ SaidByUpstream /\ LeasedAnswers /\ Remembered
             /\ WaitersLease

(* Attempts that have sent requests began when they began, and requests    *)
(* neither get a key nor come back.                                        *)
Calm ==
  \A s \in Requests :
    /\ status'[s] # "idle" => StartOf(s)' = StartOf(s)
    /\ status'[s] = "forwarding" => status[s] = "forwarding"
    /\ status'[s] = "waiting" =>
         status[s] = "waiting" \/ (Running(KeyOf[s]) /\ StartOf(s) <= now)
    /\ status[s] = "ended" => status'[s] = "ended"

(* A key may be freed if nobody holds it, and if its response has expired, *)
(* or there is none, or it is counted as forgotten.                        *)
Freed(k) ==
  /\ lease'[k] = Free
  /\ \A s \in Requests : KeyOf[s] = k => status'[s] # "forwarding"
  /\ \/ ~Running(k) \/ lease[k].answer = Nobody
     \/ \A v \in Requests : KeyOf[v] = k /\ said[v] # 0 => v[1] \in forgotten'

LEMMA QuietStep ==
  ASSUME CallsInv, UNCHANGED <<now, said>>, forgotten \subseteq forgotten',
         Calm, \A k \in Keys : lease'[k] = lease[k] \/ Freed(k)
  PROVE  LeasesInv'
<1>0. /\ now \in Nat /\ \A s \in Requests : StartOf(s) \in Nat /\ KeyOf[s] \in Keys
      /\ \A k \in Keys : lease[k].until \in Nat /\ lease[k].answer \in Requests \cup {Nobody}
      /\ HoldersLease /\ SaidByUpstream /\ LeasedAnswers /\ Remembered /\ WaitersLease
  BY RequestFacts DEF CallsInv, OutcallTypes, StartOf
<1>1. \A k \in Keys : lease'[k] = lease[k] \/ (lease'[k].until = 0 /\ lease'[k].answer = Nobody)
  BY DEF Freed, Free
<1>2. \A v \in Requests : said[v] # 0 => status'[v] = "ended" /\ StartOf(v)' = StartOf(v)
  BY <1>0 DEF SaidByUpstream, Calm
<1>3. HoldersLease'
  <2> SUFFICES ASSUME NEW r \in Requests, status'[r] = "forwarding"
               PROVE  /\ lease'[KeyOf[r]].until > now /\ lease'[KeyOf[r]].answer = Nobody
                      /\ lease'[KeyOf[r]].until <= StartOf(r)' + Spread + TTL
                      /\ \A s \in Requests : KeyOf[s] = KeyOf[r]
                           /\ status'[s] = "forwarding" => s = r
    BY DEF HoldersLease, Running
  <2>1. lease'[KeyOf[r]] = lease[KeyOf[r]]
    BY <1>0 DEF Freed
  <2>2. status[r] = "forwarding" /\ StartOf(r)' = StartOf(r)
    BY DEF Calm
  <2>3. QED
    BY <1>0, <2>1, <2>2 DEF HoldersLease, Calm, Running
<1>4. SaidByUpstream'
  BY <1>0, <1>2 DEF SaidByUpstream
<1>5. LeasedAnswers'
  BY <1>0, <1>1, <1>2 DEF LeasedAnswers
<1>6. Remembered'
  <2> SUFFICES ASSUME NEW v \in Requests, said[v] # 0, v[1] \notin forgotten',
                      now < StartOf(v) + TTL
               PROVE  lease'[KeyOf[v]] = lease[KeyOf[v]]
    BY <1>0, <1>2 DEF Remembered
  <2>1. /\ lease[KeyOf[v]].answer = v /\ lease[KeyOf[v]].until >= StartOf(v) + TTL
    BY <1>0 DEF Remembered
  <2>2. Running(KeyOf[v]) /\ v # Nobody
    BY <1>0, <2>1, RequestFacts, TimeFacts DEF Running
  <2>3. QED
    BY <1>0, <2>1, <2>2 DEF Freed
<1>7. WaitersLease'
  BY <1>0, <1>1 DEF WaitersLease, Calm, Running
<1>8. QED
  BY <1>3, <1>4, <1>5, <1>6, <1>7 DEF LeasesInv

(* The key of r is leased, to r or to nobody. *)
LEMMA GrantStep ==
  ASSUME CallsInv, UNCHANGED <<now, said, attempt, forgotten>>,
         NEW r \in Requests, Sent(r), InTime(r), ~Running(KeyOf[r]),
         Grant(r, Nobody), Becomes(r, "forwarding") \/ Becomes(r, "ended")
  PROVE  LeasesInv'
<1> DEFINE k == KeyOf[r]
<1>0. /\ now \in Nat /\ k \in Keys /\ OutcallTypes
      /\ \A s \in Requests : StartOf(s) \in Nat /\ KeyOf[s] \in Keys
      /\ \A j \in Keys : lease[j].until \in Nat /\ lease[j].answer \in Requests \cup {Nobody}
      /\ HoldersLease /\ SaidByUpstream /\ LeasedAnswers /\ Remembered /\ WaitersLease
      /\ UNCHANGED <<now, forgotten, said>>
      /\ \A s \in Requests : StartOf(s)' = StartOf(s)
  BY RequestFacts DEF CallsInv, OutcallTypes, StartOf
<1>1. /\ lease'[k].until = now + TTL /\ lease'[k].answer = Nobody
      /\ \A j \in Keys \ {k} : lease'[j] = lease[j]
  <2>1. /\ lease'[KeyOf[r]] = [until |-> now + TTL, answer |-> Nobody]
        /\ \A j \in Keys \ {KeyOf[r]} : lease'[j] = lease[j]
    BY <1>0, GrantAfter
  <2>2. QED
    BY <2>1
<1>2. /\ status'[r] \in {"forwarding", "ended"} /\ status[r] = "idle"
      /\ \A s \in Requests \ {r} : status'[s] = status[s]
  BY <1>0, StatusAfter DEF Sent
<1>3. now <= StartOf(r) + Spread /\ ~(lease[k].until > now)
  BY DEF InTime, StartOf, Running
<1>4. \A s \in Requests : KeyOf[s] = k => status[s] # "forwarding"
  BY <1>0 DEF HoldersLease, Running
<1>5. HoldersLease'
  <2> SUFFICES ASSUME NEW s \in Requests, status'[s] = "forwarding"
               PROVE  /\ lease'[KeyOf[s]].until > now /\ lease'[KeyOf[s]].answer = Nobody
                      /\ lease'[KeyOf[s]].until <= StartOf(s) + Spread + TTL
                      /\ \A q \in Requests : KeyOf[q] = KeyOf[s]
                           /\ status'[q] = "forwarding" => q = s
    BY <1>0 DEF HoldersLease, Running
  <2>1. CASE s = r
    BY <1>0, <1>1, <1>2, <1>3, <1>4, <2>1, TimeFacts
  <2>2. CASE s # r
    BY <1>0, <1>1, <1>2, <1>4, <2>2 DEF HoldersLease, Running
  <2>3. QED
    BY <2>1, <2>2
<1>6. SaidByUpstream'
  BY <1>0, <1>2 DEF SaidByUpstream
<1>7. LeasedAnswers'
  BY <1>0, <1>1 DEF LeasedAnswers
<1>8. Remembered'
  <2> SUFFICES ASSUME NEW v \in Requests, said[v] # 0, v[1] \notin forgotten,
                      now < StartOf(v) + TTL
               PROVE  /\ lease'[KeyOf[v]].answer = v
                      /\ lease'[KeyOf[v]].until >= StartOf(v) + TTL
    BY <1>0 DEF Remembered
  <2>1. /\ lease[KeyOf[v]].answer = v
        /\ lease[KeyOf[v]].until >= StartOf(v) + TTL
    BY <1>0 DEF Remembered
  <2>2. KeyOf[v] # k
    BY <1>0, <1>3, <2>1, TimeFacts
  <2>3. QED
    BY <1>0, <1>1, <2>1, <2>2
<1>9. WaitersLease'
  BY <1>0, <1>1, <1>2 DEF WaitersLease
<1>10. QED
  BY <1>5, <1>6, <1>7, <1>8, <1>9 DEF LeasesInv

(* The holder's response is stored, with a lease of its own. *)
LEMMA AnswerStep ==
  ASSUME CallsInv, UNCHANGED <<now, attempt, forgotten>>,
         NEW r \in Requests, Answer(r), NEW code \in Statuses, Cacheable(code),
         ~Unreadable(Response(r, code), Mask), said' = [said EXCEPT ![r] = code]
  PROVE  LeasesInv'
<1> DEFINE k == KeyOf[r]
<1>0. /\ now \in Nat /\ k \in Keys /\ OutcallTypes
      /\ \A s \in Requests : StartOf(s) \in Nat /\ KeyOf[s] \in Keys
      /\ \A j \in Keys : lease[j].until \in Nat /\ lease[j].answer \in Requests \cup {Nobody}
      /\ HoldersLease /\ SaidByUpstream /\ LeasedAnswers /\ Remembered /\ WaitersLease
      /\ UNCHANGED now /\ \A s \in Requests : StartOf(s)' = StartOf(s)
      /\ UNCHANGED forgotten
  BY RequestFacts DEF CallsInv, OutcallTypes, StartOf
<1>1. /\ lease'[k].until = now + TTL /\ lease'[k].answer = r
      /\ \A j \in Keys \ {k} : lease'[j] = lease[j]
  <2>1. Grant(r, r)
    BY DEF Answer
  <2>2. /\ lease'[KeyOf[r]] = [until |-> now + TTL, answer |-> r]
        /\ \A j \in Keys \ {KeyOf[r]} : lease'[j] = lease[j]
    BY <1>0, <2>1, GrantAfter
  <2>3. QED
    BY <2>2
<1>2. /\ status'[r] = "ended" /\ status[r] = "forwarding"
      /\ \A s \in Requests \ {r} : status'[s] = status[s]
  BY <1>0, StatusAfter DEF Answer
<1>3. /\ lease[k].until > now /\ lease[k].answer = Nobody
      /\ lease[k].until <= StartOf(r) + Spread + TTL
      /\ \A s \in Requests : KeyOf[s] = k /\ status[s] = "forwarding" => s = r
  BY <1>0, <1>2 DEF HoldersLease, Running
<1>4. /\ said'[r] = code /\ code # 0
      /\ \A s \in Requests \ {r} : said'[s] = said[s]
  <2>1. said \in [Requests -> Statuses \cup {0}]
    BY <1>0 DEF OutcallTypes, OutcallTypeOK
  <2>2. code # 0
    BY DEF Cacheable
  <2>3. QED
    BY <2>1, <2>2
<1>5. r # Nobody /\ \A s \in Requests : s # Nobody
  BY RequestFacts
<1>5a. \A s \in Requests : StartOf(s) <= now \/ status[s] = "idle"
  BY RequestFacts DEF CallsInv, Sequential, StartOf
<1>6. HoldersLease'
  <2> SUFFICES ASSUME NEW s \in Requests, status'[s] = "forwarding"
               PROVE  /\ lease'[KeyOf[s]].until > now /\ lease'[KeyOf[s]].answer = Nobody
                      /\ lease'[KeyOf[s]].until <= StartOf(s) + Spread + TTL
                      /\ \A q \in Requests : KeyOf[q] = KeyOf[s]
                           /\ status'[q] = "forwarding" => q = s
    BY <1>0 DEF HoldersLease, Running
  <2>1. s # r /\ KeyOf[s] # k
    BY <1>2, <1>3
  <2>2. QED
    BY <1>0, <1>1, <1>2, <2>1 DEF HoldersLease, Running
<1>7. SaidByUpstream'
  BY <1>0, <1>2, <1>4 DEF SaidByUpstream
<1>8. LeasedAnswers'
  <2> SUFFICES ASSUME NEW j \in Keys, lease'[j].answer # Nobody
               PROVE  /\ KeyOf[lease'[j].answer] = j /\ said'[lease'[j].answer] # 0
                      /\ lease'[j].until
                           < attempt[lease'[j].answer[1]].start + Spread + 2 * TTL
    BY DEF LeasedAnswers, StartOf
  <2>1. CASE j = k
    BY <1>0, <1>1, <1>3, <1>4, <2>1, TimeFacts DEF StartOf
  <2>2. CASE j # k
    BY <1>0, <1>1, <1>4, <2>2, TimeFacts DEF LeasedAnswers, StartOf
  <2>3. QED
    BY <2>1, <2>2
<1>9. Remembered'
  <2> SUFFICES ASSUME NEW v \in Requests, said'[v] # 0, v[1] \notin forgotten,
                      now < StartOf(v) + TTL
               PROVE  /\ lease'[KeyOf[v]].answer = v
                      /\ lease'[KeyOf[v]].until >= StartOf(v) + TTL
    BY <1>0 DEF Remembered
  <2>1. CASE v = r
    BY <1>0, <1>1, <1>2, <1>5a, <2>1, TimeFacts
  <2>2. CASE v # r
    BY <1>0, <1>1, <1>3, <1>4, <1>5, <2>2 DEF Remembered
  <2>3. QED
    BY <2>1, <2>2
<1>10. WaitersLease'
  <2> SUFFICES ASSUME NEW s \in Requests, status'[s] = "waiting",
                      lease'[KeyOf[s]].answer # Nobody
               PROVE  lease'[KeyOf[s]].until > StartOf(s)
    BY <1>0 DEF WaitersLease
  <2>1. s # r /\ status[s] = "waiting"
    BY <1>2
  <2>2. CASE KeyOf[s] = k
    BY <1>0, <1>1, <1>5a, <2>1, <2>2, TimeFacts
  <2>3. CASE KeyOf[s] # k
    BY <1>0, <1>1, <2>1, <2>3 DEF WaitersLease
  <2>4. QED
    BY <2>2, <2>3
<1>11. QED
  BY <1>6, <1>7, <1>8, <1>9, <1>10 DEF LeasesInv

-----------------------------------------------------------------------------
(* ---------------------- what keeps the replies true -------------------- *)
(* A request gets no news; or the news of a failure; or a response that    *)
(* was said to one of its key, with a reply made of it.                    *)
NoNews(s) == /\ got'[s] = got[s] /\ reply'[s] = reply[s]
             /\ status'[s] = "ended" => status[s] = "ended" \/ s \in faulty'

BadNews(s) == /\ got'[s] = got[s] /\ status'[s] = "ended" /\ s \in faulty'
              /\ Failing(reply'[s])

GoodNews(s) ==
  \E v \in Requests :
    /\ got'[s] = v /\ status'[s] = "ended" /\ reply'[s] = ReplyOf(s, v, said'[v])
    /\ KeyOf[v] = KeyOf[s] /\ said'[v] # 0
    /\ StartOf(s)' < StartOf(v)' + Spread + 2 * TTL

LEMMA NewsStep ==
  ASSUME CallsInv, faulty \subseteq faulty',
         \A s \in Requests :
           /\ status[s] = "ended" => status'[s] = "ended" /\ StartOf(s)' = StartOf(s)
           /\ said[s] # 0 => said'[s] = said[s] /\ StartOf(s)' = StartOf(s)
           /\ NoNews(s) \/ BadNews(s) \/ GoodNews(s)
  PROVE  Answered' /\ RepliesMade'
<1> SUFFICES ASSUME NEW s \in Requests
             PROVE  /\ got'[s] # Nobody =>
                         /\ status'[s] = "ended"
                         /\ KeyOf[got'[s]] = KeyOf[s] /\ said'[got'[s]] # 0
                         /\ StartOf(s)' < attempt'[got'[s][1]].start + Spread + 2 * TTL
                    /\ status'[s] = "ended" => s \in faulty' \/ Genuine(s)'
                    /\ reply'[s] # NoReply =>
                         Genuine(s)' \/ (s \in faulty' /\ Failing(reply'[s]))
  BY DEF Answered, RepliesMade, StartOf
<1>0. /\ Answered /\ RepliesMade
      /\ got[s] \in Requests \cup {Nobody}
  BY DEF CallsInv, OutcallTypes
<1>1. got[s] # Nobody =>
        /\ status[s] = "ended" /\ KeyOf[got[s]] = KeyOf[s] /\ said[got[s]] # 0
        /\ said'[got[s]] = said[got[s]]
        /\ StartOf(s)' < attempt'[got[s][1]].start + Spread + 2 * TTL
  BY <1>0 DEF Answered, StartOf
<1>2. CASE NoNews(s)
  BY <1>0, <1>1, <1>2 DEF NoNews, RepliesMade, Genuine
<1>3. CASE BadNews(s)
  BY <1>1, <1>3 DEF BadNews
<1>4. CASE GoodNews(s)
  <2>1. PICK v \in Requests :
          /\ got'[s] = v /\ status'[s] = "ended" /\ reply'[s] = ReplyOf(s, v, said'[v])
          /\ KeyOf[v] = KeyOf[s] /\ said'[v] # 0
          /\ StartOf(s)' < attempt'[v[1]].start + Spread + 2 * TTL
    BY <1>4 DEF GoodNews, StartOf
  <2>2. Genuine(s)'
    BY <2>1, RequestFacts DEF Genuine
  <2>3. QED
    BY <2>1, <2>2
<1>5. QED
  BY <1>2, <1>3, <1>4

-----------------------------------------------------------------------------
(* -------------------------- a request at the proxy --------------------- *)
LEMMA SameAttempts ==
  ASSUME CallsInv, UNCHANGED <<now, attempt>>,
         \A s \in Requests : status'[s] # "idle" =>
           status[s] # "idle" \/ attempt[s[1]].pc # "idle"
  PROVE  Sequential'
<1>1. Sequential
  BY DEF CallsInv
<1>2. QED
  BY <1>1 DEF Sequential

(* What a request's step leaves is of the right types. *)
Typed ==
  /\ lease' \in [Keys -> [until : Nat, answer : Requests \cup {Nobody}]]
  /\ got' \in [Requests -> Requests \cup {Nobody}]
  /\ said' \in [Requests -> Statuses \cup {0}]
  /\ reply' = [s \in Requests |-> reply'[s]]
  /\ faulty' \subseteq Requests

LEMMA RequestTypes ==
  ASSUME OutcallTypes, Answered', Typed,
         UNCHANGED <<now, attempt, forgotten, server, stops>>,
         NEW r \in Requests,
         NEW x \in {"forwarding", "waiting", "ended"}, Becomes(r, x),
         \A s \in Requests \ {r} : reply'[s] = reply[s],
         reply'[r] # NoReply => x = "ended",
         x # "ended" => server[KeyOf[r]] # "down"
  PROVE  OutcallTypes'
<1>1. status' \in [Requests -> {"idle", "forwarding", "waiting", "ended"}]
  BY DEF OutcallTypes, Becomes
<1>2. status'[r] = x /\ \A s \in Requests \ {r} : status'[s] = status[s]
  BY StatusAfter
<1>3. \A k \in Keys : InFlight(k)' # {} => server'[k] # "down"
  <2> SUFFICES ASSUME NEW k \in Keys, NEW s \in Requests, KeyOf[s] = k,
                      status'[s] \in {"forwarding", "waiting"}
               PROVE  server[k] # "down"
    BY DEF InFlight
  <2>1. CASE s = r
    BY <1>2, <2>1
  <2>2. CASE s # r
    <3>1. s \in InFlight(k)
      BY <1>2, <2>2 DEF InFlight
    <3>2. QED
      BY <3>1 DEF OutcallTypes, OutcallTypeOK
  <2>3. QED
    BY <2>1, <2>2
<1>4. \A s \in Requests : reply'[s] # NoReply => status'[s] = "ended"
  BY <1>2 DEF OutcallTypes, OutcallTypeOK
<1>5. \A s \in Requests : got'[s] # Nobody => said'[got'[s]] # 0
  BY DEF Answered
<1>6. ProcessTypeOK' /\ forgotten' \subseteq Tries
  BY DEF OutcallTypes, OutcallTypeOK, ProcessTypeOK
<1>7. /\ attempt' = [n \in Tries |-> [pc     |-> attempt'[n].pc,
                                      start  |-> attempt'[n].start,
                                      result |-> attempt'[n].result]]
      /\ \A n \in Tries : /\ attempt'[n].start \in Nat
                          /\ attempt'[n].pc \in {"idle", "open", "ended"}
  BY DEF OutcallTypes, OutcallTypeOK
<1>8. OutcallTypeOK'
  BY <1>3, <1>4, <1>5, <1>6, <1>7 DEF OutcallTypeOK, Typed
<1>9. QED
  BY <1>1, <1>7, <1>8 DEF OutcallTypes, Typed

LEMMA TypedNow ==
  ASSUME OutcallTypes
  PROVE  /\ now \in Nat
         /\ lease \in [Keys -> [until : Nat, answer : Requests \cup {Nobody}]]
         /\ got \in [Requests -> Requests \cup {Nobody}]
         /\ said \in [Requests -> Statuses \cup {0}]
         /\ status \in [Requests -> {"idle", "forwarding", "waiting", "ended"}]
         /\ reply = [s \in Requests |-> reply[s]]
         /\ faulty \subseteq Requests
  BY DEF OutcallTypes, OutcallTypeOK

LEMMA LeaseTyped ==
  ASSUME OutcallTypes, NEW r \in Requests, NEW a \in Requests \cup {Nobody},
         Grant(r, a) \/ lease' = [lease EXCEPT ![KeyOf[r]] = Free]
  PROVE  lease' \in [Keys -> [until : Nat, answer : Requests \cup {Nobody}]]
<1>1. /\ [until |-> now + TTL, answer |-> a]
            \in [until : Nat, answer : Requests \cup {Nobody}]
      /\ Free \in [until : Nat, answer : Requests \cup {Nobody}]
  BY TypedNow, TimeFacts DEF Free
<1>2. QED
  BY <1>1, TypedNow DEF Grant

(* The parts of the invariant put together. *)
LEMMA Together ==
  ASSUME OutcallTypes', Sequential', LeasesInv', Answered', RepliesMade'
  PROVE  CallsInv'
  BY DEF CallsInv, LeasesInv

LEMMA ForwardKeeps ==
  ASSUME CallsInv, NEW r \in Requests, Arrive(r), Forward(r),
         UNCHANGED <<now, attempt, forgotten, server, stops>>
  PROVE  CallsInv'
<1>0. /\ OutcallTypes /\ Sent(r) /\ InTime(r) /\ Accepts(KeyOf[r])
      /\ UNCHANGED <<said, reply, faulty, got>> /\ status[r] = "idle"
      /\ Becomes(r, "forwarding") /\ ~Running(KeyOf[r]) /\ Grant(r, Nobody)
  BY DEF CallsInv, Arrive, Sent, Forward
<1>1. LeasesInv'
  BY <1>0, GrantStep
<1>2. /\ status'[r] = "forwarding"
      /\ \A s \in Requests \ {r} : status'[s] = status[s]
  BY <1>0, StatusAfter
<1>3. Answered' /\ RepliesMade'
  <2>1. \A s \in Requests : StartOf(s)' = StartOf(s) /\ NoNews(s)
    BY <1>0, <1>2 DEF StartOf, NoNews
  <2>2. QED
    BY <1>0, <1>2, <2>1, NewsStep
<1>4. Sequential'
  BY <1>0, <1>2, SameAttempts DEF Sent
<1>5. Typed
  BY <1>0, TypedNow, LeaseTyped DEF Typed
<1>6. OutcallTypes'
  <2>1. reply'[r] = NoReply
    BY <1>0 DEF OutcallTypes, OutcallTypeOK
  <2>2. QED
    BY <1>0, <1>3, <1>5, <2>1, RequestTypes DEF Accepts
<1>7. QED
  BY <1>1, <1>3, <1>4, <1>6, Together

(* A step that grants no lease, and frees the one of r or none. *)
LEMMA FinishLeases ==
  ASSUME CallsInv, UNCHANGED <<now, said, attempt, forgotten>>, NEW r \in Requests,
         \/ Becomes(r, "ended") /\ UNCHANGED lease
         \/ Release(r)
         \/ Becomes(r, "waiting") /\ UNCHANGED lease /\ Sent(r) /\ Running(KeyOf[r])
  PROVE  LeasesInv'
<1>0. /\ OutcallTypes /\ Sequential /\ HoldersLease
      /\ status'[r] \in {"ended", "waiting"}
      /\ status'[r] = "waiting" =>
           status[r] = "idle" /\ Running(KeyOf[r]) /\ attempt[r[1]].pc # "idle"
      /\ \A s \in Requests \ {r} : status'[s] = status[s]
  BY StatusAfter DEF CallsInv, Release, Sent
<1>1. Calm
  BY <1>0, RequestFacts DEF Calm, StartOf, Sequential
<1>2. \A k \in Keys : lease'[k] = lease[k] \/ Freed(k)
  <2>1. CASE UNCHANGED lease
    BY <2>1
  <2>2. CASE Release(r)
    <3>1. /\ lease'[KeyOf[r]] = Free /\ lease[KeyOf[r]].answer = Nobody
          /\ \A k \in Keys \ {KeyOf[r]} : lease'[k] = lease[k]
          /\ status[r] = "forwarding" /\ status'[r] = "ended"
      BY <1>0, <2>2, TypedNow, RequestFacts, StatusAfter DEF Release
    <3>2. Freed(KeyOf[r])
      BY <1>0, <3>1 DEF Freed, HoldersLease
    <3>3. QED
      BY <3>1, <3>2
  <2>3. QED
    BY <2>1, <2>2
<1>3. QED
  BY <1>1, <1>2, QuietStep

LEMMA WaitKeeps ==
  ASSUME CallsInv, NEW r \in Requests, Arrive(r), Wait(r),
         UNCHANGED <<now, attempt, forgotten, server, stops>>
  PROVE  CallsInv'
<1>0. /\ OutcallTypes /\ Sent(r) /\ Accepts(KeyOf[r]) /\ Running(KeyOf[r])
      /\ UNCHANGED <<said, reply, faulty, got, lease>> /\ status[r] = "idle"
      /\ Becomes(r, "waiting")
  BY DEF CallsInv, Arrive, Wait
<1>1. LeasesInv'
  BY <1>0, FinishLeases
<1>2. /\ status'[r] = "waiting"
      /\ \A s \in Requests \ {r} : status'[s] = status[s]
  BY <1>0, StatusAfter
<1>3. Answered' /\ RepliesMade'
  <2>1. \A s \in Requests : StartOf(s)' = StartOf(s) /\ NoNews(s)
    BY <1>0, <1>2 DEF StartOf, NoNews
  <2>2. QED
    BY <1>0, <1>2, <2>1, NewsStep
<1>4. Sequential'
  BY <1>0, <1>2, SameAttempts DEF Sent
<1>5. Typed
  BY <1>0, TypedNow DEF Typed
<1>6. OutcallTypes'
  <2>1. reply'[r] = NoReply
    BY <1>0 DEF OutcallTypes, OutcallTypeOK
  <2>2. QED
    BY <1>0, <1>3, <1>5, <2>1, RequestTypes DEF Accepts
<1>7. QED
  BY <1>1, <1>3, <1>4, <1>6, Together

(* A request ends, with news or without. *)
LEMMA EndKeeps ==
  ASSUME CallsInv, LeasesInv', UNCHANGED <<now, attempt, forgotten, server, stops>>,
         NEW r \in Requests, Becomes(r, "ended"),
         status[r] # "idle" \/ attempt[r[1]].pc # "idle",
         Typed, faulty \subseteq faulty',
         \A s \in Requests : said[s] # 0 => said'[s] = said[s],
         \A s \in Requests \ {r} : got'[s] = got[s] /\ reply'[s] = reply[s],
         NoNews(r) \/ BadNews(r) \/ GoodNews(r)
  PROVE  CallsInv'
<1>0. OutcallTypes
  BY DEF CallsInv
<1>1. /\ status'[r] = "ended"
      /\ \A s \in Requests \ {r} : status'[s] = status[s]
  BY <1>0, StatusAfter
<1>2. Answered' /\ RepliesMade'
  <2>1. \A s \in Requests \ {r} : NoNews(s)
    BY <1>1 DEF NoNews
  <2>2. \A s \in Requests : StartOf(s)' = StartOf(s)
    BY DEF StartOf
  <2>3. QED
    BY <1>1, <2>1, <2>2, NewsStep
<1>3. Sequential'
  BY <1>1, SameAttempts
<1>4. OutcallTypes'
  BY <1>0, <1>2, RequestTypes
<1>5. QED
  BY <1>2, <1>3, <1>4, Together

LEMMA NotServedKeeps ==
  ASSUME CallsInv, NEW r \in Requests, NotServed(r),
         UNCHANGED <<now, attempt, forgotten, server, stops>>
  PROVE  CallsInv'
<1>0. /\ OutcallTypes /\ Sent(r) /\ Becomes(r, "ended")
      /\ UNCHANGED <<said, reply, got, lease>> /\ faulty' = faulty \cup {r}
  BY DEF CallsInv, NotServed, GiveUp, Fault
<1>1. LeasesInv'
  BY <1>0, FinishLeases
<1>2. Typed
  BY <1>0, TypedNow DEF Typed
<1>3. NoNews(r)
  BY <1>0 DEF NoNews
<1>4. QED
  BY <1>0, <1>1, <1>2, <1>3, EndKeeps DEF Sent

(* An apology is no success. *)
LEMMA ApologyStatus ==
  ASSUME NEW r \in Requests
  PROVE  Failing(Apology(r))
<1>1. Transformed(Apology(r)) = [status |-> IF Worker THEN 500 ELSE 502,
                                 body |-> "error", headers |-> {}]
  BY DEF Transformed, Apology
<1>2. QED
  BY <1>1 DEF Failing

LEMMA ObtainLostKeeps ==
  ASSUME CallsInv, NEW r \in Requests, ObtainLost(r),
         UNCHANGED <<now, attempt, forgotten, server, stops>>
  PROVE  CallsInv'
<1>0. /\ OutcallTypes /\ Sent(r) /\ InTime(r) /\ Becomes(r, "ended")
      /\ UNCHANGED <<said, got>> /\ faulty' = faulty \cup {r}
      /\ ~Running(KeyOf[r]) /\ Grant(r, Nobody) /\ Replied(r, Apology(r))
  BY DEF CallsInv, ObtainLost, Lose, Fault
<1>1. LeasesInv'
  BY <1>0, GrantStep
<1>2. /\ reply'[r] = Apology(r) /\ reply' = [s \in Requests |-> reply'[s]]
      /\ \A s \in Requests \ {r} : reply'[s] = reply[s]
  BY <1>0, ReplyAfter
<1>3. Typed
  BY <1>0, <1>2, TypedNow, LeaseTyped DEF Typed
<1>4. BadNews(r)
  BY <1>0, <1>2, StatusAfter, ApologyStatus DEF BadNews
<1>5. QED
  BY <1>0, <1>1, <1>2, <1>3, <1>4, EndKeeps DEF Sent

LEMMA UpstreamAnswersKeeps ==
  ASSUME CallsInv, NEW r \in Requests, UpstreamAnswers(r),
         UNCHANGED <<now, attempt, forgotten, server, stops>>
  PROVE  CallsInv'
<1>1. PICK code \in {c \in Statuses : Cacheable(c)} :
        /\ ~Unreadable(Response(r, code), Mask)
        /\ Answer(r) /\ said' = [said EXCEPT ![r] = code]
        /\ IF got'[r] = r THEN Replied(r, ReplyOf(r, r, code)) /\ UNCHANGED faulty
                          ELSE UNCHANGED reply /\ Fault(r)
  BY DEF UpstreamAnswers
<1>2. /\ OutcallTypes /\ SaidByUpstream /\ code \in Statuses /\ Cacheable(code)
      /\ Becomes(r, "ended") /\ Grant(r, r) /\ status[r] = "forwarding"
      /\ got' = [got EXCEPT ![r] = r] \/ UNCHANGED got
      /\ StartOf(r)' = StartOf(r) /\ StartOf(r) \in Nat
  BY <1>1, RequestFacts DEF CallsInv, Answer, OutcallTypes, StartOf
<1>3. LeasesInv'
  BY <1>1, <1>2, AnswerStep
<1>4. /\ said[r] = 0 /\ said'[r] = code /\ code # 0
      /\ \A s \in Requests \ {r} : said'[s] = said[s]
      /\ said' \in [Requests -> Statuses \cup {0}]
  BY <1>1, <1>2, TypedNow DEF SaidByUpstream, Cacheable
<1>5. /\ got' \in [Requests -> Requests \cup {Nobody}]
      /\ \A s \in Requests \ {r} : got'[s] = got[s]
      /\ got'[r] # r => got'[r] = got[r]
  BY <1>2, TypedNow
<1>6. /\ reply' = [s \in Requests |-> reply'[s]]
      /\ \A s \in Requests \ {r} : reply'[s] = reply[s]
      /\ IF got'[r] = r THEN reply'[r] = ReplyOf(r, r, code)
                        ELSE reply'[r] = reply[r] /\ r \in faulty'
      /\ faulty \subseteq faulty' /\ faulty' \subseteq Requests
  <2>1. CASE got'[r] = r
    BY <1>1, <1>2, <2>1, ReplyAfter, TypedNow
  <2>2. CASE got'[r] # r
    BY <1>1, <1>2, <2>2, TypedNow DEF Fault
  <2>3. QED
    BY <2>1, <2>2
<1>7. Typed
  BY <1>2, <1>4, <1>5, <1>6, LeaseTyped DEF Typed
<1>8. NoNews(r) \/ GoodNews(r)
  <2>1. CASE got'[r] = r
    <3>1. /\ status'[r] = "ended" /\ said'[r] # 0
          /\ reply'[r] = ReplyOf(r, r, said'[r])
          /\ StartOf(r)' < StartOf(r)' + Spread + 2 * TTL
      BY <1>2, <1>4, <1>6, <2>1, StatusAfter, TimeFacts
    <3>2. QED
      BY <2>1, <3>1 DEF GoodNews
  <2>2. CASE got'[r] # r
    BY <1>5, <1>6, <2>2 DEF NoNews
  <2>3. QED
    BY <2>1, <2>2
<1>9. QED
  BY <1>2, <1>3, <1>4, <1>5, <1>6, <1>7, <1>8, EndKeeps

LEMMA UpstreamRefusesKeeps ==
  ASSUME CallsInv, NEW r \in Requests, UpstreamRefuses(r),
         UNCHANGED <<now, attempt, forgotten, server, stops>>
  PROVE  CallsInv'
<1>1. PICK code \in {c \in Statuses : ~Cacheable(c)} :
        Release(r) /\ Replied(r, Relayed(r, code)) /\ Fault(r) /\ UNCHANGED said
  BY DEF UpstreamRefuses
<1>2. /\ OutcallTypes /\ code \notin 200 .. 500
      /\ Becomes(r, "ended") /\ status[r] = "forwarding" /\ UNCHANGED <<got, said>>
      /\ lease' = [lease EXCEPT ![KeyOf[r]] = Free] /\ faulty' = faulty \cup {r}
  BY <1>1 DEF CallsInv, Release, Fault, Cacheable
<1>3. LeasesInv'
  BY <1>1, FinishLeases
<1>4. /\ reply'[r] = Relayed(r, code) /\ reply' = [s \in Requests |-> reply'[s]]
      /\ \A s \in Requests \ {r} : reply'[s] = reply[s]
  BY <1>1, <1>2, ReplyAfter
<1>5. Typed
  BY <1>2, <1>4, TypedNow, LeaseTyped DEF Typed
<1>6. BadNews(r)
  <2>1. Transformed(Relayed(r, code)) =
          [status |-> code, body |-> Response(r, code).body, headers |-> {}]
    BY DEF Transformed, Relayed
  <2>2. Failing(reply'[r])
    BY <1>4, <2>1 DEF Failing
  <2>3. QED
    BY <1>2, <2>2, StatusAfter DEF BadNews
<1>7. QED
  BY <1>2, <1>3, <1>4, <1>5, <1>6, EndKeeps

LEMMA FindsResponseKeeps ==
  ASSUME CallsInv, NEW r \in Requests, FindsResponse(r),
         UNCHANGED <<now, attempt, forgotten, server, stops>>
  PROVE  CallsInv'
<1>0. PICK v : v = lease[KeyOf[r]].answer
  OBVIOUS
<1>1. /\ OutcallTypes /\ LeasedAnswers /\ WaitersLease
      /\ status[r] = "waiting" /\ v # Nobody /\ Becomes(r, "ended")
      /\ got' = [got EXCEPT ![r] = v] /\ Replied(r, ReplyOf(r, v, said[v]))
      /\ UNCHANGED <<lease, said, faulty>>
  BY <1>0 DEF CallsInv, FindsResponse, Share
<1>2. /\ v \in Requests /\ KeyOf[v] = KeyOf[r] /\ said[v] # 0
      /\ lease[KeyOf[r]].until < StartOf(v) + Spread + 2 * TTL
      /\ lease[KeyOf[r]].until > StartOf(r)
      /\ StartOf(r) \in Nat /\ StartOf(v) \in Nat /\ lease[KeyOf[r]].until \in Nat
  <2>1. v \in Requests /\ KeyOf[r] \in Keys /\ lease[KeyOf[r]].until \in Nat
    BY <1>0, <1>1, RequestFacts, TypedNow
  <2>2. /\ KeyOf[v] = KeyOf[r] /\ said[v] # 0
        /\ lease[KeyOf[r]].until < StartOf(v) + Spread + 2 * TTL
    BY <1>0, <1>1, <2>1 DEF LeasedAnswers
  <2>3. StartOf(r) \in Nat /\ StartOf(v) \in Nat
    BY <1>1, <2>1, RequestFacts DEF OutcallTypes, StartOf
  <2>4. QED
    BY <1>0, <1>1, <2>1, <2>2, <2>3 DEF WaitersLease
<1>3. LeasesInv'
  BY <1>1, FinishLeases
<1>4. /\ reply'[r] = ReplyOf(r, v, said[v]) /\ reply' = [s \in Requests |-> reply'[s]]
      /\ \A s \in Requests \ {r} : reply'[s] = reply[s]
  BY <1>1, ReplyAfter
<1>5. /\ got' \in [Requests -> Requests \cup {Nobody}] /\ got'[r] = v
      /\ \A s \in Requests \ {r} : got'[s] = got[s]
  BY <1>1, <1>2, TypedNow
<1>6. Typed
  BY <1>1, <1>4, <1>5, TypedNow DEF Typed
<1>7. GoodNews(r)
  <2>1. StartOf(r)' < StartOf(v)' + Spread + 2 * TTL
    BY <1>2, TimeFacts DEF StartOf
  <2>2. status'[r] = "ended" /\ said' = said
    BY <1>1, StatusAfter
  <2>3. QED
    BY <1>2, <1>4, <1>5, <2>1, <2>2 DEF GoodNews
<1>8. QED
  BY <1>1, <1>3, <1>4, <1>5, <1>6, <1>7, EndKeeps

LEMMA FailsKeeps ==
  ASSUME CallsInv, NEW r \in Requests, Fails(r),
         UNCHANGED <<now, attempt, forgotten, server, stops>>
  PROVE  CallsInv'
<1>1. /\ OutcallTypes /\ status[r] # "idle" /\ Becomes(r, "ended")
      /\ UNCHANGED lease \/ Release(r)
      /\ UNCHANGED <<got, said>> /\ faulty' = faulty \cup {r}
      /\ Replied(r, Apology(r)) \/ UNCHANGED reply
  BY DEF CallsInv, Fails, GiveUp, Release, Fault
<1>2. LeasesInv'
  BY <1>1, FinishLeases
<1>3. /\ reply' = [s \in Requests |-> reply'[s]]
      /\ reply'[r] \in {reply[r], Apology(r)}
      /\ \A s \in Requests \ {r} : reply'[s] = reply[s]
  BY <1>1, ReplyAfter, TypedNow
<1>4. lease' \in [Keys -> [until : Nat, answer : Requests \cup {Nobody}]]
  BY <1>1, TypedNow, LeaseTyped DEF Release
<1>5. Typed
  BY <1>1, <1>3, <1>4, TypedNow DEF Typed
<1>6. NoNews(r) \/ BadNews(r)
  BY <1>1, <1>3, StatusAfter, ApologyStatus DEF NoNews, BadNews
<1>7. QED
  BY <1>1, <1>2, <1>3, <1>5, <1>6, EndKeeps

LEMMA HandleKeeps ==
  ASSUME CallsInv, NEW r \in Requests, Handle(r)
  PROVE  CallsInv'
<1>1. UNCHANGED <<now, attempt, forgotten, server, stops>>
  BY DEF Handle, Progress
<1>2. CASE Arrive(r)
  BY <1>1, <1>2, ForwardKeeps, WaitKeeps DEF Arrive
<1>3. CASE NotServed(r)
  BY <1>1, <1>3, NotServedKeeps
<1>4. CASE ObtainLost(r)
  BY <1>1, <1>4, ObtainLostKeeps
<1>5. CASE UpstreamAnswers(r)
  BY <1>1, <1>5, UpstreamAnswersKeeps
<1>6. CASE UpstreamRefuses(r)
  BY <1>1, <1>6, UpstreamRefusesKeeps
<1>7. CASE FindsResponse(r)
  BY <1>1, <1>7, FindsResponseKeeps
<1>8. CASE Fails(r)
  BY <1>1, <1>8, FailsKeeps
<1>9. QED
  BY <1>2, <1>3, <1>4, <1>5, <1>6, <1>7, <1>8 DEF Handle, Progress

-----------------------------------------------------------------------------
(* --------------------- the canister and the processes ------------------ *)
LEMMA AskKeeps ==
  ASSUME CallsInv, NEW n \in Tries, Ask(n), UNCHANGED now
  PROVE  CallsInv'
<1>0. /\ OutcallTypes /\ Sequential /\ now \in Nat /\ attempt[n].pc = "idle"
      /\ \A m \in 1 .. n - 1 : attempt[m].pc = "ended"
      /\ UNCHANGED <<said, reply, faulty, forgotten, lease, status, got, server, stops>>
  BY DEF CallsInv, Ask, OutcallTypes
<1>1. /\ attempt'[n] = [pc |-> "open", start |-> now, result |-> attempt[n].result]
      /\ \A m \in Tries \ {n} : attempt'[m] = attempt[m]
      /\ attempt' = [m \in Tries |-> attempt'[m]]
  BY <1>0, AskAfter
<1>2. \A s \in Requests : status[s] # "idle" =>
        StartOf(s)' = StartOf(s) /\ attempt'[s[1]] = attempt[s[1]]
  BY <1>0, <1>1, RequestFacts DEF Sequential, StartOf
<1>3. OutcallTypes'
  <2>1. \A m \in Tries : /\ attempt'[m] = [pc     |-> attempt'[m].pc,
                                           start  |-> attempt'[m].start,
                                           result |-> attempt'[m].result]
                         /\ attempt'[m].start \in Nat
                         /\ attempt'[m].pc \in {"idle", "open", "ended"}
    BY <1>0, <1>1 DEF OutcallTypes, OutcallTypeOK
  <2>2. /\ attempt' = [m \in Tries |-> [pc     |-> attempt'[m].pc,
                                        start  |-> attempt'[m].start,
                                        result |-> attempt'[m].result]]
    BY <1>1, <2>1
  <2>3. OutcallTypeOK'
    BY <1>0, <2>1 DEF OutcallTypes, OutcallTypeOK, ProcessTypeOK, InFlight
  <2>4. QED
    BY <1>0, <2>1, <2>2, <2>3 DEF OutcallTypes
<1>4. Sequential'
  <2>1. \A m \in Tries :
          /\ attempt'[m].start <= now
          /\ attempt'[m].pc # "ended" => attempt'[m].result = NoReply
    BY <1>0, <1>1 DEF Sequential
  <2>2. ASSUME NEW m \in Tries, attempt'[m].pc # "idle", NEW l \in 1 .. m - 1
        PROVE  /\ attempt'[l].pc = "ended"
               /\ attempt'[l].start <= attempt'[m].start
    <3>1. l \in Tries /\ l # m
      BY OutcallAssumption DEF Tries
    <3>2. CASE m = n
      BY <1>0, <1>1, <2>1, <3>1, <3>2
    <3>3. CASE m # n
      <4>1. /\ attempt[l].pc = "ended" /\ attempt[l].start <= attempt[m].start
        BY <1>0, <1>1, <2>2, <3>3 DEF Sequential
      <4>2. l # n
        BY <1>0, <4>1
      <4>3. QED
        BY <1>1, <3>1, <3>3, <4>1, <4>2
    <3>4. QED
      BY <3>2, <3>3
  <2>3. \A s \in Requests : status'[s] # "idle" => attempt'[s[1]].pc # "idle"
    BY <1>0, <1>2 DEF Sequential
  <2>4. QED
    BY <1>0, <2>1, <2>2, <2>3 DEF Sequential
<1>5. LeasesInv'
  <2>1. Calm
    BY <1>0, <1>2 DEF Calm
  <2>2. QED
    BY <1>0, <2>1, QuietStep
<1>6. Answered' /\ RepliesMade'
  <2>1. \A s \in Requests :
          /\ status[s] = "ended" => StartOf(s)' = StartOf(s)
          /\ said[s] # 0 => StartOf(s)' = StartOf(s)
          /\ NoNews(s)
    BY <1>0, <1>2 DEF CallsInv, SaidByUpstream, NoNews
  <2>2. QED
    BY <1>0, <2>1, NewsStep
<1>7. QED
  BY <1>3, <1>4, <1>5, <1>6, Together

LEMMA SettleKeeps ==
  ASSUME CallsInv, NEW n \in Tries, Settle(n), UNCHANGED now
  PROVE  CallsInv'
<1>0. /\ OutcallTypes /\ Sequential /\ attempt[n].pc = "open"
      /\ UNCHANGED <<said, reply, faulty, forgotten, lease, status, got, server, stops>>
  BY DEF CallsInv, Settle, Open
<1>1. /\ attempt'[n].pc = "ended" /\ attempt'[n].start = attempt[n].start
      /\ attempt'[n] = [pc     |-> attempt'[n].pc,
                        start  |-> attempt'[n].start,
                        result |-> attempt'[n].result]
      /\ \A m \in Tries \ {n} : attempt'[m] = attempt[m]
      /\ attempt' = [m \in Tries |-> attempt'[m]]
  <2> DEFINE x == IF Agreeing(n) = {} THEN NoReply
                  ELSE Transformed(reply[CHOOSE y \in Agreeing(n) : TRUE])
  <2>1. /\ attempt'[n] = [pc |-> "ended", start |-> attempt[n].start, result |-> x]
        /\ \A m \in Tries \ {n} : attempt'[m] = attempt[m]
        /\ attempt' = [m \in Tries |-> attempt'[m]]
    BY <1>0, SettleAfter
  <2> HIDE DEF x
  <2>2. QED
    BY <2>1
<1>2. \A m \in Tries : attempt'[m].start = attempt[m].start
  BY <1>1
<1>3. \A s \in Requests : StartOf(s)' = StartOf(s)
  BY <1>2, RequestFacts DEF StartOf
<1>4. OutcallTypes'
  <2>1. \A m \in Tries : /\ attempt'[m] = [pc     |-> attempt'[m].pc,
                                           start  |-> attempt'[m].start,
                                           result |-> attempt'[m].result]
                         /\ attempt'[m].start \in Nat
                         /\ attempt'[m].pc \in {"idle", "open", "ended"}
    BY <1>0, <1>1 DEF OutcallTypes, OutcallTypeOK
  <2>2. /\ attempt' = [m \in Tries |-> [pc     |-> attempt'[m].pc,
                                        start  |-> attempt'[m].start,
                                        result |-> attempt'[m].result]]
    BY <1>1, <2>1
  <2>3. OutcallTypeOK'
    BY <1>0, <2>1 DEF OutcallTypes, OutcallTypeOK, ProcessTypeOK, InFlight
  <2>4. QED
    BY <1>0, <2>1, <2>2, <2>3 DEF OutcallTypes
<1>5. Sequential'
  <2>1. \A m \in Tries :
          /\ attempt'[m].start <= now
          /\ attempt'[m].pc # "ended" => attempt'[m].result = NoReply
    BY <1>0, <1>1 DEF Sequential
  <2>2. \A m \in Tries : /\ attempt'[m].pc = "idle" <=> attempt[m].pc = "idle"
                         /\ attempt[m].pc = "ended" => attempt'[m].pc = "ended"
    BY <1>0, <1>1
  <2>3. \A m \in Tries : \A l \in 1 .. m - 1 : l \in Tries
    BY OutcallAssumption DEF Tries
  <2>4. QED
    BY <1>0, <1>2, <2>1, <2>2, <2>3, RequestFacts DEF Sequential
<1>6. LeasesInv'
  <2>1. Calm
    BY <1>0, <1>3 DEF Calm
  <2>2. QED
    BY <1>0, <2>1, QuietStep
<1>7. Answered' /\ RepliesMade'
  <2>1. \A s \in Requests : NoNews(s)
    BY <1>0 DEF NoNews
  <2>2. QED
    BY <1>0, <1>3, <2>1, NewsStep
<1>8. QED
  BY <1>4, <1>5, <1>6, <1>7, Together

(* A process that goes, with its memory or without. *)
LEMMA GoneKeeps ==
  ASSUME CallsInv, NEW k \in Keys, Forgets(k), ProcessTypeOK',
         UNCHANGED <<now, got, attempt, said, reply>>,
         status' = [r \in Requests |-> IF r \in InFlight(k) THEN "ended" ELSE status[r]],
         faulty' = faulty \cup InFlight(k),
         \A j \in Keys \ {k} : server'[j] = server[j]
  PROVE  CallsInv'
<1>0. OutcallTypes /\ Sequential /\ SaidByUpstream
  BY DEF CallsInv
<1>1. \A s \in Requests :
        /\ status[s] # "idle" <=> status'[s] # "idle"
        /\ status'[s] # status[s] => KeyOf[s] = k /\ status'[s] = "ended" /\ s \in faulty'
        /\ KeyOf[s] = k => status'[s] \notin {"forwarding", "waiting"}
        /\ status'[s] # "idle" => s[1] \in Tries /\ attempt[s[1]].pc # "idle"
  BY <1>0, RequestFacts DEF InFlight, Sequential
<1>2. /\ forgotten \subseteq forgotten' /\ forgotten' \subseteq Tries
      /\ lease' \in [Keys -> [until : Nat, answer : Requests \cup {Nobody}]]
      /\ \A j \in Keys \ {k} : lease'[j] = lease[j]
      /\ \/ lease'[k] = lease[k]
         \/ /\ lease'[k] = Free
            /\ \A v \in Requests : KeyOf[v] = k /\ attempt[v[1]].pc # "idle"
                                     => v[1] \in forgotten'
  <2>1. CASE UNCHANGED <<lease, forgotten>>
    BY <1>0, <2>1 DEF OutcallTypes, OutcallTypeOK
  <2>2. CASE /\ lease' = [lease EXCEPT ![k] = Free]
             /\ forgotten' = forgotten \cup {n \in Tries : AgentOf[n] = k
                                                           /\ attempt[n].pc # "idle"}
    <3>1. Free \in [until : Nat, answer : Requests \cup {Nobody}]
      BY DEF Free
    <3>2. QED
      BY <1>0, <2>2, <3>1, RequestFacts, TypedNow DEF OutcallTypes, OutcallTypeOK
  <2>3. QED
    BY <2>1, <2>2 DEF Forgets
<1>3. LeasesInv'
  <2>1. Calm
    BY <1>1 DEF Calm, StartOf
  <2>2. Freed(k) \/ lease'[k] = lease[k]
    BY <1>0, <1>1, <1>2 DEF Freed, SaidByUpstream
  <2>3. QED
    BY <1>2, <2>1, <2>2, QuietStep
<1>4. Answered' /\ RepliesMade'
  <2>1. \A s \in Requests :
          /\ status[s] = "ended" => status'[s] = "ended"
          /\ StartOf(s)' = StartOf(s) /\ NoNews(s)
    BY <1>1 DEF NoNews, StartOf
  <2>2. QED
    BY <2>1, NewsStep
<1>5. Sequential'
  BY <1>1, SameAttempts
<1>6. OutcallTypes'
  <2>1. /\ status' \in [Requests -> {"idle", "forwarding", "waiting", "ended"}]
        /\ faulty' \subseteq Requests
    BY <1>0, TypedNow DEF InFlight
  <2>2. \A j \in Keys : InFlight(j)' # {} => server'[j] # "down"
    <3> SUFFICES ASSUME NEW j \in Keys, NEW s \in Requests, KeyOf[s] = j,
                        status'[s] \in {"forwarding", "waiting"}
                 PROVE  server'[j] # "down"
      BY DEF InFlight
    <3>1. j # k /\ s \in InFlight(j)
      BY <1>1 DEF InFlight
    <3>2. QED
      BY <1>0, <3>1 DEF OutcallTypes, OutcallTypeOK
  <2>3. \A s \in Requests : /\ reply'[s] # NoReply => status'[s] = "ended"
                            /\ got'[s] # Nobody => said'[got'[s]] # 0
    BY <1>0, <1>1 DEF OutcallTypes, OutcallTypeOK
  <2>4. OutcallTypeOK'
    BY <1>0, <1>2, <2>1, <2>2, <2>3 DEF OutcallTypes, OutcallTypeOK
  <2>5. QED
    BY <1>0, <1>2, <2>1, <2>4 DEF OutcallTypes
<1>7. QED
  BY <1>3, <1>4, <1>5, <1>6, Together

LEMMA OperateKeeps ==
  ASSUME CallsInv, NEW k \in Keys, Operate(k)
  PROVE  CallsInv'
<1>0. /\ OutcallTypes /\ ProcessTypeOK /\ k \in Servers
      /\ \A j \in Keys : InFlight(j) # {} => server[j] # "down"
  BY OutcallAssumption DEF CallsInv, OutcallTypes, OutcallTypeOK
<1>1. \A phase \in {"up", "draining", "down"} :
        Becoming(k, phase) /\ (Stopping \/ UNCHANGED stops)
          => /\ ProcessTypeOK' /\ server'[k] = phase
             /\ \A j \in Keys \ {k} : server'[j] = server[j]
  BY <1>0, ProcessAssumption, OutcallAssumption
  DEF Becoming, Stopping, ProcessTypeOK
<1>2. CASE KilledProxy(k)
  BY <1>1, <1>2, GoneKeeps DEF KilledProxy, Killed
<1>3. CASE DrainedProxy(k)
  <2>1. /\ ProcessTypeOK' /\ \A j \in Keys \ {k} : server'[j] = server[j]
        /\ Forgets(k) /\ UNCHANGED <<now, got, attempt, said, reply, status, faulty>>
        /\ InFlight(k) = {}
    BY <1>1, <1>3 DEF DrainedProxy, Drained
  <2>2. /\ status' = [r \in Requests |-> IF r \in InFlight(k) THEN "ended" ELSE status[r]]
        /\ faulty' = faulty \cup InFlight(k)
    BY <1>0, <2>1, TypedNow
  <2>3. QED
    BY <2>1, <2>2, GoneKeeps
<1>4. CASE /\ Drain(k) \/ Boots(k)
           /\ UNCHANGED <<vars, attempt, said, reply, faulty, forgotten>>
  <2>1. /\ ProcessTypeOK' /\ server'[k] # "down"
        /\ \A j \in Keys \ {k} : server'[j] = server[j]
        /\ UNCHANGED <<now, lease, status, got, attempt, said, reply, faulty, forgotten>>
    BY <1>1, <1>4 DEF Drain, Boots, vars
  <2>2. OutcallTypes'
    <3>1. \A j \in Keys : InFlight(j)' # {} => server'[j] # "down"
      BY <1>0, <2>1 DEF InFlight
    <3>2. OutcallTypeOK'
      BY <1>0, <2>1, <3>1 DEF OutcallTypes, OutcallTypeOK
    <3>3. QED
      BY <1>0, <2>1, <3>2 DEF OutcallTypes
  <2>3. LeasesInv'
    <3>1. Calm
      BY <2>1 DEF Calm, StartOf
    <3>2. QED
      BY <2>1, <3>1, QuietStep
  <2>4. Answered' /\ RepliesMade'
    <3>1. \A s \in Requests : StartOf(s)' = StartOf(s) /\ NoNews(s)
      BY <2>1 DEF NoNews, StartOf
    <3>2. QED
      BY <2>1, <3>1, NewsStep
  <2>5. Sequential'
    BY <2>1, SameAttempts
  <2>6. QED
    BY <2>2, <2>3, <2>4, <2>5, Together
<1>5. QED
  BY <1>2, <1>3, <1>4 DEF Operate

LEMMA ForgetKeeps ==
  ASSUME CallsInv, Forget,
         UNCHANGED <<now, server, stops, attempt, said, reply, faulty, forgotten>>
  PROVE  CallsInv'
<1>0. OutcallTypes /\ HoldersLease /\ UNCHANGED <<status, got>>
  BY DEF CallsInv, Forget
<1>1. PICK ks \in SUBSET {k \in Keys : ~Running(k)} :
        lease' = [k \in Keys |-> IF k \in ks THEN Free ELSE lease[k]]
  BY DEF Forget
<1>2. \A k \in Keys : \/ lease'[k] = lease[k]
                      \/ lease'[k] = Free /\ ~Running(k)
  BY <1>1
<1>3. LeasesInv'
  <2>1. Calm
    BY <1>0 DEF Calm, StartOf
  <2>2. \A k \in Keys : lease'[k] = lease[k] \/ Freed(k)
    BY <1>0, <1>2 DEF Freed, HoldersLease
  <2>3. QED
    BY <2>1, <2>2, QuietStep
<1>4. Answered' /\ RepliesMade'
  <2>1. \A s \in Requests : StartOf(s)' = StartOf(s) /\ NoNews(s)
    BY <1>0 DEF NoNews, StartOf
  <2>2. QED
    BY <1>0, <2>1, NewsStep
<1>5. Sequential'
  BY <1>0, SameAttempts
<1>6. OutcallTypes'
  <2>1. Free \in [until : Nat, answer : Requests \cup {Nobody}]
    BY DEF Free
  <2>2. lease' \in [Keys -> [until : Nat, answer : Requests \cup {Nobody}]]
    BY <1>0, <1>1, <2>1, TypedNow
  <2>3. OutcallTypeOK'
    BY <1>0 DEF OutcallTypes, OutcallTypeOK, ProcessTypeOK, InFlight
  <2>4. QED
    BY <1>0, <2>2, <2>3 DEF OutcallTypes
<1>7. QED
  BY <1>3, <1>4, <1>5, <1>6, Together

LEMMA PassesKeeps ==
  ASSUME CallsInv, Passes
  PROVE  CallsInv'
<1>0. /\ OutcallTypes /\ Sequential /\ now \in Nat /\ now' = now + 1
      /\ UNCHANGED <<lease, status, got, server, stops, attempt, said, reply,
                     faulty, forgotten>>
      /\ \A r \in Requests : /\ StartOf(r) \in Nat /\ KeyOf[r] \in Keys
                             /\ StartOf(r)' = StartOf(r)
      /\ \A k \in Keys : lease[k].until \in Nat
      /\ \A r \in Requests : status[r] = "forwarding" => lease[KeyOf[r]].until > now'
  BY RequestFacts DEF CallsInv, OutcallTypes, Passes, Tick, StartOf
<1>1. OutcallTypes'
  <2>1. OutcallTypeOK'
    BY <1>0 DEF OutcallTypes, OutcallTypeOK, ProcessTypeOK, InFlight
  <2>2. QED
    BY <1>0, <2>1 DEF OutcallTypes
<1>2. Sequential'
  <2>1. \A n \in Tries : attempt[n].start \in Nat
    BY <1>0 DEF OutcallTypes
  <2>2. QED
    BY <1>0, <2>1 DEF Sequential
<1>3. HoldersLease'
  BY <1>0 DEF CallsInv, HoldersLease, Running
<1>4. SaidByUpstream' /\ LeasedAnswers' /\ WaitersLease'
  BY <1>0 DEF CallsInv, SaidByUpstream, LeasedAnswers, WaitersLease, StartOf
<1>5. Remembered'
  BY <1>0, TimeFacts DEF CallsInv, Remembered
<1>6. Answered' /\ RepliesMade'
  <2>1. \A s \in Requests : NoNews(s)
    BY <1>0 DEF NoNews
  <2>2. QED
    BY <1>0, <2>1, NewsStep
<1>7. QED
  BY <1>1, <1>2, <1>3, <1>4, <1>5, <1>6 DEF CallsInv

LEMMA NextKeeps ==
  ASSUME CallsInv, [OutcallNext]_outcallVars
  PROVE  CallsInv'
<1>1. CASE UNCHANGED outcallVars
  <2>1. UNCHANGED <<now, lease, status, got, server, stops, attempt, said, reply,
                    faulty, forgotten>>
    BY <1>1 DEF outcallVars, vars
  <2>2. OutcallTypes'
    BY <2>1 DEF CallsInv, OutcallTypes, OutcallTypeOK, ProcessTypeOK, InFlight
  <2>3. Sequential' /\ HoldersLease' /\ SaidByUpstream'
    BY <2>1 DEF CallsInv, Sequential, HoldersLease, SaidByUpstream, StartOf, Running
  <2>4. LeasedAnswers' /\ WaitersLease' /\ Remembered'
    BY <2>1 DEF CallsInv, LeasedAnswers, WaitersLease, Remembered, StartOf
  <2>5. Answered' /\ RepliesMade'
    BY <2>1 DEF CallsInv, Answered, RepliesMade, StartOf, Genuine, Failing
  <2>6. QED
    BY <2>2, <2>3, <2>4, <2>5 DEF CallsInv
<1>2. ASSUME NEW n \in Tries, Ask(n) \/ Settle(n), UNCHANGED now
      PROVE  CallsInv'
  BY <1>2, AskKeeps, SettleKeeps
<1>3. QED
  BY <1>1, <1>2, HandleKeeps, OperateKeeps, ForgetKeeps, PassesKeeps DEF OutcallNext

LEMMA InitHolds ==
  ASSUME OutcallInit
  PROVE  CallsInv
<1>0. /\ now = 0 /\ lease = [k \in Keys |-> Free]
      /\ status = [r \in Requests |-> "idle"] /\ got = [r \in Requests |-> Nobody]
      /\ server = [k \in Servers |-> "up"] /\ stops = 0
      /\ attempt = [n \in Tries |-> [pc |-> "idle", start |-> 0, result |-> NoReply]]
      /\ said = [r \in Requests |-> 0] /\ reply = [r \in Requests |-> NoReply]
      /\ faulty = {} /\ forgotten = {}
  BY DEF OutcallInit, Init, ProcessInit
<1>1. OutcallTypeOK
  BY <1>0, OutcallAssumption, ProcessAssumption
  DEF OutcallTypeOK, ProcessTypeOK, InFlight
<1>2. OutcallTypes
  BY <1>0, <1>1 DEF OutcallTypes, Free
<1>3. Sequential
  <2>1. \A n \in Tries : attempt[n].pc = "idle" /\ attempt[n].start = 0
                         /\ attempt[n].result = NoReply
    BY <1>0
  <2>2. QED
    BY <1>0, <2>1 DEF Sequential
<1>4. HoldersLease /\ SaidByUpstream /\ Remembered /\ WaitersLease
  BY <1>0 DEF HoldersLease, SaidByUpstream, Remembered, WaitersLease
<1>5. LeasedAnswers /\ Answered /\ RepliesMade
  BY <1>0 DEF LeasedAnswers, Answered, RepliesMade, Free
<1>6. QED
  BY <1>2, <1>3, <1>4, <1>5 DEF CallsInv

(* Leases, responses and replies stay together, whatever the processes do. *)
THEOREM Calls == OutcallSpec => []CallsInv
<1>1. OutcallInit => CallsInv
  BY InitHolds
<1>2. CallsInv /\ [OutcallNext]_outcallVars => CallsInv'
  BY NextKeeps
<1>3. QED
  BY <1>1, <1>2, PTL DEF OutcallSpec

(* Types: no request is under way at a process that is down, only ended    *)
(* requests have a reply, and a client's answer is one the upstream gave.  *)
THEOREM OutcallTyping == OutcallSpec => []OutcallTypeOK
<1>1. CallsInv => OutcallTypeOK
  BY DEF CallsInv, OutcallTypes
<1>2. QED
  BY <1>1, Calls, PTL

-----------------------------------------------------------------------------
(* ------------------- one response to the replicas of one --------------- *)
(* No step but one makes a holder, no step but its answer ends as said.    *)
LEMMA CallsChange ==
  ASSUME CallsInv, [OutcallNext]_outcallVars
  PROVE  \/ \A s \in Requests :
              /\ said'[s] = said[s]
              /\ status'[s] = "forwarding" => status[s] = "forwarding"
         \/ \E r \in Requests :
              /\ ~Running(KeyOf[r]) /\ now <= StartOf(r) + Spread
              /\ attempt[r[1]].pc # "idle" /\ status[r] = "idle"
              /\ UNCHANGED <<said, attempt>>
              /\ \A s \in Requests \ {r} : status'[s] = status[s]
         \/ \E r \in Requests :
              /\ status[r] = "forwarding" /\ status'[r] = "ended" /\ UNCHANGED attempt
              /\ \A s \in Requests \ {r} : said'[s] = said[s] /\ status'[s] = status[s]
<1>0. OutcallTypes
  BY DEF CallsInv
<1>1. ASSUME NEW r \in Requests, Handle(r)
      PROVE  \/ \A s \in Requests :
                  /\ said'[s] = said[s]
                  /\ status'[s] = "forwarding" => status[s] = "forwarding"
             \/ /\ ~Running(KeyOf[r]) /\ now <= StartOf(r) + Spread
                /\ attempt[r[1]].pc # "idle" /\ status[r] = "idle"
                /\ UNCHANGED <<said, attempt>>
                /\ \A s \in Requests \ {r} : status'[s] = status[s]
             \/ /\ status[r] = "forwarding" /\ status'[r] = "ended" /\ UNCHANGED attempt
                /\ \A s \in Requests \ {r} : said'[s] = said[s] /\ status'[s] = status[s]
  <2>0. UNCHANGED attempt
    BY <1>1 DEF Handle, Progress
  <2>1. CASE \/ Arrive(r) /\ Forward(r)
             \/ ObtainLost(r)
    <3>1. \E x : Becomes(r, x)
      BY <2>1 DEF Forward, ObtainLost, Lose
    <3>2. \A s \in Requests \ {r} : status'[s] = status[s]
      BY <1>0, <3>1, StatusAfter
    <3>3. QED
      BY <2>0, <2>1, <3>2
      DEF Arrive, Forward, ObtainLost, Lose, Sent, InTime, StartOf
  <2>2. CASE UpstreamAnswers(r)
    <3>1. /\ status[r] = "forwarding" /\ Becomes(r, "ended")
          /\ \E code : said' = [said EXCEPT ![r] = code]
      BY <2>2 DEF UpstreamAnswers, Answer
    <3>2. QED
      BY <1>0, <2>0, <3>1, StatusAfter, TypedNow
  <2>3. CASE \/ Arrive(r) /\ Wait(r)
             \/ NotServed(r) \/ UpstreamRefuses(r) \/ FindsResponse(r) \/ Fails(r)
    <3>1. /\ UNCHANGED said /\ \E x \in {"waiting", "ended"} : Becomes(r, x)
      BY <2>3 DEF Arrive, Wait, NotServed, UpstreamRefuses, FindsResponse, Fails,
                  GiveUp, Release, Share
    <3>2. QED
      BY <1>0, <3>1, StatusAfter
  <2>4. QED
    BY <1>1, <2>1, <2>2, <2>3 DEF Handle, Progress, Arrive
<1>2. ASSUME NEW k \in Keys, Operate(k)
      PROVE  \A s \in Requests :
               /\ said'[s] = said[s]
               /\ status'[s] = "forwarding" => status[s] = "forwarding"
  BY <1>2 DEF Operate, KilledProxy, DrainedProxy, vars
<1>3. ASSUME NEW n \in Tries, Ask(n) \/ Settle(n)
      PROVE  UNCHANGED <<said, status>>
  BY <1>3 DEF Ask, Settle
<1>4. Forget \/ Passes => UNCHANGED status
  BY DEF Forget, Passes
<1>5. CASE Forget /\ UNCHANGED <<now, server, stops, attempt, said, reply, faulty, forgotten>>
  BY <1>4, <1>5
<1>6. CASE Passes
  BY <1>6 DEF Passes
<1>7. CASE UNCHANGED outcallVars
  BY <1>7 DEF outcallVars, vars
<1>8. QED
  BY <1>1, <1>2, <1>3, <1>5, <1>6, <1>7 DEF OutcallNext

(* Nothing is taken back: an attempt's result, a response got, a fault.    *)
LEMMA RecordsStay ==
  ASSUME CallsInv, [OutcallNext]_outcallVars
  PROVE  /\ faulty \subseteq faulty' /\ forgotten \subseteq forgotten'
         /\ \A r \in Requests : /\ got[r] # Nobody => got'[r] = got[r]
                                /\ said[r] # 0 => said'[r] = said[r]
         /\ \A n \in Tries :
              /\ attempt[n].pc # "idle" => attempt'[n].start = attempt[n].start
              /\ \/ attempt'[n].result = attempt[n].result /\ (Ended(n)' => Ended(n))
                 \/ Settle(n) /\ UNCHANGED now
<1>0. OutcallTypes /\ Answered /\ SaidByUpstream
  BY DEF CallsInv
<1>1. ASSUME NEW r \in Requests, Handle(r)
      PROVE  /\ faulty \subseteq faulty' /\ UNCHANGED <<forgotten, attempt>>
             /\ \A s \in Requests : /\ got[s] # Nobody => got'[s] = got[s]
                                    /\ said[s] # 0 => said'[s] = said[s]
  <2>1. UNCHANGED <<forgotten, attempt>> /\ faulty \subseteq faulty'
    BY <1>1 DEF Handle, Progress, Arrive, NotServed, ObtainLost, UpstreamAnswers,
                UpstreamRefuses, FindsResponse, Fails, Fault
  <2>2. status[r] # "ended"
    BY <1>1 DEF Handle, Progress, Arrive, NotServed, ObtainLost, UpstreamAnswers,
                UpstreamRefuses, FindsResponse, Fails, Sent, GiveUp, Answer, Release,
                Share
  <2>3. UNCHANGED got \/ \E v : got' = [got EXCEPT ![r] = v]
    BY <1>1 DEF Handle, Progress, Arrive, NotServed, ObtainLost, UpstreamAnswers,
                UpstreamRefuses, FindsResponse, Fails, Forward, Wait, GiveUp, Lose,
                Answer, Release, Share
  <2>4. UNCHANGED said \/ \E c : said' = [said EXCEPT ![r] = c]
    BY <1>1 DEF Handle, Progress, Arrive, NotServed, ObtainLost, UpstreamAnswers,
                UpstreamRefuses, FindsResponse, Fails
  <2>5. QED
    BY <1>0, <2>1, <2>2, <2>3, <2>4, TypedNow DEF Answered, SaidByUpstream
<1>2. ASSUME NEW k \in Keys, Operate(k)
      PROVE  /\ faulty \subseteq faulty' /\ forgotten \subseteq forgotten'
             /\ UNCHANGED <<got, said, attempt>>
  BY <1>2 DEF Operate, KilledProxy, DrainedProxy, Forgets, vars
<1>3. ASSUME NEW n \in Tries, Ask(n), UNCHANGED now
      PROVE  /\ UNCHANGED <<faulty, forgotten, got, said>>
             /\ \A m \in Tries :
                  /\ attempt[m].pc # "idle" => attempt'[m].start = attempt[m].start
                  /\ attempt'[m].result = attempt[m].result /\ (Ended(m)' => Ended(m))
  <2>1. /\ attempt'[n] = [pc |-> "open", start |-> now, result |-> attempt[n].result]
        /\ \A m \in Tries \ {n} : attempt'[m] = attempt[m]
    BY <1>0, <1>3, AskAfter
  <2>2. attempt'[n].pc = "open" /\ attempt'[n].result = attempt[n].result
    BY <2>1
  <2>3. attempt[n].pc = "idle" /\ UNCHANGED <<faulty, forgotten, got, said>>
    BY <1>3 DEF Ask
  <2>4. ASSUME NEW m \in Tries
        PROVE  /\ attempt[m].pc # "idle" => attempt'[m].start = attempt[m].start
               /\ attempt'[m].result = attempt[m].result /\ (Ended(m)' => Ended(m))
    BY <2>1, <2>2, <2>3 DEF Ended
  <2>5. QED
    BY <2>3, <2>4
<1>4. ASSUME NEW n \in Tries, Settle(n), UNCHANGED now
      PROVE  /\ UNCHANGED <<faulty, forgotten, got, said>>
             /\ \A m \in Tries \ {n} : attempt'[m] = attempt[m]
             /\ attempt'[n].start = attempt[n].start
  <2> DEFINE x == IF Agreeing(n) = {} THEN NoReply
                  ELSE Transformed(reply[CHOOSE y \in Agreeing(n) : TRUE])
  <2>1. /\ attempt'[n] = [pc |-> "ended", start |-> attempt[n].start, result |-> x]
        /\ \A m \in Tries \ {n} : attempt'[m] = attempt[m]
    BY <1>0, <1>4, SettleAfter
  <2> HIDE DEF x
  <2>2. UNCHANGED <<faulty, forgotten, got, said>>
    BY <1>4 DEF Settle
  <2>3. QED
    BY <2>1, <2>2
<1>5. CASE Forget /\ UNCHANGED <<now, server, stops, attempt, said, reply, faulty, forgotten>>
  BY <1>5 DEF Forget, Ended
<1>6. CASE Passes
  BY <1>6 DEF Passes, Ended
<1>7. CASE UNCHANGED outcallVars
  BY <1>7 DEF outcallVars, vars, Ended
<1>8. CASE \E n \in Tries : (Ask(n) \/ Settle(n)) /\ UNCHANGED now
  BY <1>3, <1>4, <1>8 DEF Ended
<1>9. CASE \E r \in Requests : Handle(r)
  BY <1>1, <1>9 DEF Ended
<1>10. CASE \E k \in Keys : Operate(k)
  BY <1>2, <1>10 DEF Ended
<1>11. QED
  BY <1>5, <1>6, <1>7, <1>8, <1>9, <1>10 DEF OutcallNext

(* While the response to v is remembered, a request of the same attempt    *)
(* that is still in time finds its lease.                                  *)
LEMMA OneCallKeeps ==
  ASSUME CallsInv, CallsInv', OneCall, Spread < TTL, [OutcallNext]_outcallVars
  PROVE  OneCall'
<1>0. /\ Remembered /\ HoldersLease /\ SaidByUpstream /\ now \in Nat
      /\ \A s \in Requests : StartOf(s) \in Nat /\ lease[KeyOf[s]].until \in Nat
      /\ forgotten \subseteq forgotten'
  BY RequestFacts, RecordsStay DEF CallsInv, OutcallTypes, StartOf
<1> SUFFICES ASSUME NEW v \in Requests, NEW w \in Requests, v[1] = w[1],
                    v[1] \notin forgotten', said'[v] # 0,
                    said'[w] # 0 \/ status'[w] = "forwarding", v # w
             PROVE  FALSE
  BY DEF OneCall
<1>1. v[1] \notin forgotten /\ KeyOf[v] = KeyOf[w] /\ StartOf(v) = StartOf(w)
  BY <1>0, RequestFacts DEF StartOf
<1>2. CASE \A s \in Requests :
             /\ said'[s] = said[s]
             /\ status'[s] = "forwarding" => status[s] = "forwarding"
  BY <1>1, <1>2 DEF OneCall
<1>3. ASSUME NEW r \in Requests, ~Running(KeyOf[r]), now <= StartOf(r) + Spread,
             UNCHANGED said, \A s \in Requests \ {r} : status'[s] = status[s]
      PROVE  FALSE
  <2>1. w = r
    BY <1>1, <1>3 DEF OneCall
  <2>2. lease[KeyOf[v]].until >= StartOf(v) + TTL
    BY <1>0, <1>1, <1>3, <2>1, TimeFacts DEF Remembered
  <2>3. QED
    BY <1>0, <1>1, <1>3, <2>1, <2>2, TimeFacts DEF Running
<1>4. ASSUME NEW r \in Requests, status[r] = "forwarding", status'[r] = "ended",
             \A s \in Requests \ {r} : said'[s] = said[s] /\ status'[s] = status[s]
      PROVE  FALSE
  <2>1. CASE v = r
    BY <1>0, <1>1, <1>4, <2>1 DEF OneCall, HoldersLease
  <2>2. CASE v # r
    BY <1>0, <1>1, <1>4, <2>2 DEF OneCall
  <2>3. QED
    BY <2>1, <2>2
<1>5. QED
  BY <1>2, <1>3, <1>4, CallsChange

-----------------------------------------------------------------------------
(* ------------------------- why an outcall fails ------------------------ *)
LEMMA SubnetSize ==
  ASSUME NEW n \in Tries
  PROVE  /\ IsFiniteSet(Of(n)) /\ Cardinality(Of(n)) = Cardinality(Replicas)
         /\ Cardinality(Replicas) \in Nat /\ Quorum \in Nat /\ Quorum > 0
         /\ 2 * Quorum > Cardinality(Replicas)
<1>1. IsFiniteSet(Replicas) /\ IsFiniteSet({n}) /\ Cardinality({n}) = 1
  BY OutcallAssumption, FS_Singleton
<1>2. Of(n) = {n} \X Replicas
  BY OutcallAssumption DEF Of, Tries
<1>3. /\ IsFiniteSet({n} \X Replicas)
      /\ Cardinality({n} \X Replicas) = Cardinality({n}) * Cardinality(Replicas)
  BY <1>1, FS_Product
<1>4. Cardinality(Replicas) \in Nat
  BY <1>1, FS_CardinalityType
<1>5. QED
  BY <1>1, <1>2, <1>3, <1>4, OutcallAssumption

(* What was got by a request of the attempt under way is not of a later    *)
(* one.                                                                    *)
LEMMA GotSoFar ==
  ASSUME CallsInv, NEW n \in Tries, Open(n), NEW r \in Requests, got[r] # Nobody
  PROVE  got[r] \in Requests /\ said[got[r]] # 0 /\ got[r][1] \in Tries /\ got[r][1] <= n
<1>1. got[r] \in Requests /\ said[got[r]] # 0
  BY TypedNow DEF CallsInv, Answered
<1>2. attempt[got[r][1]].pc # "idle" /\ got[r][1] \in Tries
  BY <1>1, RequestFacts DEF CallsInv, SaidByUpstream, Sequential
<1>3. CASE n < got[r][1]
  <2>1. n \in 1 .. got[r][1] - 1
    BY <1>2, <1>3, OutcallAssumption DEF Tries
  <2>2. QED
    BY <1>2, <2>1 DEF CallsInv, Sequential, Open
<1>4. QED
  BY <1>1, <1>2, <1>3, OutcallAssumption DEF Tries

(* A genuine reply is shown as an answer. *)
LEMMA GenuineShown ==
  ASSUME CallsInv, NEW r \in Requests, Genuine(r)
  PROVE  /\ got[r] \in Requests /\ said[got[r]] \in Statuses
         /\ ~Unreadable(Response(got[r], said[got[r]]), Mask)
         /\ reply[r] # NoReply /\ IsAnswer(Transformed(reply[r]))
         /\ Transformed(reply[r]) = Transformed(ReplyOf(got[r], got[r], said[got[r]]))
<1> DEFINE v == got[r]
<1>1. v \in Requests /\ said[v] # 0 /\ said[v] \in Statuses
  BY TypedNow DEF CallsInv, Answered, Genuine
<1>2. Cacheable(said[v]) /\ ~Unreadable(Response(v, said[v]), Mask)
  BY <1>1 DEF CallsInv, SaidByUpstream
<1>3. /\ Transformed(reply[r]).status = IF Worker THEN 200 ELSE said[v]
      /\ Transformed(reply[r]) = Transformed(ReplyOf(v, v, said[v]))
  BY <1>1, <1>2, ShownReply, SameShown DEF Genuine
<1>4. reply[r] # NoReply /\ Transformed(reply[r]) # NoReply
  BY <1>1, ReplyAssumption DEF Genuine
<1>5. QED
  BY <1>1, <1>2, <1>3, <1>4 DEF IsAnswer, Cacheable

(* An attempt fails because of failures, as long as its requests all got   *)
(* what is of their own attempt, which is one response.                    *)
LEMMA SettledFailure ==
  ASSUME CallsInv, OneCall, NEW n \in Tries, Settle(n), n \notin forgotten,
         ~IsAnswer(attempt'[n].result),
         \A r \in Of(n) : got[r] # Nobody => ~(got[r][1] < n)
  PROVE  Cardinality(faulty \cap Of(n)) > Cardinality(Replicas) - Quorum
<1>0. /\ OutcallTypes /\ RepliesMade /\ Open(n)
      /\ Of(n) \subseteq Requests /\ faulty \subseteq Requests
  BY TypedNow DEF CallsInv, Settle, Of
<1>1. \A r, s \in Of(n) : got[r] # Nobody /\ got[s] # Nobody => got[r] = got[s]
  <2> SUFFICES ASSUME NEW r \in Of(n), NEW s \in Of(n),
                      got[r] # Nobody, got[s] # Nobody
               PROVE  got[r] = got[s]
    OBVIOUS
  <2>1. /\ got[r] \in Requests /\ said[got[r]] # 0 /\ got[r][1] = n
        /\ got[s] \in Requests /\ said[got[s]] # 0 /\ got[s][1] = n
    BY <1>0, GotSoFar, OutcallAssumption DEF Tries
  <2>2. QED
    BY <2>1 DEF OneCall
<1>2. \A x \in Of(n) : IsFiniteSet(Same(x)) /\ Cardinality(Same(x)) \in Nat
  <2> SUFFICES ASSUME NEW x \in Of(n)
               PROVE  IsFiniteSet(Same(x)) /\ Cardinality(Same(x)) \in Nat
    OBVIOUS
  <2>1. Same(x) \subseteq Of(n)
    BY DEF Same, Of
  <2>2. QED
    BY <2>1, SubnetSize, FS_Subset, FS_CardinalityType
<1>3. /\ IsFiniteSet(faulty \cap Of(n)) /\ IsFiniteSet(Of(n) \ faulty)
      /\ Cardinality(faulty \cap Of(n)) \in Nat /\ Cardinality(Of(n) \ faulty) \in Nat
      /\ Cardinality(Of(n) \ faulty)
           = Cardinality(Replicas) - Cardinality(faulty \cap Of(n))
  <2>1. /\ IsFiniteSet(Of(n)) /\ Cardinality(Of(n)) = Cardinality(Replicas)
    BY SubnetSize
  <2>2. IsFiniteSet(faulty \cap Of(n)) /\ IsFiniteSet(Of(n) \ faulty)
    BY <2>1, FS_Subset
  <2>3. Cardinality(Of(n) \ faulty) = Cardinality(Of(n)) - Cardinality(Of(n) \cap faulty)
    BY <2>1, FS_Difference
  <2>4. Of(n) \cap faulty = faulty \cap Of(n)
    OBVIOUS
  <2>5. QED
    BY <2>1, <2>2, <2>3, <2>4, FS_CardinalityType
<1>4. CASE Agreeing(n) # {}
  <2>1. PICK x \in Agreeing(n) : attempt'[n].result = Transformed(reply[x])
    <3> DEFINE x == CHOOSE y \in Agreeing(n) : TRUE
    <3>1. attempt'[n] = [pc |-> "ended", start |-> attempt[n].start,
                         result |-> Transformed(reply[x])]
      BY <1>0, <1>4, SettleAfter
    <3>2. x \in Agreeing(n)
      BY <1>4
    <3> HIDE DEF x
    <3>3. attempt'[n].result = Transformed(reply[x])
      BY <3>1
    <3>4. QED
      BY <3>2, <3>3
  <2>2. x \in Of(n) /\ Cardinality(Same(x)) >= Quorum
    BY DEF Agreeing
  <2>3. Same(x) \subseteq faulty \cap Of(n)
    <3> SUFFICES ASSUME NEW y \in Same(x), y \notin faulty
                 PROVE  FALSE
      BY <2>2 DEF Same, Of
    <3>1. /\ y \in Requests /\ reply[y] # NoReply
          /\ Transformed(reply[y]) = Transformed(reply[x])
      BY DEF Same, Of
    <3>2. Genuine(y)
      BY <1>0, <3>1 DEF RepliesMade
    <3>3. QED
      BY <2>1, <3>1, <3>2, GenuineShown
  <2>4. Cardinality(Same(x)) <= Cardinality(faulty \cap Of(n))
    BY <1>3, <2>3, FS_Subset
  <2>5. QED
    BY <1>2, <1>3, <2>2, <2>4, SubnetSize
<1>5. CASE Agreeing(n) = {}
  <2>1. \A r \in Of(n) : status[r] = "ended"
    BY <1>5 DEF Settle
  <2>2. \A r \in Of(n) \ faulty : Genuine(r)
    BY <1>0, <2>1 DEF RepliesMade
  <2>3. ASSUME Cardinality(Of(n) \ faulty) >= Quorum
        PROVE  FALSE
    <3>1. Of(n) \ faulty # {}
      BY <1>3, <2>3, SubnetSize, FS_EmptySet
    <3>2. PICK x : x \in Of(n) \ faulty
      BY <3>1
    <3>3. x[1] = n /\ x \in Requests
      BY <3>2 DEF Of
    <3>4. Of(n) \ faulty \subseteq Same(x)
      <4> SUFFICES ASSUME NEW y \in Of(n) \ faulty
                   PROVE  /\ reply[y] # NoReply
                          /\ Transformed(reply[y]) = Transformed(reply[x])
        BY <3>3 DEF Same
      <4>1. Genuine(x) /\ Genuine(y) /\ y \in Requests
        BY <1>0, <2>2, <3>2
      <4>2. got[x] = got[y]
        BY <1>1, <3>2, <4>1 DEF Genuine
      <4>3. QED
        BY <3>3, <4>1, <4>2, GenuineShown
    <3>5. Cardinality(Same(x)) >= Quorum
      <4>1. Cardinality(Of(n) \ faulty) <= Cardinality(Same(x))
        BY <1>2, <3>2, <3>4, FS_Subset
      <4>2. QED
        BY <1>2, <1>3, <2>3, <3>2, <4>1, SubnetSize
    <3>6. x \in Agreeing(n)
      BY <2>2, <3>2, <3>3, <3>5, GenuineShown DEF Agreeing
    <3>7. QED
      BY <1>5, <3>6
  <2>4. QED
    BY <1>3, <2>3, SubnetSize
<1>6. QED
  BY <1>4, <1>5

LEMMA FailureKeeps ==
  ASSUME CallsInv, OneCall, FailureHasCause, CallsInv', [OutcallNext]_outcallVars
  PROVE  FailureHasCause'
<1> SUFFICES ASSUME NEW n \in Tries, Ended(n)', ~IsAnswer(attempt'[n].result),
                    n \notin forgotten',
                    ~ \E r \in Of(n) : got'[r] # Nobody /\ got'[r][1] < n
             PROVE  Cardinality(faulty' \cap Of(n)) > Cardinality(Replicas) - Quorum
  BY DEF FailureHasCause
<1>1. /\ faulty \subseteq faulty' /\ n \notin forgotten
      /\ ~ \E r \in Of(n) : got[r] # Nobody /\ got[r][1] < n
      /\ \/ attempt'[n].result = attempt[n].result /\ Ended(n)
         \/ Settle(n)
  BY RecordsStay DEF Of
<1>2. Cardinality(faulty \cap Of(n)) > Cardinality(Replicas) - Quorum
  <2>1. CASE attempt'[n].result = attempt[n].result /\ Ended(n)
    BY <1>1, <2>1 DEF FailureHasCause
  <2>2. CASE Settle(n)
    BY <1>1, <2>2, SettledFailure
  <2>3. QED
    BY <1>1, <2>1, <2>2
<1>3. Cardinality(faulty \cap Of(n)) <= Cardinality(faulty' \cap Of(n))
  <2>1. /\ IsFiniteSet(faulty' \cap Of(n)) /\ faulty \cap Of(n) \subseteq faulty' \cap Of(n)
    BY <1>1, SubnetSize, FS_Subset
  <2>2. QED
    BY <2>1, FS_Subset
<1>4. /\ Cardinality(faulty \cap Of(n)) \in Nat /\ Cardinality(faulty' \cap Of(n)) \in Nat
  BY SubnetSize, FS_Subset, FS_CardinalityType
<1>5. QED
  BY <1>2, <1>3, <1>4, SubnetSize

(* If replicas send less than a TTL apart, an attempt has at most one      *)
(* upstream call that is answered, and none under way after it: who else   *)
(* is answered finds that response, or the one of an earlier attempt.      *)
THEOREM OneCallEach ==
  ASSUME Spread < TTL
  PROVE  OutcallSpec => []OneCall
<1>1. OutcallInit => OneCall
  BY DEF OutcallInit, OneCall
<1>2. CallsInv /\ CallsInv' /\ OneCall /\ [OutcallNext]_outcallVars => OneCall'
  BY OneCallKeeps
<1>3. QED
  BY <1>1, <1>2, Calls, PTL DEF OutcallSpec

(* What the proxy is for: an outcall whose replicas send less than a TTL   *)
(* apart fails only if more requests failed than the subnet tolerates, or  *)
(* the proxy lost its memory, or some got the response of an earlier one.  *)
THEOREM OutcallsAgree ==
  ASSUME Spread < TTL
  PROVE  OutcallSpec => []FailureHasCause
<1>1. OutcallInit => FailureHasCause
  <2> SUFFICES ASSUME OutcallInit, NEW n \in Tries
               PROVE  ~Ended(n)
    BY DEF FailureHasCause
  <2>1. QED
    BY DEF OutcallInit, Ended
<1>2. CallsInv /\ CallsInv' /\ OneCall /\ FailureHasCause /\ [OutcallNext]_outcallVars
        => FailureHasCause'
  BY FailureKeeps
<1>3. QED
  BY <1>1, <1>2, Calls, OneCallEach, PTL DEF OutcallSpec

-----------------------------------------------------------------------------
(* ------------------------ what an answer is made of -------------------- *)
(* Informational statuses are no responses. *)
FinalStatuses == Statuses \subseteq 200 .. 599

LEMMA FailingIsNone ==
  ASSUME ~Worker, FinalStatuses, NEW raw, Failing(raw)
  PROVE  ~IsAnswer(Transformed(raw))
<1>1. Transformed(raw).status \in {502} \cup {c \in Statuses : ~Cacheable(c)}
  BY Zenon DEF Failing
<1>2. \A c \in {502} \cup {d \in Statuses : ~Cacheable(d)} : ~(c <= 500)
  BY DEF Cacheable, FinalStatuses
<1>3. ~(Transformed(raw).status <= 500)
  BY <1>1, <1>2, Zenon
<1>4. QED
  BY <1>3, Zenon DEF IsAnswer

(* An answer agreed on is a genuine reply to one of the attempt. *)
LEMMA SettledAnswer ==
  ASSUME CallsInv, ~Worker, FinalStatuses, NEW n \in Tries, Settle(n),
         IsAnswer(attempt'[n].result)
  PROVE  \E x \in Of(n) :
           Genuine(x) /\ attempt'[n].result = Transformed(reply[x])
<1>0. OutcallTypes /\ RepliesMade
  BY DEF CallsInv
<1> DEFINE x == CHOOSE y \in Agreeing(n) : TRUE
<1>1. CASE Agreeing(n) = {}
  <2>1. attempt'[n] = [pc |-> "ended", start |-> attempt[n].start, result |-> NoReply]
    BY <1>0, <1>1, SettleAfter
  <2>2. QED
    BY <2>1 DEF IsAnswer
<1>2. CASE Agreeing(n) # {}
  <2>1. attempt'[n] = [pc |-> "ended", start |-> attempt[n].start,
                       result |-> Transformed(reply[x])]
    BY <1>0, <1>2, SettleAfter
  <2>2. x \in Agreeing(n)
    BY <1>2
  <2> HIDE DEF x
  <2>3. /\ x \in Of(n) /\ x \in Requests /\ reply[x] # NoReply
        /\ attempt'[n].result = Transformed(reply[x])
    BY <2>1, <2>2 DEF Agreeing, Of
  <2>4. ~Failing(reply[x])
    BY <2>3, FailingIsNone
  <2>5. QED
    BY <1>0, <2>3, <2>4 DEF RepliesMade
<1>3. QED
  BY <1>1, <1>2

(* What a result was made of stays what it is made of. *)
LEMMA MadeOfStays ==
  ASSUME CallsInv, [OutcallNext]_outcallVars, NEW n \in Tries, NEW v \in Requests,
         MadeOf(n, v), attempt'[n].result = attempt[n].result
  PROVE  MadeOf(n, v)' /\ StartOf(v)' = StartOf(v)
<1>1. said'[v] = said[v] /\ attempt[v[1]].pc # "idle" /\ v[1] \in Tries
  BY RecordsStay, RequestFacts DEF MadeOf, CallsInv, SaidByUpstream, Sequential
<1>2. QED
  BY <1>1, RecordsStay DEF MadeOf, StartOf

LEMMA ResultsKeep ==
  ASSUME CallsInv, ResultsMade, ~Worker, FinalStatuses, [OutcallNext]_outcallVars
  PROVE  ResultsMade'
<1> SUFFICES ASSUME NEW n \in Tries, IsAnswer(attempt'[n].result)
             PROVE  \E v \in Requests :
                      /\ MadeOf(n, v)'
                      /\ attempt'[n].start < StartOf(v)' + Spread + 2 * TTL
  BY DEF ResultsMade, IsAnswer
<1>1. CASE attempt'[n].result = attempt[n].result
  <2>1. PICK v \in Requests :
          MadeOf(n, v) /\ attempt[n].start < StartOf(v) + Spread + 2 * TTL
    BY <1>1 DEF ResultsMade, IsAnswer
  <2>2. attempt[n].pc # "idle"
    BY <1>1 DEF IsAnswer, CallsInv, Sequential
  <2>3. attempt'[n].start = attempt[n].start
    BY <2>2, RecordsStay
  <2>4. QED
    BY <1>1, <2>1, <2>3, MadeOfStays
<1>2. CASE Settle(n) /\ UNCHANGED now
  <2>0. UNCHANGED said /\ OutcallTypes
    BY <1>2 DEF Settle, CallsInv
  <2>1. PICK x \in Of(n) : Genuine(x) /\ attempt'[n].result = Transformed(reply[x])
    BY <1>2, SettledAnswer
  <2>2. PICK v \in Requests : v = got[x]
    BY <2>1, GenuineShown DEF Of
  <2>3. x \in Requests /\ x[1] = n /\ KeyOf[x] = AgentOf[n]
    BY RequestFacts DEF Of
  <2>4. /\ KeyOf[v] = AgentOf[n] /\ said[v] # 0
        /\ StartOf(x) < StartOf(v) + Spread + 2 * TTL
    BY <2>1, <2>2, <2>3 DEF CallsInv, Answered, Genuine
  <2>5. attempt'[n].result = Transformed(ReplyOf(v, v, said[v]))
    BY <2>1, <2>2, <2>3, GenuineShown
  <2>6. MadeOf(n, v)'
    BY <2>0, <2>4, <2>5 DEF MadeOf
  <2>7. attempt'[n].start = attempt[n].start /\ StartOf(v)' = StartOf(v)
    <3>1. attempt[n].pc # "idle" /\ attempt[v[1]].pc # "idle" /\ v[1] \in Tries
      BY <1>2, <2>4, RequestFacts
      DEF Settle, Open, CallsInv, SaidByUpstream, Sequential
    <3>2. QED
      BY <3>1, RecordsStay DEF StartOf
  <2>8. QED
    BY <2>3, <2>4, <2>6, <2>7 DEF StartOf
<1>3. QED
  BY <1>1, <1>2, RecordsStay

(* An answer is the response of the upstream to one call for this key.     *)
LEMMA AnswersAreMade ==
  ASSUME CallsInv, ResultsMade, ~Worker
  PROVE  AgreedIsUpstream
<1> SUFFICES ASSUME NEW n \in Tries, IsAnswer(attempt[n].result)
             PROVE  \E v \in Requests :
                      /\ KeyOf[v] = AgentOf[n] /\ said[v] # 0
                      /\ attempt[n].start < attempt[v[1]].start + Spread + 2 * TTL
                      /\ attempt[n].result =
                           [status |-> said[v], headers |-> {},
                            body |-> [Response(v, said[v]).body
                                        EXCEPT !.fields = Shown(said[v]) \X {v}]]
  BY DEF AgreedIsUpstream, Shown
<1>1. PICK v \in Requests :
        MadeOf(n, v) /\ attempt[n].start < StartOf(v) + Spread + 2 * TTL
  BY DEF ResultsMade
<1>2. /\ said[v] # 0 /\ said[v] \in Statuses
      /\ ~Unreadable(Response(v, said[v]), Mask)
  BY <1>1, TypedNow DEF MadeOf, CallsInv, SaidByUpstream
<1>3. attempt[n].result = [status |-> said[v], headers |-> {},
                           body |-> StoredBody(v, said[v])]
  BY <1>1, <1>2, ShownReply DEF MadeOf
<1>4. Response(v, said[v]).body =
        [kind |-> IF said[v] \in Garbled THEN "broken" ELSE "object",
         fields |-> (Mask \cup {"rest"}) \X {v}]
  BY DEF Response
<1>5. StoredBody(v, said[v]) =
        [[kind |-> IF said[v] \in Garbled THEN "broken" ELSE "object",
          fields |-> (Mask \cup {"rest"}) \X {v}]
           EXCEPT !.fields = Shown(said[v]) \X {v}]
  <2> DEFINE k == IF said[v] \in Garbled THEN "broken" ELSE "object"
             f == (Mask \cup {"rest"}) \X {v}
             g == Shown(said[v]) \X {v}
  <2>1. StoredBody(v, said[v]) = [kind |-> k, fields |-> g]
    BY Zenon DEF StoredBody
  <2> HIDE DEF k, f, g
  <2>2. [[kind |-> k, fields |-> f] EXCEPT !.fields = g] = [kind |-> k, fields |-> g]
    OBVIOUS
  <2>3. StoredBody(v, said[v]) = [[kind |-> k, fields |-> f] EXCEPT !.fields = g]
    BY <2>1, <2>2, Zenon
  <2>4. QED
    BY <2>3, Zenon DEF k, f, g
<1>6. attempt[n].result =
        [status |-> said[v], headers |-> {},
         body |-> [Response(v, said[v]).body EXCEPT !.fields = Shown(said[v]) \X {v}]]
  BY <1>3, <1>4, <1>5, Zenon
<1>7. /\ KeyOf[v] = AgentOf[n] /\ said[v] # 0
      /\ attempt[n].start < attempt[v[1]].start + Spread + 2 * TTL
  BY <1>1 DEF MadeOf, StartOf
<1>8. QED
  BY <1>6, <1>7, Zenon

(* Every result the canister takes for an answer is made of one response   *)
(* of the upstream, as ResultsMade says, if the proxy is the server.       *)
THEOREM Results ==
  ASSUME ~Worker, FinalStatuses
  PROVE  OutcallSpec => []ResultsMade
<1>1. OutcallInit => ResultsMade
  <2> SUFFICES ASSUME OutcallInit, NEW n \in Tries
               PROVE  attempt[n].result = NoReply
    BY DEF ResultsMade, IsAnswer
  <2>1. QED
    BY DEF OutcallInit
<1>2. CallsInv /\ ResultsMade /\ [OutcallNext]_outcallVars => ResultsMade'
  BY ResultsKeep
<1>3. QED
  BY <1>1, <1>2, Calls, PTL DEF OutcallSpec

(* What the canister takes for an answer is the response the upstream gave *)
(* to one call for this key, at most two leases before, as it was asked    *)
(* for, if the proxy is the server.                                        *)
THEOREM AnswersAreUpstreams ==
  ASSUME ~Worker, FinalStatuses
  PROVE  OutcallSpec => []AgreedIsUpstream
<1>1. CallsInv /\ ResultsMade => AgreedIsUpstream
  BY AnswersAreMade
<1>2. QED
  BY <1>1, Calls, Results, PTL

-----------------------------------------------------------------------------
(* ---------------------- why a retry is answered alike ------------------ *)
(* A result is made of one response only. *)
LEMMA MadeBefore ==
  ASSUME CallsInv, CallsInv', ResultsMade, [OutcallNext]_outcallVars,
         NEW n \in Tries, NEW v \in Requests, MadeOf(n, v)',
         attempt'[n].result = attempt[n].result
  PROVE  MadeOf(n, v) /\ StartOf(v)' = StartOf(v)
<1>1. /\ said'[v] # 0 /\ said'[v] \in Statuses /\ Cacheable(said'[v])
      /\ ~Unreadable(Response(v, said'[v]), Mask)
      /\ attempt[n].result = Transformed(ReplyOf(v, v, said'[v]))
  <2>1. said' \in [Requests -> Statuses \cup {0}]
    BY DEF CallsInv, OutcallTypes, OutcallTypeOK
  <2>2. QED
    BY <2>1 DEF MadeOf, CallsInv, SaidByUpstream
<1>2. IsAnswer(attempt[n].result)
  <2>1. attempt[n].result # NoReply
    BY <1>1, ReplyAssumption
  <2>2. attempt[n].result.status = IF Worker THEN 200 ELSE said'[v]
    BY <1>1, ShownReply
  <2>3. QED
    BY <1>1, <2>1, <2>2 DEF IsAnswer, Cacheable
<1>3. PICK w \in Requests : MadeOf(n, w)
  BY <1>2 DEF ResultsMade
<1>4. /\ said[w] # 0 /\ said[w] \in Statuses
      /\ ~Unreadable(Response(w, said[w]), Mask)
      /\ attempt[n].result = Transformed(ReplyOf(w, w, said[w]))
  BY <1>3, TypedNow DEF MadeOf, CallsInv, SaidByUpstream
<1>5. v = w
  BY <1>1, <1>4, ShownApart
<1>6. QED
  BY <1>3, <1>5, MadeOfStays

(* The lease of a key takes no new answer but from its holder, and none    *)
(* gets one that was not leased or its own.                                *)
LEMMA AnswersChange ==
  ASSUME CallsInv, [OutcallNext]_outcallVars
  PROVE  /\ \A k \in Keys :
              \/ lease'[k].answer \in {lease[k].answer, Nobody}
              \/ \E r \in Requests : KeyOf[r] = k /\ status[r] = "forwarding"
         /\ \A r \in Requests :
              got'[r] \in {got[r], lease[KeyOf[r]].answer} \/ status[r] = "forwarding"
<1>0. OutcallTypes
  BY DEF CallsInv
<1>1. ASSUME NEW r \in Requests, Handle(r)
      PROVE  /\ \/ UNCHANGED lease
                \/ Grant(r, Nobody) \/ Release(r)
                \/ status[r] = "forwarding" /\ Grant(r, r)
             /\ \/ UNCHANGED got
                \/ got' = [got EXCEPT ![r] = lease[KeyOf[r]].answer]
                \/ status[r] = "forwarding" /\ got' = [got EXCEPT ![r] = r]
  BY <1>1 DEF Handle, Progress, Arrive, NotServed, ObtainLost, UpstreamAnswers,
              UpstreamRefuses, FindsResponse, Fails, Forward, Wait, GiveUp, Lose,
              Answer, Release, Share
<1>2. ASSUME NEW r \in Requests, Handle(r), NEW k \in Keys
      PROVE  \/ lease'[k].answer \in {lease[k].answer, Nobody}
             \/ KeyOf[r] = k /\ status[r] = "forwarding"
  <2>1. CASE UNCHANGED lease
    BY <2>1
  <2>2. CASE Grant(r, Nobody)
    <3>1. /\ lease'[KeyOf[r]] = [until |-> now + TTL, answer |-> Nobody]
          /\ \A j \in Keys \ {KeyOf[r]} : lease'[j] = lease[j]
      BY <1>0, <2>2, GrantAfter
    <3>2. QED
      BY <3>1
  <2>3. CASE Release(r)
    BY <1>0, <2>3, RequestFacts, TypedNow DEF Release, Free
  <2>4. CASE status[r] = "forwarding" /\ Grant(r, r)
    BY <1>0, <2>4, GrantAfter
  <2>5. QED
    BY <1>1, <1>2, <2>1, <2>2, <2>3, <2>4
<1>3. ASSUME NEW r \in Requests, Handle(r), NEW s \in Requests
      PROVE  got'[s] \in {got[s], lease[KeyOf[s]].answer} \/ status[s] = "forwarding"
  BY <1>0, <1>1, <1>3, TypedNow
<1>4. ASSUME NEW k \in Keys, Operate(k)
      PROVE  /\ UNCHANGED got
             /\ \A j \in Keys : lease'[j].answer \in {lease[j].answer, Nobody}
  <2>1. UNCHANGED got
    BY <1>4 DEF Operate, KilledProxy, DrainedProxy, vars
  <2>2. UNCHANGED lease \/ lease' = [lease EXCEPT ![k] = Free]
    BY <1>4 DEF Operate, KilledProxy, DrainedProxy, Forgets, vars
  <2>3. QED
    BY <1>0, <2>1, <2>2, TypedNow DEF Free
<1>5. CASE Forget
  BY <1>0, <1>5 DEF Forget, Free
<1>6. CASE UNCHANGED <<lease, got>>
  BY <1>6
<1>7. ASSUME NEW n \in Tries, Ask(n) \/ Settle(n)
      PROVE  UNCHANGED <<lease, got>>
  BY <1>7 DEF Ask, Settle
<1>8. Passes \/ UNCHANGED outcallVars => UNCHANGED <<lease, got>>
  BY DEF Passes, outcallVars, vars
<1>9. CASE \E r \in Requests : Handle(r)
  BY <1>2, <1>3, <1>9
<1>10. CASE \E k \in Keys : Operate(k)
  BY <1>4, <1>10
<1>11. QED
  BY <1>5, <1>6, <1>7, <1>8, <1>9, <1>10 DEF OutcallNext

(* Attempts are opened in turn, and their results are made then or stay.   *)
LEMMA AttemptsChange ==
  ASSUME CallsInv, [OutcallNext]_outcallVars, NEW n \in Tries
  PROVE  \/ attempt'[n] = attempt[n]
         \/ Ask(n) /\ UNCHANGED now /\ attempt'[n].start = now
         \/ Settle(n) /\ UNCHANGED now
<1>0. OutcallTypes
  BY DEF CallsInv
<1>1. ASSUME NEW m \in Tries, Ask(m)
      PROVE  IF m = n THEN attempt'[n].start = now ELSE attempt'[n] = attempt[n]
  <2>1. /\ attempt'[m] = [pc |-> "open", start |-> now, result |-> attempt[m].result]
        /\ \A l \in Tries \ {m} : attempt'[l] = attempt[l]
    BY <1>0, <1>1, AskAfter
  <2>2. attempt'[m].start = now
    BY <2>1
  <2>3. QED
    BY <2>1, <2>2
<1>2. ASSUME NEW m \in Tries, Settle(m), m # n
      PROVE  attempt'[n] = attempt[n]
  BY <1>0, <1>2, SettleAfter
<1>3. CASE \E r \in Requests : Handle(r)
  BY <1>3 DEF Handle, Progress
<1>4. CASE \E k \in Keys : Operate(k)
  BY <1>4 DEF Operate, KilledProxy, DrainedProxy
<1>5. CASE Passes \/ UNCHANGED outcallVars
  BY <1>5 DEF Passes, outcallVars
<1>6. QED
  BY <1>1, <1>2, <1>3, <1>4, <1>5 DEF OutcallNext

(* What is said of an attempt that follows another was so before the step. *)
LEMMA FollowsBefore ==
  ASSUME CallsInv, CallsInv', ResultsMade, [OutcallNext]_outcallVars,
         NEW m \in Tries, NEW n \in Tries, NEW v \in Requests, Follows(n, m, v)',
         attempt[n].pc # "idle"
  PROVE  /\ Follows(n, m, v) /\ StartOf(v)' = StartOf(v)
         /\ attempt'[m] = attempt[m] /\ attempt[m].pc = "ended"
<1>1. m < n /\ m \in 1 .. n - 1
  BY OutcallAssumption DEF Follows, Tries
<1>2. attempt[m].pc = "ended"
  BY <1>1 DEF CallsInv, Sequential
<1>3. attempt'[m] = attempt[m]
  BY <1>2, AttemptsChange DEF Ask, Settle, Open
<1>4. MadeOf(m, v) /\ StartOf(v)' = StartOf(v)
  BY <1>3, MadeBefore DEF Follows
<1>5. attempt'[n].start = attempt[n].start /\ forgotten \subseteq forgotten'
  BY RecordsStay
<1>6. QED
  BY <1>2, <1>3, <1>4, <1>5 DEF Follows

LEMMA UndisturbedKeeps ==
  ASSUME CallsInv, CallsInv', ResultsMade, Undisturbed, [OutcallNext]_outcallVars
  PROVE  Undisturbed'
<1> SUFFICES ASSUME NEW m \in Tries, NEW n \in Tries, NEW v \in Requests,
                    Open(n)', Follows(n, m, v)'
             PROVE  /\ lease'[AgentOf[n]].answer \in {v, Nobody}
                    /\ \A w \in Requests : KeyOf[w] = AgentOf[n]
                                             => status'[w] # "forwarding"
                    /\ \A y \in Of(n) : got'[y] \in {v, Nobody}
  BY DEF Undisturbed, Of
<1> DEFINE k == AgentOf[n]
<1>0. /\ now \in Nat /\ k \in Keys /\ Remembered /\ HoldersLease
      /\ \A s \in Requests : StartOf(s) \in Nat
      /\ \A j \in Keys : lease[j].until \in Nat
      /\ attempt[n].start \in Nat /\ v # Nobody
      /\ Of(n) \subseteq Requests /\ \A y \in Of(n) : KeyOf[y] = k /\ y[1] = n
  <2>1. now \in Nat /\ Remembered /\ HoldersLease /\ attempt[n].start \in Nat
    BY DEF CallsInv, OutcallTypes
  <2>2. \A s \in Requests : StartOf(s) \in Nat
    BY RequestFacts DEF CallsInv, OutcallTypes, StartOf
  <2>3. \A j \in Keys : lease[j].until \in Nat
    BY TypedNow DEF CallsInv
  <2>4. k \in Keys
    BY OutcallAssumption DEF Tries
  <2>5. Of(n) \subseteq Requests /\ \A y \in Of(n) : KeyOf[y] = k /\ y[1] = n
    BY RequestFacts DEF Of
  <2>6. QED
    BY <2>1, <2>2, <2>3, <2>4, <2>5, RequestFacts
<1>1. CASE Ask(n) /\ UNCHANGED now /\ attempt'[n].start = now
  <2>1. /\ UNCHANGED <<said, lease, status, got, forgotten>> /\ attempt[n].pc = "idle"
        /\ m # n
    <3>1. m < n
      BY DEF Follows
    <3>2. m # n
      BY <3>1, OutcallAssumption DEF Tries
    <3>3. QED
      BY <1>1, <3>2 DEF Ask
  <2>2. attempt'[m] = attempt[m]
    BY <1>1, <2>1, AskAfter DEF CallsInv
  <2>3. MadeOf(m, v) /\ StartOf(v)' = StartOf(v)
    BY <2>2, MadeBefore DEF Follows
  <2>4. said[v] # 0 /\ v[1] \notin forgotten /\ KeyOf[v] = k
    BY <2>1, <2>3 DEF MadeOf, Follows
  <2>5. now < StartOf(v) + TTL
    BY <1>0, <1>1, <2>3, TimeFacts DEF Follows
  <2>6. lease[k].answer = v
    BY <2>4, <2>5, <1>0 DEF Remembered
  <2>7. \A w \in Requests : KeyOf[w] = k => status[w] # "forwarding"
    BY <1>0, <2>6 DEF HoldersLease
  <2>8. \A y \in Of(n) : got[y] = Nobody
    BY <1>0, <2>1 DEF CallsInv, Answered, Sequential
  <2>9. QED
    BY <2>1, <2>6, <2>7, <2>8
<1>2. CASE attempt'[n] = attempt[n]
  <2>0. Open(n)
    BY <1>2 DEF Open
  <2>1. Follows(n, m, v) /\ StartOf(v)' = StartOf(v)
    BY <2>0, FollowsBefore DEF Open
  <2>2. /\ lease[k].answer \in {v, Nobody}
        /\ \A w \in Requests : KeyOf[w] = k => status[w] # "forwarding"
        /\ \A y \in Of(n) : got[y] \in {v, Nobody}
    BY <2>0, <2>1 DEF Undisturbed
  <2>3. lease'[k].answer \in {v, Nobody}
    BY <1>0, <2>2, AnswersChange
  <2>4. \A y \in Of(n) : got'[y] \in {v, Nobody}
    BY <1>0, <2>2, AnswersChange
  <2>5. ASSUME NEW w \in Requests, KeyOf[w] = k, status'[w] = "forwarding"
        PROVE  FALSE
    <3>1. status[w] # "forwarding"
      BY <2>2, <2>5
    <3>2. PICK r \in Requests :
            /\ ~Running(KeyOf[r]) /\ now <= StartOf(r) + Spread
            /\ attempt[r[1]].pc # "idle" /\ status[r] = "idle"
            /\ \A s \in Requests \ {r} : status'[s] = status[s]
      BY <2>5, <3>1, CallsChange
    <3>3. r = w
      BY <2>5, <3>1, <3>2
    <3>4. w[1] <= n /\ w[1] \in Tries /\ n \in Nat /\ w[1] \in Nat
      <4>1. ~(n \in 1 .. w[1] - 1)
        BY <2>0, <3>2, <3>3, RequestFacts DEF CallsInv, Sequential, Open
      <4>2. QED
        BY <4>1, RequestFacts, OutcallAssumption DEF Tries
    <3>5. StartOf(w) <= attempt[n].start
      <4>1. CASE w[1] = n
        BY <1>0, <4>1 DEF StartOf
      <4>2. CASE w[1] # n
        <5>1. w[1] \in 1 .. n - 1
          BY <3>4, <4>2 DEF Tries
        <5>2. QED
          BY <2>0, <5>1 DEF StartOf, CallsInv, Sequential, Open
      <4>3. QED
        BY <4>1, <4>2
    <3>6. now < StartOf(v) + TTL
      BY <1>0, <2>1, <3>2, <3>3, <3>5, TimeFacts DEF Follows
    <3>7. lease[k].until >= StartOf(v) + TTL
      BY <1>0, <2>1, <3>6 DEF Remembered, Follows, MadeOf
    <3>8. QED
      BY <1>0, <2>5, <3>2, <3>3, <3>6, <3>7, TimeFacts DEF Running
  <2>6. QED
    BY <2>3, <2>4, <2>5
<1>3. CASE Settle(n)
  <2>1. attempt'[n].pc = "ended"
    <3> DEFINE x == IF Agreeing(n) = {} THEN NoReply
                    ELSE Transformed(reply[CHOOSE y \in Agreeing(n) : TRUE])
    <3>1. attempt'[n] = [pc |-> "ended", start |-> attempt[n].start, result |-> x]
      BY <1>3, SettleAfter DEF CallsInv
    <3> HIDE DEF x
    <3>2. QED
      BY <3>1
  <2>2. QED
    BY <2>1 DEF Open
<1>4. QED
  BY <1>1, <1>2, <1>3, AttemptsChange

LEMMA StableKeeps ==
  ASSUME CallsInv, CallsInv', ResultsMade, Undisturbed, StableResults,
         ~Worker, FinalStatuses, [OutcallNext]_outcallVars
  PROVE  StableResults'
<1> SUFFICES ASSUME NEW m \in Tries, NEW n \in Tries, NEW v \in Requests,
                    Follows(n, m, v)', IsAnswer(attempt'[n].result)
             PROVE  attempt'[n].result = attempt'[m].result
  BY DEF StableResults, IsAnswer
<1>1. attempt[n].pc # "idle"
  <2>1. attempt'[n].pc = "ended"
    BY DEF IsAnswer, CallsInv, Sequential
  <2>2. Ended(n)' => Ended(n) \/ Settle(n)
    BY RecordsStay
  <2>3. QED
    BY <2>1, <2>2 DEF Ended, Settle, Open
<1>2. Follows(n, m, v) /\ attempt'[m] = attempt[m]
  BY <1>1, FollowsBefore
<1>3. CASE attempt'[n].result = attempt[n].result
  BY <1>2, <1>3 DEF StableResults, IsAnswer
<1>4. CASE Settle(n)
  <2>1. PICK x \in Of(n) : Genuine(x) /\ attempt'[n].result = Transformed(reply[x])
    BY <1>4, SettledAnswer
  <2>2. got[x] = v
    BY <1>2, <1>4, <2>1 DEF Undisturbed, Genuine, Settle
  <2>3. Transformed(reply[x]) = Transformed(ReplyOf(v, v, said[v]))
    BY <2>1, <2>2, GenuineShown DEF Of
  <2>4. QED
    BY <1>2, <2>1, <2>3 DEF Follows, MadeOf
<1>5. QED
  BY <1>3, <1>4, RecordsStay

LEMMA RetriesStable ==
  ASSUME CallsInv, StableResults, ~Worker, FinalStatuses
  PROVE  RetryIsStable
<1> SUFFICES ASSUME NEW m \in Tries, NEW n \in Tries, m < n, AgentOf[m] = AgentOf[n],
                    IsAnswer(attempt[m].result), IsAnswer(attempt[n].result),
                    NEW x \in Of(m), reply[x] # NoReply,
                    Transformed(reply[x]) = attempt[m].result,
                    got[x][1] \notin forgotten,
                    ~(attempt[n].start + Spread >= attempt[got[x][1]].start + TTL)
             PROVE  attempt[n].result = attempt[m].result
  BY DEF RetryIsStable, Source
<1>1. x \in Requests /\ KeyOf[x] = AgentOf[m]
  BY RequestFacts DEF Of
<1>2. Genuine(x)
  BY <1>1, FailingIsNone DEF CallsInv, RepliesMade
<1>3. /\ got[x] \in Requests /\ KeyOf[got[x]] = AgentOf[m] /\ said[got[x]] # 0
      /\ attempt[m].result
           = Transformed(ReplyOf(got[x], got[x], said[got[x]]))
  BY <1>1, <1>2, GenuineShown DEF CallsInv, Answered, Genuine
<1>4. attempt[n].start + Spread < StartOf(got[x]) + TTL
  <2>1. attempt[n].start \in Nat /\ StartOf(got[x]) \in Nat
    BY <1>3, RequestFacts DEF CallsInv, OutcallTypes, StartOf
  <2>2. QED
    BY <2>1, TimeFacts DEF StartOf
<1>5. Follows(n, m, got[x])
  BY <1>3, <1>4 DEF Follows, MadeOf
<1>6. QED
  BY <1>3, <1>5 DEF StableResults

(* A retry within the life of a response is answered with it, whatever     *)
(* failed in between, as long as the server has not lost its memory: the   *)
(* promise of README.md:210.                                               *)
THEOREM RetriesAreStable ==
  ASSUME ~Worker, FinalStatuses
  PROVE  OutcallSpec => []RetryIsStable
<1>1. OutcallInit => Undisturbed /\ StableResults
  <2> SUFFICES ASSUME OutcallInit, NEW n \in Tries
               PROVE  ~Open(n) /\ ~IsAnswer(attempt[n].result)
    BY DEF Undisturbed, StableResults
  <2>1. QED
    BY DEF OutcallInit, Open, IsAnswer
<1>2. CallsInv /\ CallsInv' /\ ResultsMade /\ Undisturbed /\ StableResults
        /\ [OutcallNext]_outcallVars
        => Undisturbed' /\ StableResults'
  BY UndisturbedKeeps, StableKeeps
<1>3. CallsInv /\ StableResults => RetryIsStable
  BY RetriesStable
<1>4. QED
  BY <1>1, <1>2, <1>3, Calls, Results, PTL DEF OutcallSpec

=============================================================================
