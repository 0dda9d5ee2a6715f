------------------------- MODULE CanisterCallsProofs -------------------------
(***************************************************************************)
(* Theorems about CanisterCalls for any calls, callers, agents, answers,   *)
(* prices and funds: its types, that no outcall is free, that replies are  *)
(* honest, that the quotes suffice, and that with one agent the three      *)
(* interfaces are equivalent.                                              *)
(*                                                                         *)
(* None of the last four is inductive.  CallInv says of each call by       *)
(* itself what it has paid and heard so far (Waiting), and of one that     *)
(* asked a single agent what became of it, as a function of the funds and  *)
(* the answer (Sole).                                                      *)
(***************************************************************************)
EXTENDS CanisterCalls, FiniteSetTheorems, WellFoundedInduction, TLAPS

(* ------------------------------ arithmetic ----------------------------- *)

(* Products of natural numbers are natural numbers, ordered as their       *)
(* factors are.                                                            *)
LEMMA Products ==
  ASSUME NEW a \in Nat, NEW b \in Nat, NEW o \in Nat
  PROVE  /\ a * o \in Nat
         /\ (a + 1) * o = a * o + o
         /\ a <= b => a * o <= b * o
<1>1. ASSUME NEW d \in Nat, b = a + d
      PROVE  a * o <= b * o
  <2>1. b * o = a * o + d * o
    BY <1>1
  <2>2. d * o >= 0
    OBVIOUS
  <2>3. QED
    BY <2>1, <2>2
<1>2. a * o \in Nat /\ (a + 1) * o = a * o + o
  OBVIOUS
<1>3. a <= b => b - a \in Nat /\ b = a + (b - a)
  OBVIOUS
<1>4. QED
  BY <1>1, <1>2, <1>3

(* Every price is a natural number, and that of a response grows with its  *)
(* length: no answer costs more than the longest.                          *)
LEMMA Prices ==
  /\ Ingress \in Nat
  /\ \A k \in Nat : Outcall(k) \in Nat /\ k * Outcall(1) \in Nat
  /\ \A k \in Nat : ResponseCost(ResponseBytes, k) \in Nat
  /\ \A x \in Good, k \in Nat :
       /\ ResponseCost(Size[x], k) \in Nat
       /\ ResponseCost(Size[x], k) <= ResponseCost(ResponseBytes, k)
<1>1. \A p \in Nat, k \in Nat : PerNode(k, p) \in Nat
  BY CostAssumption, Products DEF PerNode
<1>2. Ingress \in Nat
  BY <1>1, CallAssumption DEF Ingress, IngressCost
<1>3. RequestPerNode(RequestBytes) \in Nat
  BY CostAssumption, CallAssumption DEF RequestPerNode
<1>4. ASSUME NEW k \in Nat
      PROVE  Outcall(k) \in Nat
  <2>1. PerNode(k, RequestPerNode(RequestBytes)) \in Nat
    BY <1>1, <1>3
  <2>2. QED
    BY <2>1, CostAssumption DEF Outcall, RequestCost
<1>5. ASSUME NEW b \in Nat, NEW k \in Nat
      PROVE  ResponseCost(b, k) \in Nat
  BY <1>1 DEF ResponseCost
<1>6. ASSUME NEW x \in Good, NEW k \in Nat
      PROVE  ResponseCost(Size[x], k) <= ResponseCost(ResponseBytes, k)
  <2>1. /\ 800 * Size[x] \in Nat /\ 800 * ResponseBytes \in Nat
        /\ 800 * Size[x] <= 800 * ResponseBytes
    BY CallAssumption
  <2>2. SubnetSize * k \in Nat
    BY CostAssumption, Products
  <2>3. PerNode(k, 800 * Size[x]) <= PerNode(k, 800 * ResponseBytes)
    BY <2>1, <2>2, Products DEF PerNode
  <2>4. QED
    BY <2>3 DEF ResponseCost
<1>7. \A x \in Good : Size[x] \in Nat
  BY CallAssumption
<1>8. QED
  BY <1>2, <1>4, <1>5, <1>6, <1>7, CallAssumption, Products

(* The quotes for n agents, asked in turn or at once, cover asking a of     *)
(* them in turn, or all at once, and the longest response.                 *)
LEMMA QuoteCovers ==
  ASSUME NEW n \in Nat, NEW a \in 1 .. n
  PROVE  /\ Quote(IngressBytes, RequestBytes, ResponseBytes, 1) + (n - 1) * Outcall(1)
              >= Ingress + a * Outcall(1) + ResponseCost(ResponseBytes, 1)
         /\ Quote(IngressBytes, RequestBytes, ResponseBytes, n) + (n - n) * Outcall(1)
              = Ingress + Outcall(n) + ResponseCost(ResponseBytes, n)
<1> DEFINE O == Outcall(1)
<1>1. O \in Nat /\ Ingress \in Nat /\ Outcall(n) \in Nat
  BY Prices
<1>2. ResponseCost(ResponseBytes, 1) \in Nat /\ ResponseCost(ResponseBytes, n) \in Nat
  BY Prices
<1>3. n - 1 \in Nat /\ a - 1 \in Nat /\ a - 1 <= n - 1 /\ a = (a - 1) + 1
  OBVIOUS
<1> HIDE DEF O
<1>4. /\ (a - 1) * O \in Nat /\ (n - 1) * O \in Nat
      /\ (a - 1) * O <= (n - 1) * O
      /\ a * O = (a - 1) * O + O
  BY <1>1, <1>3, Products
<1>5. (n - n) * O = 0
  BY <1>1
<1>6. \A k \in {1, n} : Quote(IngressBytes, RequestBytes, ResponseBytes, k)
                           = Ingress + Outcall(k) + ResponseCost(ResponseBytes, k)
  BY DEF Quote, Ingress, Outcall
<1>7. /\ Quote(IngressBytes, RequestBytes, ResponseBytes, 1) + (n - 1) * O
             >= Ingress + a * O + ResponseCost(ResponseBytes, 1)
      /\ Quote(IngressBytes, RequestBytes, ResponseBytes, n) + (n - n) * O
             = Ingress + Outcall(n) + ResponseCost(ResponseBytes, n)
  <2>1. Outcall(1) = O
    BY DEF O
  <2>2. QED
    BY <1>1, <1>2, <1>4, <1>5, <1>6, <2>1
<1>8. QED
  BY <1>7 DEF O

(* A quote is a natural number, of cycles. *)
LEMMA QuoteIsNat ==
  ASSUME NEW n \in Nat, NEW k \in 1 .. n
  PROVE  Quote(IngressBytes, RequestBytes, ResponseBytes, k) + (n - k) * Outcall(1) \in Nat
<1>1. n - k \in Nat /\ k \in Nat
  OBVIOUS
<1>2. Quote(IngressBytes, RequestBytes, ResponseBytes, k)
        = Ingress + Outcall(k) + ResponseCost(ResponseBytes, k)
  BY DEF Quote, Ingress, Outcall
<1>3. /\ Ingress \in Nat /\ Outcall(k) \in Nat
      /\ ResponseCost(ResponseBytes, k) \in Nat /\ (n - k) * Outcall(1) \in Nat
  BY <1>1, Prices
<1>4. QED
  BY <1>2, <1>3

(* ---------------------------- the invariant ---------------------------- *)
New(c) == call[c].pc = "new" =>
            /\ call[c].paid = 0 /\ call[c].asked = 0 /\ call[c].n = 0
            /\ call[c].answer = [i \in 1 .. MaxAgents |-> NoAnswer]
            /\ call[c].reply = Nothing

(* What it has heard, while it waits, from agent i. *)
Heard(c, i) ==
  LET x == call[c].answer[i]
  IN  /\ i > call[c].n => x = NoAnswer
      /\ Sequential(c) => IF i < call[c].asked THEN x \in Bad ELSE x = NoAnswer
      /\ call[c].api = "parallel_call_any_ok" => x \in Bad \cup {NoAnswer}
      /\ call[c].api = "parallel_call_all_ok" => x \in Good \cup {NoAnswer}

Waiting(c) == call[c].pc = "waiting" =>
                /\ call[c].reply = Nothing
                /\ call[c].n > 0 /\ call[c].asked \in 1 .. call[c].n
                /\ ~Sequential(c) => call[c].asked = call[c].n
                /\ call[c].paid = Ingress + Requested(c)
                /\ \A i \in 1 .. MaxAgents : Heard(c, i)

(* The price and the reply of a call that asked a single agent. *)
SolePaid(funds, x) ==
  LET asked == Ingress + Outcall(1)
      cost  == ResponseCost(Size[x], 1)
  IN  IF asked > funds THEN 0
      ELSE IF x \notin Good THEN asked
      ELSE IF cost <= funds - asked THEN asked + cost ELSE asked + (funds - asked)

SoleReply(funds, x) ==
  IF Ingress + Outcall(1) > funds
  THEN [Nothing EXCEPT !.kind = "trapped"]
  ELSE [kind |-> "answer", body |-> x, parts |-> {}]

Sole(c) == Ended(c) /\ call[c].n = 1 =>
             /\ call[c].paid = SolePaid(call[c].funds, call[c].answer[1])
             /\ call[c].reply = SoleReply(call[c].funds, call[c].answer[1])

(* The properties, of one call. *)
NotFree(c) == call[c].asked > 0 => call[c].paid >= Ingress + Requested(c)

Sufficient(c) == call[c].n > 0 /\ call[c].funds >= QuoteFor(c) => QuoteKept(c)

Truthful(c) == Ended(c) /\ call[c].reply.kind = "answer" => Honest(c)

Sound(c) == /\ New(c) /\ Waiting(c) /\ Sole(c)
            /\ NotFree(c) /\ Sufficient(c) /\ Truthful(c)

CallInv == CallTypeOK /\ \A c \in Calls : Sound(c)

(* A call is left alone by the steps of the others. *)
LEMMA SoundStays ==
  ASSUME NEW c \in Calls, Sound(c), call'[c] = call[c]
  PROVE  Sound(c)'
  BY DEF Sound, New, Waiting, Heard, Sole, NotFree, Sufficient, Truthful,
         Honest, QuoteKept, QuoteFor, Payees, Requested, Sequential, Ended, GotBad

(* What a step of a call does to the books: it takes in what the call      *)
(* pays, and credits what the call has paid when it answers it, if at all. *)
Booked(c) ==
  /\ call[c].pc # "ended" /\ call'[c].who = call[c].who
  /\ incoming' + call[c].paid = incoming + call'[c].paid
  /\ UNCHANGED spent \/ (Replied(c)' /\ Credit(c, call'[c].paid))

(* What a step of a call has to show. *)
Kept(c) == /\ \E record \in CallRecord :
                /\ call' = [call EXCEPT ![c] = record]
                /\ record.paid <= record.funds
           /\ spent' \in [Callers -> Nat]
           /\ incoming' \in Nat /\ uncollectible' \in Nat
           /\ Booked(c) /\ Sound(c)'

(* A call that is turned away asks nobody and pays nothing. *)
LEMMA RefuseKeeps ==
  ASSUME CallTypeOK, NEW c \in Calls, Sound(c), Refuse(c)
  PROVE  Kept(c)
<1>1. PICK kind \in {"forbidden", "unavailable"} :
        call' = [call EXCEPT ![c] = [call[c] EXCEPT
                   !.pc = "ended",
                   !.reply = [kind |-> kind, body |-> NoAnswer, parts |-> {}]]]
  BY DEF Refuse, End
<1> DEFINE record == [call[c] EXCEPT
                        !.pc = "ended",
                        !.reply = [kind |-> kind, body |-> NoAnswer, parts |-> {}]]
<1>2. record \in CallRecord /\ record.paid <= record.funds
  BY ZenonT(60) DEF CallTypeOK, CallRecord
<1>3. call'[c] = record
  BY <1>1 DEF CallTypeOK
<1>4. /\ record.pc = "ended" /\ record.asked = 0 /\ record.n = 0
      /\ record.reply.kind = kind
      /\ record.who = call[c].who /\ record.paid = call[c].paid
  BY DEF Refuse, Sound, New, CallTypeOK, CallRecord
<1>5. Sound(c)'
  BY <1>3, <1>4
  DEF Sound, New, Waiting, Sole, NotFree, Sufficient, Truthful, Ended
<1>6. Booked(c)
  BY <1>3, <1>4 DEF Booked, Refuse
<1>7. QED
  BY <1>1, <1>2, <1>5, <1>6 DEF Kept, Refuse, CallTypeOK

(* A call that starts pays for what it asks, or is trapped because it does *)
(* not have what that costs, and then its quote was not attached.          *)
LEMMA StartKeeps ==
  ASSUME CallTypeOK, NEW c \in Calls, Sound(c), Start(c)
  PROVE  Kept(c)
<1> DEFINE k    == IF Sequential(c) THEN 1 ELSE agents
           cost == Ingress + Outcall(k)
<1>1. /\ agents \in 1 .. MaxAgents /\ agents \in 0 .. MaxAgents
      /\ k \in 1 .. agents /\ k \in 0 .. MaxAgents /\ k \in Nat
      /\ k = IF Sequential(c) THEN 1 ELSE agents
  BY CallAssumption DEF Start, CallTypeOK
<1> HIDE DEF k
<1>2. cost \in Nat /\ cost = Ingress + Outcall(k)
  BY <1>1, Prices
<1> HIDE DEF cost
<1>3. /\ call[c] \in CallRecord /\ call[c].pc = "new"
      /\ call[c].paid = 0 /\ call[c].asked = 0
      /\ call[c].answer = [i \in 1 .. MaxAgents |-> NoAnswer]
      /\ call[c].reply = Nothing
  BY DEF Start, Sound, New, CallTypeOK
<1>4. call[c].funds \in Nat
  BY <1>3, CallAssumption DEF CallRecord
<1>5. CASE cost > call[c].funds
  <2> DEFINE record == [call[c] EXCEPT !.n = agents, !.pc = "ended",
                                       !.reply = [Nothing EXCEPT !.kind = "trapped"]]
  <2>1. /\ call' = [call EXCEPT ![c] = record]
        /\ UNCHANGED <<spent, incoming, uncollectible>>
    BY <1>5 DEF Start, Trap, k, cost
  <2>2. record \in CallRecord /\ record.paid <= record.funds
    <3>1. record.paid <= record.funds
      BY <1>3, <1>4 DEF CallRecord
    <3>2. [Nothing EXCEPT !.kind = "trapped"]
            = [kind |-> "trapped", body |-> NoAnswer, parts |-> {}]
      BY DEF Nothing
    <3>3. record = [call[c] EXCEPT !.n = agents, !.pc = "ended",
             !.reply = [kind |-> "trapped", body |-> NoAnswer, parts |-> {}]]
      BY <3>2
    <3>4. record \in CallRecord
      BY <1>1, <1>3, <3>3 DEF CallRecord
    <3>5. QED
      BY <3>1, <3>4
  <2>3. /\ call'[c] = record
        /\ record.n = agents /\ record.pc = "ended" /\ record.reply.kind = "trapped"
        /\ record.reply = [Nothing EXCEPT !.kind = "trapped"]
        /\ record.paid = 0 /\ record.asked = 0 /\ record.who = call[c].who
        /\ record.api = call[c].api /\ record.funds = call[c].funds
    BY <1>3, <2>1 DEF CallTypeOK, CallRecord, Nothing
  <2> HIDE DEF record
  <2>4. Sole(c)'
    BY <1>1, <1>2, <1>5, <2>3 DEF Sole, SolePaid, SoleReply, Nothing
  <2>5. k = Payees(c)'
    BY <1>1, <2>3 DEF Payees, Sequential
  <2>6. QuoteFor(c)' \in Nat
    BY <1>1, <2>3, <2>5, QuoteIsNat DEF QuoteFor
  <2>7. QuoteFor(c)' >= cost
    <3>1. CASE Sequential(c)
      <4>1. QuoteFor(c)' = Quote(IngressBytes, RequestBytes, ResponseBytes, 1)
                           + (agents - 1) * Outcall(1)
        BY <1>1, <2>3, <2>5, <3>1 DEF QuoteFor
      <4>2. /\ 1 * Outcall(1) = Outcall(1) /\ Outcall(1) \in Nat /\ Ingress \in Nat
            /\ ResponseCost(ResponseBytes, 1) \in Nat
        BY Prices
      <4>3. QuoteFor(c)' >= Ingress + Outcall(1) + ResponseCost(ResponseBytes, 1)
        BY <1>1, <4>1, <4>2, QuoteCovers
      <4>4. QED
        BY <1>1, <1>2, <2>6, <3>1, <4>3, <4>2
    <3>2. CASE ~Sequential(c)
      <4>1. QuoteFor(c)' = Quote(IngressBytes, RequestBytes, ResponseBytes, agents)
                           + (agents - agents) * Outcall(1)
        BY <1>1, <2>3, <2>5, <3>2 DEF QuoteFor
      <4>2. QuoteFor(c)' = Ingress + Outcall(agents) + ResponseCost(ResponseBytes, agents)
        BY <1>1, <4>1, QuoteCovers
      <4>3. QED
        BY <1>1, <1>2, <3>2, <4>2, Prices
    <3>3. QED
      BY <3>1, <3>2
  <2>8. QuoteFor(c)' > call[c].funds /\ ~(call[c].funds >= QuoteFor(c)')
    BY <1>2, <1>4, <1>5, <2>6, <2>7
  <2>9. Sufficient(c)'
    BY <2>3, <2>8 DEF Sufficient
  <2>10. New(c)' /\ Waiting(c)' /\ NotFree(c)' /\ Truthful(c)'
    BY <2>3 DEF New, Waiting, NotFree, Truthful
  <2>11. Booked(c)
    BY <1>3, <2>1, <2>3 DEF Booked
  <2>12. QED
    BY <2>1, <2>2, <2>4, <2>9, <2>10, <2>11 DEF Kept, Sound, CallTypeOK
<1>6. CASE cost <= call[c].funds
  <2> DEFINE record == [call[c] EXCEPT !.pc = "waiting", !.n = agents,
                                       !.asked = k, !.paid = cost]
  <2>1. call' = [call EXCEPT ![c] = record] /\ UNCHANGED spent
    BY <1>2, <1>4, <1>6 DEF Start, k, cost
  <2>2. Books(cost, cost)
    BY <1>2, <1>4, <1>6 DEF Start, k, cost
  <2>3. incoming' \in Nat /\ uncollectible' \in Nat
    BY <1>2, <2>2 DEF Books, CallTypeOK
  <2>4. record \in CallRecord /\ record.paid <= record.funds
    BY <1>1, <1>2, <1>3, <1>6 DEF CallRecord
  <2>5. /\ call'[c] = record
        /\ record.n = agents /\ record.pc = "waiting" /\ record.reply = Nothing
        /\ record.paid = cost /\ record.asked = k /\ record.who = call[c].who
        /\ record.answer = [i \in 1 .. MaxAgents |-> NoAnswer]
        /\ record.api = call[c].api /\ record.funds = call[c].funds
    BY <1>3, <2>1 DEF CallTypeOK, CallRecord
  <2> HIDE DEF record
  <2>6. cost = Ingress + Requested(c)'
    <3>1. 1 * Outcall(1) = Outcall(1)
      BY Prices
    <3>2. QED
      BY <1>1, <1>2, <2>5, <3>1 DEF Requested, Sequential
  <2>7. ASSUME NEW i \in 1 .. MaxAgents
        PROVE  Heard(c, i)'
    <3>1. call'[c].answer[i] = NoAnswer
      BY <2>5
    <3>2. Sequential(c)' => ~(i < call'[c].asked)
      BY <1>1, <2>5, CallAssumption DEF Sequential
    <3>3. QED
      BY <3>1, <3>2 DEF Heard
  <2>8. Waiting(c)'
    BY <1>1, <2>5, <2>6, <2>7 DEF Waiting, Sequential
  <2>9. New(c)' /\ Sole(c)' /\ Truthful(c)' /\ Sufficient(c)'
    BY <2>5 DEF New, Sole, Truthful, Ended, Sufficient, QuoteKept, Nothing
  <2>10. NotFree(c)'
    BY <1>2, <2>5, <2>6 DEF NotFree
  <2>11. Booked(c)
    <3>1. incoming' = incoming + cost /\ incoming \in Nat
      BY <2>2 DEF Books, CallTypeOK
    <3>2. QED
      BY <1>2, <1>3, <2>1, <2>5, <3>1 DEF Booked
  <2>12. QED
    BY <2>1, <2>3, <2>4, <2>8, <2>9, <2>10, <2>11 DEF Kept, Sound, CallTypeOK
<1>7. QED
  BY <1>2, <1>4, <1>5, <1>6

(* While a call waits with its quote attached, the longest response is     *)
(* still to be had for what it has on hand, and so is one more outcall if  *)
(* there is an agent left.                                                 *)
LEMMA Affordable ==
  ASSUME CallTypeOK, NEW c \in Calls, Waiting(c), call[c].pc = "waiting"
  PROVE  /\ call[c].paid \in Nat /\ call[c].funds \in Nat
         /\ call[c].paid <= call[c].funds
         /\ Payees(c) \in Nat /\ QuoteFor(c) \in Nat /\ Requested(c) \in Nat
         /\ call[c].n = 1 => call[c].paid = Ingress + Outcall(1) /\ Payees(c) = 1
         /\ call[c].funds >= QuoteFor(c) =>
              /\ ResponseCost(ResponseBytes, Payees(c)) <= call[c].funds - call[c].paid
              /\ Sequential(c) /\ call[c].asked < call[c].n =>
                   Outcall(1) <= call[c].funds - call[c].paid
<1> DEFINE n == call[c].n
           a == call[c].asked
<1>1. /\ n \in Nat /\ a \in 1 .. n /\ call[c].paid \in Nat /\ call[c].funds \in Nat
      /\ call[c].paid <= call[c].funds
      /\ ~Sequential(c) => a = n
      /\ call[c].paid = Ingress + Requested(c)
  <2>1. call[c] \in CallRecord /\ call[c].paid <= call[c].funds
    BY DEF CallTypeOK
  <2>2. n \in 0 .. MaxAgents /\ call[c].paid \in Nat /\ call[c].funds \in Funds
    BY <2>1 DEF CallRecord
  <2>3. MaxAgents \in Nat /\ Funds \subseteq Nat
    BY CallAssumption
  <2>4. n \in Nat
    BY <2>2, <2>3
  <2>5. call[c].funds \in Nat
    BY <2>2, <2>3
  <2>6. QED
    BY <2>1, <2>2, <2>4, <2>5 DEF Waiting
<1>2. Payees(c) \in 1 .. n /\ Payees(c) \in Nat
  BY <1>1 DEF Payees
<1>3. QuoteFor(c) \in Nat
  BY <1>1, <1>2, QuoteIsNat DEF QuoteFor
<1>4. Requested(c) \in Nat
  BY <1>1, Prices DEF Requested
<1>5. n = 1 => call[c].paid = Ingress + Outcall(1) /\ Payees(c) = 1
  <2>1. 1 * Outcall(1) = Outcall(1)
    BY Prices
  <2>2. n = 1 => Requested(c) = Outcall(1)
    BY <1>1, <2>1 DEF Requested
  <2>3. QED
    BY <1>1, <1>2, <2>2
<1>6. /\ Ingress \in Nat /\ ResponseCost(ResponseBytes, 1) \in Nat
      /\ ResponseCost(ResponseBytes, n) \in Nat /\ Outcall(1) \in Nat
      /\ a * Outcall(1) \in Nat /\ Outcall(n) \in Nat
      /\ (a + 1) * Outcall(1) = a * Outcall(1) + Outcall(1)
  BY <1>1, Prices, Products
<1> HIDE DEF n, a
<1>7. ASSUME Sequential(c), call[c].funds >= QuoteFor(c)
      PROVE  /\ ResponseCost(ResponseBytes, Payees(c)) <= call[c].funds - call[c].paid
             /\ a < n => Outcall(1) <= call[c].funds - call[c].paid
  <2>1. /\ QuoteFor(c) = Quote(IngressBytes, RequestBytes, ResponseBytes, 1)
                         + (n - 1) * Outcall(1)
        /\ Payees(c) = 1 /\ Requested(c) = a * Outcall(1)
    BY <1>7 DEF QuoteFor, Payees, Requested, n, a
  <2>2. QuoteFor(c) >= Ingress + a * Outcall(1) + ResponseCost(ResponseBytes, 1)
    BY <1>1, <2>1, QuoteCovers DEF n, a
  <2>3. ResponseCost(ResponseBytes, Payees(c)) <= call[c].funds - call[c].paid
    BY <1>1, <1>3, <1>6, <1>7, <2>1, <2>2
  <2>4. ASSUME a < n
        PROVE  Outcall(1) <= call[c].funds - call[c].paid
    <3>1. a + 1 \in 1 .. n
      BY <1>1, <2>4 DEF n, a
    <3>2. QuoteFor(c) >= Ingress + (a + 1) * Outcall(1) + ResponseCost(ResponseBytes, 1)
      BY <1>1, <2>1, <3>1, QuoteCovers DEF n
    <3>3. QED
      BY <1>1, <1>3, <1>6, <1>7, <2>1, <3>2
  <2>5. QED
    BY <2>3, <2>4
<1>8. ASSUME ~Sequential(c), call[c].funds >= QuoteFor(c)
      PROVE  ResponseCost(ResponseBytes, Payees(c)) <= call[c].funds - call[c].paid
  <2>1. /\ QuoteFor(c) = Quote(IngressBytes, RequestBytes, ResponseBytes, n)
                         + (n - n) * Outcall(1)
        /\ Payees(c) = n /\ Requested(c) = Outcall(n)
    BY <1>8 DEF QuoteFor, Payees, Requested, n
  <2>2. QuoteFor(c) = Ingress + Outcall(n) + ResponseCost(ResponseBytes, n)
    BY <1>1, <2>1, QuoteCovers DEF n
  <2>3. QED
    BY <1>1, <1>3, <1>6, <1>8, <2>1, <2>2
<1>9. QED
  BY <1>1, <1>2, <1>3, <1>4, <1>5, <1>7, <1>8 DEF n, a

(* The record of a call that has just heard from an agent. *)
Hearing(c, record) ==
  /\ record \in CallRecord
  /\ \E answer \in [1 .. MaxAgents -> Answers \cup {NoAnswer}] :
       record = [call[c] EXCEPT !.answer = answer]

BadOf(record) == {i \in 1 .. MaxAgents : record.answer[i] \in Bad}

(* What makes the reply x honest, of a record. *)
HonestOf(record, x) ==
  /\ \E i \in 1 .. record.n : record.answer[i] = x
  /\ x \in Bad /\ record.api # "parallel_call_all_ok" => BadOf(record) = 1 .. record.n
  /\ x \in Good /\ record.api = "proxy_http_request" =>
       \E i \in 1 .. record.n : record.answer[i] = x /\ BadOf(record) = 1 .. i - 1
  /\ x \in Good /\ record.api = "parallel_call_all_ok" =>
       \A i \in 1 .. record.n : record.answer[i] = x

(* A good end keeps the invariant. *)
LEMMA SettleKeeps ==
  ASSUME CallTypeOK, NEW c \in Calls, Waiting(c), call[c].pc = "waiting",
         NEW record, Hearing(c, record), NEW x \in Good,
         NEW kind \in {"answer", "mixed"}, NEW body \in Answers \cup {NoAnswer},
         NEW parts \in SUBSET (1 .. MaxAgents),
         Settle(c, record, Payees(c), x, kind, body, parts),
         kind = "answer" => body = x /\ HonestOf(record, x),
         record.n = 1 => kind = "answer" /\ parts = {} /\ record.answer[1] = x
  PROVE  Kept(c)
<1> DEFINE k    == Payees(c)
           cost == ResponseCost(Size[x], k)
           got  == Accepted(c, cost)
           paid == record.paid + got
           end  == [record EXCEPT !.paid = paid, !.pc = "ended",
                      !.reply = [kind |-> kind, body |-> body, parts |-> parts]]
<1>1. /\ record \in CallRecord
      /\ record.api = call[c].api /\ record.funds = call[c].funds
      /\ record.paid = call[c].paid /\ record.n = call[c].n
      /\ record.asked = call[c].asked /\ record.who = call[c].who
  BY DEF Hearing, CallRecord, CallTypeOK
<1>2. /\ call[c].paid \in Nat /\ call[c].funds \in Nat
      /\ call[c].paid <= call[c].funds
      /\ k \in Nat /\ Requested(c) \in Nat /\ QuoteFor(c) \in Nat
      /\ call[c].n = 1 => call[c].paid = Ingress + Outcall(1) /\ k = 1
      /\ call[c].funds >= QuoteFor(c) =>
           ResponseCost(ResponseBytes, k) <= call[c].funds - call[c].paid
  BY Affordable
<1>3. /\ cost \in Nat /\ cost <= ResponseCost(ResponseBytes, k)
      /\ ResponseCost(ResponseBytes, k) \in Nat
  BY <1>2, Prices
<1>4. got = IF cost <= call[c].funds - call[c].paid THEN cost
            ELSE call[c].funds - call[c].paid
  BY DEF Accepted, OnHand
<1>5. cost = IF k = 1 THEN ResponseCost(Size[x], 1) ELSE cost
  OBVIOUS
<1>6. /\ call' = [call EXCEPT ![c] = end]
      /\ Books(cost, got) /\ Credit(c, paid)
  BY DEF Settle, End
<1> HIDE DEF k, cost, got
<1>7. /\ got \in Nat /\ got <= cost /\ paid \in Nat /\ paid <= call[c].funds
      /\ paid = call[c].paid + got
      /\ call[c].funds >= QuoteFor(c) => got = cost
  BY <1>1, <1>2, <1>3, <1>4
<1> HIDE DEF paid
<1>8. end \in CallRecord /\ end.paid <= end.funds
  BY <1>1, <1>7 DEF CallRecord
<1>9. /\ call'[c] = end /\ end.pc = "ended" /\ end.paid = paid
      /\ end.api = call[c].api /\ end.funds = call[c].funds /\ end.n = call[c].n
      /\ end.asked = call[c].asked /\ end.answer = record.answer
      /\ end.who = call[c].who
      /\ end.reply = [kind |-> kind, body |-> body, parts |-> parts]
  BY <1>1, <1>6 DEF CallTypeOK, CallRecord
<1> HIDE DEF end
<1>10. /\ Requested(c)' = Requested(c) /\ Payees(c)' = k
       /\ QuoteFor(c)' = QuoteFor(c) /\ Sequential(c)' = Sequential(c)
  BY <1>9 DEF Requested, Payees, QuoteFor, Sequential, k
<1>11. /\ spent' \in [Callers -> Nat]
       /\ incoming' \in Nat /\ uncollectible' \in Nat
  <2>1. cost - got \in Nat
    BY <1>3, <1>7
  <2>2. QED
    BY <1>3, <1>6, <1>7, <2>1 DEF Books, Credit, CallTypeOK
<1>12. New(c)' /\ Waiting(c)'
  BY <1>9 DEF New, Waiting
<1>13. NotFree(c)'
  <2>1. call[c].paid = Ingress + Requested(c) /\ Ingress \in Nat
    BY Prices DEF Waiting
  <2>2. QED
    BY <1>2, <1>7, <1>9, <1>10, <2>1 DEF NotFree
<1>14. Sufficient(c)'
  <2>1. call[c].paid = Ingress + Requested(c) /\ Ingress \in Nat
    BY Prices DEF Waiting
  <2>2. call[c].funds >= QuoteFor(c) => paid = Ingress + Requested(c) + cost
    BY <1>2, <1>3, <1>7, <2>1
  <2>3. kind = "answer" => body = x
    OBVIOUS
  <2>4. QED
    BY <1>9, <1>10, <2>2, <2>3 DEF Sufficient, QuoteKept, cost
<1>15. Truthful(c)'
  <2>1. kind = "answer" => body = x /\ HonestOf(record, x)
    OBVIOUS
  <2>2. x \notin Bad
    BY CallAssumption
  <2>3. GotBad(c)' = BadOf(record)
    BY <1>9 DEF GotBad, BadOf
  <2>4. QED
    BY <1>1, <1>9, <2>1, <2>2, <2>3 DEF Truthful, Honest, HonestOf, Sequential
<1>16. Sole(c)'
  <2>1. SUFFICES ASSUME call[c].n = 1
                 PROVE  /\ paid = SolePaid(call[c].funds, record.answer[1])
                        /\ end.reply = SoleReply(call[c].funds, record.answer[1])
    BY <1>9 DEF Sole
  <2>2. kind = "answer" /\ parts = {} /\ record.answer[1] = x /\ body = x
    BY <1>1, <2>1
  <2>3. Ingress + Outcall(1) = call[c].paid /\ ~(Ingress + Outcall(1) > call[c].funds)
    BY <1>2, <2>1
  <2>4. cost = ResponseCost(Size[x], 1)
    BY <1>2, <2>1 DEF cost
  <2>5. paid = SolePaid(call[c].funds, x)
    BY <1>4, <1>7, <2>3, <2>4 DEF SolePaid
  <2>6. QED
    BY <1>9, <2>2, <2>3, <2>5 DEF SoleReply
<1>17. Booked(c)
  <2>1. incoming' = incoming + got /\ incoming \in Nat
    BY <1>6 DEF Books, CallTypeOK
  <2>2. incoming' + call[c].paid = incoming + paid
    BY <1>2, <1>7, <2>1
  <2>3. Replied(c)'
    BY <1>9 DEF Replied, Ended
  <2>4. QED
    BY <1>6, <1>9, <2>2, <2>3 DEF Booked
<1>18. QED
  BY <1>6, <1>8, <1>11, <1>12, <1>13, <1>14, <1>15, <1>16, <1>17 DEF Kept, Sound

(* And so does a bad one. *)
LEMMA SettleBadKeeps ==
  ASSUME CallTypeOK, NEW c \in Calls, Waiting(c), call[c].pc = "waiting",
         NEW record, Hearing(c, record), NEW x \in Bad,
         SettleBad(c, record, x), HonestOf(record, x)
  PROVE  Kept(c)
<1> DEFINE reply == [kind |-> "answer", body |-> x, parts |-> {}]
           end   == [record EXCEPT !.pc = "ended", !.reply = reply]
<1>1. /\ record \in CallRecord
      /\ record.api = call[c].api /\ record.funds = call[c].funds
      /\ record.paid = call[c].paid /\ record.n = call[c].n
      /\ record.asked = call[c].asked /\ record.who = call[c].who
  BY DEF Hearing, CallRecord, CallTypeOK
<1>2. /\ call[c].paid \in Nat /\ call[c].funds \in Nat
      /\ call[c].paid <= call[c].funds /\ Requested(c) \in Nat
      /\ call[c].n = 1 => call[c].paid = Ingress + Outcall(1)
  BY Affordable
<1>3. /\ call' = [call EXCEPT ![c] = end]
      /\ Credit(c, record.paid) /\ UNCHANGED <<incoming, uncollectible>>
  BY DEF SettleBad, End
<1>4. x \in Answers /\ x \notin Good
  BY CallAssumption DEF Answers
<1>5. reply \in [kind : {"answer"}, body : Answers \cup {NoAnswer},
                 parts : SUBSET (1 .. MaxAgents)]
  BY <1>4
<1>6. end \in CallRecord /\ end.paid <= end.funds
  BY <1>1, <1>2, <1>5 DEF CallRecord
<1>7. /\ call'[c] = end /\ end.pc = "ended" /\ end.paid = call[c].paid
      /\ end.api = call[c].api /\ end.funds = call[c].funds /\ end.n = call[c].n
      /\ end.asked = call[c].asked /\ end.answer = record.answer /\ end.reply = reply
      /\ end.who = call[c].who
  BY <1>1, <1>3 DEF CallTypeOK, CallRecord
<1> HIDE DEF end
<1>8. /\ Requested(c)' = Requested(c) /\ Sequential(c)' = Sequential(c)
      /\ GotBad(c)' = BadOf(record)
  BY <1>7 DEF Requested, Sequential, GotBad, BadOf
<1>9. spent' \in [Callers -> Nat]
  BY <1>1, <1>2, <1>3 DEF Credit, CallTypeOK
<1>10. New(c)' /\ Waiting(c)' /\ Sufficient(c)'
  BY <1>4, <1>7 DEF New, Waiting, Sufficient, QuoteKept
<1>11. NotFree(c)'
  <2>1. call[c].paid = Ingress + Requested(c) /\ Ingress \in Nat
    BY Prices DEF Waiting
  <2>2. QED
    BY <1>2, <1>7, <1>8, <2>1 DEF NotFree
<1>12. Truthful(c)'
  BY <1>1, <1>4, <1>7, <1>8 DEF Truthful, Honest, HonestOf, Sequential
<1>13. Sole(c)'
  <2>1. SUFFICES ASSUME call[c].n = 1
                 PROVE  /\ call[c].paid = SolePaid(call[c].funds, record.answer[1])
                        /\ reply = SoleReply(call[c].funds, record.answer[1])
    BY <1>7 DEF Sole
  <2>2. record.answer[1] = x
    BY <1>1, <2>1 DEF HonestOf
  <2>3. Ingress + Outcall(1) = call[c].paid /\ ~(Ingress + Outcall(1) > call[c].funds)
    BY <1>2, <2>1
  <2>4. QED
    BY <1>4, <2>2, <2>3 DEF SolePaid, SoleReply
<1>14. Booked(c)
  <2>1. Replied(c)'
    BY <1>7 DEF Replied, Ended
  <2>2. QED
    BY <1>1, <1>3, <1>7, <2>1 DEF Booked
<1>15. QED
  BY <1>3, <1>6, <1>9, <1>10, <1>11, <1>12, <1>13, <1>14 DEF Kept, Sound, CallTypeOK

(* A call that goes on waiting has heard one agent more. *)
LEMMA KeepKeeps ==
  ASSUME CallTypeOK, NEW c \in Calls, Waiting(c), call[c].pc = "waiting",
         NEW record, Hearing(c, record), Keep(c, record),
         \A i \in 1 .. MaxAgents : Heard(c, i)'
  PROVE  Kept(c)
<1>1. /\ record \in CallRecord /\ record.pc = "waiting" /\ record.reply = call[c].reply
      /\ record.api = call[c].api /\ record.funds = call[c].funds
      /\ record.paid = call[c].paid /\ record.n = call[c].n
      /\ record.asked = call[c].asked /\ record.who = call[c].who
  BY DEF Hearing, CallRecord, CallTypeOK
<1>2. /\ call' = [call EXCEPT ![c] = record]
      /\ UNCHANGED <<spent, incoming, uncollectible>>
  BY DEF Keep
<1>3. call'[c] = record
  BY <1>2 DEF CallTypeOK
<1>4. Requested(c)' = Requested(c) /\ Sequential(c)' = Sequential(c)
  BY <1>1, <1>3 DEF Requested, Sequential
<1>5. Waiting(c)'
  BY <1>1, <1>3, <1>4 DEF Waiting
<1>6. NotFree(c)'
  <2>1. /\ call[c].paid = Ingress + Requested(c)
        /\ Ingress \in Nat /\ Requested(c) \in Nat
    BY Prices, Affordable DEF Waiting
  <2>2. QED
    BY <1>1, <1>3, <1>4, <2>1 DEF NotFree
<1>7. New(c)' /\ Sole(c)' /\ Truthful(c)' /\ Sufficient(c)'
  BY <1>1, <1>3
  DEF New, Sole, Truthful, Ended, Sufficient, QuoteKept, Waiting, Nothing
<1>8. Booked(c)
  BY <1>1, <1>2, <1>3 DEF Booked
<1>9. QED
  BY <1>1, <1>2, <1>5, <1>6, <1>7, <1>8 DEF Kept, Sound, CallTypeOK

(* One more agent is asked and paid for, or the call is trapped, and then  *)
(* its quote was not attached.                                             *)
LEMMA AskNextKeeps ==
  ASSUME CallTypeOK, NEW c \in Calls, Waiting(c), call[c].pc = "waiting",
         NEW record, Hearing(c, record), Sequential(c),
         call[c].asked < call[c].n, AskNext(c, record),
         call'[c].pc = "waiting" => \A i \in 1 .. MaxAgents : Heard(c, i)'
  PROVE  Kept(c)
<1>1. /\ record \in CallRecord /\ record.pc = "waiting" /\ record.reply = call[c].reply
      /\ record.api = call[c].api /\ record.funds = call[c].funds
      /\ record.paid = call[c].paid /\ record.n = call[c].n
      /\ record.asked = call[c].asked /\ record.who = call[c].who
  BY DEF Hearing, CallRecord, CallTypeOK
<1>2. /\ call[c].paid \in Nat /\ call[c].funds \in Nat
      /\ call[c].paid <= call[c].funds /\ QuoteFor(c) \in Nat
      /\ call[c].funds >= QuoteFor(c) => Outcall(1) <= call[c].funds - call[c].paid
  BY Affordable
<1>3. Outcall(1) \in Nat /\ Ingress \in Nat
  BY Prices
<1>4. /\ call[c].paid = Ingress + call[c].asked * Outcall(1)
      /\ call[c].reply = Nothing /\ call[c].asked \in 1 .. call[c].n
  BY DEF Waiting, Requested
<1>5. call[c].n \in 0 .. MaxAgents /\ MaxAgents \in Nat
  BY CallAssumption DEF CallTypeOK, CallRecord
<1>6. /\ call[c].asked + 1 \in 1 .. call[c].n
      /\ call[c].asked + 1 \in 0 .. MaxAgents
      /\ call[c].asked \in Nat /\ call[c].n # 1
  BY <1>4, <1>5
<1>7. /\ (call[c].asked + 1) * Outcall(1) = call[c].asked * Outcall(1) + Outcall(1)
      /\ call[c].asked * Outcall(1) \in Nat
  BY <1>3, <1>6, Products
<1>8. CASE Outcall(1) > OnHand(c)
  <2> DEFINE reply == [Nothing EXCEPT !.kind = "trapped"]
             end   == [record EXCEPT !.pc = "ended", !.reply = reply]
  <2>1. call' = [call EXCEPT ![c] = end] /\ UNCHANGED <<spent, incoming, uncollectible>>
    BY <1>8 DEF AskNext, Trap
  <2>2. reply = [kind |-> "trapped", body |-> NoAnswer, parts |-> {}]
    BY DEF Nothing
  <2> HIDE DEF reply
  <2>3. end \in CallRecord /\ end.paid <= end.funds
    BY <1>1, <1>2, <2>2 DEF CallRecord
  <2>4. /\ call'[c] = end /\ end.pc = "ended" /\ end.paid = call[c].paid
        /\ end.api = call[c].api /\ end.funds = call[c].funds /\ end.n = call[c].n
        /\ end.asked = call[c].asked /\ end.reply.kind = "trapped"
        /\ end.who = call[c].who
    BY <1>1, <2>1, <2>2 DEF CallTypeOK, CallRecord
  <2> HIDE DEF end
  <2>5. Requested(c)' = Requested(c) /\ QuoteFor(c)' = QuoteFor(c)
    BY <2>4 DEF Requested, QuoteFor, Payees, Sequential
  <2>6. ~(call[c].funds >= QuoteFor(c))
    BY <1>2, <1>3, <1>8 DEF OnHand
  <2>7. NotFree(c)' /\ Sufficient(c)'
    <3>1. Requested(c) = call[c].asked * Outcall(1)
      BY DEF Requested
    <3>2. call[c].paid >= Ingress + Requested(c)
      BY <1>3, <1>4, <1>7, <3>1
    <3>3. QED
      BY <2>4, <2>5, <2>6, <3>2 DEF NotFree, Sufficient
  <2>8. New(c)' /\ Waiting(c)' /\ Truthful(c)' /\ Sole(c)'
    BY <1>6, <2>4 DEF New, Waiting, Truthful, Sole
  <2>9. Booked(c)
    BY <2>1, <2>4 DEF Booked
  <2>10. QED
    BY <2>1, <2>3, <2>7, <2>8, <2>9 DEF Kept, Sound, CallTypeOK
<1>9. CASE ~(Outcall(1) > OnHand(c))
  <2> DEFINE next == [record EXCEPT !.asked = call[c].asked + 1,
                                    !.paid = call[c].paid + Outcall(1)]
  <2>1. call' = [call EXCEPT ![c] = next] /\ UNCHANGED spent
    BY <1>1, <1>9 DEF AskNext, CallRecord
  <2>2. Books(Outcall(1), Outcall(1))
    BY <1>9 DEF AskNext
  <2>3. incoming' \in Nat /\ uncollectible' \in Nat
    BY <1>3, <2>2 DEF Books, CallTypeOK
  <2>4. call[c].paid + Outcall(1) \in Nat /\ call[c].paid + Outcall(1) <= call[c].funds
    BY <1>2, <1>3, <1>9 DEF OnHand
  <2>5. next \in CallRecord /\ next.paid <= next.funds
    BY <1>1, <1>6, <2>4 DEF CallRecord
  <2>6. /\ call'[c] = next /\ next.pc = "waiting" /\ next.reply = Nothing
        /\ next.paid = call[c].paid + Outcall(1) /\ next.asked = call[c].asked + 1
        /\ next.api = call[c].api /\ next.n = call[c].n /\ next.who = call[c].who
    BY <1>1, <1>4, <2>1 DEF CallTypeOK, CallRecord
  <2> HIDE DEF next
  <2>7. Requested(c)' = (call[c].asked + 1) * Outcall(1) /\ Sequential(c)'
    BY <2>6 DEF Requested, Sequential
  <2>8. next.paid = Ingress + Requested(c)'
    BY <1>2, <1>3, <1>4, <1>7, <2>6, <2>7
  <2>9. Waiting(c)'
    BY <1>4, <1>5, <1>6, <2>6, <2>7, <2>8 DEF Waiting
  <2>10. NotFree(c)'
    BY <1>3, <1>7, <2>6, <2>7, <2>8 DEF NotFree
  <2>11. New(c)' /\ Sole(c)' /\ Truthful(c)' /\ Sufficient(c)'
    BY <2>6 DEF New, Sole, Truthful, Ended, Sufficient, QuoteKept, Nothing
  <2>12. Booked(c)
    <3>1. incoming' = incoming + Outcall(1) /\ incoming \in Nat
      BY <2>2 DEF Books, CallTypeOK
    <3>2. QED
      BY <1>2, <1>3, <2>1, <2>6, <3>1 DEF Booked
  <2>13. QED
    BY <2>1, <2>3, <2>5, <2>9, <2>10, <2>11, <2>12 DEF Kept, Sound, CallTypeOK
<1>10. QED
  BY <1>8, <1>9

(* The answer of an agent is taken up as each of the interfaces does.      *)
LEMMA AnsweredKeeps ==
  ASSUME CallTypeOK, NEW c \in Calls, Sound(c),
         NEW i \in 1 .. MaxAgents, NEW x \in Answers, Answered(c, i, x)
  PROVE  Kept(c)
<1> DEFINE record == [call[c] EXCEPT !.answer[i] = x]
           n      == call[c].n
<1>1. /\ call[c].pc = "waiting" /\ Waiting(c) /\ call[c].answer[i] = NoAnswer
      /\ call[c] \in CallRecord
      /\ i \in (IF Sequential(c) THEN {call[c].asked} ELSE 1 .. n)
      /\ \A j \in 1 .. MaxAgents : Heard(c, j)
  BY DEF Answered, Sound, Waiting, CallTypeOK
<1>2. /\ record \in CallRecord
      /\ record = [call[c] EXCEPT !.answer = [call[c].answer EXCEPT ![i] = x]]
      /\ record.api = call[c].api /\ record.n = n /\ record.asked = call[c].asked
      /\ record.answer = [call[c].answer EXCEPT ![i] = x]
      /\ call[c].answer \in [1 .. MaxAgents -> Answers \cup {NoAnswer}]
  BY <1>1 DEF CallRecord
<1>3. Hearing(c, record)
  <2>1. [call[c].answer EXCEPT ![i] = x] \in [1 .. MaxAgents -> Answers \cup {NoAnswer}]
    BY <1>2
  <2>2. QED
    BY <1>2, <2>1 DEF Hearing
<1>4. /\ n \in 1 .. MaxAgents /\ MaxAgents \in Nat
      /\ call[c].asked \in 1 .. n /\ i \in 1 .. n
  <2>1. n \in 0 .. MaxAgents
    BY <1>1 DEF CallRecord
  <2>2. QED
    BY <1>1, <2>1, CallAssumption DEF Waiting
<1>5. /\ record.answer[i] = x
      /\ \A j \in (1 .. MaxAgents) \ {i} : record.answer[j] = call[c].answer[j]
  BY <1>2
<1>6. NoAnswer \notin Good /\ NoAnswer \notin Bad /\ Good \cap Bad = {}
  BY CallAssumption
<1>7. (x \in Good \/ x \in Bad) /\ Answers = Good \cup Bad
  BY DEF Answers
<1> HIDE DEF record, n
<1>8. CASE call[c].api = "proxy_http_request"
  <2>1. /\ Sequential(c) /\ i = call[c].asked /\ Payees(c) = 1
        /\ ProxyAnswered(c, record, x)
    BY <1>1, <1>8 DEF Sequential, Payees, Answered, record
  <2>2. \A j \in 1 .. MaxAgents :
          IF j < i THEN call[c].answer[j] \in Bad ELSE call[c].answer[j] = NoAnswer
    BY <1>1, <2>1 DEF Heard
  <2>3. x \in Good => BadOf(record) = 1 .. i - 1
    BY <1>4, <1>5, <1>6, <2>2 DEF BadOf
  <2>4. x \in Bad => BadOf(record) = 1 .. i
    BY <1>4, <1>5, <1>6, <2>2 DEF BadOf
  <2>5. CASE x \in Good /\ Settle(c, record, 1, x, "answer", x, {})
    <3>1. HonestOf(record, x)
      BY <1>2, <1>4, <1>5, <1>6, <1>8, <2>3, <2>5 DEF HonestOf
    <3>2. record.n = 1 => record.answer[1] = x
      BY <1>2, <1>4, <1>5
    <3>3. Settle(c, record, Payees(c), x, "answer", x, {}) /\ x \in Answers \cup {NoAnswer}
      BY <2>1, <2>5
    <3>4. QED
      BY <1>1, <1>3, <2>5, <3>1, <3>2, <3>3, SettleKeeps
  <2>6. CASE x \in Bad /\ record.asked = record.n /\ SettleBad(c, record, x)
    <3>1. HonestOf(record, x)
      BY <1>2, <1>4, <1>5, <1>6, <2>1, <2>4, <2>6 DEF HonestOf
    <3>2. QED
      BY <1>1, <1>3, <2>6, <3>1, SettleBadKeeps
  <2>7. CASE x \in Bad /\ record.asked < record.n /\ AskNext(c, record)
    <3>1. ASSUME call'[c].pc = "waiting"
          PROVE  \A j \in 1 .. MaxAgents : Heard(c, j)'
      <4>1. /\ call'[c].answer = record.answer /\ call'[c].api = call[c].api
            /\ call'[c].n = n /\ call'[c].asked = call[c].asked + 1
        <5>1. CASE Outcall(1) > OnHand(c)
          <6>1. PICK reply : call' = [call EXCEPT ![c] = [record EXCEPT
                                         !.pc = "ended", !.reply = reply]]
            BY <2>7, <5>1 DEF AskNext, Trap
          <6>2. call'[c] = [record EXCEPT !.pc = "ended", !.reply = reply]
            BY <6>1 DEF CallTypeOK
          <6>3. call'[c].pc = "ended"
            BY <1>2, <6>2 DEF CallRecord
          <6>4. QED
            BY <3>1, <6>3
        <5>2. CASE ~(Outcall(1) > OnHand(c))
          <6>1. call' = [call EXCEPT ![c] = [record EXCEPT
                           !.asked = record.asked + 1, !.paid = record.paid + Outcall(1)]]
            BY <1>2, <2>7, <5>2 DEF AskNext, CallRecord
          <6>2. call'[c] = [record EXCEPT !.asked = record.asked + 1,
                                          !.paid = record.paid + Outcall(1)]
            BY <6>1 DEF CallTypeOK
          <6>3. QED
            BY <1>2, <6>2 DEF CallRecord
        <5>3. QED
          BY <5>1, <5>2
      <4>2. ASSUME NEW j \in 1 .. MaxAgents
            PROVE  Heard(c, j)'
        <5>1. j > n => record.answer[j] = NoAnswer
          BY <1>1, <1>4, <1>5 DEF Heard, n
        <5>2. IF j < i + 1 THEN record.answer[j] \in Bad ELSE record.answer[j] = NoAnswer
          BY <1>4, <1>5, <2>2, <2>7
        <5>3. QED
          BY <1>8, <2>1, <4>1, <5>1, <5>2 DEF Heard, Sequential
      <4>3. QED
        BY <4>2
    <3>2. QED
      BY <1>1, <1>2, <1>3, <2>1, <2>7, <3>1, AskNextKeeps DEF n
  <2>8. QED
    BY <2>1, <2>5, <2>6, <2>7 DEF ProxyAnswered
<1>9. CASE call[c].api = "parallel_call_any_ok"
  <2>1. /\ ~Sequential(c) /\ Payees(c) = record.n /\ AnyAnswered(c, record, x)
    BY <1>2, <1>9 DEF Sequential, Payees, Answered, record, n
  <2>2. \A j \in 1 .. MaxAgents :
          /\ call[c].answer[j] \in Bad \cup {NoAnswer}
          /\ j > n => call[c].answer[j] = NoAnswer
    BY <1>1, <1>9 DEF Heard, n
  <2>3. CASE x \in Good /\ Settle(c, record, record.n, x, "answer", x, {})
    <3>1. HonestOf(record, x)
      BY <1>2, <1>4, <1>5, <1>6, <1>9, <2>3 DEF HonestOf
    <3>2. record.n = 1 => record.answer[1] = x
      BY <1>2, <1>4, <1>5
    <3>3. Settle(c, record, Payees(c), x, "answer", x, {}) /\ x \in Answers \cup {NoAnswer}
      BY <2>1, <2>3
    <3>4. QED
      BY <1>1, <1>3, <2>3, <3>1, <3>2, <3>3, SettleKeeps
  <2>4. CASE x \in Bad /\ Missing(record) = {} /\ SettleBad(c, record, x)
    <3>1. BadOf(record) = 1 .. n
      BY <1>2, <1>4, <1>5, <1>6, <2>2, <2>4 DEF BadOf, Missing
    <3>2. HonestOf(record, x)
      BY <1>2, <1>4, <1>5, <1>6, <2>4, <3>1 DEF HonestOf
    <3>3. QED
      BY <1>1, <1>3, <2>4, <3>2, SettleBadKeeps
  <2>5. CASE x \in Bad /\ Missing(record) # {} /\ Keep(c, record)
    <3>1. call'[c] = record
      BY <2>5 DEF Keep, CallTypeOK
    <3>2. \A j \in 1 .. MaxAgents : Heard(c, j)'
      BY <1>2, <1>4, <1>5, <1>9, <2>2, <2>5, <3>1 DEF Heard, Sequential
    <3>3. QED
      BY <1>1, <1>3, <2>5, <3>2, KeepKeeps
  <2>6. QED
    BY <2>1, <2>3, <2>4, <2>5 DEF AnyAnswered
<1>10. CASE call[c].api = "parallel_call_all_ok"
  <2> DEFINE base == record.answer[1]
             odd  == {j \in 2 .. record.n : record.answer[j] # base}
  <2>1. /\ ~Sequential(c) /\ Payees(c) = record.n /\ AllAnswered(c, record, x)
    BY <1>2, <1>10 DEF Sequential, Payees, Answered, record, n
  <2>2. \A j \in 1 .. MaxAgents :
          /\ call[c].answer[j] \in Good \cup {NoAnswer}
          /\ j > n => call[c].answer[j] = NoAnswer
    BY <1>1, <1>10 DEF Heard, n
  <2>3. CASE x \in Bad /\ SettleBad(c, record, x)
    <3>1. HonestOf(record, x)
      BY <1>2, <1>4, <1>5, <1>6, <1>10, <2>3 DEF HonestOf
    <3>2. QED
      BY <1>1, <1>3, <2>3, <3>1, SettleBadKeeps
  <2>4. CASE x \in Good /\ Missing(record) # {} /\ Keep(c, record)
    <3>1. call'[c] = record
      BY <2>4 DEF Keep, CallTypeOK
    <3>2. \A j \in 1 .. MaxAgents : Heard(c, j)'
      BY <1>2, <1>4, <1>5, <1>10, <2>2, <2>4, <3>1 DEF Heard, Sequential
    <3>3. QED
      BY <1>1, <1>3, <2>4, <3>2, KeepKeeps
  <2>5. ASSUME x \in Good, Missing(record) = {}
        PROVE  base \in Good /\ base \in Answers
    BY <1>2, <1>4, <1>5, <1>7, <2>2, <2>5 DEF Missing
  <2>6. CASE /\ x \in Good /\ Missing(record) = {} /\ odd = {}
             /\ Settle(c, record, record.n, base, "answer", base, {})
    <3>1. \A j \in 1 .. n : record.answer[j] = base
      BY <1>2, <1>4, <2>6
    <3>2. HonestOf(record, base)
      BY <1>2, <1>4, <1>6, <1>10, <2>5, <2>6, <3>1 DEF HonestOf
    <3>3. /\ Settle(c, record, Payees(c), base, "answer", base, {})
          /\ base \in Good /\ base \in Answers \cup {NoAnswer}
      BY <2>1, <2>5, <2>6
    <3>4. record.n = 1 => record.answer[1] = base
      OBVIOUS
    <3> HIDE DEF base
    <3>5. QED
      BY <1>1, <1>3, <3>2, <3>3, <3>4, SettleKeeps
  <2>7. CASE /\ x \in Good /\ Missing(record) = {} /\ odd # {}
             /\ Settle(c, record, record.n, base, "mixed", NoAnswer, odd \cup {1})
    <3>1. record.n # 1 /\ odd \cup {1} \in SUBSET (1 .. MaxAgents)
      BY <1>2, <1>4, <2>7
    <3>2. /\ Settle(c, record, Payees(c), base, "mixed", NoAnswer, odd \cup {1})
          /\ base \in Good
      BY <2>1, <2>5, <2>7
    <3> HIDE DEF base, odd
    <3>3. QED
      BY <1>1, <1>3, <3>1, <3>2, SettleKeeps
  <2>8. QED
    BY <2>1, <2>3, <2>4, <2>6, <2>7 DEF AllAnswered
<1>11. QED
  BY <1>1, <1>8, <1>9, <1>10 DEF CallRecord, Apis

(* ------------------------------- the sums ------------------------------ *)

(* MapThenSumSet of what calls have paid, taken apart: f is call or call'. *)
OneOf(S) == CHOOSE x \in S : TRUE

SumRule(f, g, S) == IF S = {} THEN 0 ELSE f[OneOf(S)].paid + g[S \ {OneOf(S)}]

Sums(f, D) == CHOOSE g : g = [S \in SUBSET D |-> SumRule(f, g, S)]
UpTo(D, n) == {T \in SUBSET D : Cardinality(T) <= n}
TotalPaid(f, D) == Sums(f, D)[D]

(* Whatever is wrong with some subset of a finite set is wrong with one    *)
(* that is right when any element is left out.                             *)
LEMMA Minimal ==
  ASSUME NEW D, IsFiniteSet(D), NEW B \in SUBSET (SUBSET D), B # {}
  PROVE  \E S \in B : \A x \in S : S \ {x} \notin B
<1>1. FiniteSubsetsOf(D) = SUBSET D
  BY FS_FiniteSubsetsOfFinite
<1>2. PICK S \in B : \A T \in B : <<T, S>> \notin StrictSubsetOrdering(D)
  BY <1>1, FS_StrictSubsetOrderingWellFounded, WFMin
<1>3. ASSUME NEW x \in S, S \ {x} \in B
      PROVE  FALSE
  BY <1>2, <1>3 DEF StrictSubsetOrdering
<1>4. QED
  BY <1>3

(* A set of natural numbers that is not empty has a least one.             *)
LEMMA Least ==
  ASSUME NEW S \in SUBSET Nat, S # {}
  PROVE  \E i \in S : \A h \in S : i <= h
<1>1. \E i \in S : \A h \in S : ~(<<h, i>> \in OpToRel(<, Nat))
  BY NatLessThanWellFounded, WFMin
<1>2. ASSUME NEW i \in S, NEW h \in S, ~(<<h, i>> \in OpToRel(<, Nat))
      PROVE  i <= h
  BY <1>2 DEF OpToRel
<1>3. QED
  BY <1>1, <1>2

LEMMA OneOfIn ==
  ASSUME NEW S, S # {}
  PROVE  OneOf(S) \in S
  BY DEF OneOf

(* There is a function that sums up subsets as large as one likes.         *)
LEMMA SumsUpTo ==
  ASSUME NEW f, NEW D, IsFiniteSet(D), NEW m \in Nat
  PROVE  \E g : g = [S \in UpTo(D, m) |-> SumRule(f, g, S)]
<1> USE DEF UpTo, SumRule
<1> DEFINE Odd == {n \in Nat : ~\E g : g = [S \in UpTo(D, n) |-> SumRule(f, g, S)]}
<1>1. \A T \in SUBSET D : /\ Cardinality(T) \in Nat
                          /\ Cardinality(T) = 0 => T = {}
                          /\ \A x \in T : Cardinality(T \ {x}) = Cardinality(T) - 1
  BY FS_Subset, FS_CardinalityType, FS_EmptySet, FS_RemoveElement
<1>2. ASSUME Odd # {}
      PROVE  FALSE
  <2>1. PICK n \in Odd : \A h \in Odd : n <= h
    <3>1. Odd \in SUBSET Nat
      OBVIOUS
    <3> HIDE DEF Odd
    <3>2. QED
      BY <1>2, <3>1, Least
  <2>2. n \in Nat /\ ~\E g : g = [S \in UpTo(D, n) |-> SumRule(f, g, S)]
    OBVIOUS
  <2>3. CASE n = 0
    <3> DEFINE g == [S \in UpTo(D, n) |-> 0]
    <3>1. \A S \in UpTo(D, n) : SumRule(f, g, S) = 0
      BY <1>1, <2>3
    <3>2. g = [S \in UpTo(D, n) |-> SumRule(f, g, S)]
      BY <3>1
    <3>3. QED
      BY <2>2, <3>2
  <2>4. CASE n # 0
    <3>1. n - 1 \in Nat /\ ~(n <= n - 1)
      BY <2>2, <2>4
    <3>2. PICK h : h = [S \in UpTo(D, n - 1) |-> SumRule(f, h, S)]
      <4>1. n - 1 \notin Odd
        <5> HIDE DEF Odd
        <5>1. QED
          BY <2>1, <3>1
      <4>2. QED
        BY <3>1, <4>1
    <3> DEFINE g == [S \in UpTo(D, n) |-> SumRule(f, h, S)]
    <3>3. ASSUME NEW S \in UpTo(D, n)
          PROVE  SumRule(f, g, S) = SumRule(f, h, S)
      <4>1. CASE S = {}
        BY <4>1
      <4>2. CASE S # {}
        <5> DEFINE T == S \ {OneOf(S)}
        <5>1. T \in SUBSET D /\ Cardinality(T) = Cardinality(S) - 1
          BY <1>1, <4>2, OneOfIn
        <5>2. /\ Cardinality(S) \in Nat /\ Cardinality(S) <= n
              /\ Cardinality(S) - 1 <= n - 1 /\ Cardinality(S) - 1 <= n
          BY <1>1, <2>2
        <5>3. T \in UpTo(D, n - 1) /\ T \in UpTo(D, n)
          BY <5>1, <5>2
        <5> HIDE DEF T
        <5>4. g[T] = SumRule(f, h, T)
          BY <5>3
        <5>5. h[T] = SumRule(f, h, T)
          BY <3>2, <5>3
        <5>6. g[T] = h[T]
          BY <5>4, <5>5
        <5>7. QED
          BY <4>2, <5>6 DEF T
      <4>3. QED
        BY <4>1, <4>2
    <3>4. g = [S \in UpTo(D, n) |-> SumRule(f, g, S)]
      BY <3>3
    <3>5. QED
      BY <2>2, <3>4
  <2>5. QED
    BY <2>3, <2>4
<1>3. QED
  BY <1>2

(* So Sums does, over all subsets of a finite set.                         *)
LEMMA SumsAre ==
  ASSUME NEW f, NEW D, IsFiniteSet(D)
  PROVE  \A S \in SUBSET D : Sums(f, D)[S] = SumRule(f, Sums(f, D), S)
<1>1. SUBSET D = UpTo(D, Cardinality(D))
  BY FS_Subset DEF UpTo
<1>2. Cardinality(D) \in Nat
  BY FS_CardinalityType
<1>3. \E g : g = [S \in SUBSET D |-> SumRule(f, g, S)]
  <2>1. \E g : g = [S \in UpTo(D, Cardinality(D)) |-> SumRule(f, g, S)]
    BY <1>2, SumsUpTo
  <2>2. QED
    BY <1>1, <2>1, Zenon
<1>4. Sums(f, D) = [S \in SUBSET D |-> SumRule(f, Sums(f, D), S)]
  BY <1>3, Zenon DEF Sums
<1> DEFINE g == Sums(f, D)
<1>5. g = [S \in SUBSET D |-> SumRule(f, g, S)]
  BY <1>4
<1> HIDE DEF g
<1>6. \A S \in SUBSET D : g[S] = SumRule(f, g, S)
  BY <1>5
<1>7. QED
  BY <1>6 DEF g

(* What such sums are: nothing, or one term more than another.             *)
AddsUp(f, D) ==
  /\ Sums(f, D)[{}] = 0
  /\ \A S \in SUBSET D :
       S # {} => Sums(f, D)[S] = f[OneOf(S)].paid + Sums(f, D)[S \ {OneOf(S)}]

LEMMA SumsAddUp ==
  ASSUME NEW f, NEW D, IsFiniteSet(D)
  PROVE  AddsUp(f, D)
<1>1. \A S \in SUBSET D : Sums(f, D)[S] = SumRule(f, Sums(f, D), S)
  BY SumsAre
<1>2. {} \in SUBSET D
  OBVIOUS
<1>3. QED
  BY <1>1, <1>2 DEF SumRule, AddsUp

LEMMA SumsNat ==
  ASSUME NEW f, NEW D, IsFiniteSet(D), \A d \in D : f[d].paid \in Nat
  PROVE  \A S \in SUBSET D : Sums(f, D)[S] \in Nat
<1>1. AddsUp(f, D)
  BY SumsAddUp
<1> DEFINE Odd == {S \in SUBSET D : Sums(f, D)[S] \notin Nat}
<1>2. ASSUME NEW S \in Odd, \A x \in S : S \ {x} \notin Odd
      PROVE  FALSE
  <2>1. S \in SUBSET D /\ Sums(f, D)[S] \notin Nat
    OBVIOUS
  <2>2. S # {}
    <3>1. Sums(f, D)[{}] = 0
      BY <1>1 DEF AddsUp
    <3>2. QED
      BY <2>1, <3>1
  <2>3. OneOf(S) \in S /\ OneOf(S) \in D
    BY <2>1, <2>2, OneOfIn
  <2>4. Sums(f, D)[S \ {OneOf(S)}] \in Nat
    BY <1>2, <2>3
  <2>5. Sums(f, D)[S] = f[OneOf(S)].paid + Sums(f, D)[S \ {OneOf(S)}]
    BY <1>1, <2>1, <2>2 DEF AddsUp
  <2>6. QED
    BY <2>3, <2>4, <2>5
<1>3. Odd = {}
  <2> Odd \in SUBSET (SUBSET D)
    OBVIOUS
  <2> HIDE DEF Odd
  <2> QED
    BY <1>2, Minimal
<1>4. QED
  BY <1>3

(* Only the terms matter, not the set of which the set is a subset.        *)
LEMMA SumsAgree ==
  ASSUME NEW f, NEW h, NEW D, IsFiniteSet(D), NEW E, E \subseteq D,
         \A d \in E : f[d].paid = h[d].paid
  PROVE  \A S \in SUBSET E : Sums(f, D)[S] = Sums(h, E)[S]
<1>1. IsFiniteSet(E)
  BY FS_Subset
<1>2. AddsUp(f, D) /\ AddsUp(h, E)
  BY <1>1, SumsAddUp
<1> DEFINE Odd == {S \in SUBSET E : Sums(f, D)[S] # Sums(h, E)[S]}
<1>3. ASSUME NEW S \in Odd, \A x \in S : S \ {x} \notin Odd
      PROVE  FALSE
  <2>1. S \in SUBSET D /\ S \in SUBSET E
    OBVIOUS
  <2>2. S # {}
    BY <1>2 DEF AddsUp
  <2>3. OneOf(S) \in S /\ f[OneOf(S)].paid = h[OneOf(S)].paid
    BY <2>1, <2>2, OneOfIn
  <2>4. Sums(f, D)[S \ {OneOf(S)}] = Sums(h, E)[S \ {OneOf(S)}]
    BY <1>3, <2>1, <2>3
  <2>5. Sums(f, D)[S] = f[OneOf(S)].paid + Sums(f, D)[S \ {OneOf(S)}]
    BY <1>2, <2>1, <2>2 DEF AddsUp
  <2>6. Sums(h, E)[S] = h[OneOf(S)].paid + Sums(h, E)[S \ {OneOf(S)}]
    BY <1>2, <2>1, <2>2 DEF AddsUp
  <2>7. QED
    BY <2>3, <2>4, <2>5, <2>6
<1>4. Odd = {}
  <2> Odd \in SUBSET (SUBSET E)
    OBVIOUS
  <2> HIDE DEF Odd
  <2> QED
    BY <1>1, <1>3, Minimal
<1>5. QED
  BY <1>4

(* It does not matter who is summed up first.                              *)
LEMMA AnyFirst ==
  ASSUME NEW f, NEW D, IsFiniteSet(D), \A d \in D : f[d].paid \in Nat
  PROVE  \A S \in SUBSET D, x \in D :
           x \in S => Sums(f, D)[S] = f[x].paid + Sums(f, D)[S \ {x}]
<1>1. AddsUp(f, D)
  BY SumsAddUp
<1> DEFINE Odd == {S \in SUBSET D :
                     \E x \in S : Sums(f, D)[S] # f[x].paid + Sums(f, D)[S \ {x}]}
<1>2. ASSUME NEW S \in Odd, \A x \in S : S \ {x} \notin Odd
      PROVE  FALSE
  <2>1. PICK x \in S : Sums(f, D)[S] # f[x].paid + Sums(f, D)[S \ {x}]
    OBVIOUS
  <2> DEFINE y == OneOf(S)
  <2>2. y \in S /\ S \in SUBSET D
    BY <2>1, OneOfIn
  <2>3. Sums(f, D)[S] = f[y].paid + Sums(f, D)[S \ {y}]
    BY <1>1, <2>1, <2>2 DEF AddsUp
  <2>4. x # y
    BY <2>1, <2>3
  <2> HIDE DEF y
  <2>5. S \ {x} \in SUBSET D /\ S \ {y} \in SUBSET D
    BY <2>2
  <2>6. Sums(f, D)[S \ {y}] = f[x].paid + Sums(f, D)[(S \ {y}) \ {x}]
    BY <1>2, <2>2, <2>4, <2>5
  <2>7. Sums(f, D)[S \ {x}] = f[y].paid + Sums(f, D)[(S \ {x}) \ {y}]
    BY <1>2, <2>2, <2>4, <2>5
  <2>8. (S \ {y}) \ {x} = (S \ {x}) \ {y} /\ (S \ {x}) \ {y} \in SUBSET D
    BY <2>2
  <2> DEFINE rest == Sums(f, D)[(S \ {x}) \ {y}]
  <2>9. rest \in Nat /\ f[x].paid \in Nat /\ f[y].paid \in Nat
    BY <2>2, <2>8, SumsNat
  <2>10. /\ Sums(f, D)[S] = f[y].paid + (f[x].paid + rest)
         /\ Sums(f, D)[S \ {x}] = f[y].paid + rest
    BY <2>3, <2>6, <2>7, <2>8
  <2> HIDE DEF rest
  <2>11. f[y].paid + (f[x].paid + rest) = f[x].paid + (f[y].paid + rest)
    BY <2>9
  <2>12. QED
    BY <2>1, <2>10, <2>11
<1>3. Odd = {}
  <2> Odd \in SUBSET (SUBSET D)
    OBVIOUS
  <2> HIDE DEF Odd
  <2> QED
    BY <1>2, Minimal
<1>4. QED
  BY <1>3

(* What proofs use of it.                                                  *)
LEMMA SameTotal ==
  ASSUME NEW f, NEW h, NEW D, IsFiniteSet(D), \A d \in D : f[d].paid = h[d].paid
  PROVE  TotalPaid(f, D) = TotalPaid(h, D)
<1>1. D \in SUBSET D
  OBVIOUS
<1>2. QED
  BY <1>1, SumsAgree DEF TotalPaid

LEMMA TotalOfNothing ==
  ASSUME NEW f, NEW D, IsFiniteSet(D), \A d \in D : f[d].paid = 0
  PROVE  TotalPaid(f, D) = 0
<1>1. AddsUp(f, D)
  BY SumsAddUp
<1> DEFINE Odd == {S \in SUBSET D : Sums(f, D)[S] # 0}
<1>2. ASSUME NEW S \in Odd, \A x \in S : S \ {x} \notin Odd
      PROVE  FALSE
  <2>1. S \in SUBSET D /\ S # {}
    BY <1>1 DEF AddsUp
  <2>2. OneOf(S) \in S /\ f[OneOf(S)].paid = 0
    BY <2>1, OneOfIn
  <2>3. Sums(f, D)[S \ {OneOf(S)}] = 0
    BY <1>2, <2>1, <2>2
  <2>4. Sums(f, D)[S] = f[OneOf(S)].paid + Sums(f, D)[S \ {OneOf(S)}]
    BY <1>1, <2>1 DEF AddsUp
  <2>5. QED
    BY <2>2, <2>3, <2>4
<1>3. Odd = {}
  <2> Odd \in SUBSET (SUBSET D)
    OBVIOUS
  <2> HIDE DEF Odd
  <2> QED
    BY <1>2, Minimal
<1>4. D \in SUBSET D
  OBVIOUS
<1>5. QED
  BY <1>3, <1>4 DEF TotalPaid

LEMMA TotalIsNat ==
  ASSUME NEW f, NEW D, IsFiniteSet(D), \A d \in D : f[d].paid \in Nat
  PROVE  TotalPaid(f, D) \in Nat
<1>1. D \in SUBSET D
  OBVIOUS
<1>2. QED
  BY <1>1, SumsNat DEF TotalPaid

LEMMA TotalWithout ==
  ASSUME NEW f, NEW D, IsFiniteSet(D), \A d \in D : f[d].paid \in Nat,
         NEW x \in D
  PROVE  TotalPaid(f, D) = f[x].paid + TotalPaid(f, D \ {x})
<1>1. D \in SUBSET D /\ D \ {x} \in SUBSET D
  OBVIOUS
<1>2. Sums(f, D)[D] = f[x].paid + Sums(f, D)[D \ {x}]
  BY <1>1, AnyFirst
<1>3. Sums(f, D)[D \ {x}] = Sums(f, D \ {x})[D \ {x}]
  BY <1>1, SumsAgree
<1>4. QED
  BY <1>2, <1>3 DEF TotalPaid

(* The books are kept in totals.                                           *)
RepliedTo(p) == {c \in Calls : call[c].who = p /\ Replied(c)}

BooksInv == /\ incoming = TotalPaid(call, Calls)
            /\ \A p \in Callers : spent[p] <= TotalPaid(call, RepliedTo(p))

LEMMA BooksAreTotals == BooksBalance <=> BooksInv
<1>1. /\ MapThenSumSet(LAMBDA c : call[c].paid, Calls) = TotalPaid(call, Calls)
      /\ \A p \in Callers :
           MapThenSumSet(LAMBDA c : call[c].paid,
                         {c \in Calls : call[c].who = p /\ Replied(c)})
             = TotalPaid(call, RepliedTo(p))
  BY Zenon
  DEF MapThenSumSet, MapThenFoldSet, TotalPaid, Sums, SumRule, OneOf, RepliedTo
<1>2. QED
  BY <1>1, Zenon DEF BooksBalance, BooksInv

(* A step of a call books what the call pays with it.                      *)
LEMMA StepBooks ==
  ASSUME CallTypeOK, CallTypeOK', BooksInv, NEW c \in Calls, Booked(c),
         \A d \in Calls \ {c} : call'[d] = call[d], UNCHANGED allowed
  PROVE  BooksInv'
<1>1. /\ \A d \in Calls : call[d].paid \in Nat /\ call'[d].paid \in Nat
      /\ incoming \in Nat /\ incoming' \in Nat
      /\ spent \in [Callers -> Nat] /\ spent' \in [Callers -> Nat]
  BY DEF CallTypeOK, CallRecord
<1>2. IsFiniteSet(Calls) /\ \A S \in SUBSET Calls : IsFiniteSet(S)
  BY CallAssumption, FS_Subset
<1>3. incoming' = TotalPaid(call', Calls)
  <2> DEFINE rest == TotalPaid(call, Calls \ {c})
  <2>1. TotalPaid(call, Calls) = call[c].paid + rest
    BY <1>1, <1>2, TotalWithout
  <2>2. TotalPaid(call', Calls) = call'[c].paid + TotalPaid(call', Calls \ {c})
    BY <1>1, <1>2, TotalWithout
  <2>3. TotalPaid(call', Calls \ {c}) = rest
    BY <1>2, SameTotal
  <2>4. rest \in Nat
    BY <1>1, <1>2, TotalIsNat
  <2>5. incoming = call[c].paid + rest
    BY <2>1 DEF BooksInv
  <2>6. incoming' + call[c].paid = incoming + call'[c].paid
    BY DEF Booked
  <2> HIDE DEF rest
  <2>7. incoming' = call'[c].paid + rest
    BY <1>1, <2>4, <2>5, <2>6
  <2>8. QED
    BY <2>2, <2>3, <2>7
<1>4. ASSUME NEW p \in Callers
      PROVE  spent'[p] <= TotalPaid(call', RepliedTo(p)')
  <2> DEFINE before == RepliedTo(p)
             after  == RepliedTo(p)'
             total  == TotalPaid(call, before)
  <2>1. c \notin before /\ after \ {c} = before
    BY DEF RepliedTo, Replied, Ended, Booked
  <2>2. /\ before \in SUBSET Calls /\ after \in SUBSET Calls
        /\ IsFiniteSet(before) /\ IsFiniteSet(after)
    BY <1>2 DEF RepliedTo
  <2>3. TotalPaid(call', before) = total
    BY <2>1, <2>2, SameTotal
  <2>4. total \in Nat /\ spent[p] <= total /\ spent[p] \in Nat
    BY <1>1, <2>2, TotalIsNat DEF BooksInv
  <2>5. c \in after => TotalPaid(call', after) = call'[c].paid + total
    <3>1. \A d \in after : call'[d].paid \in Nat
      BY <1>1, <2>2
    <3>2. c \in after => TotalPaid(call', after)
                           = call'[c].paid + TotalPaid(call', after \ {c})
      BY <2>2, <3>1, TotalWithout
    <3>3. QED
      BY <2>1, <2>3, <3>2
  <2>6. c \notin after => TotalPaid(call', after) = total
    BY <2>1, <2>3
  <2>7. CASE spent'[p] = spent[p]
    BY <1>1, <2>4, <2>5, <2>6, <2>7
  <2>8. CASE spent'[p] # spent[p]
    <3>1. /\ Replied(c)' /\ call[c].who = p
          /\ spent'[p] = spent[p] + call'[c].paid
      BY <1>1, <2>8 DEF Booked, Credit
    <3>2. c \in after
      BY <3>1 DEF RepliedTo, Booked
    <3> HIDE DEF after, total
    <3>3. QED
      BY <1>1, <2>4, <2>5, <3>1, <3>2 DEF after
  <2>9. QED
    BY <2>7, <2>8
<1>5. QED
  BY <1>3, <1>4 DEF BooksInv

(* ------------------------------ the theorems --------------------------- *)

(* Every step keeps the invariant: the calls' own, and the administration, *)
(* which touches no call.                                                  *)
LEMMA NextKeeps == CallInv /\ [Next]_vars => CallInv'
<1> SUFFICES ASSUME CallInv, [Next]_vars
             PROVE  CallInv'
  OBVIOUS
<1>1. CallTypeOK /\ \A c \in Calls : Sound(c)
  BY DEF CallInv
<1>2. ASSUME NEW c \in Calls, Step(c), UNCHANGED <<agents, allowed>>
      PROVE  CallInv'
  <2>1. Kept(c)
    BY <1>1, <1>2, RefuseKeeps, StartKeeps, AnsweredKeeps DEF Step
  <2>2. PICK record \in CallRecord : /\ call' = [call EXCEPT ![c] = record]
                                     /\ record.paid <= record.funds
    BY <2>1 DEF Kept
  <2>3. CallTypeOK'
    BY <1>1, <1>2, <2>1, <2>2 DEF Kept, CallTypeOK
  <2>4. ASSUME NEW d \in Calls
        PROVE  Sound(d)'
    <3>1. CASE d = c
      BY <2>1, <3>1 DEF Kept
    <3>2. CASE d # c
      <4>1. call'[d] = call[d]
        BY <1>1, <2>2, <3>2 DEF CallTypeOK
      <4>2. QED
        BY <1>1, <4>1, SoundStays
    <3>3. QED
      BY <3>1, <3>2
  <2>5. QED
    BY <2>3, <2>4 DEF CallInv
<1>3. ASSUME UNCHANGED call, agents' \in 0 .. MaxAgents, allowed' \subseteq Callers,
             spent' \in [Callers -> Nat], UNCHANGED <<incoming, uncollectible>>
      PROVE  CallInv'
  <2>1. CallTypeOK'
    BY <1>1, <1>3 DEF CallTypeOK
  <2>2. \A c \in Calls : Sound(c)'
    BY <1>1, <1>3, SoundStays
  <2>3. QED
    BY <2>1, <2>2 DEF CallInv
<1>4. CASE \E p \in Callers : AddCaller(p) \/ RemoveCaller(p)
  BY <1>1, <1>3, <1>4 DEF AddCaller, RemoveCaller, CallTypeOK
<1>5. CASE SetAgents
  BY <1>1, <1>3, <1>5, CallAssumption DEF SetAgents, CallTypeOK
<1>6. CASE UNCHANGED vars
  BY <1>1, <1>3, <1>6 DEF vars, CallTypeOK
<1>7. QED
  BY <1>2, <1>4, <1>5, <1>6 DEF Next

(* A canister that has just started has only new calls. *)
LEMMA InitSound == Init => CallInv
<1> SUFFICES ASSUME Init
             PROVE  CallInv
  OBVIOUS
<1>1. ASSUME NEW c \in Calls
      PROVE  /\ call[c] \in CallRecord /\ call[c].pc = "new"
             /\ call[c].paid = 0 /\ call[c].asked = 0 /\ call[c].n = 0
             /\ call[c].answer = [i \in 1 .. MaxAgents |-> NoAnswer]
             /\ call[c].reply = Nothing /\ call[c].funds \in Nat
  <2>1. call[c] \in [pc : {"new"}, api : Apis, who : Callers,
                     funds : Funds, paid : {0}, asked : {0},
                     n : {0}, answer : {[i \in 1 .. MaxAgents |-> NoAnswer]},
                     reply : {Nothing}]
    BY DEF Init
  <2>2. Nothing \in [kind : {"none"}, body : Answers \cup {NoAnswer},
                     parts : SUBSET (1 .. MaxAgents)]
    BY DEF Nothing
  <2>3. [i \in 1 .. MaxAgents |-> NoAnswer] \in [1 .. MaxAgents -> Answers \cup {NoAnswer}]
    OBVIOUS
  <2>4. 0 \in 0 .. MaxAgents /\ Funds \subseteq Nat
    BY CallAssumption
  <2>5. /\ call[c].pc = "new" /\ call[c].paid = 0 /\ call[c].asked = 0 /\ call[c].n = 0
        /\ call[c].answer = [i \in 1 .. MaxAgents |-> NoAnswer]
        /\ call[c].reply = Nothing /\ call[c].funds \in Funds
    BY <2>1
  <2>6. call[c] \in CallRecord
    BY <2>1, <2>2, <2>3, <2>4 DEF CallRecord
  <2>7. QED
    BY <2>4, <2>5, <2>6
<1>2. CallTypeOK
  <2>1. call \in [Calls -> CallRecord]
    BY <1>1 DEF Init
  <2>2. \A c \in Calls : call[c].paid <= call[c].funds
    BY <1>1
  <2>3. QED
    BY <2>1, <2>2, CallAssumption DEF Init, CallTypeOK
<1>3. ASSUME NEW c \in Calls
      PROVE  Sound(c)
  <2>1. New(c)
    BY <1>1 DEF New
  <2>2. Waiting(c) /\ Sole(c) /\ Truthful(c)
    BY <1>1 DEF Waiting, Sole, Truthful, Ended
  <2>3. NotFree(c) /\ Sufficient(c)
    <3>1. ~(call[c].asked > 0) /\ ~(call[c].n > 0)
      BY <1>1
    <3>2. QED
      BY <3>1 DEF NotFree, Sufficient
  <2>4. QED
    BY <2>1, <2>2, <2>3 DEF Sound
<1>4. QED
  BY <1>2, <1>3 DEF CallInv

(* CallInv holds in every state. *)
THEOREM CallsSound == Spec => []CallInv
  BY InitSound, NextKeeps, PTL DEF Spec

(* The variables of the canister always have their types, and no call has  *)
(* paid more than was attached to it.                                      *)
THEOREM CallTypes == Spec => []CallTypeOK
<1>1. CallInv => CallTypeOK
  BY DEF CallInv
<1>2. QED
  BY <1>1, CallsSound, PTL

(* However many agents are asked, in turn or at once, each outcall has     *)
(* been paid for.                                                          *)
THEOREM OutcallsPaid == Spec => []NoFreeOutcall
<1>1. CallInv => NoFreeOutcall
  BY DEF CallInv, Sound, NotFree, NoFreeOutcall
<1>2. QED
  BY <1>1, CallsSound, PTL

(* Replies are what they are said to be, in whatever order the agents      *)
(* answer, and however many there are.                                     *)
THEOREM Honesty == Spec => []RepliesHonest
<1>1. CallInv => RepliesHonest
  BY DEF CallInv, Sound, Truthful, RepliesHonest
<1>2. QED
  BY <1>1, CallsSound, PTL

(* The quotes suffice, for any prices, lengths and number of agents.       *)
THEOREM Quotes == Spec => []QuoteSuffices
<1>1. CallInv => QuoteSuffices
  BY DEF CallInv, Sound, Sufficient, QuoteSuffices
<1>2. QED
  BY <1>1, CallsSound, PTL

(* With one agent it does not matter which interface is called.            *)
THEOREM OneAgent == Spec => []OneAgentEquivalent
<1>1. CallInv => OneAgentEquivalent
  BY DEF CallInv, Sound, Sole, OneAgentEquivalent
<1>2. QED
  BY <1>1, CallsSound, PTL

(* The books balance, whatever calls are under way, however they end, and  *)
(* whoever is added or removed meanwhile.                                  *)
THEOREM Bookkeeping == Spec => []BooksBalance
<1>1. Init => BooksInv
  <2> SUFFICES ASSUME Init
               PROVE  BooksInv
    OBVIOUS
  <2>1. \A d \in Calls : call[d].pc = "new" /\ call[d].paid = 0
    BY DEF Init
  <2>2. /\ IsFiniteSet(Calls) /\ IsFiniteSet({})
        /\ \A p \in Callers : RepliedTo(p) = {}
    BY <2>1, CallAssumption, FS_EmptySet DEF RepliedTo, Replied, Ended
  <2>3. TotalPaid(call, Calls) = 0
    BY <2>1, <2>2, TotalOfNothing
  <2>4. TotalPaid(call, {}) = 0
    BY <2>2, TotalOfNothing
  <2>5. incoming = 0 /\ \A p \in Callers : spent[p] = 0
    BY DEF Init
  <2>6. \A p \in Callers : spent[p] <= TotalPaid(call, RepliedTo(p))
    BY <2>2, <2>4, <2>5
  <2>7. QED
    BY <2>3, <2>5, <2>6 DEF BooksInv
<1>2. CallInv /\ CallInv' /\ BooksInv /\ [Next]_vars => BooksInv'
  <2> SUFFICES ASSUME CallInv, CallInv', BooksInv, [Next]_vars
               PROVE  BooksInv'
    OBVIOUS
  <2>1. CallTypeOK /\ CallTypeOK' /\ \A c \in Calls : Sound(c)
    BY DEF CallInv
  <2>2. ASSUME NEW c \in Calls, Step(c), UNCHANGED <<agents, allowed>>
        PROVE  BooksInv'
    <3>1. Kept(c)
      BY <2>1, <2>2, RefuseKeeps, StartKeeps, AnsweredKeeps DEF Step
    <3>2. Booked(c) /\ \A d \in Calls \ {c} : call'[d] = call[d]
      BY <2>1, <3>1 DEF Kept, CallTypeOK
    <3>3. QED
      BY <2>1, <2>2, <3>2, StepBooks
  <2>3. ASSUME UNCHANGED <<call, incoming>>,
               \A p \in Callers : spent'[p] = spent[p] \/ spent'[p] = 0
        PROVE  BooksInv'
    <3>1. TotalPaid(call', Calls) = TotalPaid(call, Calls)
      BY <2>3
    <3>2. ASSUME NEW p \in Callers
          PROVE  spent'[p] <= TotalPaid(call', RepliedTo(p)')
      <4>1. RepliedTo(p)' = RepliedTo(p)
        BY <2>3 DEF RepliedTo, Replied, Ended
      <4>2. IsFiniteSet(RepliedTo(p))
        BY CallAssumption, FS_Subset DEF RepliedTo
      <4>3. \A d \in RepliedTo(p) : call[d].paid \in Nat
        BY <2>1 DEF RepliedTo, CallTypeOK, CallRecord
      <4>4. TotalPaid(call, RepliedTo(p)) \in Nat
        BY <4>2, <4>3, TotalIsNat
      <4>5. spent[p] <= TotalPaid(call, RepliedTo(p))
        BY DEF BooksInv
      <4>6. QED
        BY <2>3, <4>1, <4>4, <4>5
    <3>3. QED
      BY <2>3, <3>1, <3>2 DEF BooksInv
  <2>4. CASE \E p \in Callers : AddCaller(p) \/ RemoveCaller(p)
    BY <2>1, <2>3, <2>4 DEF AddCaller, RemoveCaller, CallTypeOK
  <2>5. CASE SetAgents \/ UNCHANGED vars
    BY <2>3, <2>5 DEF SetAgents, vars
  <2>6. QED
    BY <2>2, <2>4, <2>5 DEF Next
<1>3. QED
  BY <1>1, <1>2, CallsSound, BooksAreTotals, PTL DEF Spec

=============================================================================
