---------------------------- MODULE CanisterCalls ----------------------------
(***************************************************************************)
(* The three proxy interfaces of idempotent-proxy-canister (api.rs), the   *)
(* agents they ask (agent.rs) and the cycles they collect (store.rs).      *)
(*                                                                         *)
(* Between two awaits a call runs as one message; a trap undoes what its   *)
(* message did and nothing before it.  Calls of different callers and the  *)
(* administration interleave at the awaits.                                *)
(*                                                                         *)
(* An answer is a whole HttpResponse; Good are those with status <= 500.   *)
(* A request that build_request() refuses is a Good answer (status 400).   *)
(***************************************************************************)
EXTENDS CycleCost, FiniteSetsExt

CONSTANTS Calls, Callers,
          Good, Bad, NoAnswer,   \* answers of agents
          MaxAgents,             \* bound: agents configured
          Funds,                 \* bound: cycles that may be attached to a call
          IngressBytes, RequestBytes, \* the length of a call, and of its request
          ResponseBytes,         \* the most an answer may have
          Size                   \* what each answer has

ASSUME CallAssumption ==
  /\ Good \cap Bad = {} /\ NoAnswer \notin Good \cup Bad
  /\ IsFiniteSet(Calls)
  /\ MaxAgents \in Nat /\ Funds \subseteq Nat
  /\ IngressBytes \in Nat /\ RequestBytes \in Nat /\ ResponseBytes \in Nat
  /\ Size \in [Good -> 0 .. ResponseBytes]

VARIABLES call,          \* the calls
          agents,        \* how many agents are configured
          spent,         \* s.callers: cycles of each caller, 0 if not there
          allowed,       \* the keys of s.callers
          incoming,      \* s.incoming_cycles
          uncollectible  \* s.uncollectible_cycles

vars == <<call, agents, spent, allowed, incoming, uncollectible>>

Answers == Good \cup Bad
Apis    == {"proxy_http_request", "parallel_call_all_ok", "parallel_call_any_ok"}
Nothing == [kind |-> "none", body |-> NoAnswer, parts |-> {}]

CallRecord == [pc     : {"new", "waiting", "ended"},
               api    : Apis,
               who    : Callers,
               funds  : Funds,          \* attached by the caller
               paid   : Nat,            \* accepted so far
               asked  : 0 .. MaxAgents, \* agents called so far
               n      : 0 .. MaxAgents, \* agents it started with
               answer : [1 .. MaxAgents -> Answers \cup {NoAnswer}],
               reply  : [kind  : {"none", "forbidden", "unavailable",
                                  "answer", "mixed", "trapped"},
                         body  : Answers \cup {NoAnswer},
                         parts : SUBSET (1 .. MaxAgents)]]

CallTypeOK ==
  /\ call \in [Calls -> CallRecord]
  /\ \A c \in Calls : call[c].paid <= call[c].funds
  /\ agents \in 0 .. MaxAgents
  /\ allowed \subseteq Callers /\ spent \in [Callers -> Nat]
  /\ incoming \in Nat /\ uncollectible \in Nat

Init ==
  /\ call \in [Calls -> [pc : {"new"}, api : Apis, who : Callers,
                         funds : Funds, paid : {0}, asked : {0},
                         n : {0}, answer : {[i \in 1 .. MaxAgents |-> NoAnswer]},
                         reply : {Nothing}]]
  /\ agents = 0 /\ allowed = {} /\ spent = [p \in Callers |-> 0]
  /\ incoming = 0 /\ uncollectible = 0

(* ---------------------------- the cycles ------------------------------- *)
OnHand(c)     == call[c].funds - call[c].paid
Ingress       == IngressCost(IngressBytes)
Outcall(k)    == RequestCost(RequestBytes, k)
Sequential(c) == call[c].api = "proxy_http_request"

(* Mutant of Accepted: all that is asked for is taken for accepted. *)
AcceptedAll(c, cost) == cost

(* What msg_cycles_accept128() returns when cost is asked for. *)
Accepted(c, cost) == IF cost <= OnHand(c) THEN cost ELSE OnHand(c)

(* Mutant of Books: what was asked for is booked, not what was received. *)
BooksAsked(cost, got) == /\ incoming' = incoming + cost
                         /\ uncollectible' = uncollectible + (cost - got)

(* receive_cycles() on success: what was received, and what was not. *)
Books(cost, got) == /\ incoming' = incoming + got
                    /\ uncollectible' = uncollectible + (cost - got)

(* update_caller_state(): a caller removed meanwhile is passed over.       *)
Credit(c, paid) ==
  spent' = IF call[c].who \in allowed
           THEN [spent EXCEPT ![call[c].who] = @ + paid] ELSE spent

(* The message traps: the caller gets a reject, and its cycles back that   *)
(* no earlier message accepted.                                            *)
Trap(c, record) ==
  /\ call' = [call EXCEPT ![c] = [record EXCEPT
                !.pc = "ended", !.reply = [Nothing EXCEPT !.kind = "trapped"]]]
  /\ UNCHANGED <<spent, incoming, uncollectible>>

(* ---------------------------- the interfaces --------------------------- *)
End(c, record, kind, body, parts) ==
  call' = [call EXCEPT ![c] = [record EXCEPT
             !.pc = "ended",
             !.reply = [kind |-> kind, body |-> body, parts |-> parts]]]

Refuse(c) ==
  /\ call[c].pc = "new"
  /\ \/ call[c].who \notin allowed /\ End(c, call[c], "forbidden", NoAnswer, {})
     \/ /\ call[c].who \in allowed /\ agents = 0
        /\ End(c, call[c], "unavailable", NoAnswer, {})
  /\ UNCHANGED <<spent, incoming, uncollectible>>

(* The ingress and the first request, or all requests at once, are paid    *)
(* for before anything is asked.                                           *)
Start(c) ==
  LET k    == IF Sequential(c) THEN 1 ELSE agents
      cost == Ingress + Outcall(k)
  IN  /\ call[c].pc = "new" /\ call[c].who \in allowed /\ agents > 0
      /\ IF cost > call[c].funds
         THEN Trap(c, [call[c] EXCEPT !.n = agents])
         ELSE /\ call' = [call EXCEPT ![c] = [@ EXCEPT !.pc = "waiting", !.n = agents,
                                                       !.asked = k, !.paid = cost]]
              /\ Books(cost, cost) /\ UNCHANGED spent

(* A good end: the response is paid for as far as the cycles go, for k     *)
(* agents by the size of x, then the caller's account is brought up to     *)
(* date.                                                                   *)
Settle(c, record, k, x, kind, body, parts) ==
  LET cost == ResponseCost(Size[x], k)
      got  == Accepted(c, cost)
      paid == record.paid + got
  IN  /\ End(c, [record EXCEPT !.paid = paid], kind, body, parts)
      /\ Books(cost, got) /\ Credit(c, paid)

(* A bad end: no response is paid for.                                     *)
SettleBad(c, record, x) ==
  /\ End(c, record, "answer", x, {})
  /\ Credit(c, record.paid) /\ UNCHANGED <<incoming, uncollectible>>

Keep(c, record) == /\ call' = [call EXCEPT ![c] = record]
                   /\ UNCHANGED <<spent, incoming, uncollectible>>

(* Mutant of AskNext: the next agent is asked for nothing. *)
AskNextFree(c, record) == Keep(c, [record EXCEPT !.asked = @ + 1])

(* The next agent in line is asked if it can be paid for.                  *)
AskNext(c, record) ==
  IF Outcall(1) > OnHand(c)
  THEN Trap(c, record)
  ELSE /\ call' = [call EXCEPT ![c] = [record EXCEPT !.asked = @ + 1,
                                                     !.paid = @ + Outcall(1)]]
       /\ Books(Outcall(1), Outcall(1)) /\ UNCHANGED spent

ProxyAnswered(c, record, x) ==
  \/ x \in Good /\ Settle(c, record, 1, x, "answer", x, {})
  \/ x \in Bad /\ record.asked = record.n /\ SettleBad(c, record, x)
  \/ x \in Bad /\ record.asked < record.n /\ AskNext(c, record)

Missing(record) == {i \in 1 .. record.n : record.answer[i] = NoAnswer}

(* Mutant of AnyAnswered: the first answer ends the call, good or bad. *)
AnyAnsweredFirst(c, record, x) ==
  \/ x \in Good /\ Settle(c, record, record.n, x, "answer", x, {})
  \/ x \in Bad /\ SettleBad(c, record, x)

(* Another: bad answers are only ever kept. *)
AnyAnsweredGood(c, record, x) ==
  \/ x \in Good /\ Settle(c, record, record.n, x, "answer", x, {})
  \/ x \in Bad /\ Keep(c, record)

(* select_ok: the first good answer, or the last bad one. *)
AnyAnswered(c, record, x) ==
  \/ x \in Good /\ Settle(c, record, record.n, x, "answer", x, {})
  \/ x \in Bad /\ Missing(record) = {} /\ SettleBad(c, record, x)
  \/ x \in Bad /\ Missing(record) # {} /\ Keep(c, record)

(* Mutant of AllAnswered: the responses are not paid for. *)
AllAnsweredUnpaid(c, record, x) ==
  \/ x \in Bad /\ SettleBad(c, record, x)
  \/ x \in Good /\ Missing(record) # {} /\ Keep(c, record)
  \/ x \in Good /\ Missing(record) = {} /\ SettleBad(c, record, record.answer[1])

(* try_join_all: the first bad answer ends it; otherwise all are compared  *)
(* with the first agent's, and those that differ are put together with it: *)
(* parts are the agents whose answers are in the body.                     *)
AllAnswered(c, record, x) ==
  LET base == record.answer[1]
      odd  == {i \in 2 .. record.n : record.answer[i] # base}
  IN  \/ x \in Bad /\ SettleBad(c, record, x)
      \/ x \in Good /\ Missing(record) # {} /\ Keep(c, record)
      \/ /\ x \in Good /\ Missing(record) = {}
         /\ IF odd = {}
            THEN Settle(c, record, record.n, base, "answer", base, {})
            ELSE Settle(c, record, record.n, base, "mixed", NoAnswer, odd \cup {1})

(* The HTTP outcall to agent i ends, one way or another. *)
Answered(c, i, x) ==
  LET record == [call[c] EXCEPT !.answer[i] = x]
  IN  /\ call[c].pc = "waiting" /\ call[c].answer[i] = NoAnswer
      /\ i \in (IF Sequential(c) THEN {call[c].asked} ELSE 1 .. call[c].n)
      /\ CASE call[c].api = "proxy_http_request"   -> ProxyAnswered(c, record, x)
           [] call[c].api = "parallel_call_any_ok" -> AnyAnswered(c, record, x)
           [] call[c].api = "parallel_call_all_ok" -> AllAnswered(c, record, x)

Step(c) == \/ Refuse(c) \/ Start(c)
           \/ \E i \in 1 .. MaxAgents, x \in Answers : Answered(c, i, x)

(* -------------------------- the administration ------------------------- *)
AddCaller(p) == /\ allowed' = allowed \cup {p}
                /\ UNCHANGED <<call, agents, spent, incoming, uncollectible>>

RemoveCaller(p) == /\ allowed' = allowed \ {p}
                   /\ spent' = [spent EXCEPT ![p] = 0]
                   /\ UNCHANGED <<call, agents, incoming, uncollectible>>

SetAgents == /\ agents' \in 1 .. MaxAgents
             /\ UNCHANGED <<call, spent, allowed, incoming, uncollectible>>

Next == \/ \E c \in Calls : Step(c) /\ UNCHANGED <<agents, allowed>>
        \/ \E p \in Callers : AddCaller(p) \/ RemoveCaller(p)
        \/ SetAgents

Spec == Init /\ [][Next]_vars

(* The platform answers every outcall, if only with a time-out. *)
FairSpec ==
  Spec /\ \A c \in Calls : WF_vars(Step(c) /\ UNCHANGED <<agents, allowed>>)

(* ------------------------------ properties ----------------------------- *)
Ended(c)    == call[c].pc = "ended"
Replied(c)  == Ended(c) /\ call[c].reply.kind \in {"answer", "mixed"}

(* The books balance across concurrent calls, traps and removed callers:   *)
(* what the canister says it took in is what it accepted from the calls,   *)
(* and a caller's account never shows more than its own answered calls     *)
(* paid.                                                                   *)
BooksBalance ==
  /\ incoming = MapThenSumSet(LAMBDA c : call[c].paid, Calls)
  /\ \A p \in Callers :
       spent[p] <= MapThenSumSet(LAMBDA c : call[c].paid,
                                 {c \in Calls : call[c].who = p /\ Replied(c)})

Requested(c) == IF Sequential(c) THEN call[c].asked * Outcall(1) ELSE Outcall(call[c].n)

(* Every agent asked has been paid for before it was asked, retries too.   *)
NoFreeOutcall ==
  \A c \in Calls : call[c].asked > 0 => call[c].paid >= Ingress + Requested(c)

Payees(c) == IF Sequential(c) THEN 1 ELSE call[c].n

QuoteFor(c) == Quote(IngressBytes, RequestBytes, ResponseBytes, Payees(c))
               + (call[c].n - Payees(c)) * Outcall(1)

QuoteKept(c) ==
  /\ call[c].reply.kind # "trapped"
  /\ \A x \in Good :
       call[c].reply.kind = "answer" /\ call[c].reply.body = x =>
         call[c].paid = Ingress + Requested(c) + ResponseCost(Size[x], Payees(c))

(* What the quotes are good for: a call that has attached its quote is not *)
(* trapped, at once or between two agents, and owes nothing in the end, if *)
(* the answer is no longer than what was quoted.  The quote of             *)
(* proxy_http_request is for one agent: another outcall is to be added for *)
(* each that fails.                                                        *)
QuoteSuffices ==
  \A c \in Calls : call[c].n > 0 /\ call[c].funds >= QuoteFor(c) => QuoteKept(c)

GotBad(c)  == {i \in 1 .. MaxAgents : call[c].answer[i] \in Bad}

Honest(c) ==
  LET x   == call[c].reply.body
      all == 1 .. call[c].n
  IN  /\ \E i \in all : call[c].answer[i] = x
      /\ x \in Bad /\ call[c].api # "parallel_call_all_ok" => GotBad(c) = all
      /\ x \in Good /\ Sequential(c) =>
           \E i \in all : call[c].answer[i] = x /\ GotBad(c) = 1 .. i - 1
      /\ x \in Good /\ call[c].api = "parallel_call_all_ok" =>
           \A i \in all : call[c].answer[i] = x

(* What a caller may conclude from an answer, whatever the order in which  *)
(* the agents answered: it is an agent's own; a bad one from the first two *)
(* interfaces means that every agent failed, and one from                  *)
(* proxy_http_request that all agents before it failed; a good one from    *)
(* parallel_call_all_ok means that every agent gave it.                    *)
RepliesHonest ==
  \A c \in Calls : Ended(c) /\ call[c].reply.kind = "answer" => Honest(c)

(* With one agent the three interfaces are equivalent (README.md:11 of the *)
(* canister): same funds and same answer, same reply and same price.       *)
OneAgentEquivalent ==
  \A c, d \in Calls :
    /\ Ended(c) /\ Ended(d) /\ call[c].n = 1 /\ call[d].n = 1
    /\ call[c].funds = call[d].funds /\ call[c].answer = call[d].answer
    => call[c].reply = call[d].reply /\ call[c].paid = call[d].paid

(* Every call ends, with an answer or a reject. *)
EveryCallEnds == \A c \in Calls : call[c].pc # "new" ~> Ended(c)

(* parallel_call_all_ok returns a common good answer or a 500 with an      *)
(* array of results (README.md:9 of the canister).  The code breaks it: a  *)
(* single failed agent's own answer is returned.                           *)
AllOkFailsWithArray ==
  \A c \in Calls :
    call[c].api = "parallel_call_all_ok" /\ call[c].reply.kind = "answer"
      => call[c].reply.body \in Good

(* That array holds all results.  The code breaks it: those equal to the   *)
(* first agent's are left out.                                             *)
ArrayHasAllResults ==
  \A c \in Calls :
    call[c].reply.kind = "mixed" => call[c].reply.parts = 1 .. call[c].n

=============================================================================
