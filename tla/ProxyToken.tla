----------------------------- MODULE ProxyToken -----------------------------
(***************************************************************************)
(* The proxy tokens of idempotent-proxy-canister: tasks.rs signs one token *)
(* per agent name, on a timer, at startup and for admin_set_agents, with   *)
(* an await per signature; init.rs starts the timers anew on installation  *)
(* and upgrade; store.rs keeps the agents, the signer and its public key.  *)
(*                                                                         *)
(* A task takes a copy of the agents, awaits its signatures, and puts the  *)
(* copy back whole.  Nothing keeps two tasks from overlapping.             *)
(*                                                                         *)
(* An upgrade is modelled as dfx does it: the canister is stopped, which   *)
(* waits for outstanding calls, so that no task is under way.              *)
(***************************************************************************)
EXTENDS ProxyAccess, Sequences, FiniteSets

CONSTANTS Lists,     \* the agent lists, sequences of names, an admin may set
          Signers,   \* the key or COSE namespace that signs
          NoSigner,
          Tasks,     \* bound: tasks under way at a time
          Intervals, \* what proxy_token_refresh_interval may be asked to be
          MinInterval, DefaultInterval, \* 10 seconds and an hour
          Grace,     \* the 120 seconds a token outlives it
          MaxRefused,\* bound: signatures refused between two complete tasks
          MaxSign,   \* bound: how long a signature or a key may take
          MaxTime    \* bound: the last value of the clock

ASSUME TokenAssumption ==
  /\ Intervals \subseteq Nat /\ MinInterval \in Nat \ {0}
  /\ DefaultInterval \in Nat /\ DefaultInterval >= MinInterval
  /\ Grace \in Nat /\ MaxRefused \in Nat /\ MaxSign \in Nat /\ MaxTime \in Nat
  /\ NoSigner \notin Signers /\ IsFiniteSet(Tasks)

VARIABLES now,
          agents,    \* the names of s.agents, in order
          token,     \* per name, the token of its agents
          signer,    \* who signs (s.signer())
          key,       \* whose public key is shown
          interval,  \* s.proxy_token_refresh_interval
          timer,     \* when the interval timer is due
          starting,  \* the zero-second timer of init and post_upgrade is due
          task,      \* the tasks under way
          missed,    \* signatures refused since a task was complete
          refused    \* the kinds of replies refused: "key" since the last
                     \* upgrade, "sign" since a task was complete, if later

vars == <<now, agents, token, signer, key, interval, timer, starting, task,
          missed, refused>>

NamesIn(l) == {l[i] : i \in DOMAIN l}
Names      == UNION {NamesIn(l) : l \in Lists}

ASSUME ListAssumption == /\ Lists \subseteq Seq(Names) /\ IsFiniteSet(Names)
                         /\ NoName \notin {"host", "key"}

NoToken    == [exp |-> 0, name |-> "", by |-> NoSigner]
Token      == [exp : Nat, name : Names \cup {""}, by : Signers \cup {NoSigner}]
Valid(i)   == i >= MinInterval
Allowed    == {i \in Intervals : Valid(i)} \cup {DefaultInterval}

(* Intervals are of 64 bits: there is a longest. *)
ASSUME IntervalAssumption == \E i \in Allowed : \A j \in Allowed : j <= i

IdleTask == [pc |-> "idle", kind |-> "refresh", list |-> <<>>,
             by |-> NoSigner, fresh |-> [n \in Names |-> NoToken],
             exp |-> 0, since |-> 0]

TokenShape ==
  /\ now \in Nat
  /\ agents \in Lists \cup {<<>>}
  /\ token \in [Names -> Token]
  /\ signer \in Signers /\ key \in Signers \cup {NoSigner}
  /\ interval \in Allowed /\ timer \in Nat /\ starting \in BOOLEAN
  /\ missed \in 0 .. MaxRefused /\ refused \subseteq {"key", "sign"}
  /\ task \in [Tasks -> [pc    : {"idle", "key", "sign"},
                         kind  : {"refresh", "startup", "admin"},
                         list  : Lists \cup {<<>>},  \* its copy of the agents
                         by    : Signers \cup {NoSigner},
                         fresh : [Names -> Token],   \* what it has signed
                         exp   : Nat,                \* being signed
                         since : Nat]]               \* when it was asked for

(* init(): no agents yet, and an hour in place of an interval too short.   *)
Init == /\ now = 0 /\ agents = <<>> /\ token = [n \in Names |-> NoToken]
        /\ signer \in Signers /\ key = NoSigner
        /\ \E i \in Intervals : interval = IF Valid(i) THEN i ELSE DefaultInterval
        /\ timer = interval /\ starting = TRUE /\ missed = 0 /\ refused = {}
        /\ task = [t \in Tasks |-> IdleTask]

Busy(t)    == task[t].pc # "idle"
Unsigned(job) == {i \in DOMAIN job.list : job.fresh[job.list[i]] = NoToken}

(* Besides the types: a task that signs has a name left to sign, so that   *)
(* the one it asks for next is there.                                      *)
TokenTypeOK ==
  /\ TokenShape
  /\ \A t \in Tasks : task[t].pc = "sign" => Unsigned(task[t]) # {}

NextName(job) ==
  job.list[CHOOSE i \in Unsigned(job) : \A h \in Unsigned(job) : i <= h]

(* Mutant of Expiry: the grace is forgotten. *)
ExpiryTight == now + interval

Expiry == now + interval + Grace

(* The copy is complete: it becomes the agents, whatever they are by now.  *)
Install(t, job) == /\ agents' = job.list
                   /\ token' = [n \in Names |-> IF n \in NamesIn(job.list)
                                                THEN job.fresh[n] ELSE token[n]]
                   /\ task' = [task EXCEPT ![t] = IdleTask]
                   /\ missed' = 0 /\ refused' = refused \ {"sign"}

(* update_proxy_token() up to its next await: agents whose name is signed  *)
(* already take that token, the next name's expiry is computed and its     *)
(* signature asked for.                                                    *)
Proceed(t, job) ==
  IF Unsigned(job) = {}
  THEN Install(t, job)
  ELSE /\ task' = [task EXCEPT ![t] = [job EXCEPT !.pc = "sign",
                                                  !.exp = Expiry, !.since = now]]
       /\ UNCHANGED <<agents, token, missed, refused>>

Job(kind, list) == [IdleTask EXCEPT !.kind = kind, !.list = list, !.by = signer]

(* With no agents at all there is nothing to do. *)
Begin(t, kind, list) ==
  IF list = <<>> THEN /\ task' = [task EXCEPT ![t] = IdleTask]
                      /\ UNCHANGED <<agents, token, missed, refused>>
                 ELSE Proceed(t, Job(kind, list))

TimerFires(t) ==
  /\ ~Busy(t) /\ now >= timer
  /\ timer' = timer + interval
  /\ Begin(t, "refresh", agents)
  /\ UNCHANGED <<now, signer, key, interval, starting>>

(* The zero-second timer: first the public key, then a refresh with the    *)
(* agents of that later moment.                                            *)
StartupFires(t) ==
  /\ ~Busy(t) /\ starting
  /\ starting' = FALSE
  /\ task' = [task EXCEPT ![t] = [Job("startup", <<>>) EXCEPT !.pc = "key",
                                                              !.since = now]]
  /\ UNCHANGED <<now, agents, token, signer, key, interval, timer, missed, refused>>

KeyArrives(t) ==
  /\ task[t].pc = "key" /\ key' = task[t].by
  /\ Begin(t, "startup", agents)
  /\ UNCHANGED <<now, signer, interval, timer, starting>>

(* The key is refused, which is logged: the refresh goes on. *)
KeyFails(t) ==
  /\ task[t].pc = "key" /\ refused' = refused \cup {"key"}
  /\ task' = [task EXCEPT ![t] = IF agents = <<>> THEN IdleTask
                ELSE [Job("startup", agents) EXCEPT !.pc = "sign", !.exp = Expiry,
                                                    !.since = now]]
  /\ UNCHANGED <<now, agents, token, signer, key, interval, timer, starting, missed>>

AdminSetAgents(t) ==
  /\ ~Busy(t)
  /\ \E list \in Lists : list # <<>> /\ Begin(t, "admin", list)
  /\ UNCHANGED <<now, signer, key, interval, timer, starting>>

(* Mutant of Signed: the token's fields change places. *)
SignedSwapped(t) ==
  /\ task[t].pc = "sign"
  /\ Proceed(t, [task[t] EXCEPT
       !.fresh[NextName(task[t])] = [exp |-> task[t].by, by |-> task[t].exp,
                                     name |-> NextName(task[t])]])
  /\ UNCHANGED <<now, signer, key, interval, timer, starting>>

Signed(t) ==
  /\ task[t].pc = "sign"
  /\ Proceed(t, [task[t] EXCEPT
       !.fresh[NextName(task[t])] = [exp |-> task[t].exp, by |-> task[t].by,
                                     name |-> NextName(task[t])]])
  /\ UNCHANGED <<now, signer, key, interval, timer, starting>>

(* The signature is refused: expect() traps, and the task's copy is lost.  *)
SignFails(t) ==
  /\ task[t].pc = "sign" /\ missed < MaxRefused
  /\ task' = [task EXCEPT ![t] = IdleTask]
  /\ missed' = missed + 1 /\ refused' = refused \cup {"sign"}
  /\ UNCHANGED <<now, agents, token, signer, key, interval, timer, starting>>

(* Mutant of Upgrade: no refresh at once. *)
UpgradeLazy ==
  /\ \A t \in Tasks : ~Busy(t)
  /\ signer' \in Signers
  /\ timer' = now + interval /\ refused' = refused \ {"key"}
  /\ UNCHANGED <<now, agents, token, key, interval, task, missed, starting>>

(* pre_upgrade saves the state and post_upgrade loads it; another signer   *)
(* may come with it, and another interval, or it traps and nothing is      *)
(* changed; the timers start anew.                                         *)
Upgrade ==
  /\ \A t \in Tasks : ~Busy(t)
  /\ signer' \in Signers
  /\ interval' \in {interval} \cup {i \in Intervals : Valid(i)}
  /\ timer' = now + interval' /\ starting' = TRUE
  /\ refused' = refused \ {"key"}
  /\ UNCHANGED <<now, agents, token, key, task, missed>>

(* Time passes; timers that are due run first, and MaxSign bounds a reply. *)
Clock ==
  /\ now < MaxTime /\ now' = now + 1
  /\ now < timer /\ ~starting
  /\ \A t \in Tasks : Busy(t) => now < task[t].since + MaxSign
  /\ UNCHANGED <<agents, token, signer, key, interval, timer, starting, task,
                 missed, refused>>

Next == \/ \E t \in Tasks : \/ TimerFires(t) \/ StartupFires(t)
                            \/ KeyArrives(t) \/ KeyFails(t)
                            \/ AdminSetAgents(t) \/ Signed(t) \/ SignFails(t)
        \/ Upgrade
        \/ Clock

Spec == Init /\ [][Next]_vars

Longest == CHOOSE i \in Allowed : \A j \in Allowed : j <= i

(* No agent is left with an expired token: whatever tasks overlap, in      *)
(* whatever order they put their copies back, and whenever an upgrade      *)
(* restarts the timers or changes the interval, the next token comes       *)
(* before the last one ends.  A refused signature, which is not asked for  *)
(* again (tasks.rs:34), costs an interval and no more.  It needs (2 *   *)
(* number of names + 1) * MaxSign <= Grace.                                *)
TokensLive ==
  \A n \in NamesIn(agents) : token[n].exp + missed * Longest >= now

Settled == ~starting /\ \A t \in Tasks : task[t].kind = "startup" => ~Busy(t)

(* Once its startup task is over, the canister shows the public key of the *)
(* one who signs, unless it was refused it since the last upgrade, and its *)
(* tokens are of the same, unless a signature was refused and no task was  *)
(* complete since: no task under way at an upgrade brings back tokens of   *)
(* the old signer.                                                         *)
KeyMatchesTokens ==
  Settled => /\ "key" \notin refused => key = signer
             /\ "sign" \notin refused => \A n \in NamesIn(agents) : token[n].by = signer

(* A proxy set up with the public key that the canister shows, as a key of *)
(* this kind, and with the names of its agents or with none.               *)
SetUp(kind, names, worker) ==
  [ecdsa |-> IF kind = "ecdsa" THEN {key} ELSE {},
   ed25519 |-> IF kind = "ed25519" THEN {key} ELSE {},
   agents |-> names, vars |-> Variables, worker |-> worker]

Urls == {[var |-> v] : v \in Variables}
        \cup {[host |-> "host", path |-> p] : p \in {"/", "/path"}}

Admitted(n, proxy, url) ==
  Outcome(proxy, Built(token[n], "GET", url, "key"), now + PermittedDrift)
    = [entry |-> <<n, "GET", "key">>]

(* The canister and its proxies together: nothing refused, every agent's   *)
(* request gets to the entry of that agent's name in the cache of a proxy  *)
(* whose clock is ahead by no more than the drift that is permitted.       *)
(* Otherwise the 407 is an answer to Agent::call(), and nobody asks the    *)
(* next agent.  A worker does not look up "/", which is a page of its own. *)
AgentsAdmitted ==
  Settled /\ refused = {} =>
    \A n \in NamesIn(agents), names \in {{}, NamesIn(agents)}, url \in Urls :
      /\ Admitted(n, SetUp("ecdsa", names, FALSE), url)
      /\ url = [host |-> "host", path |-> "/"] \/
           Admitted(n, SetUp("ecdsa", names, TRUE), url)

(* "Access control using Secp256k1 and Ed25519" (README.md:21), were the   *)
(* signer's key one of the latter.  The worker breaks it: it verifies with *)
(* the other, empty list (util.ts:47).                                     *)
EitherKindAdmits ==
  Settled /\ refused = {} =>
    \A n \in NamesIn(agents), kind \in {"ecdsa", "ed25519"}, worker \in BOOLEAN :
      Admitted(n, SetUp(kind, {}, worker), [host |-> "host", path |-> "/path"])

(* A refresh renews tokens and leaves the agents as they are ("updates the *)
(* proxy token periodically", README.md:5 of the canister).  The code      *)
(* breaks it: it puts back the list it copied before its first await, and  *)
(* an admin_set_agents completed meanwhile is undone.                      *)
RefreshKeepsAgents ==
  [][\A t \in Tasks :
       Signed(t) /\ task[t].kind # "admin" => agents' = agents]_vars

=============================================================================
