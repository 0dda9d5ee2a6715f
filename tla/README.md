# Verification of idempotent-proxy

TLA+ models of the proxy in its three forms (Rust server, Cloudflare Worker,
ICP canister) and of the three together, the TLC runs that check them, and TLAPS
proofs of what the runs check, liveness excepted. Paths below are relative to the
repository; `PROJECT.json` names, for each definition, the lines of code it stands
for.

## The system

A client sends an HTTP request with an `idempotency-key`. The proxy forwards the
first request of a key (key = agent, method and idempotency key), caches the
response for one time-out, and answers the others that come meanwhile from the
cache. All the difficulty is in *one* word of that sentence, "first", when
requests are concurrent, slow, fail, or are dropped by their clients.

| Component | State it keeps | Operations | Meets |
|---|---|---|---|
| `handler.rs` `proxy()` | a handler per request, between its awaits | obtain, poll, forward, set or del | a cacher, the upstream, a client that may leave |
| `cache/memory.rs` `MemoryCacher` | map and expiry queue behind two async locks; spawned cleaning tasks | `obtain`, `polling_get`, `set`, `del`, `clean_expired_values` | handlers, its own cleaners |
| `cache/redis.rs` `RedisClient` | a pool of connections; the keys are Redis's | the same four, one command each | the server, lost commands |
| `cache/mod.rs` | none | `HybridCacher` forwards; `ResponseData` filters and encodes | |
| `main.rs` | the process and its configuration | start, graceful end, end behind TLS | requests under way, a cacher that outlives it or not |
| `types` | none | clock, token signatures | handler and canister |
| worker `fetch()` | an invocation per request | obtain, poll, fetch, set or del | one durable object per key |
| worker `util.ts` | none | keys, tokens, `ResponseData` | what the server does otherwise |
| worker `Cacher` | `status` in memory; `s`, `v` and an alarm on disk | obtain, get, set, del, alarm, constructor | eviction |
| canister `api.rs`, `agent.rs` | calls that await agents | the three proxy interfaces | agents, cycles |
| canister `tasks.rs`, `init.rs` | tasks that await signatures, two timers | refresh, startup, upgrade | the signer |
| canister `store.rs`, `api_admin.rs` | agents, callers, cycle totals, signer, key | setters, save, load | calls and tasks under way |

What makes them correct, and what is hard:

- *Server.* One upstream call per key and window; everybody gets its answer;
  expired entries and no others go; nobody waits for ever. Hard: awaits in the
  middle of everything, leases without a fence, two collections kept in step by
  hand, two locks taken in two orders, a guard held across a sleep, futures
  dropped at any await, a bounded pool.
- *Worker.* The same promise, over an object that may be evicted, with
  deletions nobody waits for and an upstream without time limit.
- *Together.* A canister's HTTPS outcall is sent by every replica of its subnet,
  each at its own time, and has a result only if they get the same: agreement is
  what the proxy is there for. Hard: replicas on either side of an expiry, a
  proxy that stops or forgets between two of them, replies of one response that
  differ by a date, failures that look like answers.
- *Canister.* Books that balance although calls interleave, trap and are paid
  in parts; replies from which a caller may conclude what the interface says;
  tokens that never run out and are admitted; quotes that suffice;
  administration that is not undone.

`PROJECT.json` lists each hazard at its line with the properties aimed at it.

## Modules

| Module | Models |
|---|---|
| `ProxyTime` | keys, the clock, the one duration `TTL` (`cache_ttl` = request time-out) |
| `MemoryCacher` | the in-memory cacher; each call one step, a cleaner in two (clock read, sweep) |
| `MemoryCacherLocks` | the inside of those steps: both locks, tokio's fair lines, handlers dropped while they hold guards; refines `MemoryCacher` |
| `ProxyHandler` | `proxy()` between its awaits, saying nothing of the cacher |
| `MemoryProxy` | handlers over `MemoryCacher`; refines `Idempotency` |
| `MemoryProxyGuard` | the same with the line before the map's lock and the read guard that pollers keep through their sleep; refines `MemoryProxy` |
| `RedisCacher`, `RedisProxy` | handlers over Redis: the pool, commands that fail before or after they were carried out; refines `Idempotency` |
| `Idempotency` | the promise: a lease per key, answered, released, or left to run out |
| `CfWorker` | `index.ts`: invocations, durable objects, un-awaited deletions, eviction |
| `ResponseFilter` | `ResponseData` of server and worker: which headers and fields are stored, what cannot be read, the reply made of it |
| `ServerProcess` | `main()`: serving, draining, killed, booting, behind TLS or not |
| `Outcalls` | replicas of a subnet, attempts of a canister, `agent.rs`; over `Idempotency`, `ResponseFilter` and `ServerProcess` |
| `ProxyAccess` | the way of a request to an entry of the cache: `build_request()`, and the checks of handler and worker in their order |
| `ProxyToken` | token tasks, timers, refused replies, upgrade with another signer or interval, public key; its tokens meet `ProxyAccess` |
| `CycleCost` | `cycles.rs` and the quotes of `api.rs` |
| `CanisterCalls` | the three interfaces, agents in any order, prices of `CycleCost` and traps, callers added and removed |
| `FairLine` | the line before a lock: first come, first served; used by the two modules with locks |
| `MemoryCacherProofs`, `MemoryCacherLocksProofs`, `MemoryProxyProofs` (also of `MemoryProxyGuard`), `RedisProxyProofs`, `CfWorkerProofs`, `OutcallsProofs`, `ProxyTokenProofs`, `CanisterCallsProofs` | the proofs |
| `MC*` | instances for TLC |

How state corresponds:

- `kv` and `pq` are the hash map and the `BTreeSet`; a key not stored has the
  entry `Absent`. `cleaner` holds the tasks `clean_expired_values()` spawned.
  `obtain`, `set` and `del` hold the map's write lock from first to last, which
  is why one step each is enough as long as no handler is dropped between the
  two locks; `MemoryCacherLocks` justifies that by refinement (run `locks`, theorem
  `LocksImplementMemoryCacher`) and says what happens otherwise
  (`MCMemoryCacherOrphan`). A call refines to a step taken when it decides: `KvOf`
  and `PqOf` are map and queue with what it is about to write.
- `req[r]` is the handler of request `r`: where it stands, whether `obtain()`
  gave it the key, when, polls left, next wake-up, and whose response its client
  got. A response *is* the request it was fetched for, so "the same response"
  is equality of names, and a response of another key or window shows.
- In the early checks of `proxy()` nothing is shared yet: they are one step,
  `Reject`. A client's disconnection drops the future at any await (`Disconnect`).
- `MemoryProxy` lets a call happen at any moment, also while another waiter
  sleeps on the read guard. These are more behaviours than the code has, so what
  is proved of it holds for the code; `MemoryProxyGuard` has only those the
  fair lock allows, and is used where it matters that the others cannot happen
  (missed responses, delays). `MaxHold` and `PollLate` of
  `MemoryProxy` include the time spent in that line.
- `conn[r]` of `RedisProxy` is what the request has of the pool: nothing, a
  place in line until `connection_timeout`, or a connection.
- `status`, `disk`, `alarm` of `CfWorker` are `this.status`, the storage and the
  object's alarm; `dels` counts a request's own deletions still under way.
- In `Outcalls` the proxy *is* `Idempotency`: `MemoryProxy` and `RedisProxy` are
  shown to implement it, so one state machine stands for both, and `Forgets(k)`
  says whether what a process kept goes with it. A request is `<<attempt,
  replica>>`. A response is data here: a status, headers and a body with fields,
  of which the run keeps as many as the properties tell apart. `Worker` switches
  to what `util.ts` and the catch block of `index.ts` do otherwise.
- `Outcome` of `ProxyAccess` is the early part of `proxy()` and `fetch()`, a status or
  the entry that is obtained next. `AgentsAdmitted` of `ProxyToken` evaluates it on
  every reachable set of tokens, for a server and a worker.
- `call[c]` of `CanisterCalls` advances by whole messages, as the platform
  executes them; a trap undoes its message only. `task[t]` of `ProxyToken` holds
  the copy of the agents that the task will write back. The sizes of requests and
  responses are constants; what is asked for them is computed as `cycles.rs` does.

Taken from the platforms, and marked external in the map: tokio's fair
`RwLock`, hyper dropping futures, Redis commands, Cloudflare's gates, eviction
and cancellation, the Internet Computer's messages and timers. The
subnet in `Outcalls` is external too: that each replica sends, and that enough
equal replies make a result. `ProxyToken` takes an upgrade as `dfx` performs it, stopping the canister first.

## Runs

Passing runs check invariants, action properties, refinements and liveness on
all interleavings of the instance; the others reproduce a disagreement between
the code and what the repository says of it.

| Run | Checks | Instance |
|---|---|---|
| `proxy_memory` | one forward per window, own lease, answers agree, patient waiters, queue covers the map, sweeps complete and sparing live entries, refinement of `Idempotency` | 3 requests on one key, TTL 3, `MaxHold` 2 |
| `guard` | refinement of `MemoryProxy`, with the delay in the line bounded; no waiter misses a response that is there; answers agree although leases are outlived | 3 requests on two keys, TTL 2, response after up to 2, `MaxHold` 4 |
| `locks` | refinement of `MemoryCacher`, writers alone, no orphans; everybody in a line gets their turn, or meets the circular wait of `lock_order` | 2 callers, 2 cleaners, handlers dropped anywhere but between the two locks |
| `proxy_redis` | one forward per window, answers agree, refinement of `Idempotency`, never more connections out than the pool has, with lost commands | 3 requests, TTL 3, a pool of 1, `MaxHold` 1, `ConnTimeout` 1 |
| `worker` | object consistent, one forward unless something failed, answers agree, waiters end in time | 3 requests, TTL 2 |
| `tokens` | tokens live, public key matches, agents admitted | 2 tasks, 2 names, 2 signers, intervals 1 (refused) and 4, grace 5, one refused signature, drift 3 |
| `calls` | books, no free outcalls, honest replies, quotes suffice, one agent makes all interfaces equal, every call ends | 2 calls of one caller, 2 agents, funds at and just below every sum of prices on a subnet of 13 |
| `outcalls` | an outcall fails only for a cause, a retry gets the same response, what is agreed on is the upstream's | 2 attempts of 2 replicas, statuses 200, 201 (with a broken body), 404, 503, one stop of the proxy |

| Run that finds a violation | What it shows |
|---|---|
| `late_del` | a holder that outlived its lease deletes the next one's (`handler.rs:223`) |
| `lock_order` | calls and cleaners take the two locks in opposite orders and may deadlock (`memory.rs:34`) |
| `worker_catch` | a waiter's time-out deletes the lock of the request still fetching (`index.ts:120`) |
| `worker_500` | with a worker as the proxy the replicas agree on its own error, or on status 200 for another, and the canister takes it for an answer (`index.ts:121`) |

`MemoryCacher` has no run of its own: its specification is what `locks` refines
(any calls in any order), its properties are checked in `proxy_memory` and
proved. Some configurations go beyond the runs. These hold:

| Configuration | What it shows |
|---|---|
| `MCRedisProxyLive` | every request over Redis ends, unless its own client never sends the body; nobody waits for another's for ever (`EveryRequestEnds`) |
| `MCProxyTokenInterval` | `tokens` with upgrades from one valid interval to another |
| `MCOutcallsSubnet` | `outcalls` with three replicas, of which two must agree (3 million states) |
| `MCOutcallsDrain` | a server that was asked to stop stops |

The others end in counterexamples, each the limit of a property above (with
`-continue` where there are two):

| Configuration | Property | What it shows |
|---|---|---|
| `MCMemoryCacherOrphan` | `NoOrphanEntry` | a handler dropped between the locks leaves an entry nothing removes (`memory.rs:70`); writers are still alone and no cached response loses its tag (theorems `WritersAlone`, `ResponsesKeepTags`) |
| `MCMemoryProxyLateSweep` | `SweepSparesLive` | `set()` on an expired entry leaves a tag that makes a sweep remove a live one (`memory.rs:115`) |
| `MCMemoryProxyGuardConvoy` | `PromptAnswerCached` | four requests: waiters asleep on the read guard keep a timely response out of the cache until its key has expired (`memory.rs:87`, `103`) |
| `MCRedisProxyLastSleep` | `NoAnswerMissed` | over Redis a waiter gives up on a response that is there (`redis.rs:90`) |
| `MCRedisProxyPool` | `PublisherGetsConnection` | waiters keep the pool's connections and the holder cannot publish (`redis.rs:76`) |
| `MCCfWorkerStuck` | `NoKeyStuck` | `getAlarm() == null` compares a promise: the alarm meant for every new object is never set (`index.ts:157`) |
| `MCProxyTokenLimits` | `RefreshKeepsAgents` | a token refresh undoes an `admin_set_agents` completed during its awaits (`tasks.rs:40`) |
| | `EitherKindAdmits` | the worker verifies Ed25519 tokens with the list of ECDSA keys (`util.ts:47`) |
| `MCCanisterCallsFailure` | `AllOkFailsWithArray` | `parallel_call_all_ok` does not answer a failure as its documentation says (`api.rs:164`) |
| | `ArrayHasAllResults` | the array of an inconsistent `parallel_call_all_ok` leaves out results (`api.rs:178`) |

The same polling loop serves both cachers and is a hazard in both, in opposite
ways: in memory its guard keeps responses from being missed (`guard`) at the
price of delaying them (`MCMemoryProxyGuardConvoy`); over Redis there is no guard,
and they are missed (`MCRedisProxyLastSleep`). The mutant that drops the guard
before the sleep breaks `NoAnswerMissed`, so a repair of one has to mind the other.

Four hazards show in these configurations only; no property of a passing run catches
them: the handler dropped between the locks (`MCMemoryCacherOrphan`), the response
missed over Redis (`MCRedisProxyLastSleep`), the holder without a connection
(`MCRedisProxyPool`), and the worker's stuck key (`MCCfWorkerStuck`). They break no
promise stated of the proxy, but lose a response, or a key, all the same.

The type invariants of `MemoryCacherLocks` and `CfWorker` are the first conjuncts of
`WriterAlone` and `ObjectConsistent`.

### Bounds

- `MaxTime` stops the clock. It exceeds `LastArrival` plus a hold, a wait and a
  TTL, so that the last request can end and its entry expire; `Quiet` is the
  stutter at the end, so that TLC's deadlock check still finds a request stuck
  before. `LastArrival` (`LastJoin`) bounds arrivals only.
- `Cleaners` bounds outstanding cleaning tasks; with all of them out, a spawn adds
  none, since those still sweep. Two suffice to have an old and a new clock
  reading at once.
- `MaxHold` bounds the time from `obtain` to `set` or `del`. The HTTP client's
  time-out equals the TTL, and reading the client's body and the body's
  processing come on top, so the code does not guarantee `MaxHold < TTL`: the
  runs and theorems that need it say so, and `guard`, `late_del` and
  `MCMemoryProxyLateSweep` are about what holds and what is lost without. `MaxUpstream` is the part of it
  before the response.
- Three requests on one key give an old holder, a new holder and a waiter, the
  most that any stated property relates; the convoy needs four. A second key
  appears where keys share something (queue, cleaners, lock).
- `PollLate`, `WakeLate`: how late a timer may fire. `ConnTimeout`, `PoolSize`:
  the pool's 3 s and 10, scaled so that it can be exhausted: with one connection
  two pollers contend, and the mutant that gives a connection out twice is found;
  two for three requests never run short. `MaxSign`: a
  signature's time; `MaxRefused`: signatures refused between two complete tasks,
  each of which costs an interval. `TokensLive` needs (2 * names + 1) * `MaxSign`
  <= `Grace`: two tasks and the public key in a row, one signature after the
  other. With 120 seconds and a few seconds per signature that leaves room for
  some ten names; the run has two, with a grace of exactly 5.
- `AllFunds` has the cycles attached: every sum a call may come to, and one less.
  `MaxAgents`: the agents. `MCCanisterCallsFailure` takes three agents and one call.
- `PermittedDrift` 3 stands for the 10 seconds; `AgentsAdmitted` takes a proxy
  whose clock is ahead by exactly that.
- `Attempts`, `Replicas`, `Quorum`: two attempts are what a retry needs, two
  replicas what disagreement needs; that a minority may fail takes three
  (`MCOutcallsSubnet`). `Spread`, how much later the last replica sends, is less
  than the TTL. `MaxStops` bounds the stops and crashes of the proxy; one falls at
  every place of a behaviour.
- In `guard`, a response takes up to 2 and a timer may be 1 late: `MaxHold` 4 is
  what the line may make of the former, and 3 is refuted.
- Requests, cleaners, tasks and signers are symmetric in the runs that declare
  it, all of which check safety only.
- The lock runs have `CHECK_DEADLOCK FALSE`: callers may all stop, the clock is
  bounded, and the code's own deadlock is the subject of `lock_order`. All other
  runs check it.

### Fairness

Liveness is stated where the code owes it. In `locks` (`EveryTurnComes`) weak fairness
of the turns at either lock and of the end of a sleep: tokio runs what is ready and
grants a lock in the order of its line. That is enough for everybody in a line, the
circular wait excepted. It takes the fair line: with the mutant
whose readers overtake waiting writers, a writer starves behind pollers that keep
coming. It does not say
that every request ends, and the code does not make it so: reading the client's
body (`handler.rs:180`) has no time limit, and the circular wait lasts until a client
leaves, if one does.
`MCRedisProxyLive`, where there is no such wait, has weak fairness of the
handlers' own steps, of the end of an upstream call (the HTTP client's
time-out) and of the clock, none of reading a body: a request may stay there for
ever, the others end (`MaxHold` is the whole clock there, so that no bound ends it
either). No fairness anywhere of arrivals, disconnections, failures,
evictions, or administration. In the worker the upstream owes nothing,
and `WaiterEndsInTime` is an invariant: it needs no fairness, only timers at most
`PollLate` late. `MCCfWorkerStuck` assumes that the upstream answers or fails, to
show that the key is stuck even then. `MCOutcallsDrain` assumes that a request ends
at the proxy, in the end because the platform gives up its outcall and closes the
connection, and that the process then does. In the canister every outcall is answered, if
only with the platform's time-out.

## Proofs

All are for any values of the constants, bounds and clock included. Every invariant,
action property and refinement of the passing runs is a theorem; conditions on the
constants are named in the theorem, and a run whose constants do not meet one
checks the property where the theorem is silent.

*The in-memory cacher.* `CacherTypes`, `QueueAlwaysCovers`, `SweepsAreComplete`: map
and queue agree under any caller. The invariant is that every stored entry's tag
is queued; `Restamp` is the one operation that moves both, and its lemma is cited
by all.

*Its two locks.* Wherever handlers are dropped, `WritersAlone`: a call between its
locks is alone and nobody stands in a line twice; and `ResponsesKeepTags`: what
dropping leaves without a tag is never a response. The latter is inductive once it
also speaks of the keys of calls that are between the locks (`ResponsesTagged`): up to
the queue's lock a call makes of an entry a placeholder or none, and a response
is written with its tag. Assuming `"wantPq" \notin Cancellable`, that
none is dropped between the locks, `LocksImplementMemoryCacher`: every call is one step of
`MemoryCacher`. `LockInv` is what makes the mapping sound: the call that decides is the
only one (`Alone`), what it has done to the map already is what its kind of call
does (`Prepared`), and a key without entry has no tag of time 0 for `del()` to find
(`Vacant`). Then a step of the queue's lock changes nothing one sees, and each turn
at the map's lock is `Obtain`, `SetLive`, `SetExpired`, `Del`, `Look` or nothing.
`NoOrphans` is `QueueAlwaysCovers` read through that refinement.

*The handler over it.* Assuming `MaxHold < TTL`: `OneForward`, `LeaseIsOwn`,
`SweepsSpareLive`, over the inductive `LeaseInv`. "One forward per window"
is not inductive: nothing in it says that the *entry* of a held key still is its
holder's. `LeaseInv` adds that (`OwnLease`), that every tag names a stored entry that
expires when the tag says (the converse is `QueueAlwaysCovers`), that no armed
cleaner has read a clock ahead of now, that every entry outlives the windows of
those that obtained its key, and that holders are in time. Then a sweep, which
knows only tags, finds only entries that are over; `obtain` finds the key free only
when the last window is; and `set` never meets an expired entry.
`MemoryProxyIsIdempotent`: with that invariant,
every step maps to a step of `Idempotency` or to none. Each action has a lemma;
obtaining is `Forward`, publishing `Answer`, deleting `Release`, a sweep `Forget`.
`Answers` assumes nothing: who is answered is answered right also when leases are
outlived, as in `late_del`; `InTimeInv` replaces `LeaseInv` by what remains true of
times then, and the rest is where each cached response comes from.
`WaitersArePatient` takes `MaxHold < Polls * PollInterval`: no poll is spent faster
than the interval, so a waiter that has none left has outwaited every hold that
began before it (`PollsAfford`).

*The line before the lock.* `GuardTypes` and `NoneMissesItsAnswer` assume nothing. The
latter is what the guard kept through the sleep is good for: as long as a waiter
sleeps nobody writes, so what it gives up on is still the placeholder it saw
(`SleepersWait`). How long the line takes is `DelayInv`: who stands in it
waits for the sleepers before it and the requests ahead, each of which sleeps
at most once before it, since a poller that comes back stands behind. Summed over
the others, that is at most `Others * Sleep`. If the bounds of `MemoryProxy` leave room
for that (`LineIsShort`), `GuardImplementsProxy`: the clock of `MemoryProxy` never has to
wait for the line, so the line changes when things happen and nothing else. Then
`GuardAnswers`, and with `MaxHold < TTL` `GuardIsIdempotent` and `PromptAnswersCached`,
which the convoy refutes where there are too many waiters for the TTL. The run
`guard` has a `MaxHold` below the theorem's bound: few requests that come early
cannot all sleep before each other, and there TLC finds the least that does.

*The handler over Redis.* `RedisTypes`, with the bound on the connections that
pollers have out, and `Answers` without assumption; assuming `MaxHold +
ConnTimeout < TTL`, `OneForward`, `LeaseIsOwn` and `RedisProxyIsIdempotent`. The
wait for a connection counts: a holder may be ready in time and get its
connection late. `WindowInv` says that the server keeps the entry of whoever
obtained a key for the whole window (`LeaseKept`) and that holders cannot be late,
in line or not (`HeldInTime`). Commands carried out for nobody are steps of the
promise: a lease without holder (`Lose`), an answer its own client misses.

*The worker.* `ObjectsAgree`, `OneForward`, `Answers`, `WaitersEnd`, with nothing assumed.
Memory, disk and alarm tell one story whatever is evicted; as long as no request of a key
has ended in the catch block, every `del()` on its way is that of the one request
that owns the lock (`OwnerLocks`), so that nothing but the alarm of a stored response
makes way for another (`WindowKept`). `WaitersEnd` counts what a waiter has waited
and what its remaining polls may cost (`PollsInTime`): together never more than
all its polls.

*The outcalls.* `OutcallTyping` assumes nothing. `CallsInv` says that a response the proxy
has not forgotten is in the lease of its key for a TTL from the start of its attempt
(`Remembered`), who may hold that lease, and of what a reply is made
(`RepliesMade`). If replicas send less than a TTL apart (`Spread < TTL`), at most one
upstream call of an attempt is answered, and none is under way after it
(`OneCallEach`); a replica may yet find the response of an earlier attempt. Then `OutcallsAgree`: without a cause named there,
replicas agree, because the requests that were not touched by a failure are
a quorum and have equal replies. Through the server (`~Worker`), if the upstream's
statuses are those of responses, 200 and above (`FinalStatuses`), a result is made of one
response of the upstream: `AnswersAreUpstreams`; and `RetriesAreStable`: what made the
result of an earlier attempt is what the next one finds (`Undisturbed`). `worker_500`
is what becomes of these behind a worker.

*The tokens.* `TokenTypes` (with it that a signing task has a name left to sign) and
`KeysMatch` assume nothing: no task outlives the signer
it began with (`OfSigner`), since an upgrade stops the canister first. `TokensStayLive` and
`AgentsAreAdmitted` assume `EnoughGrace`: the signatures of all names twice, and one more,
fit the grace, the one more being the public key that a startup task asks for first;
the run's grace is exactly that. The argument is
an accounting of deadlines (`DueInTime`): for every set of tasks that might
still fail, each agent's token, with an interval per refusal so far and one per
task of the set, lasts until another task is done or until the task of a timer
would be. A task that ends or fails leaves the set, and what it leaves behind is
the same statement about a smaller set.

*The canister's calls.* `CallTypes`, `OutcallsPaid`, `Honesty`, `Quotes`, `OneAgent`,
`Bookkeeping`. `CallInv`
says of each call by itself what it has paid and heard so far (`Waiting`), and of
one that asked a single agent what became of it as a function of its funds and
the answer (`Sole`), whatever the interface; `OneAgent` is that this function
is the same for all three. The prices enter through a few facts about `CycleCost`:
they are natural numbers, grow with the bytes, and are additive in the agents.
`Bookkeeping` needs a sum over calls: every step moves the canister's total by what
its one call paid more (`Booked`), and a sum over a finite set in which
one term changes moves by that change, for want of a least set of which it does not.

What the theorems assume of constants beyond that is what the modules state with
`ASSUME` and TLC evaluates: finitely many requests, calls, tasks, names and
replicas; durations that are natural numbers; placeholders that are not values; a
quorum of more than half (`OutcallAssumption`); no reply that is mistaken for none
(`ReplyAssumption`); a longest interval (`IntervalAssumption`); URL variables that are no plain path (`VariableAssumption`);
and a stand-in for "no name" that is not a name (`ListAssumption`).

Only model-checked: liveness (`EveryTurnComes`, `EveryCallEnds`, and the
configurations about requests over Redis and the end of the server), since fairness
and `ENABLED` are out of the prover's reach; and the counterexamples, which are
about instances.

## What is left

- `CfWorker` under its promise: with the catch block repaired it should implement
  `Idempotency`, as `OneForwardUnlessFailed` suggests.
- `GuardImplementsProxy` with the bound that `guard` finds, for requests that all come
  by `LastJoin`.

## Not modelled

- `alter_headers()` and `proxyRequestHeaders()`: what is sent upstream; no property is
  about it.
- The encoding of `ResponseData` and of the canister's stable memory; signatures and
  token bytes (`auth.rs` beyond expiry, drift and key); TLS certificates and
  addresses.
- Managers, controllers and the `validate_` methods of the administration, which
  only guard; the migration of `allowed_callers`; the time of the last call.
- The inter-canister signing clients beyond their await; the examples and
  packaging.
- A poll interval above the TTL: the server does not check that, and with one
  every waiter fails at once.
- Waiters of one key with other filters than its holder (`handler.rs:170`): all
  requests of an outcall have the same headers. One with another mask gets the
  holder's selection.
- Details of data: all failures of a worker have one body in `Outcalls` (`Apology`),
  where `index.ts:121` shows the exception; the worker compares a token's expiry
  with fractions of a second, `ProxyAccess` with whole ones; `tokens` has one valid
  interval, and a change between two is the matter of `MCProxyTokenInterval` and of
  the theorems; the few bytes that `count_response_bytes` adds are covered by
  `CallAssumption`.

## Running

    tlc -config MCMemoryProxy.cfg MCMemoryProxy
    tlapm MemoryProxyProofs.tla

and so on for each `MC*.cfg` (the module is its longest prefix that names one;
`MCMemoryCacher*` belong to `MCMemoryCacherLocks`) and each proof module.
