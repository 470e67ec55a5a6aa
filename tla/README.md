# TLA+ specifications of orchestro-mesh

orchestro-mesh routes OpenAI-style chat completions from a *gateway* to the
inference backends of a few *nodes*.  Each node advertises an inventory (models,
backends, policy, load); a node may run a *worker* that sends heartbeats and
serves jobs itself.  These modules model the parts of the program that decide,
count, bill and fail; TLC checks them on small instances and TLAPS proves the
central results for all instances.  Paths below are relative to `src/`.

## 1. Inventory

| Part | State | Operations | Modelled in |
|---|---|---|---|
| Gateway, chat completions (`gateway.py:304-617`) | position of each handler, its candidate list, the job rows it writes | route, create job, count, call, complete, bill, fail, release, fall back, stream | `Gateway` |
| Node registry (`gateway.py:184-229`, `_probe_loop` 114-125) | table `nodes` (status, `current_jobs`, `last_seen`, inventory) | register, heartbeat, probe, probe task | `Gateway` (rows), `Market` (model states) |
| Feedback (`gateway.py:239-281`) | table `feedback`, the scheduler's rating averages | refuse, store, read back, average | `Feedback` |
| Store (`store.py`) | tables `nodes`, `jobs`, `usage_ledger`, `feedback` | upsert, `delta_node_jobs`, create/finish job, ledger, feedback, busy retries | `StoreTxn` (transactions), `Gateway` (one action per write), `Feedback` |
| Streams (`gateway.py:86-111, 565-617`, `openai_client.py:102-124`) | text and buffer of the counter, connection to the backend | feed, yield, bill, break, leave, close | `Stream` |
| Rate limiter (`rate_limit.py`) | a deque of times per requester | `check` | `SlidingWindow`, `RateLimiter`, `Gateway` |
| Policy (`policy.py`) | none | `evaluate_policy`, fifteen gates | `Policy` |
| Scheduler (`scheduler.py`) | rating averages | staleness, `score`, `route` | `Scheduler`, `Market` |
| Probe (`probe.py`) | model states | `refresh_node_model_states` | `Market` |
| Worker (`worker.py`) | in-flight counter, draining flag, inventory | `/infer`, `/inventory`, `/drain`, `/resume`, shutdown | `Worker` |
| Heartbeat loop (`worker_heartbeat.py`) | failure counter, stop event | tick, run, back off, start, stop | `Worker` (order), `Fleet` (time) |
| Authentication (`auth.py`) | none | the requester a request's headers give | `Auth` |
| Command line (`cli.py`) | the gateway's database file | `nodes` writes the configured rows | `Gateway`, `Feedback` (`CliUpsert`) |
| Redaction, tokens, plain backend calls, benchmark, config, dashboard, market summary | none, or read only | pure functions and I/O | not modelled |

**How they interact.**  The gateway is one asyncio process: its handlers and its
probe task share one event loop and one SQLite database, which the command line
tool opens too.  A chat completion reads every row of `nodes`, asks policy and
scheduler for a ranked list, and then works through the list with synchronous
store writes between the awaited backend calls.  Workers reach the gateway by
HTTP (registration, heartbeats); the gateway's completions go to the *backends*
of a node, not through its worker.  The limiter and the rating averages live in
the gateway's memory, everything else survives in the store.

**What is hard.**

* `current_jobs` has several writers: the gateway's increments and decrements,
  whole-row writes by registrations, probes and the command line tool, and the
  counts heartbeats carry.  It is checked while routing and raised two writes later.
* Between any two store writes the process can stop, and each write can raise when
  the database stays busy; a plain completion and a stream recover differently.
* A stream's clean-up sits in a generator that may never be started.
* A probe holds rows across its awaits and writes them back whole.
* Candidates are chosen once and used after awaits.
* A quota is read before the work and billed after it.
* Writes of several processes are read-modify-write transactions that are retried
  while the database is busy.
* A stream is cut into chunks anywhere; two generators have to end, whichever side
  breaks off.
* Ratings are stored, read back and averaged in three steps, ordered by a wall clock.
* Heartbeats back off to the length of the TTL, and a probe undoes some of them.
* Heartbeats are lost, or arrive late; a drain, a new inventory and a shutdown
  interleave with running calls.
* The score adds a dozen weights, of which one must dominate.

**What makes each part correct.**  Gateway: slots are given back exactly once, the
concurrency limit holds, fallback follows failure, each completion is billed once,
every routed request ends; a stream is billed as delivered.  Registry: a silent node
is never used, and a live one not taken for silent.  Store: a write is atomic.
Feedback: an acknowledged rating counts, and nobody rates the job of another.  Limiter: no
window sees more than the limit, and `retry_after` is honest.  Policy and scheduler:
local-only work stays local, the named model wins, a probe that finds a model does
not demote it.  Worker: the counter is exact, bounds admission, and a drain becomes
known; a shutdown ends.

`PROJECT.json` lists the hazards line by line with the properties that cover them.

## 2. Modules

```
SlidingWindow ── RateLimiter ── MCRateLimiter                RateLimiterProofs
      └───────── Gateway ── GatewaySlots ── MCGateway        GatewayProofs
                 SlotPool ──────┘ (implemented)
Policy ── Scheduler ── Market ── MCMarket                    MarketProofs
Worker ── MCWorker                                           WorkerProofs
StoreTxn ── Feedback ── MCFeedback                           StoreTxnProofs, FeedbackProofs
  └ AtomicStore (implemented)    Auth ──┘
Stream ── MCStream                                           StreamProofs
Fleet ── MCFleet                                             FleetProofs
```

**SlidingWindow, RateLimiter** (`rate_limit.py`).  `Popped`/`After` are the
`popleft` loop, `RetryAfter` the wait of a denial.  `RateLimiter` adds a
monotonic clock and the three outcomes of `check` (`Unlimited`, `Grant`, `Deny`).
`HeaderWait` is what `chat_completions` makes of the wait in the header of its 429:
whole seconds, of `2 * HalfSecond` ticks each.  `granted`, `dropped`, `promise` and
`told` are history variables.  A limit of 0 is an absent limit.

**Gateway** (`gateway.py` over `store.py`).  `pc[r]` is the place of a handler
between two store writes or awaits.  `Scheduled` says that a handler waiting on an
await resumes only when no handler is between two awaits: the interleaving of one
event loop.  Each store write is its own action all the same, because `Crash`,
`StoreRaises` and `CliUpsert` (another process) can come between them.  `left` is the rest of the
candidate list: its order is the scheduler's matter, so a fallback takes any.
`batch` is what a probe read and has still to write back.  `jobs[r]` holds the job
rows of a request's attempts together with the number of their ledger entries.
`heard` and `peak` are history variables.  `Config` is what the configuration says of a
node, `Postings` and `Beats` what others post of it.  Nothing keeps a posted or configured
`current_jobs` from being negative (`models.py:173`), so a row holds any of these numbers
(`JobCounts`) until a heartbeat or a counted job clamps it (`Clamped`).  The static
gates of the policy are the constant `Eligible`; the gates that read changing state (status, jobs, staleness,
what the inventory offers) are `Routable` and `Candidates`.  A handler that ends
while it still counts on its node (an unreadable reply, a stream nobody iterates, a
`delta_node_jobs` that raises) is at `lost`.

**SlotPool, GatewaySlots.**  `SlotPool` is what `current_jobs` promises, without
handlers, tables or retries: a taker takes one slot of a place and gives back the
one it has; it may disappear with its slot; when nobody has one, known places can be
reset.  `GatewaySlots` gives the refinement mapping: the slot of a handler is a
function of its `pc` (`SlotOf`), the count of a place is its row.

**Policy, Scheduler, Market** (`policy.py`, `scheduler.py`, `probe.py`).  The gates
in the code's order, every term of the score in half points (so that the factor
1.5 stays an integer), and the decision `Route`: candidates in rank order,
rejections with reasons.  `Market` moves the inventories the decision reads: probes
with every listing a backend may give (or none), heartbeats, ratings, time.  A
rating or a confidence is the number of points it contributes.  `MarketAssumption` says
that loads and speeds are natural numbers.  `models.py` puts no lower bound on
`queue_depth` and the speeds a node declares; what a negative one does is left out.

**StoreTxn, AtomicStore** (`store.py`).  `_execute_write`, `_executemany_write` and
`delta_node_jobs` have one shape, which `StoreTxn` has for any set of processes and
operations (`Select` is what an operation reads, `Update` what it writes): begin and
take the lock, read, write and commit, roll back, try again while busy, raise, die.
`AtomicStore` is the promise: a call takes effect at one moment, or not at all.
SQLite is external: one writer at a time, nothing seen before the commit.

**Feedback, Auth** (`gateway.py:239-281`, `auth.py`).  `Feedback` composes the handler
of a post with `StoreTxn`: it calls a write, awaits its outcome, reads the latest
ratings back and hands the averages to the scheduler.  An average is the set of
ratings it is the mean of, so the properties can ask which ratings count.
`WritesAssumption` identifies the operations of `StoreTxn` with the writes of this module.  Jobs are
counted and rows upserted meanwhile by the gateway and by the command line tool.
Ratings of one moment come in any order.  `Auth` is the requester that the headers
give in each of the three modes.

**Stream** (`_StreamCounter`, `_stream_with_fallback`, `stream_chat_completions`).
Four bytes are told apart, enough to cut a line in the middle and an event between
its two newlines.  `Events` is the loop of `feed` (`Event` and `Rest` are the two halves of
its `split`), `pc` the place of the two
generators: when the client leaves while a chunk is on its way to it, the outer
generator is closed by asyncio later, and the inner one after it (`adrift`).

**Fleet** (`worker_heartbeat.py`, `_probe_loop`, the TTL).  Discrete time: `Tick` is
enabled when nobody has something to do.  `age` is the age of `last_seen`, `held` that
of the row the probe task will write back, `trouble` the length of the current or
last outage (outages closer to each other than `Settled` are one).  `ProbeRead` and `ProbeWrite`
are about the one row: before the read and after the write the task may be busy with the
other rows of its round, so it reads the row at some time from `ProbeInterval` to
`ProbeInterval + ProbeMax` after it wrote it.

**Worker** (`worker.py`, `worker_heartbeat.py`).  `Infer` checks a
call and lets it in, `Count` counts it: two steps, as in the code.  `Scheduled` says that
nothing of the process comes between them, because acquiring a lock that no task holds
across an await does not suspend; without it `AdmittedWithinLimit` fails.  `Tick` reads the
inventory, `Deliver`/`Lose` end the POST, `LateArrival` is a POST that the worker
had given up on.  `CancelLoop` is the end of `stop()`'s patience, whatever the task is
doing; the POST it cancels may still arrive.  `row` is what the gateway stores.  The delays of
the loop (interval, back-off, the grace period of a shutdown) are left out here: the loop
wakes, and the shutdown goes on, at any time.

Definitions commented `Fault:` are *seeded faults*: each changes one definition the
way a plausible bug would.  No specification uses them.  Each checked
property is violated when its fault (listed under `mutants`) takes the place of the
definition it changes, so no property holds merely by the shape of the model.

## 3. What the runs check

| Run | Properties | What it shows |
|---|---|---|
| `MCRateLimiter` | `RateRespected`, `RetryAfterHonoured`, `HeaderHonoured` | No window holds more admissions than the limit; who waits longer than told is admitted; who knows only the rounded header is at most half a second early. |
| `MCGatewayFaults` | `CounterCovers`, `FirstAttemptsWithinLimit`, `FallbackAfterError`, `BilledOnce`, `ServedIsBilled`, `QuotaOverrunBounded`, `ImplementsSlotPool`, `FallbacksRunOut` | With completions, a stream, a quota, raising writes, unreadable replies, disconnects, crashes and restarts, and no other writer of rows: slots are taken and given back as the pool promises (they may leak, but never twice); first attempts never exceed the limit; fallback follows a recorded error and never returns; nothing is billed twice, and only what stays completed; what is answered with success is billed; a quota is overrun by less than the requests in flight at once can cost; every step of a handler leaves it fewer steps. |
| `MCGatewayRegistry` | `TypeOK`, `SilentNodesNotRouted` | Registrations, heartbeats, the probe task and a posted probe, the command line tool and a TTL on one table: a node silent for longer than the TTL is never a candidate. |
| `MCGatewayLiveness` | `CompletedIsBilled`, `NothingLeftBehind`, `RoutedIsAnswered`, `ComesToRest` | Without crashes and raising writes, every routed request is answered, completed jobs are billed, all slots come back, and between requests none is taken. |
| `MCMarket` | `RequestedModelWins`, `LocalOnlyStaysLocal`, `ListedModelsRise` | The named model wins unless its node is overloaded, local-only work stays local, a listed model never sinks. |
| `MCWorker` | `InFlightExact`, `AdmittedWithinLimit`, `DrainReachesGateway`, `ShutdownEnds` | The counter survives replaced inventories and bounds admission; a lasting drain reaches the gateway through lost and late heartbeats; a shutdown ends, even if a POST of the loop does not. |
| `MCFeedback` | `TypeOK`, `AcknowledgedIsHeard`, `OwnJobsRated`, `ImplementsAtomicStore`, `PostIsAnswered` | Writes of two processes are atomic through busy retries and crashes; an acknowledged rating counts until enough ratings that are not older displace it; a job is rated with its requester's token only; every post is answered. |
| `MCStream` | `CountedAsReceived`, `BilledIsDelivered`, `ConnectionIsClosed` | The count does not depend on how the stream is cut; only a stream the client got as a whole is billed; the connection to the backend is closed on every way out. |
| `MCFleet` | `ShortTroubleUnnoticed`, `FreshWhenSettled` | With the default intervals an outage of at most fifty seconds never makes a live node stale, and after any outage the row is as fresh as before within the longest backoff, a probe and a beat. |

### Documented behaviour the code does not have

Three runs expect a violation; each quotes the statement it refutes (`findings`).

* `MCGatewayHeartbeatReset`: the worker of a node counts only its own `/infer`
  calls, and its heartbeat replaces the gateway's count.  The next completion is
  routed to a full node.
* `MCGatewayFeedbackId`: after a fallback the `request_id` of a response is the job
  id of the attempt that failed; the one that served it is `id:r1`.
* `MCMarketToolPayload`: a payload with tools and, say, `task_class: coding` is not
  upgraded to `tool-use` and may leave the local domain.

The models also exhibit the following; no run is kept for them.

* A probe that finishes after a heartbeat, a registration or a completion began
  undoes what they wrote to the row (`ProbeWrite`).
* A fallback takes its candidate without asking the policy again, so a node can run
  more attempts than it declares; `FirstAttemptsWithinLimit` is the part that holds.
* A crash or a busy database between `Complete` and `Bill` leaves a completed job
  without a ledger entry, against the README ("Each completed job writes a
  `UsageLedgerEntry`"); hence `CompletedIsBilled` is checked without these faults.
  `ServedIsBilled` is what remains with them.
* A stream gives up on a transient error even if routing found other candidates
  (`TransientError`), although the README speaks of fallback without that exception.
* A stream its client breaks off leaves its job `started` for ever (`AtRest`).
* A cold model loses points that an absent one does not, so a probe that finds it
  missing *raises* its score; a loading model that is listed becomes warm, contrary
  to the docstring of `probe.py`.

* An inventory posted to a draining worker makes it advertise itself as online while
  it refuses every call (`SetInventory`, against README "Worker robustness").
* A worker can stop without the last draining heartbeat its shutdown comment
  promises: the pause of 0.1 s does not wake the heartbeat task, and `StopLoop` ends a
  loop that waits, and sends nothing.
* Feedback answered 500 because the averages could not be read is stored all the same
  (`ReadRaises`); a client that posts it again rates twice.
* A wall clock set back lets ratings that came before it displace later ones from the
  window; `AcknowledgedIsHeard` is what remains.
* A client that leaves after the last event, before the backend has closed the stream,
  is not billed (`Cancel` at `closing`); the last event is not counted if no blank line
  follows it.
* Between `Collect` and `CollectReader` the slot of a left stream is free while its
  connection to the backend is still open.
* An outage of sixty seconds can make a live node stale when the probe task runs
  (`ShortTrouble = 6` violates `ShortTroubleUnnoticed`): a backoff of sixty seconds,
  and two beats that probes undo.

### Bounds

Bounds are the constants `MaxTime`, `MaxCost`, `MaxFailures` and the finite sets of
the MC modules.

* Gateway: one node with one slot, one with two and, where registrations matter,
  one that registers itself; two or three competing requests.  Two handlers suffice
  for a race on a slot, and the third lets a fallback meet a first attempt.
  `far` offers two endpoints, so a fallback can stay on its node.  `MaxTime = 2`
  with a TTL of 1 lets a node become stale and its row be rewritten after that.  Where
  registrations matter, one posting and one heartbeat carry a negative count.
* `MaxCost = 2` with a quota of 2: one completion can use up the quota, and three at
  once overrun it to three times the largest cost.
* Limiter: a window of 6 ticks with four to the second, eight ticks, limits 0, 1 and 2:
  entries exactly as old as the window, deques that are popped and filled again, and
  waits on either side of every half second.
* Market: two nodes, three models, one of them on a backend that is missing, every
  listing of every backend, loads and ratings at the ends of their ranges.
* Worker: two calls competing for inventories of one and of two slots and a third
  that the static gates refuse; `late` holds one heartbeat, enough for an older
  status to overtake a newer one; `failures` stops at `MaxFailures`, as nothing but
  the delay (left out) depends on it.

* Feedback: three posts of two requesters for jobs on one pair of node and model, with a
  window of one rating, so that every rating displaces another; two attempts per write;
  two clock values, enough for ratings of one moment and for a clock set back.
* Stream: every stream of up to four bytes, and every one of up to five lines (a content,
  an empty line, one that is not readable, half of one), cut in every way.
* Fleet: the defaults of the code (interval 30 s, backoff up to 300 s, TTL 300 s, POST
  timeout 10 s) and the probe interval of the README (60 s), in units of ten seconds;
  a probe holds the row for at most three of them, and is busy with other rows for at most
  three more.  `MaxTrouble` is the shortest trouble
  that drives the backoff to its limit.

Deadlock is checked in every run but `MCStream`, where a stream really ends.  `Gateway!Idle` is the stuttering of a gateway all
of whose requests are answered; a handler that is stuck is a deadlock or a violation
of `RoutedIsAnswered`.

### Fairness

* Gateway: weak fairness of the steps between two awaits and of opening a stream,
  because the event loop runs what is ready; and of the *disjunction* of the
  outcomes of a backend call, because the HTTP client has a timeout: some answer
  comes, no particular one.  Nothing is assumed of arrivals, disconnects or faults.
* Worker: weak fairness of the loop's wake-up, of the steps of the shutdown and of
  the counting and the end of a call, for the same reasons; while the process serves, the POST of a
  heartbeat ends (weak fairness of `Deliver \/ Lose`), and not all of them are lost for ever (strong
  fairness of `Deliver`).  Nothing is assumed of a POST that a shutdown finds under way: the
  timeouts of the HTTP client are for each read, and `ShutdownEnds` rests on `CancelLoop`.
  Without the strong fairness no heartbeat protocol can make anything known.  `DrainReachesGateway` does not forbid that a late heartbeat
  shows an older status once more.
* Feedback: weak fairness of the steps of a transaction and of a handler that is running.
  Nothing is assumed of who gets the write lock: `PostIsAnswered` rests on the retries
  ending.
* Stream: the backend answers or its timeout breaks the stream, the client takes what it
  is sent or leaves, and asyncio runs what is ready, the closing of abandoned generators
  included (weak fairness of `Backend`, `Client`, `Loop`).

## 4. What is proved

| Theorem | Statement |
|---|---|
| `RateLimiterProofs!TypeCorrect`, `RateIsRespected`, `RetryAfterIsHonoured`, `HeaderIsHonoured` | for every window, limit, set of requesters and resolution of the clock |
| `GatewayProofs!TypeCorrect`, `BillingOnce`, `ServedAreBilled`, `FallbackInOrder` | for every set of nodes, requests and faults |
| `GatewayProofs!CounterNeverUnderstates`, `ConcurrencyGate` | the same, when the gateway is the only writer of `current_jobs` and its configuration starts every node at zero (`OnlyWriter`) |
| `GatewayProofs!BillingIsComplete` | the same, when the process does not die and the store does not raise (`NoBreak`) |
| `GatewayProofs!OverrunIsBounded`, `SilentNodesAreDropped` | for every set of nodes, requests and faults |
| `GatewayProofs!StepsRunOut` | for every set of requests and faults, if the endpoints are finitely many |
| `GatewayProofs!QuietIsClean` | under `OnlyWriter`, without faults (`Faultless`) |
| `GatewayProofs!SlotsArePooled` | `Gateway` implements `SlotPool`, under `OnlyWriter` |
| `StoreTxnProofs!WritesAreAtomic` | `StoreTxn` implements `AtomicStore`, for every set of processes and operations |
| `FeedbackProofs!FeedbackTypeCorrect`, `AcknowledgedStaysHeard`, `OnlyOwnJobsRated`, `FeedbackWritesAreAtomic` | for every set of posts, jobs, tokens and headers, every window and number of attempts |
| `MarketProofs!RequestedModelOutranks`, `LocalOnlyIsLocal` | about the operators, for every request, node and model |
| `MarketProofs!LocalOnlyNeverLeaves`, `NamedModelWins`, `ProbesRaiseListedModels` | for every registry, set of payloads, listing and rating |
| `StreamProofs!CutsDoNotMatter`, `OnlyDeliveredIsBilled` | for every stream of bytes, of any length, cut anywhere |
| `FleetProofs!CalmMakesFresh` | for every interval, backoff limit, timeout and probe period, if a beat is shorter than the latter |
| `FleetProofs!ShortTroublesPass` | the same, if the numbers satisfy `TroubleIsShort` |
| `WorkerProofs!TypeCorrect`, `CounterIsExact`, `AdmissionIsBounded` | for every set of calls and inventories |

The assumptions are the named `ASSUME`s of the modules (shapes of the constants,
finiteness of the sets of requests, calls and endpoints); TLC evaluates them in every run.

* **Limiter.**  `RateRespected` speaks of all admissions, `check` only of what its
  pruned deque still holds.  The invariant therefore says that the deque is the
  suffix of the admissions after the first `dropped` ones, that it is sorted and not
  younger than the clock, that everything dropped is older than the window, and that
  a promise is the wait computed from an entry that is still the oldest.  The moment a
  header names is at most half a second before the promise (`HeaderClose`), as dividing
  by the length of a second leaves a remainder smaller than that.
* **Gateway, part A.**  `TypeOK` is not inductive: `Retry` needs a job row to append
  to, `FinishJob` a last one.  `Placed` adds where a handler's current candidate and
  its last job row stand for each `pc`.
* **Part B, books.**  `JobsInv` fixes, for each `pc`, the status of the last job,
  whether it has been billed, that earlier ones are failed and unbilled, and that
  tried and untried candidates are disjoint.  `BilledOnce`, `ServedIsBilled` and `FallbackAfterError`
  are read off it.  The critical case is a stream whose ledger write raises: the
  completed job becomes an error, which is harmless only because nothing was billed.
* **Part C, counter.**  The limit is checked in `Route` and counted in `Count`.  The
  invariant carries the vacancy seen while routing (`Vacancy`) to the count; that is
  sound only because at most one handler is between two awaits.  Holders lost in a
  crash only help, since restarts write the configured rows when nobody runs.
  `OnlyWriter` is necessary: `MCGatewayHeartbeatReset` is the counterexample without it.
* **Part D, completeness.**  Under `NoBreak` a job is completed and unbilled only between
  `Complete` and `Bill` of the one handler that owns it (`BilledInv`).  Without it
  `CompletedIsBilled` is false: a crash between the two writes is enough.
* **Part E, quota.**  `QuotaInv` bounds what a user has been billed *together with* the
  largest cost of each of its requests that may still be billed (`Pending`): the sum stays
  below the quota and the largest costs of as many requests as it ever had in flight.
  Billing moves a request from one summand to the other; only `Route` adds to `Pending`,
  and only below the quota.
* **Part F, silence.**  `HeardInv`: no row, and no row a probe has read and not yet written
  back, carries a `last_seen` later than the last sign of life of its node.  The second
  half is what a step-by-step reading of the probe misses: it writes whole rows.
* **Part G, slots.**  Each step of the gateway is mapped to a step of the pool or to a stutter.
  `CounterCovers` is what makes a release a real one: the clamp at zero never takes
  effect, because the slot given back is still counted.  The pool may be reset by a
  restart, because nobody has a slot after a crash.
* **Part H, steps.**  `StepsLeft` counts the writes and awaits a handler has before it at its
  candidate, and eight for each candidate it has not tried.  A retry begins the eight
  anew, but costs a candidate, so it lowers the sum by one.  This is the safety half of
  `RoutedIsAnswered` and holds with every fault; fairness only adds that steps are taken.
* **Part I, rest.**  Without faults the counters are exact (`Exact`), which part C does not
  say: it allows leaks.  Each transition of `pc` that may leave a job "started" is listed
  in `MayRun`, and of the places at which a handler ends only `gone` is.  `Faultless`
  is necessary: a crash, a write that raises, an unreadable reply and an abandoned stream
  each leave a slot or a job behind.  So `ComesToRest` is `NothingLeftBehind` and the end of every request.
* **Transactions.**  The lock belongs to the one process inside its transaction, so what
  it has read is what it would read at its commit: the commit is the effect of the whole
  operation, everything before it is invisible, and a failed attempt changes nothing.
* **Scheduler.**  The name is worth 2000 half points; the sum of all other terms
  differs by less than 1410 plus load and tags between two candidates.  The condition
  on load is sharp up to the terms' ranges.
* **Market.**  A decision is a choice among sorted sequences, so first it is shown that a
  finite set with a strict total order has one (`SortedSequence`, by the rank of each
  element).  `MarketInv` says that the registry keeps its shape and that the last
  decision is `Route` of its request in the registry as it stands, or none; the two state properties
  follow from the lemmas on the operators.  `ListedModelsRise` compares the scores on
  both sides of a probe, term by term.
* **Feedback.**  `FeedbackInv` joins the invariant of `StoreTxn` with what each handler
  knows at its `pc`: a post at its write has passed the checks, one that is answered 200
  has its rating in the table.  `AcknowledgedIsHeard` is itself part of the induction:
  a read back by one post must not drop what another was acknowledged for.  The steps of
  transactions are those of `StoreTxn`, so `WritesAreAtomic` is reused, not proved again.
* **Stream.**  `Parsed`: what was received has a *cut* (its beginning, or a place where an event
  has just ended) such that the buffer holds the bytes after it.  A line lies on one side
  of a cut and reads there as it does in the whole (`LinesBefore`, `LinesAfter`), so counts
  add up at a cut (`WholeSplit`), and the next chunk only moves the cut (`ChunkCounted`).
  `Events` is a recursive function; that the loop is defined on every buffer (`EventsIsRound`) and counts what it
  should (`EventsCount`) are inductions on the length of a buffer, carried out with least
  elements of sets of naturals since an induction rule cannot be instantiated.
* **Worker.**  `Counts` is the type invariant with `InFlightExact` and `LetIn`; the clamp at zero
  in `SetInFlight` never takes effect because a finishing call is itself counted.
  `LetIn` carries the check of `Infer` to `Count`: a call that is let in and not counted
  is the only one, and the counter is still below the limit.
* **Fleet.**  `FleetInv` follows a calm through its stages: no beat has arrived yet
  (`Waiting`); one has, but the probe task holds an older row (`Threatened`) or has just
  written it back (`Undone`); one has that no probe undoes (`Steady`).  Each of the first
  three carries the latest moment it can last to, which add up to `Settled`.  Time keeps every
  stage because the next beat comes nearer (`Due`) by as much as the row gets older.  That a
  probe sleeps for longer than a beat is necessary: otherwise it could undo every beat.
  `PowersAssumption` (2^0 to 2^8 are positive natural numbers) tells the provers what they
  do not know of exponents; TLC evaluates it.
* **Fleet, troubles.**  `TroubleIsShort` is a condition on numbers alone: the first beat
  after a trouble is in time if it was just about to be sent, if every POST since the
  beginning failed, and if as many failed since a beat that a probe undid; in time means
  that even a probe may undo it.  `MCFleet` lets TLC evaluate it, so the theorem covers the
  default configuration.  `TroubleInv` adds up what led to the present age.
  The history of a trouble is one of two: no beat has arrived since it began, and the age
  is accounted for by the row's age before it and the `Waits` of the backoff
  (`NoneArrived`); or one did, and the failures since fit into the rest of it
  (`SomeArrived`).  Beside it stands the stage of the row: the next beat will be in time
  (`Early`), it was but the probe task holds an older row (`Risky`), or has just written
  that back (`Late`).  A beat leads from the first stage to the second, a probe from there
  to the third, the next beat back to the first; an outage always leaves the row in the
  first, because the history bounds its age.
  In small configurations the condition has turned out to be exact: with the default
  intervals a trouble of five units needs a TTL of 29 and one of six a TTL of 32, and in
  both cases one less violates `ShortTroubleUnnoticed`.

**Only model-checked:**

* liveness (`RoutedIsAnswered`, `ComesToRest`, `DrainReachesGateway`, `ShutdownEnds`,
  `PostIsAnswered`, `ConnectionIsClosed`): fairness and `ENABLED` are out of TLAPS's reach.
  Of the first two the part that needs neither is proved (parts H and I).

Every other property of a run that holds is stated by a theorem; `WorkerProofs!TypeCorrect` states the
type invariant of the worker, which no run checks by itself.

## 5. What is not modelled

* Texts: redaction, token counting, JSON validation.  Their outcomes are constants or
  choices (`Blocked`, the cost of a `Bill`, `MalformedReply`).  Streams whose lines end
  in carriage returns: their events are never split, so nothing of them is counted.
* The shared token of the worker's endpoints: a comparison without state.
* `queue_depth` in `Gateway` (only the score reads it; it is in `Market`), latency
  and quality fields.
* The sleeps between the retries of a write: the whole gateway waits meanwhile.
* The payload of a backend call and the benchmark: they copy fields and print.
* Dashboard and market summary: the first reads, the second is used by nothing.
* Negative loads in `Market` (see there) and in `Worker`, whose posted `current_jobs` is
  overwritten at once.  A `last_seen` that a configuration or a posting states: registering
  replaces it, and configurations do not carry one.
* Of a restart, `Feedback` has the averages only; the rows written again are in `Gateway`.
* The grace period of a shutdown; rows probed by `POST /mesh/probe` in `Fleet` (they are
  in `Gateway`).

## 6. Plan

1. What parts H and I do for the gateway, for a shutdown of the worker and for a post of
   feedback: a rank that their steps lower.
2. Shorter proofs of parts A and B of `GatewayProofs`: many steps leave the same variables
   alone.
