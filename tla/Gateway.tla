------------------------------- MODULE Gateway -------------------------------
(***************************************************************************)
(* The gateway process of gateway.py over the store of store.py: chat      *)
(* completions with fallback, streams, quotas and the rate limiter, the    *)
(* node registry with its heartbeats and probes, and the store's job       *)
(* counter, job rows and usage ledger.                                     *)
(*                                                                         *)
(* One asyncio loop runs everything, so a handler is atomic from one await *)
(* to the next as far as the other handlers are concerned; the synchronous *)
(* store writes between two awaits are steps of their own because the      *)
(* process can stop, or a write can raise, between any two of them, and    *)
(* because the command line tool writes the same database file.            *)
(***************************************************************************)
EXTENDS SlidingWindow, FiniteSets

CONSTANTS
  Nodes,            \* node ids
  Configured,       \* the nodes of the gateway's own configuration
  LocalNode,        \* local_node_id, or None
  Position,         \* node_id order, the order list_nodes answers in
  Inventories,      \* what a node can advertise: models, backends, policy
  Config,           \* what the configuration says of each configured node
  Endpoints,        \* (model, backend) pairs of the nodes
  Host,             \* the node of an endpoint
  Offers,           \* the endpoints an inventory advertises
  MaxJobs,          \* policy.max_concurrent_jobs of an inventory
  TTL,              \* node_ttl_seconds, 0 for "never stale"
  Users,            \* requesters
  Quota,            \* quota_credits: a function on some of the users
  MaxCost,          \* bound of the credit cost of one completion
  Requests,         \* the chat completions that may arrive
  Owner,            \* the requester of each
  Streaming,        \* those with "stream": true
  Blocked,          \* those that validation or redaction refuses
  Eligible,         \* endpoints the static gates of evaluate_policy let through
  Loops,            \* the background probe task, if any
  Probers,          \* concurrent calls of POST /mesh/probe
  Beats,            \* bodies of POST /mesh/heartbeat, None for an absent field
  Postings,         \* bodies of POST /mesh/nodes
  Faults,           \* what may go wrong in a run
  MaxTime,          \* bound of the clock, for model checking
  None

Statuses == {"online", "degraded", "draining", "offline"}

(* NodeInventory puts no bound on current_jobs: it may be negative. *)
Advert == [status : Statuses, jobs : Int, inv : Inventories]
Posting == [node : Nodes, status : Statuses, jobs : Int, inv : Inventories]
Beat == [node : Nodes, status : Statuses \cup {None}, jobs : Int \cup {None}]

(* What a row may hold as current_jobs: counts, and what was written to it. *)
JobCounts == Nat \cup {post.jobs : post \in Postings} \cup {Config[n].jobs : n \in Configured}
Row == [status : Statuses, jobs : JobCounts, seen : Nat, inv : Inventories]
IsTable(f) == DOMAIN f \subseteq Nodes /\ f \in [DOMAIN f -> Row]

ASSUME GatewayAssumption ==
  /\ Configured \subseteq Nodes
  /\ Position \in [Nodes -> Nat]
  /\ Config \in [Configured -> Advert]
  /\ Host \in [Endpoints -> Nodes]
  /\ Offers \in [Inventories -> SUBSET Endpoints]
  /\ MaxJobs \in [Inventories -> Nat]
  /\ TTL \in Nat
  /\ \A u \in DOMAIN Quota : Quota[u] \in Nat
  /\ MaxCost \in Nat
  /\ IsFiniteSet(Requests)
  /\ Owner \in [Requests -> Users]
  /\ Streaming \subseteq Requests
  /\ Blocked \subseteq Requests
  /\ Eligible \in [Requests -> SUBSET Endpoints]
  /\ Beats \subseteq Beat
  /\ Postings \subseteq Posting
  /\ Faults \subseteq {"crash", "store", "malformed", "abandon", "cli"}
  /\ None \notin Statuses \cup Int \cup Endpoints

ASSUME EndpointsAssumption == IsFiniteSet(Endpoints)

VARIABLES
  up,       \* the gateway process runs
  now,      \* the clock
  nodes,    \* table nodes: the row of each known node
  heard,    \* history variable: when a node was last registered, configured
            \* or sent a heartbeat
  jobs,     \* table jobs (and usage_ledger): the attempts of each request;
            \* "id" is attempt 1, "id:rK" is attempt K + 1
  used,     \* ledger_totals: credits billed to each user
  window,   \* the rate limiter's deque of each user
  pc,       \* where the handler of each request is
  left,     \* its candidates that were not tried yet
  at,       \* the candidate it is trying
  verdict,  \* what it does after giving the slot back
  batch,    \* the rows each probe read and has still to write back
  peak      \* history variable: most requests of a user in flight at once

vars == <<up, now, nodes, heard, jobs, used, window, pc, left, at, verdict, batch, peak>>
registry == <<nodes, heard>>
tables == <<nodes, heard, jobs, used>>
request == <<window, pc, left, at, verdict, peak>>

(* Where a handler holds the event loop, between two awaits. *)
Busy == {"create", "count", "complete", "bill", "fail", "release"}
(* Where a handler waits for the loop or for the backend. *)
Waiting == {"open", "await"}
(* Where its increment of current_jobs is not yet paired with a decrement. *)
Counted == {"open", "await", "complete", "bill", "fail", "release"}
(* "lost" is the end of a handler that still counts on its node. *)
Answered == {"denied", "ok", "failed", "gone", "lost", "crashed"}
PCs == {"new"} \cup Busy \cup Waiting \cup Answered

InFlight(u) == {r \in Requests : Owner[r] = u /\ pc[r] \in Busy \cup Waiting}
Holders(n) == {r \in Requests : pc[r] \in Counted /\ Host[at[r]] = n}

(* Fault: the store calls of a handler are awaited, others run in between. *)
ScheduledAnytime == up

(* A handler that was waiting gets the loop. *)
Scheduled == up /\ \A q \in Requests : pc[q] \notin Busy

Goto(r, label) == pc' = [pc EXCEPT ![r] = label]

(* store.upsert_node: the whole row is replaced. *)
Upsert(n, row) ==
  nodes' = [m \in DOMAIN nodes \cup {n} |-> IF m = n THEN row ELSE nodes[m]]

(* Fault: the MAX(0, ...) of the update is missing. *)
DeltaJobsUnclamped(n, d) == nodes' = [nodes EXCEPT ![n].jobs = @ + d]

Clamped(n) == IF n < 0 THEN 0 ELSE n

(* store.delta_node_jobs; a node without a row is left without one. *)
DeltaJobs(n, d) == nodes' = [nodes EXCEPT ![n].jobs = Clamped(@ + d)]

(* The attempts js when the last one is finished with a status, or billed. *)
Finished(js, status) == [js EXCEPT ![Len(js)].status = status]
Billed(js) == [js EXCEPT ![Len(js)].bills = @ + 1]

(* store.finish_job of the current attempt. *)
FinishJob(r, status) == jobs' = [jobs EXCEPT ![r] = Finished(@, status)]

(* What a probe holds between two calls. *)
NoRows == [n \in {} |-> None]

(* A configured node is seen when its configuration is loaded. *)
FromConfig(n) ==
  [status |-> Config[n].status, jobs |-> Config[n].jobs, seen |-> now, inv |-> Config[n].inv]
------------------------------------------------------------------------------
(* Scheduler.route, up to the order of the candidates. *)

Stale(n) == TTL > 0 /\ n # LocalNode /\ now - nodes[n].seen > TTL

Routable(n) ==
  /\ n \in DOMAIN nodes
  /\ ~Stale(n)
  /\ nodes[n].status \in {"online", "degraded"}
  /\ nodes[n].jobs < MaxJobs[nodes[n].inv]

Candidates(r) ==
  {e \in Eligible[r] : Routable(Host[e]) /\ e \in Offers[nodes[Host[e]].inv]}
------------------------------------------------------------------------------
Init ==
  /\ up = TRUE
  /\ now = 0
  /\ nodes = [n \in Configured |-> FromConfig(n)]
  /\ heard = [n \in Nodes |-> 0]
  /\ jobs = [r \in Requests |-> <<>>]
  /\ used = [u \in Users |-> 0]
  /\ window = [u \in Users |-> <<>>]
  /\ pc = [r \in Requests |-> "new"]
  /\ left = [r \in Requests |-> {}]
  /\ at = [r \in Requests |-> None]
  /\ verdict = [r \in Requests |-> "ok"]
  /\ batch = [p \in Loops \cup Probers |-> NoRows]
  /\ peak = [u \in Users |-> 0]

(* The limiter's admission; an unlimited user's deque is not touched. *)
Admit(u) ==
  IF LimitFor(u) = 0 THEN UNCHANGED window
  ELSE \E k \in Popped(window[u], now) :
         /\ Len(After(window[u], k)) < LimitFor(u)
         /\ window' = [window EXCEPT ![u] = Append(After(window[u], k), now)]

RateLimited(r) ==
  /\ Scheduled /\ pc[r] = "new"
  /\ LimitFor(Owner[r]) > 0
  /\ \E k \in Popped(window[Owner[r]], now) :
       /\ Len(After(window[Owner[r]], k)) >= LimitFor(Owner[r])
       /\ window' = [window EXCEPT ![Owner[r]] = After(@, k)]
  /\ Goto(r, "denied")
  /\ UNCHANGED <<up, now, tables, left, at, verdict, batch, peak>>

(* Fault: the quota may be used up exactly once more. *)
OverQuotaLate(u) == u \in DOMAIN Quota /\ used[u] > Quota[u]

OverQuota(u) == u \in DOMAIN Quota /\ used[u] >= Quota[u]

(* Refused after the limiter: quota, validation or redaction, no candidate. *)
TurnedAway(r) ==
  /\ Scheduled /\ pc[r] = "new"
  /\ Admit(Owner[r])
  /\ OverQuota(Owner[r]) \/ r \in Blocked \/ Candidates(r) = {}
  /\ Goto(r, "denied")
  /\ UNCHANGED <<up, now, tables, left, at, verdict, batch, peak>>

(* The candidates are those of this moment; the attempts do not look again. *)
Route(r) ==
  /\ Scheduled /\ pc[r] = "new"
  /\ Admit(Owner[r])
  /\ ~OverQuota(Owner[r]) /\ r \notin Blocked
  /\ \E e \in Candidates(r) :
       /\ at' = [at EXCEPT ![r] = e]
       /\ left' = [left EXCEPT ![r] = Candidates(r) \ {e}]
  /\ Goto(r, "create")
  /\ LET u == Owner[r]
         n == Cardinality(InFlight(u)) + 1
     IN  peak' = [peak EXCEPT ![u] = IF n > @ THEN n ELSE @]
  /\ UNCHANGED <<up, now, tables, verdict, batch>>

Create(r) ==
  /\ pc[r] = "create"
  /\ jobs' = [jobs EXCEPT ![r] = Append(@, [endpoint |-> at[r], status |-> "started", bills |-> 0])]
  /\ Goto(r, "count")
  /\ UNCHANGED <<up, now, registry, used, window, left, at, verdict, batch, peak>>

(* A stream's generator is only started after the handler returned it. *)
Count(r) ==
  /\ pc[r] = "count"
  /\ DeltaJobs(Host[at[r]], 1)
  /\ Goto(r, IF r \in Streaming THEN "open" ELSE "await")
  /\ UNCHANGED <<up, now, heard, jobs, used, window, left, at, verdict, batch, peak>>

Open(r) ==
  /\ Scheduled /\ pc[r] = "open"
  /\ Goto(r, "await")
  /\ UNCHANGED <<up, now, tables, window, left, at, verdict, batch, peak>>

(* The client leaves first: a generator that never ran has no finally. *)
AbandonStream(r) ==
  /\ "abandon" \in Faults
  /\ Scheduled /\ pc[r] = "open"
  /\ Goto(r, "lost")
  /\ UNCHANGED <<up, now, tables, window, left, at, verdict, batch, peak>>

(* What the awaited backend call comes back with. *)
Reply(r) ==
  /\ Scheduled /\ pc[r] = "await"
  /\ Goto(r, "complete")
  /\ UNCHANGED <<up, now, tables, window, left, at, verdict, batch, peak>>

(* A transport error, a 5xx or a 429: worth another candidate, if there is *)
(* one; a stream only ever looks at candidates[0].                         *)
TransientError(r) ==
  /\ Scheduled /\ pc[r] = "await"
  /\ verdict' = [verdict EXCEPT ![r] =
       IF r \in Streaming \/ left[r] = {} THEN "failed" ELSE "retry"]
  /\ Goto(r, "fail")
  /\ UNCHANGED <<up, now, tables, window, left, at, batch, peak>>

PermanentError(r) ==
  /\ Scheduled /\ pc[r] = "await"
  /\ verdict' = [verdict EXCEPT ![r] = "failed"]
  /\ Goto(r, "fail")
  /\ UNCHANGED <<up, now, tables, window, left, at, batch, peak>>

(* Fault: the generator gives the slot back before its finally clause does. *)
DisconnectReleasing(r) ==
  /\ Scheduled /\ pc[r] = "await" /\ r \in Streaming
  /\ DeltaJobs(Host[at[r]], -1)
  /\ verdict' = [verdict EXCEPT ![r] = "gone"]
  /\ Goto(r, "release")
  /\ UNCHANGED <<up, now, heard, jobs, used, window, left, at, batch, peak>>

(* The client of a running stream leaves: only the finally clause runs. *)
Disconnect(r) ==
  /\ Scheduled /\ pc[r] = "await" /\ r \in Streaming
  /\ verdict' = [verdict EXCEPT ![r] = "gone"]
  /\ Goto(r, "release")
  /\ UNCHANGED <<up, now, tables, window, left, at, batch, peak>>

(* A reply whose usage cannot be read raises outside the try. *)
MalformedReply(r) ==
  /\ "malformed" \in Faults
  /\ Scheduled /\ pc[r] = "await" /\ r \notin Streaming
  /\ Goto(r, "lost")
  /\ UNCHANGED <<up, now, tables, window, left, at, verdict, batch, peak>>

(* Fault: what a stream used is not billed. *)
CompleteUnbilled(r) ==
  /\ pc[r] = "complete"
  /\ FinishJob(r, "completed")
  /\ Goto(r, IF r \in Streaming THEN "release" ELSE "bill")
  /\ UNCHANGED <<up, now, registry, used, window, left, at, verdict, batch, peak>>

Complete(r) ==
  /\ pc[r] = "complete"
  /\ FinishJob(r, "completed")
  /\ Goto(r, "bill")
  /\ UNCHANGED <<up, now, registry, used, window, left, at, verdict, batch, peak>>

Bill(r) ==
  /\ pc[r] = "bill"
  /\ \E c \in 0 .. MaxCost : used' = [used EXCEPT ![Owner[r]] = @ + c]
  /\ jobs' = [jobs EXCEPT ![r] = Billed(@)]
  /\ verdict' = [verdict EXCEPT ![r] = "ok"]
  /\ Goto(r, "release")
  /\ UNCHANGED <<up, now, registry, window, left, at, batch, peak>>

(* Fault: the error is not recorded. *)
FailUnrecorded(r) ==
  /\ pc[r] = "fail"
  /\ Goto(r, "release")
  /\ UNCHANGED <<up, now, tables, window, left, at, verdict, batch, peak>>

(* Fault: the same backend is asked again, for as long as it fails. *)
FailAskingAgain(r) ==
  /\ pc[r] = "fail"
  /\ FinishJob(r, "error")
  /\ Goto(r, "await")
  /\ UNCHANGED <<up, now, registry, used, window, left, at, verdict, batch, peak>>

Fail(r) ==
  /\ pc[r] = "fail"
  /\ FinishJob(r, "error")
  /\ Goto(r, "release")
  /\ UNCHANGED <<up, now, registry, used, window, left, at, verdict, batch, peak>>

(* Fault: the finally clause records an error whatever came before. *)
ReleaseAsError(r) ==
  /\ pc[r] = "release" /\ verdict[r] # "retry"
  /\ DeltaJobs(Host[at[r]], -1)
  /\ FinishJob(r, "error")
  /\ Goto(r, verdict[r])
  /\ UNCHANGED <<up, now, heard, used, window, left, at, verdict, batch, peak>>

Release(r) ==
  /\ pc[r] = "release" /\ verdict[r] # "retry"
  /\ DeltaJobs(Host[at[r]], -1)
  /\ Goto(r, verdict[r])
  /\ UNCHANGED <<up, now, heard, jobs, used, window, left, at, verdict, batch, peak>>

(* Fault: the slot of the failed attempt is kept. *)
RetryKeepingSlot(r) ==
  /\ pc[r] = "release" /\ verdict[r] = "retry"
  /\ \E e \in left[r] :
       /\ at' = [at EXCEPT ![r] = e]
       /\ left' = [left EXCEPT ![r] = @ \ {e}]
  /\ Goto(r, "create")
  /\ UNCHANGED <<up, now, tables, window, verdict, batch, peak>>

(* Fault: the fallback routes anew, the failed candidate included. *)
RetryRoutedAnew(r) ==
  /\ pc[r] = "release" /\ verdict[r] = "retry"
  /\ DeltaJobs(Host[at[r]], -1)
  /\ \E e \in Candidates(r) :
       /\ at' = [at EXCEPT ![r] = e]
       /\ left' = [left EXCEPT ![r] = Candidates(r) \ {e}]
  /\ Goto(r, "create")
  /\ UNCHANGED <<up, now, heard, jobs, used, window, verdict, batch, peak>>

(* Back to the top of the candidate loop, without an await in between. *)
Retry(r) ==
  /\ pc[r] = "release" /\ verdict[r] = "retry"
  /\ DeltaJobs(Host[at[r]], -1)
  /\ \E e \in left[r] :
       /\ at' = [at EXCEPT ![r] = e]
       /\ left' = [left EXCEPT ![r] = @ \ {e}]
  /\ Goto(r, "create")
  /\ UNCHANGED <<up, now, heard, jobs, used, window, verdict, batch, peak>>

(* Fault: an error of the ledger is swallowed, the answer matters more. *)
StoreRaisesSwallowed(r) ==
  /\ "store" \in Faults
  /\ pc[r] \in Busy
  /\ verdict' = [verdict EXCEPT ![r] = IF pc[r] = "bill" THEN "ok" ELSE "failed"]
  /\ Goto(r, CASE pc[r] = "bill" -> "release"
               [] r \in Streaming /\ pc[r] = "complete" -> "fail"
               [] r \in Streaming /\ pc[r] = "fail" -> "release"
               [] OTHER -> IF pc[r] \in Counted THEN "lost" ELSE "failed")
  /\ UNCHANGED <<up, now, tables, window, left, at, batch, peak>>

(***************************************************************************)
(* A store write that stays busy through its retries raises.  A plain      *)
(* completion lets it escape; a stream's except clause still records the   *)
(* error, and its finally clause still gives the slot back.                *)
(***************************************************************************)
StoreRaises(r) ==
  /\ "store" \in Faults
  /\ pc[r] \in Busy
  /\ verdict' = [verdict EXCEPT ![r] = "failed"]
  /\ Goto(r, CASE r \in Streaming /\ pc[r] \in {"complete", "bill"} -> "fail"
               [] r \in Streaming /\ pc[r] = "fail" -> "release"
               [] OTHER -> IF pc[r] \in Counted THEN "lost" ELSE "failed")
  /\ UNCHANGED <<up, now, tables, window, left, at, batch, peak>>
------------------------------------------------------------------------------
(* The registry. *)

Register(post) ==
  /\ Scheduled
  /\ Upsert(post.node, [status |-> post.status, jobs |-> post.jobs, seen |-> now, inv |-> post.inv])
  /\ heard' = [heard EXCEPT ![post.node] = now]
  /\ UNCHANGED <<up, now, jobs, used, request, batch>>

(* A node nobody registered gets a 404 and changes nothing. *)
Heartbeat(beat) ==
  /\ Scheduled
  /\ beat.node \in DOMAIN nodes
  /\ LET row == nodes[beat.node] IN
     Upsert(beat.node, [row EXCEPT !.seen = now,
                                   !.status = IF beat.status = None THEN @ ELSE beat.status,
                                   !.jobs = IF beat.jobs = None THEN @ ELSE Clamped(beat.jobs)])
  /\ heard' = [heard EXCEPT ![beat.node] = now]
  /\ UNCHANGED <<up, now, jobs, used, request, batch>>

(* One pass of the probe task: every row is read before the first await. *)
ProbeLoop(p) ==
  /\ Scheduled /\ p \in Loops /\ DOMAIN batch[p] = {}
  /\ DOMAIN nodes # {}
  /\ batch' = [batch EXCEPT ![p] = nodes]
  /\ UNCHANGED <<up, now, tables, request>>

ProbeNode(p, n) ==
  /\ Scheduled /\ p \in Probers /\ DOMAIN batch[p] = {}
  /\ n \in DOMAIN nodes
  /\ batch' = [batch EXCEPT ![p] = [m \in {n} |-> nodes[m]]]
  /\ UNCHANGED <<up, now, tables, request>>

Without(rows, n) == [m \in DOMAIN rows \ {n} |-> rows[m]]

(* Fault: a probe counts as a sign of life. *)
ProbeWriteTouching(p, n) ==
  /\ Scheduled
  /\ n \in DOMAIN batch[p]
  /\ \A m \in DOMAIN batch[p] : Position[n] <= Position[m]
  /\ Upsert(n, [batch[p][n] EXCEPT !.seen = now])
  /\ batch' = [batch EXCEPT ![p] = Without(@, n)]
  /\ UNCHANGED <<up, now, heard, jobs, used, request>>

(* The backends of n answered; the row read earlier is written as a whole. *)
ProbeWrite(p, n) ==
  /\ Scheduled
  /\ n \in DOMAIN batch[p]
  /\ \A m \in DOMAIN batch[p] : Position[n] <= Position[m]
  /\ Upsert(n, batch[p][n])
  /\ batch' = [batch EXCEPT ![p] = Without(@, n)]
  /\ UNCHANGED <<up, now, heard, jobs, used, request>>

(* A write that raises ends the call, and the pass of the probe task. *)
ProbeRaises(p) ==
  /\ "store" \in Faults
  /\ Scheduled
  /\ DOMAIN batch[p] # {}
  /\ batch' = [batch EXCEPT ![p] = NoRows]
  /\ UNCHANGED <<up, now, tables, request>>

(* The command line tool loads its configuration into the same store. *)
CliUpsert(n) ==
  /\ "cli" \in Faults
  /\ n \in Configured
  /\ Upsert(n, FromConfig(n))
  /\ heard' = [heard EXCEPT ![n] = now]
  /\ UNCHANGED <<up, now, jobs, used, request, batch>>
------------------------------------------------------------------------------
Crash ==
  /\ "crash" \in Faults
  /\ up
  /\ up' = FALSE
  /\ pc' = [r \in Requests |-> IF pc[r] \in Busy \cup Waiting THEN "crashed" ELSE pc[r]]
  /\ batch' = [p \in Loops \cup Probers |-> NoRows]
  /\ UNCHANGED <<now, tables, window, left, at, verdict, peak>>

(* The configured rows are written again; the limiter starts empty. *)
Restart ==
  /\ ~up
  /\ up' = TRUE
  /\ nodes' = [n \in DOMAIN nodes \cup Configured |->
                 IF n \in Configured THEN FromConfig(n) ELSE nodes[n]]
  /\ heard' = [n \in Nodes |-> IF n \in Configured THEN now ELSE heard[n]]
  /\ window' = [u \in Users |-> <<>>]
  /\ UNCHANGED <<now, jobs, used, pc, left, at, verdict, batch, peak>>

Tick ==
  /\ now < MaxTime
  /\ now' = now + 1
  /\ UNCHANGED <<up, tables, request, batch>>

(* Every request is answered: the gateway idles. *)
Idle == (\A r \in Requests : pc[r] \in Answered) /\ UNCHANGED vars

Handle(r) ==
  \/ RateLimited(r) \/ TurnedAway(r) \/ Route(r)
  \/ Create(r) \/ Count(r) \/ Open(r) \/ AbandonStream(r)
  \/ Reply(r) \/ TransientError(r) \/ PermanentError(r) \/ Disconnect(r) \/ MalformedReply(r)
  \/ Complete(r) \/ Bill(r) \/ Fail(r) \/ Release(r) \/ Retry(r) \/ StoreRaises(r)

Probe(p) ==
  \/ ProbeLoop(p) \/ ProbeRaises(p)
  \/ \E n \in Nodes : ProbeNode(p, n) \/ ProbeWrite(p, n)

Next ==
  \/ \E r \in Requests : Handle(r)
  \/ \E post \in Postings : Register(post)
  \/ \E beat \in Beats : Heartbeat(beat)
  \/ \E p \in Loops \cup Probers : Probe(p)
  \/ \E n \in Nodes : CliUpsert(n)
  \/ Crash \/ Restart \/ Tick \/ Idle

Spec == Init /\ [][Next]_vars

(***************************************************************************)
(* The loop runs what is ready, and the HTTP client has a timeout: a       *)
(* backend call comes back with an answer or an error.                     *)
(***************************************************************************)
Step(r) == Create(r) \/ Count(r) \/ Complete(r) \/ Bill(r) \/ Fail(r) \/ Release(r) \/ Retry(r)
Answer(r) == Reply(r) \/ TransientError(r) \/ PermanentError(r)

Fairness ==
  \A r \in Requests : WF_vars(Step(r)) /\ WF_vars(Open(r)) /\ WF_vars(Answer(r))

FairSpec == Spec /\ Fairness
------------------------------------------------------------------------------
Attempt == [endpoint : Endpoints, status : {"started", "completed", "error"}, bills : Nat]

(* Shape of the state of the gateway and of its store. *)
TypeOK ==
  /\ up \in BOOLEAN
  /\ now \in Nat
  /\ IsTable(nodes)
  /\ heard \in [Nodes -> Nat]
  /\ jobs \in [Requests -> Seq(Attempt)]
  /\ used \in [Users -> Nat]
  /\ window \in [Users -> Seq(Nat)]
  /\ pc \in [Requests -> PCs]
  /\ left \in [Requests -> SUBSET Endpoints]
  /\ at \in [Requests -> Endpoints \cup {None}]
  /\ verdict \in [Requests -> {"ok", "retry", "failed", "gone"}]
  /\ batch = [p \in Loops \cup Probers |-> batch[p]]
  /\ \A p \in Loops \cup Probers : IsTable(batch[p])
  /\ peak \in [Users -> Nat]

(***************************************************************************)
(* Whatever fails inside the gateway (a write that raises, an unreadable   *)
(* reply, a stream nobody reads, a crash), the counter never understates   *)
(* the attempts in flight: slots can leak but are not given back twice.    *)
(***************************************************************************)
CounterCovers ==
  \A n \in DOMAIN nodes : Cardinality(Holders(n)) <= nodes[n].jobs

(***************************************************************************)
(* The concurrency gate of evaluate_policy works although the counter is   *)
(* only raised two writes later: the requests a node serves as their first *)
(* choice never exceed its max_concurrent_jobs.                            *)
(***************************************************************************)
FirstAttemptsWithinLimit ==
  \A n \in DOMAIN nodes :
    Cardinality({r \in Holders(n) : Len(jobs[r]) = 1}) <= MaxJobs[nodes[n].inv]

(***************************************************************************)
(* A request moves to another candidate only when the job of the previous  *)
(* one is recorded as failed, and never comes back to a candidate.         *)
(***************************************************************************)
FallbackAfterError ==
  \A r \in Requests : \A k \in 1 .. Len(jobs[r]) : \A m \in 1 .. k - 1 :
    jobs[r][m].status = "error" /\ jobs[r][m].endpoint # jobs[r][k].endpoint

(***************************************************************************)
(* A request is billed at most once over all its attempts, and only for a  *)
(* job that stays completed, whatever write raises and wherever the        *)
(* process stops.                                                          *)
(***************************************************************************)
BilledOnce ==
  \A r \in Requests : \A k \in 1 .. Len(jobs[r]) :
    jobs[r][k].bills > 0 =>
      /\ jobs[r][k].bills = 1 /\ jobs[r][k].status = "completed"
      /\ \A m \in 1 .. Len(jobs[r]) : m # k => jobs[r][m].bills = 0

(***************************************************************************)
(* Whatever write raises and wherever the process stops: a request that is *)
(* answered with success has its last job completed and in the ledger.  A  *)
(* completed job without an entry is one whose client got an error, or     *)
(* nothing at all.                                                         *)
(***************************************************************************)
ServedIsBilled ==
  \A r \in Requests : pc[r] = "ok" =>
    LET last == jobs[r][Len(jobs[r])] IN last.status = "completed" /\ last.bills = 1

(***************************************************************************)
(* A completed job has its ledger entry as soon as its handler lets go of  *)
(* the loop, if no write raises and the process does not stop.             *)
(***************************************************************************)
CompletedIsBilled ==
  \A r \in Requests : \A k \in 1 .. Len(jobs[r]) :
    jobs[r][k].status = "completed" => jobs[r][k].bills = 1 \/ pc[r] = "bill"

(***************************************************************************)
(* The quota is checked before the work and billed after it; a user can    *)
(* overrun it, but by less than what the requests it ever had in flight at *)
(* once can cost.                                                          *)
(***************************************************************************)
QuotaOverrunBounded ==
  \A u \in DOMAIN Quota \cap Users :
    used[u] > 0 => used[u] < Quota[u] + MaxCost * peak[u]

(***************************************************************************)
(* A node that has been silent for longer than the TTL is not a candidate, *)
(* although probes keep writing its row and restarts keep the table.       *)
(***************************************************************************)
SilentNodesNotRouted ==
  [][\A r \in Requests : Route(r) /\ TTL > 0 =>
       \A e \in {at'[r]} \cup left'[r] :
         Host[e] = LocalNode \/ now - heard[Host[e]] <= TTL]_vars

(* Every routed request is answered. *)
RoutedIsAnswered ==
  \A r \in Requests : pc[r] = "create" ~> pc[r] \in Answered

(* The store writes and awaits a handler still has before it at its        *)
(* candidate, at most, and then at those it has not tried.                 *)
StepsHere(p) ==
  CASE p = "create" -> 8 [] p = "count" -> 7 [] p = "open" -> 6 [] p = "await" -> 5
    [] p = "complete" -> 4 [] p = "bill" -> 3 [] p = "fail" -> 2 [] p = "release" -> 1
    [] OTHER -> 0
StepsLeft(r) == StepsHere(pc[r]) + 8 * Cardinality(left[r])

(***************************************************************************)
(* No handler runs in circles: whatever its backends answer, whichever     *)
(* writes raise and whoever else runs, each of its steps either answers    *)
(* the request or leaves it fewer steps than before.                       *)
(***************************************************************************)
FallbacksRunOut ==
  [][\A r \in Requests : pc[r] \in Busy \cup Waiting /\ pc'[r] # pc[r] =>
       pc'[r] \in Answered \/ StepsLeft(r)' < StepsLeft(r)]_vars

(***************************************************************************)
(* The gateway always comes back to rest: every counter at zero, and no    *)
(* job left "started" but those of streams their client broke off, which   *)
(* nothing ever finishes.                                                  *)
(***************************************************************************)
AtRest ==
  /\ \A n \in DOMAIN nodes : nodes[n].jobs = 0
  /\ \A r \in Requests : \A k \in 1 .. Len(jobs[r]) :
       jobs[r][k].status = "started" => pc[r] = "gone"

ComesToRest == []<>AtRest

(***************************************************************************)
(* What a request took it has given back when it ends: between requests    *)
(* every counter is at zero and no job is left "started" but as above,     *)
(* after any number of fallbacks, races for slots and broken streams.      *)
(***************************************************************************)
NothingLeftBehind == (\A r \in Requests : pc[r] \notin Busy \cup Waiting) => AtRest

(* What the documentation promises and the code does not keep. *)

(***************************************************************************)
(* "Clients can post verifier outcomes back" under the request_id of the   *)
(* response (README): the job with that id, attempt 1, is the one whose    *)
(* completion the client received.                                         *)
(***************************************************************************)
RequestIdNamesServingJob ==
  \A r \in Requests : pc[r] = "ok" => jobs[r][1].status = "completed"
==============================================================================
