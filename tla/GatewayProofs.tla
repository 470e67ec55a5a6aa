---------------------------- MODULE GatewayProofs ----------------------------
(***************************************************************************)
(* Proofs about Gateway, for every set of nodes, endpoints, requests and   *)
(* users, every configuration and every fault.                             *)
(***************************************************************************)
EXTENDS GatewaySlots, FiniteSetTheorems, SequenceTheorems, TLAPS

(* A handler that is past routing tries an endpoint, and past create_job   *)
(* its last job row is the one of that endpoint.                           *)
Placed(r) ==
  /\ pc[r] \in Busy \cup Waiting => at[r] \in Endpoints
  /\ pc[r] \in (Busy \ {"create"}) \cup Waiting =>
       Len(jobs[r]) > 0 /\ jobs[r][Len(jobs[r])].endpoint = at[r]

(* The inductive form of the type invariant. *)
TypeInv == TypeOK /\ \A r \in Requests : Placed(r)
------------------------------------------------------------------------------
(* Operators of the model. *)

\* The configured request limit of a user is a number.
LEMMA LimitType == ASSUME NEW u PROVE LimitFor(u) \in Nat
  BY WindowAssumption DEF LimitFor

(* What a deque loses by pruning is a prefix. *)
LEMMA AfterType ==
  ASSUME NEW w \in Seq(Nat), NEW t \in Nat, NEW k \in Popped(w, t)
  PROVE  After(w, k) \in Seq(Nat)
<1>1. k \in 0 .. Len(w) /\ Len(w) \in Nat
  BY DEF Popped
<1>. QED
  BY <1>1 DEF After

(* What may stand in a row as current_jobs is a number, and every count    *)
(* may: a clamped number in particular.                                    *)
LEMMA CountsOfRows ==
  /\ JobCounts \subseteq Int
  /\ \A k \in Int : Clamped(k) \in Nat /\ Clamped(k) \in JobCounts
  BY GatewayAssumption DEF JobCounts, Clamped, Posting, Advert

(* The store's rows stay rows when the counter of one is changed. *)
LEMMA DeltaType ==
  ASSUME IsTable(nodes), NEW n, NEW d \in {-1, 1}, DeltaJobs(n, d)
  PROVE  IsTable(nodes') /\ DOMAIN nodes' = DOMAIN nodes
<1>1. DOMAIN nodes' = DOMAIN nodes
  BY DEF IsTable, DeltaJobs
<1>2. ASSUME NEW m \in DOMAIN nodes PROVE nodes'[m] \in Row
  <2>1. nodes[m] \in Row
    BY DEF IsTable
  <2>2. CASE m = n
    <3>1. nodes'[m] = [nodes[m] EXCEPT !.jobs = Clamped(@ + d)]
      BY <2>2 DEF DeltaJobs, IsTable
    <3>2. Clamped(nodes[m].jobs + d) \in JobCounts
      <4>1. nodes[m].jobs \in JobCounts
        BY <2>1 DEF Row
      <4>2. nodes[m].jobs \in Int
        BY <4>1, CountsOfRows
      <4>3. nodes[m].jobs + d \in Int
        BY <4>2
      <4>. QED
        BY <4>3, CountsOfRows
    <3>. QED
      BY <2>1, <3>1, <3>2 DEF Row
  <2>3. CASE m # n
    BY <2>1, <2>3 DEF DeltaJobs, IsTable
  <2>. QED
    BY <2>2, <2>3
<1>. QED
  BY <1>1, <1>2 DEF DeltaJobs, IsTable

(* ... and when one is replaced. *)
LEMMA UpsertType ==
  ASSUME IsTable(nodes), NEW n \in Nodes, NEW row \in Row, Upsert(n, row)
  PROVE  IsTable(nodes')
  BY DEF IsTable, Upsert

\* What the configuration file says of a node is a row of the table.
LEMMA ConfigType == ASSUME NEW n \in Configured, now \in Nat PROVE n \in Nodes /\ FromConfig(n) \in Row
  BY GatewayAssumption DEF FromConfig, Row, Advert, JobCounts

(* Finishing the last job of a list changes its status only. *)
LEMMA FinishFacts ==
  ASSUME NEW s \in Seq(Attempt), NEW st \in {"started", "completed", "error"}, Len(s) > 0
  PROVE  LET t == Finished(s, st) IN
         /\ t \in Seq(Attempt) /\ Len(t) = Len(s)
         /\ \A k \in 1 .. Len(s) : k # Len(s) => t[k] = s[k]
         /\ t[Len(s)].status = st
         /\ t[Len(s)].endpoint = s[Len(s)].endpoint
         /\ t[Len(s)].bills = s[Len(s)].bills
<1>. DEFINE t == Finished(s, st)
<1>1. Len(s) \in 1 .. Len(s) /\ s[Len(s)] \in Attempt
  OBVIOUS
<1>2. t[Len(s)] = [s[Len(s)] EXCEPT !.status = st]
  BY <1>1 DEF Finished
<1>3. \A k \in 1 .. Len(s) : k # Len(s) => t[k] = s[k]
  BY DEF Finished
<1>4. t[Len(s)] \in Attempt
  BY <1>1, <1>2 DEF Attempt
<1>5. t \in Seq(Attempt) /\ Len(t) = Len(s)
  BY <1>1, <1>3, <1>4 DEF Finished
<1>. QED
  BY <1>1, <1>2, <1>3, <1>5 DEF Attempt

(* Billing the last job of a list raises its bills only. *)
LEMMA BillFacts ==
  ASSUME NEW s \in Seq(Attempt), Len(s) > 0
  PROVE  LET t == Billed(s) IN
         /\ t \in Seq(Attempt) /\ Len(t) = Len(s)
         /\ \A k \in 1 .. Len(s) : k # Len(s) => t[k] = s[k]
         /\ t[Len(s)].status = s[Len(s)].status
         /\ t[Len(s)].endpoint = s[Len(s)].endpoint
         /\ t[Len(s)].bills = s[Len(s)].bills + 1
<1>. DEFINE t == Billed(s)
<1>1. Len(s) \in 1 .. Len(s) /\ s[Len(s)] \in Attempt
  OBVIOUS
<1>2. t[Len(s)] = [s[Len(s)] EXCEPT !.bills = @ + 1]
  BY <1>1 DEF Billed
<1>3. \A k \in 1 .. Len(s) : k # Len(s) => t[k] = s[k]
  BY DEF Billed
<1>4. t[Len(s)] \in Attempt
  BY <1>1, <1>2 DEF Attempt
<1>5. t \in Seq(Attempt) /\ Len(t) = Len(s)
  BY <1>1, <1>3, <1>4 DEF Billed
<1>. QED
  BY <1>1, <1>2, <1>3, <1>5 DEF Attempt

(* The requests in flight, and the holders of a node, are finitely many. *)
LEMMA InFlightFinite ==
  ASSUME NEW u PROVE IsFiniteSet(InFlight(u)) /\ Cardinality(InFlight(u)) \in Nat
<1>1. InFlight(u) \in SUBSET Requests
  BY DEF InFlight
<1>. QED
  BY <1>1, GatewayAssumption, FS_Subset, FS_CardinalityType

\* Only finitely many attempts hold a slot, so they can be counted.
LEMMA HoldersFinite ==
  ASSUME NEW n PROVE IsFiniteSet(Holders(n)) /\ Cardinality(Holders(n)) \in Nat
<1>1. Holders(n) \in SUBSET Requests
  BY DEF Holders
<1>. QED
  BY <1>1, GatewayAssumption, FS_Subset, FS_CardinalityType
------------------------------------------------------------------------------
(* Type correctness. *)

\* The gateway starts with a state of the right shape.
LEMMA InitType == Init => TypeInv
<1>. SUFFICES ASSUME Init PROVE TypeInv
  OBVIOUS
<1>1. IsTable(nodes)
  <2>1. \A n \in Configured : n \in Nodes /\ FromConfig(n) \in Row
    BY ConfigType DEF Init
  <2>. QED
    BY <2>1 DEF Init, IsTable
<1>2. \A p \in Loops \cup Probers : IsTable(batch[p])
  BY DEF Init, IsTable, NoRows
<1>3. TypeOK
  BY <1>1, <1>2 DEF Init, TypeOK, PCs
<1>4. \A r \in Requests : Placed(r)
  BY DEF Init, Placed, Busy, Waiting
<1>. QED
  BY <1>3, <1>4 DEF TypeInv

(* The other requests are where they were. *)
Others(r) ==
  \A q \in Requests \ {r} : pc'[q] = pc[q] /\ at'[q] = at[q] /\ jobs'[q] = jobs[q]

\* A step of one request leaves the place of every other one as it was.
LEMMA OthersPlaced ==
  ASSUME TypeInv, NEW r \in Requests, Others(r), Placed(r)'
  PROVE  \A q \in Requests : Placed(q)'
  BY DEF TypeInv, Others, Placed

(* What the limiter does to the deques keeps their type. *)
LEMMA AdmitType ==
  ASSUME TypeOK, NEW u \in Users, Admit(u)
  PROVE  window' \in [Users -> Seq(Nat)]
<1>1. CASE LimitFor(u) = 0
  BY <1>1 DEF Admit, TypeOK
<1>2. CASE LimitFor(u) # 0
  <2>1. PICK k \in Popped(window[u], now) :
          window' = [window EXCEPT ![u] = Append(After(window[u], k), now)]
    BY <1>2 DEF Admit
  <2>2. After(window[u], k) \in Seq(Nat) /\ now \in Nat
    BY AfterType DEF TypeOK
  <2>3. Append(After(window[u], k), now) \in Seq(Nat)
    BY <2>2, AppendProperties
  <2>. QED
    BY <2>1, <2>3 DEF TypeOK
<1>. QED
  BY <1>1, <1>2

(* Being refused. *)
LEMMA RefusedType ==
  ASSUME TypeInv, NEW r \in Requests, RateLimited(r) \/ TurnedAway(r)
  PROVE  TypeInv'
<1>1. TypeOK /\ Owner[r] \in Users
  BY GatewayAssumption DEF TypeInv
<1>2. window' \in [Users -> Seq(Nat)]
  <2>1. CASE RateLimited(r)
    <3>1. PICK k \in Popped(window[Owner[r]], now) :
            window' = [window EXCEPT ![Owner[r]] = After(@, k)]
      BY <2>1 DEF RateLimited
    <3>2. After(window[Owner[r]], k) \in Seq(Nat)
      BY <1>1, AfterType DEF TypeOK
    <3>. QED
      BY <1>1, <3>1, <3>2 DEF TypeOK
  <2>2. CASE TurnedAway(r)
    BY <1>1, <2>2, AdmitType DEF TurnedAway
  <2>. QED
    BY <2>1, <2>2
<1>3. /\ pc' = [pc EXCEPT ![r] = "denied"]
      /\ UNCHANGED <<up, now, nodes, heard, jobs, used, left, at, verdict, batch, peak>>
  BY DEF RateLimited, TurnedAway, Goto, tables
<1>4. TypeOK'
  BY <1>1, <1>2, <1>3 DEF TypeOK, PCs, Answered, IsTable
<1>5. Placed(r)' /\ Others(r)
  BY <1>1, <1>3 DEF TypeOK, Placed, Others, Busy, Waiting
<1>. QED
  BY <1>4, <1>5, OthersPlaced DEF TypeInv

\* Routing a request keeps the shape of the state.
LEMMA RouteType == ASSUME TypeInv, NEW r \in Requests, Route(r) PROVE TypeInv'
<1>1. TypeOK /\ Owner[r] \in Users
  BY GatewayAssumption DEF TypeInv
<1>2. window' \in [Users -> Seq(Nat)]
  BY <1>1, AdmitType DEF Route
<1>3. Candidates(r) \subseteq Endpoints
  BY GatewayAssumption DEF Candidates
<1>4. PICK e \in Candidates(r) :
        /\ at' = [at EXCEPT ![r] = e]
        /\ left' = [left EXCEPT ![r] = Candidates(r) \ {e}]
  BY DEF Route
<1>5. peak' \in [Users -> Nat]
  <2>1. Cardinality(InFlight(Owner[r])) + 1 \in Nat
    BY InFlightFinite
  <2>. QED
    BY <1>1, <2>1 DEF Route, TypeOK
<1>6. /\ pc' = [pc EXCEPT ![r] = "create"]
      /\ UNCHANGED <<up, now, nodes, heard, jobs, used, verdict, batch>>
  BY DEF Route, Goto, tables
<1>7. TypeOK'
  BY <1>1, <1>2, <1>3, <1>4, <1>5, <1>6 DEF TypeOK, PCs, Busy, IsTable
<1>8. Placed(r)' /\ Others(r)
  BY <1>1, <1>3, <1>4, <1>6 DEF TypeOK, Placed, Others, Busy, Waiting
<1>. QED
  BY <1>7, <1>8, OthersPlaced DEF TypeInv

\* Storing the job of a routed request keeps the shape of the state.
LEMMA CreateType == ASSUME TypeInv, NEW r \in Requests, Create(r) PROVE TypeInv'
<1>1. TypeOK /\ pc[r] = "create" /\ at[r] \in Endpoints
  BY DEF TypeInv, Create, Placed, Busy
<1>. DEFINE job == [endpoint |-> at[r], status |-> "started", bills |-> 0]
<1>2. /\ jobs' = [jobs EXCEPT ![r] = Append(@, job)]
      /\ pc' = [pc EXCEPT ![r] = "count"]
      /\ UNCHANGED <<up, now, nodes, heard, used, window, left, at, verdict, batch, peak>>
  BY DEF Create, Goto, registry
<1>3. job \in Attempt /\ jobs[r] \in Seq(Attempt)
  BY <1>1 DEF Attempt, TypeOK
<1>4. /\ Append(jobs[r], job) \in Seq(Attempt)
      /\ Len(Append(jobs[r], job)) = Len(jobs[r]) + 1
      /\ Append(jobs[r], job)[Len(jobs[r]) + 1] = job
  BY <1>3, AppendProperties
<1>5. jobs' \in [Requests -> Seq(Attempt)] /\ jobs'[r] = Append(jobs[r], job)
  BY <1>1, <1>2, <1>4 DEF TypeOK
<1>6. TypeOK'
  BY <1>1, <1>2, <1>5 DEF TypeOK, PCs, Busy, IsTable
<1>7. Placed(r)'
  <2>1. Len(jobs'[r]) > 0 /\ jobs'[r][Len(jobs'[r])] = job
    BY <1>3, <1>4, <1>5
  <2>. QED
    BY <1>1, <1>2, <2>1 DEF Placed, Busy, Waiting
<1>8. Others(r)
  BY <1>1, <1>2 DEF TypeOK, Others
<1>. QED
  BY <1>6, <1>7, <1>8, OthersPlaced DEF TypeInv

(* The steps that only move a handler on, and may set its verdict. *)
Moves(r) ==
  \/ Open(r) \/ AbandonStream(r) \/ Reply(r) \/ TransientError(r)
  \/ PermanentError(r) \/ Disconnect(r) \/ MalformedReply(r) \/ StoreRaises(r)

\* What the steps of a running request share: they change no rate window.
LEMMA MovesFacts ==
  ASSUME TypeInv, NEW r \in Requests, Moves(r)
  PROVE  /\ UNCHANGED <<up, now, nodes, heard, jobs, used, window, left, at, batch, peak>>
         /\ \E label \in PCs \ {"new", "create", "count"} : pc' = [pc EXCEPT ![r] = label]
         /\ verdict' \in [Requests -> {"ok", "retry", "failed", "gone"}]
         /\ \A q \in Requests \ {r} : verdict'[q] = verdict[q]
         /\ pc'[r] \in Busy \cup Waiting =>
              pc[r] \in {"open", "await", "complete", "bill", "fail"}
<1>1. TypeOK
  BY DEF TypeInv
<1>2. CASE Open(r) \/ AbandonStream(r) \/ Reply(r) \/ MalformedReply(r)
  BY <1>1, <1>2 DEF Open, AbandonStream, Reply, MalformedReply, Goto, tables, TypeOK, PCs, Busy, Waiting, Answered
<1>3. CASE TransientError(r)
  BY <1>1, <1>3 DEF TransientError, Goto, tables, TypeOK, PCs, Busy, Waiting, Answered
<1>4. CASE PermanentError(r) \/ Disconnect(r)
  BY <1>1, <1>4 DEF PermanentError, Disconnect, Goto, tables, TypeOK, PCs, Busy, Waiting, Answered
<1>5. CASE StoreRaises(r)
  BY <1>1, <1>5 DEF StoreRaises, Goto, tables, TypeOK, PCs, Busy, Waiting, Answered
<1>. QED
  BY <1>2, <1>3, <1>4, <1>5 DEF Moves

\* Every step of a running request keeps the shape of the state.
LEMMA MovesType == ASSUME TypeInv, NEW r \in Requests, Moves(r) PROVE TypeInv'
<1>1. TypeOK /\ Placed(r)
  BY DEF TypeInv
<1>2. /\ UNCHANGED <<up, now, nodes, heard, jobs, used, window, left, at, batch, peak>>
      /\ verdict' \in [Requests -> {"ok", "retry", "failed", "gone"}]
      /\ pc'[r] \in Busy \cup Waiting => pc[r] \in {"open", "await", "complete", "bill", "fail"}
  BY MovesFacts
<1>3. PICK label \in PCs : pc' = [pc EXCEPT ![r] = label]
  BY MovesFacts
<1>4. TypeOK'
  BY <1>1, <1>2, <1>3 DEF TypeOK, IsTable
<1>5. Placed(r)' /\ Others(r)
  BY <1>1, <1>2, <1>3 DEF TypeOK, Placed, Others, Busy, Waiting
<1>. QED
  BY <1>4, <1>5, OthersPlaced DEF TypeInv

(* The steps that finish or bill the current job row. *)
LEMMA FinishType ==
  ASSUME TypeInv, NEW r \in Requests, Complete(r) \/ Fail(r) \/ Bill(r)
  PROVE  TypeInv'
<1>1. /\ TypeOK /\ at[r] \in Endpoints /\ jobs[r] \in Seq(Attempt)
      /\ Len(jobs[r]) > 0 /\ jobs[r][Len(jobs[r])].endpoint = at[r]
  BY DEF TypeInv, Placed, TypeOK, Complete, Fail, Bill, Busy, Waiting
<1>2. /\ \E label \in {"bill", "release"} : pc' = [pc EXCEPT ![r] = label]
      /\ verdict' \in [Requests -> {"ok", "retry", "failed", "gone"}]
      /\ UNCHANGED <<up, now, nodes, heard, window, left, at, batch, peak>>
  BY <1>1 DEF Complete, Fail, Bill, Goto, registry, TypeOK
<1>3. used' \in [Users -> Nat]
  <2>1. CASE Bill(r)
    <3>1. PICK c \in 0 .. MaxCost : used' = [used EXCEPT ![Owner[r]] = @ + c]
      BY <2>1 DEF Bill
    <3>2. Owner[r] \in Users /\ used[Owner[r]] \in Nat /\ c \in Nat
      BY <1>1, GatewayAssumption DEF TypeOK
    <3>. QED
      BY <1>1, <3>1, <3>2 DEF TypeOK
  <2>2. CASE Complete(r) \/ Fail(r)
    BY <1>1, <2>2 DEF Complete, Fail, TypeOK
  <2>. QED
    BY <2>1, <2>2
<1>4. /\ jobs' = [jobs EXCEPT ![r] = jobs'[r]]
      /\ jobs'[r] \in Seq(Attempt)
      /\ Len(jobs'[r]) > 0 /\ jobs'[r][Len(jobs'[r])].endpoint = at[r]
  <2>1. CASE Complete(r) \/ Fail(r)
    <3>1. PICK st \in {"started", "completed", "error"} : FinishJob(r, st)
      BY <2>1 DEF Complete, Fail
    <3>2. /\ jobs' = [jobs EXCEPT ![r] = jobs'[r]]
          /\ jobs'[r] = Finished(jobs[r], st)
      BY <1>1, <3>1 DEF FinishJob, TypeOK
    <3>3. /\ jobs'[r] \in Seq(Attempt) /\ Len(jobs'[r]) = Len(jobs[r])
          /\ jobs'[r][Len(jobs[r])].endpoint = jobs[r][Len(jobs[r])].endpoint
      <4>1. jobs[r] \in Seq(Attempt) /\ Len(jobs[r]) > 0 /\ st \in {"started", "completed", "error"}
        BY <1>1, <3>1
      <4>2. /\ Finished(jobs[r], st) \in Seq(Attempt)
            /\ Len(Finished(jobs[r], st)) = Len(jobs[r])
            /\ Finished(jobs[r], st)[Len(jobs[r])].endpoint = jobs[r][Len(jobs[r])].endpoint
        BY <4>1, FinishFacts
      <4>. QED
        BY <3>2, <4>2
    <3>. QED
      BY <1>1, <3>2, <3>3
  <2>2. CASE Bill(r)
    <3>1. /\ jobs' = [jobs EXCEPT ![r] = jobs'[r]]
          /\ jobs'[r] = Billed(jobs[r])
      BY <1>1, <2>2 DEF Bill, TypeOK
    <3>. QED
      BY <1>1, <3>1, BillFacts
  <2>. QED
    BY <2>1, <2>2
<1>5. jobs' \in [Requests -> Seq(Attempt)] /\ \A q \in Requests \ {r} : jobs'[q] = jobs[q]
  BY <1>1, <1>4 DEF TypeOK
<1>6. TypeOK'
  BY <1>1, <1>2, <1>3, <1>5 DEF TypeOK, PCs, Busy, IsTable
<1>7. Placed(r)' /\ Others(r)
  BY <1>1, <1>2, <1>4, <1>5 DEF TypeOK, Placed, Others
<1>. QED
  BY <1>6, <1>7, OthersPlaced DEF TypeInv

(* The steps that change a counter. *)
LEMMA CounterType ==
  ASSUME TypeInv, NEW r \in Requests, Count(r) \/ Release(r) \/ Retry(r)
  PROVE  TypeInv'
<1>1. TypeOK /\ Placed(r)
  BY DEF TypeInv
<1>2. \E d \in {-1, 1} : DeltaJobs(Host[at[r]], d)
  BY DEF Count, Release, Retry
<1>3. IsTable(nodes')
  BY <1>1, <1>2, DeltaType DEF TypeOK
<1>4. /\ UNCHANGED <<up, now, heard, jobs, used, window, verdict, batch, peak>>
      /\ at' \in [Requests -> Endpoints \cup {None}]
      /\ left' \in [Requests -> SUBSET Endpoints]
      /\ pc' \in [Requests -> PCs]
      /\ Others(r)
  <2>1. CASE Count(r)
    BY <1>1, <2>1 DEF Count, Goto, TypeOK, PCs, Waiting, Others
  <2>2. CASE Release(r)
    BY <1>1, <2>2 DEF Release, Goto, TypeOK, PCs, Answered, Others
  <2>3. CASE Retry(r)
    BY <1>1, <2>3 DEF Retry, Goto, TypeOK, PCs, Busy, Others
  <2>. QED
    BY <2>1, <2>2, <2>3
<1>5. TypeOK'
  BY <1>1, <1>3, <1>4 DEF TypeOK, IsTable
<1>6. Placed(r)'
  <2>1. CASE Count(r)
    BY <1>1, <2>1 DEF Count, Goto, TypeOK, Placed, Busy, Waiting
  <2>2. CASE Release(r)
    <3>1. pc'[r] \in {"ok", "failed", "gone"}
      BY <1>1, <2>2 DEF Release, Goto, TypeOK
    <3>. QED
      BY <3>1 DEF Placed, Busy, Waiting
  <2>3. CASE Retry(r)
    <3>1. pc'[r] = "create" /\ at'[r] \in Endpoints
      BY <1>1, <2>3 DEF Retry, Goto, TypeOK
    <3>. QED
      BY <3>1 DEF Placed, Busy, Waiting
  <2>. QED
    BY <2>1, <2>2, <2>3
<1>. QED
  BY <1>4, <1>5, <1>6, OthersPlaced DEF TypeInv

(* Every step of a request's handler keeps the types. *)
LEMMA HandleType == ASSUME TypeInv, NEW r \in Requests, Handle(r) PROVE TypeInv'
<1>1. CASE RateLimited(r) \/ TurnedAway(r)
  BY <1>1, RefusedType
<1>2. CASE Route(r)
  BY <1>2, RouteType
<1>3. CASE Create(r)
  BY <1>3, CreateType
<1>4. CASE Moves(r)
  BY <1>4, MovesType
<1>5. CASE Complete(r) \/ Fail(r) \/ Bill(r)
  BY <1>5, FinishType
<1>6. CASE Count(r) \/ Release(r) \/ Retry(r)
  BY <1>6, CounterType
<1>. QED
  BY <1>1, <1>2, <1>3, <1>4, <1>5, <1>6 DEF Handle, Moves

(* The steps that leave every request where it is. *)
Registry ==
  \/ \E post \in Postings : Register(post)
  \/ \E beat \in Beats : Heartbeat(beat)
  \/ \E p \in Loops \cup Probers : Probe(p)
  \/ \E n \in Nodes : CliUpsert(n)
  \/ Restart \/ Tick

\* The writers of node rows leave requests, jobs and the ledger alone.
LEMMA RegistryFrame ==
  ASSUME TypeOK, Registry
  PROVE  UNCHANGED <<jobs, used, pc, left, at, verdict, peak>>
<1>1. ASSUME NEW p \in Loops \cup Probers, Probe(p)
      PROVE  UNCHANGED <<jobs, used, pc, left, at, verdict, peak>>
  BY <1>1 DEF Probe, ProbeLoop, ProbeNode, ProbeWrite, ProbeRaises, request, tables
<1>2. CASE Restart \/ Tick \/ (\E n \in Nodes : CliUpsert(n))
  BY <1>2 DEF Restart, Tick, CliUpsert, request, tables
<1>3. CASE (\E post \in Postings : Register(post)) \/ (\E beat \in Beats : Heartbeat(beat))
  BY <1>3 DEF Register, Heartbeat, request, tables
<1>. QED
  BY <1>1, <1>2, <1>3 DEF Registry

(* What a step of a probe does to the tables it holds. *)
LEMMA ProbeType ==
  ASSUME TypeOK, NEW p \in Loops \cup Probers, Probe(p)
  PROVE  TypeOK'
<1>1. /\ UNCHANGED <<up, now, heard, jobs, used, window, pc, left, at, verdict, peak>>
      /\ batch' = [batch EXCEPT ![p] = batch'[p]]
      /\ \A q \in (Loops \cup Probers) \ {p} : batch'[q] = batch[q]
  BY DEF Probe, ProbeLoop, ProbeNode, ProbeWrite, ProbeRaises, request, tables, TypeOK
<1>2. IsTable(nodes') /\ IsTable(batch'[p])
  <2>1. CASE ProbeLoop(p) \/ ProbeRaises(p)
    <3>1. nodes' = nodes /\ batch'[p] \in {nodes, NoRows}
      BY <2>1 DEF ProbeLoop, ProbeRaises, TypeOK, tables
    <3>2. IsTable(NoRows)
      BY DEF IsTable, NoRows
    <3>. QED
      BY <3>1, <3>2 DEF TypeOK, IsTable
  <2>2. ASSUME NEW n \in Nodes, ProbeNode(p, n) PROVE IsTable(nodes') /\ IsTable(batch'[p])
    BY <2>2 DEF ProbeNode, TypeOK, IsTable, tables
  <2>3. ASSUME NEW n \in Nodes, ProbeWrite(p, n) PROVE IsTable(nodes') /\ IsTable(batch'[p])
    <3>1. n \in DOMAIN batch[p] /\ batch[p][n] \in Row /\ Upsert(n, batch[p][n])
      BY <2>3 DEF ProbeWrite, TypeOK, IsTable
    <3>2. IsTable(nodes')
      BY <3>1, UpsertType DEF TypeOK
    <3>3. batch'[p] = Without(batch[p], n)
      BY <2>3 DEF ProbeWrite, TypeOK
    <3>. QED
      BY <3>2, <3>3 DEF TypeOK, IsTable, Without
  <2>. QED
    BY <2>1, <2>2, <2>3 DEF Probe
<1>3. batch' = [q \in Loops \cup Probers |-> batch'[q]]
  BY <1>1 DEF TypeOK
<1>4. \A q \in Loops \cup Probers : IsTable(batch'[q])
  BY <1>1, <1>2 DEF TypeOK
<1>. QED
  BY <1>1, <1>2, <1>3, <1>4 DEF TypeOK, IsTable

\* Registration, heartbeats, probes and the CLI keep rows of the right shape.
LEMMA RegistryType == ASSUME TypeInv, Registry PROVE TypeInv'
<1>1. TypeOK
  BY DEF TypeInv
<1>2. TypeOK'
  <2>1. ASSUME NEW p \in Loops \cup Probers, Probe(p) PROVE TypeOK'
    BY <1>1, <2>1, ProbeType
  <2>2. ASSUME NEW post \in Postings, Register(post) PROVE TypeOK'
    <3>1. post \in Posting /\ now \in Nat
      BY <1>1, GatewayAssumption DEF TypeOK
    <3>. DEFINE row == [status |-> post.status, jobs |-> post.jobs, seen |-> now, inv |-> post.inv]
    <3>2. row \in Row /\ post.node \in Nodes
      BY <3>1 DEF Posting, Row, JobCounts
    <3>3. IsTable(nodes')
      BY <1>1, <2>2, <3>2, UpsertType DEF Register, TypeOK
    <3>. QED
      BY <1>1, <2>2, <3>1, <3>2, <3>3 DEF Register, TypeOK, request, IsTable
  <2>3. ASSUME NEW beat \in Beats, Heartbeat(beat) PROVE TypeOK'
    <3>1. beat \in Beat /\ now \in Nat /\ beat.node \in Nodes
      BY <1>1, GatewayAssumption DEF TypeOK, Beat
    <3>. DEFINE old == nodes[beat.node]
                row == [old EXCEPT !.seen = now,
                                   !.status = IF beat.status = None THEN @ ELSE beat.status,
                                   !.jobs = IF beat.jobs = None THEN @ ELSE Clamped(beat.jobs)]
    <3>2. old \in Row
      BY <1>1, <2>3 DEF Heartbeat, TypeOK, IsTable
    <3>3. row \in Row
      BY <3>1, <3>2, CountsOfRows DEF Row, Beat
    <3>4. IsTable(nodes')
      BY <1>1, <2>3, <3>1, <3>3, UpsertType DEF Heartbeat, TypeOK
    <3>. QED
      BY <1>1, <2>3, <3>1, <3>4 DEF Heartbeat, TypeOK, request, IsTable
  <2>4. ASSUME NEW n \in Nodes, CliUpsert(n) PROVE TypeOK'
    <3>1. n \in Configured /\ now \in Nat
      BY <1>1, <2>4 DEF CliUpsert, TypeOK
    <3>2. IsTable(nodes')
      BY <1>1, <2>4, <3>1, ConfigType, UpsertType DEF CliUpsert, TypeOK
    <3>. QED
      BY <1>1, <2>4, <3>1, <3>2 DEF CliUpsert, TypeOK, request, IsTable
  <2>5. CASE Restart
    <3>1. \A n \in Configured : n \in Nodes /\ FromConfig(n) \in Row
      BY <1>1, ConfigType DEF TypeOK
    <3>2. IsTable(nodes')
      BY <1>1, <2>5, <3>1 DEF Restart, TypeOK, IsTable
    <3>3. /\ UNCHANGED <<now, jobs, used, pc, left, at, verdict, batch, peak>>
          /\ up' \in BOOLEAN
          /\ heard' \in [Nodes -> Nat]
          /\ window' \in [Users -> Seq(Nat)]
      BY <1>1, <2>5 DEF Restart, TypeOK
    <3>. QED
      BY <1>1, <3>2, <3>3 DEF TypeOK, IsTable
  <2>6. CASE Tick
    <3>1. /\ UNCHANGED <<up, nodes, heard, jobs, used, window, pc, left, at, verdict, batch, peak>>
          /\ now' \in Nat
      BY <1>1, <2>6 DEF Tick, TypeOK, request, tables
    <3>. QED
      BY <1>1, <3>1 DEF TypeOK, IsTable
  <2>. QED
    BY <2>1, <2>2, <2>3, <2>4, <2>5, <2>6 DEF Registry
<1>3. \A r \in Requests : Placed(r)'
  BY <1>1, RegistryFrame DEF TypeInv, Placed
<1>. QED
  BY <1>2, <1>3 DEF TypeInv

(* A crash answers every request in flight, badly. *)
LEMMA CrashType == ASSUME TypeInv, Crash PROVE TypeInv'
<1>1. TypeOK
  BY DEF TypeInv
<1>2. /\ UNCHANGED <<now, nodes, heard, jobs, used, window, left, at, verdict, peak>>
      /\ up' = FALSE
      /\ pc' = [r \in Requests |-> IF pc[r] \in Busy \cup Waiting THEN "crashed" ELSE pc[r]]
      /\ batch' = [p \in Loops \cup Probers |-> NoRows]
  BY DEF Crash, tables
<1>3. TypeOK'
  BY <1>1, <1>2 DEF TypeOK, PCs, Answered, IsTable, NoRows
<1>4. \A r \in Requests : pc'[r] \notin Busy \cup Waiting
  BY <1>1, <1>2 DEF TypeOK, PCs, Busy, Waiting, Answered
<1>. QED
  BY <1>3, <1>4 DEF TypeInv, Placed

\* The type invariant is inductive.
LEMMA NextType == TypeInv /\ [Next]_vars => TypeInv'
<1>. SUFFICES ASSUME TypeInv, [Next]_vars PROVE TypeInv'
  OBVIOUS
<1>1. ASSUME NEW r \in Requests, Handle(r) PROVE TypeInv'
  BY <1>1, HandleType
<1>2. CASE Registry
  BY <1>2, RegistryType
<1>3. CASE Crash
  BY <1>3, CrashType
<1>4. CASE UNCHANGED vars
  BY <1>4 DEF vars, TypeInv, TypeOK, Placed, IsTable
<1>5. CASE Idle
  BY <1>4, <1>5 DEF Idle
<1>. QED
  BY <1>1, <1>2, <1>3, <1>4, <1>5 DEF Next, Registry

\* The type invariant with its strengthening holds in every reachable state.
THEOREM TypeInvariant == Spec => []TypeInv
  BY InitType, NextType, PTL DEF Spec

(* The gateway's state and its tables keep their shape. *)
THEOREM TypeCorrect == Spec => []TypeOK
<1>1. TypeInv => TypeOK
  BY DEF TypeInv
<1>. QED
  BY <1>1, TypeInvariant, PTL

------------------------------------------------------------------------------
(***************************************************************************)
(* Job rows.  Every attempt but the last has failed and was not billed;    *)
(* the last is what the handler's place says it is; and no candidate is    *)
(* tried again, because what was tried is no longer left.                  *)
(***************************************************************************)
Unbilled(js, k) == js[k].status = "error" /\ js[k].bills = 0

(* js are the attempts of a request at p, with candidates l left, that     *)
(* tries a and has verdict v.                                              *)
JobsOK(js, p, l, a, v) ==
  /\ p = "new" => Len(js) = 0
  /\ \A k \in 1 .. Len(js) : js[k].endpoint \notin l
  /\ \A k \in 1 .. Len(js) : \A m \in 1 .. k - 1 :
       Unbilled(js, m) /\ js[m].endpoint # js[k].endpoint
  /\ \A k \in 1 .. Len(js) : js[k].bills > 0 => js[k].bills = 1 /\ js[k].status = "completed"
  /\ p = "create" =>
       a \notin l /\ \A k \in 1 .. Len(js) : Unbilled(js, k) /\ js[k].endpoint # a
  /\ p \in {"count", "open", "await", "complete", "bill", "fail"} => js[Len(js)].bills = 0
  /\ p = "bill" => js[Len(js)].status = "completed"
  /\ p = "release" /\ v = "retry" => Unbilled(js, Len(js))
  /\ p = "fail" => v # "ok"
  /\ p = "ok" \/ (p = "release" /\ v = "ok") =>
       js[Len(js)].status = "completed" /\ js[Len(js)].bills = 1

JobsInv(r) == JobsOK(jobs[r], pc[r], left[r], at[r], verdict[r])

(* A handler's step leaves the other requests alone. *)
LEMMA HandleFrame ==
  ASSUME TypeOK, NEW r \in Requests, Handle(r), NEW q \in Requests \ {r}
  PROVE  /\ pc'[q] = pc[q] /\ jobs'[q] = jobs[q]
         /\ left'[q] = left[q] /\ at'[q] = at[q] /\ verdict'[q] = verdict[q]
<1>1. CASE RateLimited(r) \/ TurnedAway(r) \/ Route(r) \/ Create(r) \/ Count(r)
  BY <1>1 DEF RateLimited, TurnedAway, Route, Create, Count, Goto, tables, registry, TypeOK
<1>2. CASE Open(r) \/ AbandonStream(r) \/ Reply(r) \/ TransientError(r) \/ PermanentError(r)
  BY <1>2 DEF Open, AbandonStream, Reply, TransientError, PermanentError, Goto, tables, TypeOK
<1>3. CASE Disconnect(r) \/ MalformedReply(r) \/ StoreRaises(r)
  BY <1>3 DEF Disconnect, MalformedReply, StoreRaises, Goto, tables, TypeOK
<1>4. CASE Complete(r) \/ Bill(r) \/ Fail(r)
  BY <1>4 DEF Complete, Bill, Fail, FinishJob, Goto, registry, TypeOK
<1>5. CASE Release(r) \/ Retry(r)
  BY <1>5 DEF Release, Retry, Goto, TypeOK
<1>. QED
  BY <1>1, <1>2, <1>3, <1>4, <1>5 DEF Handle

(* A handler's step keeps its own job rows in order. *)
LEMMA HandleJobs ==
  ASSUME TypeInv, NEW r \in Requests, JobsInv(r), Handle(r)
  PROVE  JobsInv(r)'
<1>. DEFINE js == jobs[r]
<1>1. /\ TypeOK /\ Placed(r) /\ js \in Seq(Attempt) /\ Len(js) \in Nat
      /\ JobsOK(js, pc[r], left[r], at[r], verdict[r])
  <2>1. TypeOK /\ Placed(r)
    BY DEF TypeInv
  <2>2. js \in Seq(Attempt)
    BY <2>1 DEF TypeOK
  <2>. QED
    BY <2>1, <2>2 DEF JobsInv
<1>2. CASE RateLimited(r) \/ TurnedAway(r)
  BY <1>1, <1>2 DEF RateLimited, TurnedAway, Goto, tables, TypeOK, JobsInv, JobsOK
<1>3. CASE Route(r)
  <2>1. PICK e \in Candidates(r) : at'[r] = e /\ left'[r] = Candidates(r) \ {e}
    BY <1>1, <1>3 DEF Route, TypeOK
  <2>2. jobs'[r] = js /\ Len(js) = 0 /\ pc'[r] = "create"
    BY <1>1, <1>3 DEF Route, Goto, tables, TypeOK, JobsOK
  <2>. QED
    BY <2>1, <2>2 DEF JobsInv, JobsOK
<1>4. CASE Create(r)
  <2>. DEFINE job == [endpoint |-> at[r], status |-> "started", bills |-> 0]
              new == Append(js, job)
  <2>1. /\ jobs'[r] = new /\ pc[r] = "create" /\ pc'[r] = "count"
        /\ left' = left /\ at' = at /\ verdict' = verdict
    BY <1>1, <1>4 DEF Create, Goto, TypeOK
  <2>2. job \in Attempt
    BY <1>1, <2>1 DEF Attempt, Placed, Busy
  <2>3. /\ Len(new) = Len(js) + 1
        /\ \A k \in 1 .. Len(js) : new[k] = js[k]
        /\ new[Len(js) + 1] = job
    BY <1>1, <2>2, AppendProperties
  <2>4. job.endpoint = at[r] /\ job.bills = 0 /\ job.status = "started"
    OBVIOUS
  <2>. HIDE DEF job, new
  <2>5. at[r] \notin left[r] /\ \A k \in 1 .. Len(js) : Unbilled(js, k) /\ js[k].endpoint # at[r]
    BY <1>1, <2>1 DEF JobsOK
  <2>6. \A k \in 1 .. Len(new) : new[k].endpoint \notin left[r]
    BY <1>1, <2>3, <2>4, <2>5 DEF JobsOK
  <2>7. ASSUME NEW k \in 1 .. Len(new), NEW m \in 1 .. k - 1
        PROVE  Unbilled(new, m) /\ new[m].endpoint # new[k].endpoint
    <3>1. m \in 1 .. Len(js) /\ new[m] = js[m]
      BY <1>1, <2>3
    <3>2. CASE k = Len(js) + 1
      BY <2>3, <2>4, <2>5, <3>1, <3>2 DEF Unbilled
    <3>3. CASE k \in 1 .. Len(js)
      BY <1>1, <2>3, <3>1, <3>3 DEF JobsOK, Unbilled
    <3>. QED
      BY <1>1, <2>3, <3>2, <3>3
  <2>8. \A k \in 1 .. Len(new) :
          new[k].bills > 0 => new[k].bills = 1 /\ new[k].status = "completed"
    BY <1>1, <2>3, <2>4 DEF JobsOK
  <2>9. JobsOK(new, "count", left[r], at[r], verdict[r])
    BY <1>1, <2>3, <2>4, <2>6, <2>7, <2>8 DEF JobsOK
  <2>. QED
    BY <2>1, <2>9 DEF JobsInv
<1>5. CASE Count(r)
  BY <1>1, <1>5 DEF Count, Goto, TypeOK, JobsInv, JobsOK
<1>6. CASE Moves(r)
  <2>1. jobs' = jobs /\ left' = left /\ at' = at
    BY <1>6, MovesFacts
  <2>2. CASE Open(r) \/ AbandonStream(r) \/ Reply(r) \/ MalformedReply(r)
    BY <1>1, <2>1, <2>2 DEF Open, AbandonStream, Reply, MalformedReply, Goto, TypeOK, JobsInv, JobsOK
  <2>3. CASE TransientError(r) \/ PermanentError(r)
    <3>1. pc[r] = "await" /\ pc'[r] = "fail" /\ verdict'[r] \in {"retry", "failed"}
      BY <1>1, <2>3 DEF TransientError, PermanentError, Goto, TypeOK
    <3>. QED
      BY <1>1, <2>1, <3>1 DEF JobsInv, JobsOK
  <2>4. CASE Disconnect(r) \/ StoreRaises(r)
    <3>1. /\ pc'[r] \in {"release", "fail", "failed", "lost"} /\ verdict'[r] \in {"gone", "failed"}
          /\ pc'[r] = "fail" => pc[r] \in {"complete", "bill"}
      BY <1>1, <2>4 DEF Disconnect, StoreRaises, Goto, TypeOK
    <3>. QED
      BY <1>1, <2>1, <3>1 DEF JobsInv, JobsOK
  <2>. QED
    BY <1>6, <2>2, <2>3, <2>4 DEF Moves
<1>7. CASE Complete(r) \/ Fail(r)
  <2>1. /\ left' = left /\ at' = at /\ verdict' = verdict
        /\ Len(js) > 0 /\ js[Len(js)].bills = 0
        /\ pc'[r] \in {"bill", "release"}
        /\ \/ pc'[r] = "bill" /\ FinishJob(r, "completed")
           \/ pc'[r] = "release" /\ FinishJob(r, "error") /\ verdict[r] # "ok"
    BY <1>1, <1>7 DEF Complete, Fail, Goto, TypeOK, JobsOK, Placed, Busy, Waiting
  <2>2. PICK st \in {"started", "completed", "error"} :
          /\ jobs'[r] = Finished(js, st)
          /\ pc'[r] = "bill" => st = "completed"
          /\ pc'[r] = "release" => st = "error" /\ verdict[r] # "ok"
    BY <1>1, <2>1 DEF FinishJob, TypeOK
  <2>. DEFINE new == Finished(js, st)
  <2>3. /\ Len(new) = Len(js)
        /\ \A k \in 1 .. Len(js) : k # Len(js) => new[k] = js[k]
        /\ new[Len(js)].status = st
        /\ new[Len(js)].endpoint = js[Len(js)].endpoint
        /\ new[Len(js)].bills = 0
    <3>1. Len(js) > 0 /\ js[Len(js)].bills = 0 /\ js \in Seq(Attempt)
      BY <1>1, <2>1
    <3>. QED
      BY <3>1, FinishFacts
  <2>. HIDE DEF new
  <2>4. \A k \in 1 .. Len(new) : new[k].endpoint = js[k].endpoint
    BY <2>3
  <2>5. \A k \in 1 .. Len(new) : \A m \in 1 .. k - 1 : new[m] = js[m]
    BY <1>1, <2>3
  <2>6. \A k \in 1 .. Len(new) : new[k].bills > 0 => new[k].bills = 1 /\ new[k].status = "completed"
    BY <1>1, <2>3 DEF JobsOK
  <2>7. ASSUME NEW k \in 1 .. Len(new), NEW m \in 1 .. k - 1
        PROVE  Unbilled(new, m) /\ new[m].endpoint # new[k].endpoint
    <3>1. k \in 1 .. Len(js) /\ Unbilled(js, m) /\ js[m].endpoint # js[k].endpoint
      BY <1>1, <2>3 DEF JobsOK
    <3>. QED
      BY <2>4, <2>5, <3>1 DEF Unbilled
  <2>8. JobsOK(new, pc'[r], left[r], at[r], verdict[r])
    BY <1>1, <2>1, <2>2, <2>3, <2>4, <2>6, <2>7 DEF JobsOK, Unbilled
  <2>. QED
    BY <2>1, <2>2, <2>8 DEF JobsInv, new
<1>8. CASE Bill(r)
  <2>. DEFINE new == Billed(js)
  <2>1. /\ left' = left /\ at' = at /\ verdict'[r] = "ok" /\ pc'[r] = "release"
        /\ jobs'[r] = new
        /\ Len(js) > 0 /\ js[Len(js)].bills = 0 /\ js[Len(js)].status = "completed"
    BY <1>1, <1>8 DEF Bill, Goto, TypeOK, JobsOK, Placed, Busy, Waiting
  <2>2. /\ Len(new) = Len(js)
        /\ \A k \in 1 .. Len(js) : k # Len(js) => new[k] = js[k]
        /\ new[Len(js)].status = "completed"
        /\ new[Len(js)].endpoint = js[Len(js)].endpoint
        /\ new[Len(js)].bills = 1
    <3>1. Len(js) > 0 /\ js[Len(js)].bills = 0 /\ js[Len(js)].status = "completed" /\ js \in Seq(Attempt)
      BY <1>1, <2>1
    <3>. QED
      BY <3>1, BillFacts
  <2>. HIDE DEF new
  <2>3. \A k \in 1 .. Len(new) : new[k].endpoint = js[k].endpoint
    BY <2>2
  <2>4. \A k \in 1 .. Len(new) : \A m \in 1 .. k - 1 : new[m] = js[m]
    BY <1>1, <2>2
  <2>5. \A k \in 1 .. Len(new) : new[k].bills > 0 => new[k].bills = 1 /\ new[k].status = "completed"
    BY <1>1, <2>2 DEF JobsOK
  <2>6. ASSUME NEW k \in 1 .. Len(new), NEW m \in 1 .. k - 1
        PROVE  Unbilled(new, m) /\ new[m].endpoint # new[k].endpoint
    <3>1. k \in 1 .. Len(js) /\ Unbilled(js, m) /\ js[m].endpoint # js[k].endpoint
      BY <1>1, <2>2 DEF JobsOK
    <3>. QED
      BY <2>3, <2>4, <3>1 DEF Unbilled
  <2>7. JobsOK(new, "release", left[r], at[r], "ok")
    BY <1>1, <2>2, <2>3, <2>5, <2>6 DEF JobsOK
  <2>. QED
    BY <2>1, <2>7 DEF JobsInv
<1>9. CASE Release(r)
  <2>1. /\ jobs' = jobs /\ left' = left /\ at' = at /\ pc'[r] \in {"ok", "failed", "gone"}
        /\ pc'[r] = "ok" => pc[r] = "release" /\ verdict[r] = "ok"
    BY <1>1, <1>9 DEF Release, Goto, TypeOK
  <2>. QED
    BY <1>1, <2>1 DEF JobsInv, JobsOK
<1>10. CASE Retry(r)
  <2>1. /\ jobs' = jobs /\ pc[r] = "release" /\ verdict[r] = "retry" /\ pc'[r] = "create"
        /\ Unbilled(js, Len(js)) /\ Len(js) > 0
    BY <1>1, <1>10 DEF Retry, Goto, TypeOK, JobsOK, Placed, Busy, Waiting
  <2>2. PICK e \in left[r] : at'[r] = e /\ left'[r] = left[r] \ {e}
    BY <1>1, <1>10 DEF Retry, TypeOK
  <2>3. ASSUME NEW k \in 1 .. Len(js) PROVE Unbilled(js, k) /\ js[k].endpoint \notin left[r]
    <3>1. CASE k = Len(js)
      BY <1>1, <2>1, <3>1 DEF JobsOK
    <3>2. CASE k # Len(js)
      <4>1. Len(js) \in 1 .. Len(js) /\ k \in 1 .. Len(js) - 1
        BY <1>1, <3>2
      <4>. QED
        BY <1>1, <4>1 DEF JobsOK
    <3>. QED
      BY <3>1, <3>2
  <2>4. JobsOK(js, "create", left[r] \ {e}, e, verdict'[r])
    BY <1>1, <2>1, <2>2, <2>3 DEF JobsOK
  <2>. QED
    BY <2>1, <2>2, <2>4 DEF JobsInv
<1>. QED
  BY <1>2, <1>3, <1>4, <1>5, <1>6, <1>7, <1>8, <1>9, <1>10 DEF Handle, Moves

BooksInv == TypeInv /\ \A r \in Requests : JobsInv(r)

\* An empty store has its books in order.
LEMMA BooksInit == Init => BooksInv
<1>1. Init => \A r \in Requests : JobsInv(r)
  BY DEF Init, JobsInv, JobsOK
<1>. QED
  BY <1>1, InitType DEF BooksInv

\* The state of the books (jobs, ledger, tried candidates) is inductive.
LEMMA BooksNext == BooksInv /\ [Next]_vars => BooksInv'
<1>. SUFFICES ASSUME BooksInv, [Next]_vars PROVE BooksInv'
  OBVIOUS
<1>1. TypeInv /\ TypeOK /\ TypeInv'
  BY NextType DEF BooksInv, TypeInv
<1>2. ASSUME NEW r \in Requests, Handle(r), NEW q \in Requests PROVE JobsInv(q)'
  <2>1. CASE q = r
    BY <1>1, <1>2, <2>1, HandleJobs DEF BooksInv
  <2>2. CASE q # r
    BY <1>1, <1>2, <2>2, HandleFrame DEF BooksInv, JobsInv
  <2>. QED
    BY <2>1, <2>2
<1>3. ASSUME Registry \/ UNCHANGED vars, NEW q \in Requests PROVE JobsInv(q)'
  <2>1. UNCHANGED <<jobs, pc, left, at, verdict>>
    BY <1>1, <1>3, RegistryFrame DEF vars
  <2>. QED
    BY <2>1 DEF BooksInv, JobsInv
<1>4. ASSUME Crash, NEW q \in Requests PROVE JobsInv(q)'
  <2>1. /\ jobs' = jobs /\ left' = left /\ at' = at /\ verdict' = verdict
        /\ pc'[q] \in {pc[q], "crashed"}
    BY <1>1, <1>4 DEF Crash, tables
  <2>. QED
    BY <2>1 DEF BooksInv, JobsInv, JobsOK
<1>. QED
  BY <1>1, <1>2, <1>3, <1>4 DEF Next, Registry, Idle, BooksInv

\* Jobs, ledger and the candidates a request has tried always agree.
THEOREM BooksInvariant == Spec => []BooksInv
  BY BooksInit, BooksNext, PTL DEF Spec

(* Billing is once per request and for a completed job only, whatever      *)
(* fails in the handlers of gateway.py and wherever the process stops.     *)
THEOREM BillingOnce == Spec => []BilledOnce
<1>1. ASSUME BooksInv PROVE BilledOnce
  <2>. SUFFICES ASSUME NEW r \in Requests, NEW k \in 1 .. Len(jobs[r]), jobs[r][k].bills > 0
                PROVE  /\ jobs[r][k].bills = 1 /\ jobs[r][k].status = "completed"
                       /\ \A m \in 1 .. Len(jobs[r]) : m # k => jobs[r][m].bills = 0
    BY DEF BilledOnce
  <2>1. JobsOK(jobs[r], pc[r], left[r], at[r], verdict[r]) /\ Len(jobs[r]) \in Nat
    BY <1>1 DEF BooksInv, JobsInv, TypeInv, TypeOK
  <2>2. jobs[r][k].bills = 1 /\ jobs[r][k].status = "completed"
    BY <2>1 DEF JobsOK
  <2>3. ASSUME NEW m \in 1 .. Len(jobs[r]), m # k PROVE jobs[r][m].bills = 0
    <3>1. m \in 1 .. k - 1 \/ k \in 1 .. m - 1
      BY <2>1, <2>3
    <3>2. ~(k \in 1 .. m - 1)
      BY <2>1, <2>2 DEF JobsOK, Unbilled
    <3>. QED
      BY <2>1, <3>1, <3>2 DEF JobsOK, Unbilled
  <2>. QED
    BY <2>2, <2>3
<1>. QED
  BY <1>1, BooksInvariant, PTL

(* Whatever raises and wherever the process stops, _execute_with_fallback  *)
(* and the generator of _stream_with_fallback end with success only after  *)
(* the ledger entry of their last job.                                     *)
THEOREM ServedAreBilled == Spec => []ServedIsBilled
<1>1. BooksInv => ServedIsBilled
  BY DEF BooksInv, JobsInv, JobsOK, ServedIsBilled
<1>. QED
  BY <1>1, BooksInvariant, PTL

(* The candidate loop of _execute_with_fallback goes on only after an      *)
(* error that is on record, and to a candidate it did not try.             *)
THEOREM FallbackInOrder == Spec => []FallbackAfterError
<1>1. BooksInv => FallbackAfterError
  BY DEF BooksInv, JobsInv, JobsOK, Unbilled, FallbackAfterError
<1>. QED
  BY <1>1, BooksInvariant, PTL

------------------------------------------------------------------------------
(***************************************************************************)
(* The job counter, when only the gateway writes it: nobody posts an       *)
(* inventory, no heartbeat carries a count, no probe writes a row back,    *)
(* the command line tool is not used, and the configuration starts every   *)
(* node at zero.  All other faults may happen.                             *)
(***************************************************************************)
OnlyWriter ==
  /\ Loops = {} /\ Probers = {} /\ Postings = {} /\ "cli" \notin Faults
  /\ \A beat \in Beats : beat.jobs = None
  /\ \A n \in Configured : Config[n].jobs = 0

(* The holders of a node that are at their first attempt. *)
First(n) == {r \in Holders(n) : Len(jobs[r]) = 1}

(* The nodes a handler may still count on have a row. *)
Known(r) ==
  /\ pc[r] \in Busy \cup Waiting => Host[at[r]] \in DOMAIN nodes
  /\ \A e \in left[r] : Host[e] \in DOMAIN nodes

(* A request that was routed and is not counted yet saw a free slot, and   *)
(* nobody else ran since.                                                  *)
Vacancy(r) ==
  LET row == nodes[Host[at[r]]] IN
  \/ pc[r] = "create" /\ Len(jobs[r]) = 0
  \/ pc[r] = "count" /\ Len(jobs[r]) = 1
  => row.jobs < MaxJobs[row.inv]

CounterInv ==
  /\ TypeInv
  /\ \A r \in Requests : Known(r)
  /\ \A r \in Requests : Vacancy(r)
  /\ \A q, r \in Requests : pc[q] \in Busy /\ pc[r] \in Busy => q = r
  /\ ~up => \A r \in Requests : pc[r] \notin Busy \cup Waiting
  /\ CounterCovers
  /\ FirstAttemptsWithinLimit

(* A step after which nobody holds a slot that did not before. *)
NoNewHolder ==
  \A q \in Requests : pc'[q] \in Counted =>
    pc[q] \in Counted /\ at'[q] = at[q] /\ Len(jobs'[q]) = Len(jobs[q])

\* Only finitely many first attempts run, so they can be counted.
LEMMA FirstFinite ==
  ASSUME NEW n PROVE IsFiniteSet(First(n)) /\ Cardinality(First(n)) \in Nat
                     /\ Cardinality(First(n)) <= Cardinality(Holders(n))
<1>1. First(n) \in SUBSET Holders(n)
  BY DEF First
<1>. QED
  BY <1>1, HoldersFinite, FS_Subset, FS_CardinalityType

\* A step that makes nobody a holder leaves every holder count as it was or lower.
LEMMA NoNewHolderFacts ==
  ASSUME NoNewHolder, NEW n
  PROVE  /\ Cardinality(Holders(n)') <= Cardinality(Holders(n))
         /\ Cardinality(First(n)') <= Cardinality(First(n))
         /\ Cardinality(Holders(n)') \in Nat /\ Cardinality(First(n)') \in Nat
<1>1. Holders(n)' \in SUBSET Holders(n) /\ First(n)' \in SUBSET First(n)
  BY DEF NoNewHolder, Holders, First
<1>2. IsFiniteSet(Holders(n)) /\ IsFiniteSet(First(n))
  BY HoldersFinite, FirstFinite
<1>3. /\ IsFiniteSet(Holders(n)') /\ Cardinality(Holders(n)') <= Cardinality(Holders(n))
      /\ IsFiniteSet(First(n)') /\ Cardinality(First(n)') <= Cardinality(First(n))
  BY <1>1, <1>2, FS_Subset
<1>. QED
  BY <1>3, FS_CardinalityType

(* The types of what the counter argument compares: a count that covers    *)
(* the holders is not one of the negative ones a row might hold.           *)
LEMMA RowFacts ==
  ASSUME TypeOK, CounterCovers, NEW n \in DOMAIN nodes
  PROVE  n \in Nodes /\ nodes[n].jobs \in Nat /\ nodes[n].inv \in Inventories
         /\ MaxJobs[nodes[n].inv] \in Nat
<1>1. n \in Nodes /\ nodes[n] \in Row
  BY DEF TypeOK, IsTable
<1>2. nodes[n].jobs \in Int
  BY <1>1, CountsOfRows DEF Row
<1>3. Cardinality(Holders(n)) \in Nat /\ Cardinality(Holders(n)) <= nodes[n].jobs
  BY HoldersFinite DEF CounterCovers
<1>. QED
  BY <1>1, <1>2, <1>3, GatewayAssumption DEF Row

(* The two invariants after a step that adds no holder and lowers no       *)
(* counter.                                                                *)
LEMMA CoverKept ==
  ASSUME TypeOK, CounterCovers, FirstAttemptsWithinLimit, NoNewHolder,
         DOMAIN nodes' = DOMAIN nodes,
         \A n \in DOMAIN nodes : nodes'[n].jobs = nodes[n].jobs /\ nodes'[n].inv = nodes[n].inv
  PROVE  CounterCovers' /\ FirstAttemptsWithinLimit'
<1>1. ASSUME NEW n \in DOMAIN nodes
      PROVE  /\ Cardinality(Holders(n)') <= nodes'[n].jobs
             /\ Cardinality(First(n)') <= MaxJobs[nodes'[n].inv]
  <2>1. /\ Cardinality(Holders(n)) <= nodes[n].jobs
        /\ Cardinality(First(n)) <= MaxJobs[nodes[n].inv]
    BY DEF CounterCovers, FirstAttemptsWithinLimit, First
  <2>2. /\ Cardinality(Holders(n)) \in Nat /\ Cardinality(First(n)) \in Nat
        /\ nodes[n].jobs \in Nat /\ MaxJobs[nodes[n].inv] \in Nat
    BY HoldersFinite, FirstFinite, RowFacts
  <2>. QED
    BY <2>1, <2>2, NoNewHolderFacts
<1>. QED
  BY <1>1 DEF CounterCovers, FirstAttemptsWithinLimit, First

(* What delta_node_jobs does to each row. *)
LEMMA DeltaFacts ==
  ASSUME TypeOK, NEW h \in DOMAIN nodes, NEW d \in {-1, 1}, DeltaJobs(h, d)
  PROVE  /\ DOMAIN nodes' = DOMAIN nodes
         /\ \A n \in DOMAIN nodes : nodes'[n].inv = nodes[n].inv
         /\ \A n \in DOMAIN nodes : n # h => nodes'[n].jobs = nodes[n].jobs
         /\ nodes'[h].jobs = Clamped(nodes[h].jobs + d)
<1>1. nodes \in [DOMAIN nodes -> Row]
  BY DEF TypeOK, IsTable
<1>2. nodes'[h] = [nodes[h] EXCEPT !.jobs = Clamped(@ + d)]
  BY <1>1 DEF DeltaJobs
<1>3. nodes[h] \in Row
  BY <1>1
<1>4. /\ nodes'[h].inv = nodes[h].inv
      /\ nodes'[h].jobs = Clamped(nodes[h].jobs + d)
  BY <1>2, <1>3 DEF Row
<1>. QED
  BY <1>1, <1>4 DEF DeltaJobs

(* Taking a slot. *)
LEMMA CountCover ==
  ASSUME CounterInv, NEW r \in Requests, Count(r)
  PROVE  CounterCovers' /\ FirstAttemptsWithinLimit'
<1>0. Host[at[r]] \in DOMAIN nodes
  BY DEF CounterInv, Known, Count, Release, Retry, Busy
<1>. PICK h \in DOMAIN nodes : h = Host[at[r]]
  BY <1>0
<1>1. /\ TypeOK /\ pc[r] = "count"
      /\ DeltaJobs(h, 1) /\ jobs' = jobs /\ at' = at
      /\ pc' = [pc EXCEPT ![r] = IF r \in Streaming THEN "open" ELSE "await"]
  BY DEF CounterInv, TypeInv, Known, Count, Goto, Busy
<1>2. Len(jobs[r]) = 1 => nodes[h].jobs < MaxJobs[nodes[h].inv]
  BY <1>1 DEF CounterInv, Vacancy
<1>3. /\ DOMAIN nodes' = DOMAIN nodes
      /\ \A n \in DOMAIN nodes : nodes'[n].inv = nodes[n].inv
      /\ \A n \in DOMAIN nodes : n # h => nodes'[n].jobs = nodes[n].jobs
      /\ nodes'[h].jobs = nodes[h].jobs + 1
  <2>1. nodes[h].jobs \in Nat
    BY <1>1, RowFacts DEF CounterInv
  <2>2. /\ DOMAIN nodes' = DOMAIN nodes
        /\ \A n \in DOMAIN nodes : nodes'[n].inv = nodes[n].inv
        /\ \A n \in DOMAIN nodes : n # h => nodes'[n].jobs = nodes[n].jobs
        /\ nodes'[h].jobs = Clamped(nodes[h].jobs + 1)
    BY <1>1, DeltaFacts
  <2>. QED
    BY <2>1, <2>2 DEF Clamped
<1>4. /\ Holders(h)' = Holders(h) \cup {r} /\ r \notin Holders(h)
      /\ First(h)' = IF Len(jobs[r]) = 1 THEN First(h) \cup {r} ELSE First(h)
      /\ r \notin First(h)
  BY <1>1 DEF Holders, First, Counted, TypeOK
<1>5. ASSUME NEW n \in DOMAIN nodes, n # h
      PROVE  Holders(n)' = Holders(n) /\ First(n)' = First(n)
  BY <1>1, <1>5 DEF Holders, First, Counted, TypeOK
<1>6. ASSUME NEW n \in DOMAIN nodes
      PROVE  /\ Cardinality(Holders(n)') <= nodes'[n].jobs
             /\ Cardinality(First(n)') <= MaxJobs[nodes'[n].inv]
  <2>1. /\ Cardinality(Holders(n)) <= nodes[n].jobs
        /\ Cardinality(First(n)) <= MaxJobs[nodes[n].inv]
    BY DEF CounterInv, CounterCovers, FirstAttemptsWithinLimit, First
  <2>2. /\ Cardinality(Holders(n)) \in Nat /\ Cardinality(First(n)) \in Nat
        /\ nodes[n].jobs \in Nat /\ MaxJobs[nodes[n].inv] \in Nat
        /\ Cardinality(First(n)) <= Cardinality(Holders(n))
    BY <1>1, HoldersFinite, FirstFinite, RowFacts DEF CounterInv
  <2>3. CASE n # h
    BY <1>3, <1>5, <2>1, <2>3
  <2>4. CASE n = h
    <3>1. /\ Cardinality(Holders(h)') = Cardinality(Holders(h)) + 1
          /\ Len(jobs[r]) = 1 => Cardinality(First(h)') = Cardinality(First(h)) + 1
          /\ Len(jobs[r]) # 1 => Cardinality(First(h)') = Cardinality(First(h))
      BY <1>4, HoldersFinite, FirstFinite, FS_AddElement
    <3>. QED
      BY <1>2, <1>3, <2>1, <2>2, <2>4, <3>1
  <2>. QED
    BY <2>3, <2>4
<1>. QED
  BY <1>3, <1>6 DEF CounterCovers, FirstAttemptsWithinLimit, First

(* Giving a slot back. *)
LEMMA ReleaseCover ==
  ASSUME CounterInv, NEW r \in Requests, Release(r) \/ Retry(r)
  PROVE  CounterCovers' /\ FirstAttemptsWithinLimit'
<1>0. Host[at[r]] \in DOMAIN nodes
  BY DEF CounterInv, Known, Count, Release, Retry, Busy
<1>. PICK h \in DOMAIN nodes : h = Host[at[r]]
  BY <1>0
<1>1. /\ TypeOK /\ pc[r] = "release"
      /\ DeltaJobs(h, -1) /\ jobs' = jobs
      /\ pc'[r] \notin Counted
      /\ \A q \in Requests \ {r} : pc'[q] = pc[q] /\ at'[q] = at[q]
  BY DEF CounterInv, TypeInv, TypeOK, Known, Release, Retry, Goto, Busy, Counted
<1>2. NoNewHolder
  BY <1>1 DEF NoNewHolder
<1>3. /\ DOMAIN nodes' = DOMAIN nodes
      /\ \A n \in DOMAIN nodes : nodes'[n].inv = nodes[n].inv
      /\ \A n \in DOMAIN nodes : n # h => nodes'[n].jobs = nodes[n].jobs
      /\ nodes'[h].jobs = Clamped(nodes[h].jobs + (-1))
  BY <1>1, DeltaFacts
<1>4. Holders(h)' = Holders(h) \ {r} /\ r \in Holders(h)
  BY <1>1 DEF Holders, Counted
<1>5. ASSUME NEW n \in DOMAIN nodes
      PROVE  /\ Cardinality(Holders(n)') <= nodes'[n].jobs
             /\ Cardinality(First(n)') <= MaxJobs[nodes'[n].inv]
  <2>1. /\ Cardinality(Holders(n)) <= nodes[n].jobs
        /\ Cardinality(First(n)) <= MaxJobs[nodes[n].inv]
    BY DEF CounterInv, CounterCovers, FirstAttemptsWithinLimit, First
  <2>2. /\ Cardinality(Holders(n)) \in Nat /\ Cardinality(First(n)) \in Nat
        /\ nodes[n].jobs \in Nat /\ MaxJobs[nodes[n].inv] \in Nat
    BY <1>1, HoldersFinite, FirstFinite, RowFacts DEF CounterInv
  <2>3. /\ Cardinality(Holders(n)') <= Cardinality(Holders(n))
        /\ Cardinality(First(n)') <= Cardinality(First(n))
        /\ Cardinality(Holders(n)') \in Nat /\ Cardinality(First(n)') \in Nat
    BY <1>2, NoNewHolderFacts
  <2>4. CASE n # h
    BY <1>3, <2>1, <2>2, <2>3, <2>4
  <2>5. CASE n = h
    <3>1. Cardinality(Holders(h)') = Cardinality(Holders(h)) - 1
      BY <1>4, HoldersFinite, FS_RemoveElement
    <3>. QED
      BY <1>3, <2>1, <2>2, <2>3, <2>5, <3>1 DEF Clamped
  <2>. QED
    BY <2>4, <2>5
<1>. QED
  BY <1>3, <1>5 DEF CounterCovers, FirstAttemptsWithinLimit, First

(* Only one handler holds the loop. *)
LEMMA Alone ==
  ASSUME CounterInv, NEW r \in Requests, Handle(r), NEW q \in Requests \ {r}
  PROVE  up /\ up' = up /\ pc[q] \notin Busy /\ pc'[q] \notin Busy
<1>1. TypeOK
  BY DEF CounterInv, TypeInv
<1>2. pc'[q] = pc[q]
  BY <1>1, HandleFrame
<1>3. (Scheduled \/ pc[r] \in Busy) /\ up' = up
  <2>1. CASE RateLimited(r) \/ TurnedAway(r) \/ Route(r) \/ Create(r) \/ Count(r)
    BY <2>1 DEF RateLimited, TurnedAway, Route, Create, Count, Busy
  <2>2. CASE Moves(r)
    BY <2>2 DEF Moves, Open, AbandonStream, Reply, TransientError, PermanentError, Disconnect,
                MalformedReply, StoreRaises
  <2>3. CASE Complete(r) \/ Bill(r) \/ Fail(r) \/ Release(r) \/ Retry(r)
    BY <2>3 DEF Complete, Bill, Fail, Release, Retry, Busy
  <2>. QED
    BY <2>1, <2>2, <2>3 DEF Handle, Moves
<1>. QED
  BY <1>2, <1>3 DEF CounterInv, Scheduled

(* The part of the invariant that is not about the counters' values. *)
LEMMA HandlePlace ==
  ASSUME CounterInv, NEW r \in Requests, Handle(r)
  PROVE  Known(r)' /\ Vacancy(r)' /\ DOMAIN nodes' = DOMAIN nodes
<1>1. /\ TypeOK /\ Placed(r) /\ Known(r) /\ Vacancy(r)
      /\ jobs[r] \in Seq(Attempt) /\ Len(jobs[r]) \in Nat
  <2>1. TypeOK /\ Placed(r) /\ Known(r) /\ Vacancy(r)
    BY DEF CounterInv, TypeInv
  <2>2. jobs[r] \in Seq(Attempt)
    BY <2>1 DEF TypeOK
  <2>. QED
    BY <2>1, <2>2
<1>2. CASE RateLimited(r) \/ TurnedAway(r)
  <2>1. pc'[r] = "denied" /\ nodes' = nodes /\ left' = left
    BY <1>1, <1>2 DEF RateLimited, TurnedAway, Goto, tables, TypeOK
  <2>. QED
    BY <1>1, <2>1 DEF Known, Vacancy, Busy, Waiting
<1>3. CASE Route(r)
  <2>1. PICK e \in Candidates(r) : at'[r] = e /\ left'[r] = Candidates(r) \ {e}
    BY <1>1, <1>3 DEF Route, TypeOK
  <2>2. nodes' = nodes /\ pc'[r] = "create"
    BY <1>1, <1>3 DEF Route, Goto, tables, TypeOK
  <2>3. \A c \in Candidates(r) : /\ Host[c] \in DOMAIN nodes
                                 /\ nodes[Host[c]].jobs < MaxJobs[nodes[Host[c]].inv]
    BY DEF Candidates, Routable
  <2>. QED
    BY <2>1, <2>2, <2>3 DEF Known, Vacancy
<1>4. CASE Create(r)
  <2>1. /\ nodes' = nodes /\ left' = left /\ at' = at
        /\ pc[r] = "create" /\ pc'[r] = "count"
    BY <1>1, <1>4 DEF Create, Goto, registry, TypeOK
  <2>2. Len(jobs'[r]) = 1 => Len(jobs[r]) = 0
    <3>. DEFINE job == [endpoint |-> at[r], status |-> "started", bills |-> 0]
    <3>1. job \in Attempt
      BY <1>1, <2>1 DEF Attempt, Placed, Busy
    <3>2. jobs'[r] = Append(jobs[r], job)
      BY <1>1, <1>4 DEF Create, TypeOK
    <3>3. Len(jobs'[r]) = Len(jobs[r]) + 1
      BY <1>1, <3>1, <3>2, AppendProperties
    <3>4. Len(jobs[r]) \in Nat
      BY <1>1, LenProperties DEF TypeOK
    <3>5. \A m \in Nat : m + 1 = 1 => m = 0
      OBVIOUS
    <3>. HIDE DEF job
    <3>. QED
      BY <3>3, <3>4, <3>5, Zenon
  <2>. QED
    BY <1>1, <2>1, <2>2 DEF Known, Vacancy, Busy
<1>5. CASE Count(r)
  <2>1. DOMAIN nodes' = DOMAIN nodes
    BY <1>1, <1>5, DeltaType DEF Count, TypeOK
  <2>2. left' = left /\ at' = at /\ pc[r] = "count" /\ pc'[r] \in {"open", "await"}
    BY <1>1, <1>5 DEF Count, Goto, TypeOK
  <2>. QED
    BY <1>1, <2>1, <2>2 DEF Known, Vacancy, Busy
<1>6. CASE Moves(r)
  <2>1. /\ nodes' = nodes /\ left' = left /\ at' = at
        /\ pc'[r] \in Busy \cup Waiting => pc[r] \in {"open", "await", "complete", "bill", "fail"}
        /\ \E label \in PCs \ {"new", "create", "count"} : pc' = [pc EXCEPT ![r] = label]
    BY <1>6, MovesFacts DEF CounterInv
  <2>2. pc'[r] \notin {"create", "count"}
    BY <1>1, <2>1 DEF TypeOK
  <2>. QED
    BY <1>1, <2>1, <2>2 DEF Known, Vacancy, Busy, Waiting
<1>7. CASE Complete(r) \/ Fail(r) \/ Bill(r)
  <2>1. /\ nodes' = nodes /\ left' = left /\ at' = at
        /\ pc[r] \in {"complete", "fail", "bill"} /\ pc'[r] \in {"bill", "release"}
    BY <1>1, <1>7 DEF Complete, Fail, Bill, Goto, registry, TypeOK
  <2>. QED
    BY <1>1, <2>1 DEF Known, Vacancy, Busy
<1>8. CASE Release(r)
  <2>1. DOMAIN nodes' = DOMAIN nodes
    BY <1>1, <1>8, DeltaType DEF Release, TypeOK
  <2>2. left' = left /\ pc'[r] \in {"ok", "failed", "gone"}
    BY <1>1, <1>8 DEF Release, Goto, TypeOK
  <2>. QED
    BY <1>1, <2>1, <2>2 DEF Known, Vacancy, Busy, Waiting
<1>9. CASE Retry(r)
  <2>1. DOMAIN nodes' = DOMAIN nodes
    BY <1>1, <1>9, DeltaType DEF Retry, TypeOK
  <2>2. PICK e \in left[r] : at'[r] = e /\ left'[r] = left[r] \ {e}
    BY <1>1, <1>9 DEF Retry, TypeOK
  <2>3. pc'[r] = "create" /\ jobs' = jobs /\ Len(jobs[r]) > 0
    BY <1>1, <1>9 DEF Retry, Goto, TypeOK, Placed, Busy, Waiting
  <2>. QED
    BY <1>1, <2>1, <2>2, <2>3 DEF Known, Vacancy
<1>. QED
  BY <1>2, <1>3, <1>4, <1>5, <1>6, <1>7, <1>8, <1>9 DEF Handle, Moves

(* The counters after a step of a handler. *)
LEMMA HandleCover ==
  ASSUME CounterInv, NEW r \in Requests, Handle(r)
  PROVE  CounterCovers' /\ FirstAttemptsWithinLimit'
<1>1. TypeInv /\ TypeOK /\ CounterCovers /\ FirstAttemptsWithinLimit /\ jobs[r] \in Seq(Attempt)
      /\ Placed(r)
  <2>1. TypeInv /\ TypeOK /\ CounterCovers /\ FirstAttemptsWithinLimit /\ Placed(r)
    BY DEF CounterInv, TypeInv
  <2>. QED
    BY <2>1 DEF TypeOK
<1>2. ASSUME nodes' = nodes, pc'[r] \in Counted =>
                pc[r] \in Counted /\ at'[r] = at[r] /\ Len(jobs'[r]) = Len(jobs[r])
      PROVE  CounterCovers' /\ FirstAttemptsWithinLimit'
  <2>1. NoNewHolder
    <3>1. \A q \in Requests \ {r} : pc'[q] = pc[q] /\ jobs'[q] = jobs[q] /\ at'[q] = at[q]
      BY <1>1, HandleFrame
    <3>. QED
      BY <1>2, <3>1 DEF NoNewHolder
  <2>. QED
    BY <1>1, <1>2, <2>1, CoverKept
<1>3. CASE RateLimited(r) \/ TurnedAway(r) \/ Route(r) \/ Create(r)
  <2>1. nodes' = nodes /\ pc'[r] \notin Counted
    BY <1>1, <1>3 DEF RateLimited, TurnedAway, Route, Create, Goto, tables, registry, TypeOK, Counted
  <2>. QED
    BY <1>2, <2>1
<1>4. CASE Count(r)
  BY <1>4, CountCover
<1>5. CASE Moves(r)
  <2>1. /\ nodes' = nodes /\ at' = at /\ jobs' = jobs
        /\ pc'[r] \in Busy \cup Waiting => pc[r] \in {"open", "await", "complete", "bill", "fail"}
    BY <1>1, <1>5, MovesFacts
  <2>. QED
    BY <1>2, <2>1 DEF Busy, Waiting, Counted
<1>6. CASE Complete(r) \/ Fail(r) \/ Bill(r)
  <2>1. nodes' = nodes /\ at' = at /\ pc[r] \in Counted /\ Len(jobs[r]) > 0
    BY <1>1, <1>6 DEF Complete, Fail, Bill, registry, Counted, Placed, Busy, Waiting
  <2>2. Len(jobs'[r]) = Len(jobs[r])
    <3>1. CASE Complete(r) \/ Fail(r)
      <4>1. PICK st \in {"started", "completed", "error"} : jobs'[r] = Finished(jobs[r], st)
        BY <1>1, <3>1 DEF Complete, Fail, FinishJob, TypeOK
      <4>2. Len(Finished(jobs[r], st)) = Len(jobs[r])
        BY <1>1, <2>1, FinishFacts
      <4>. QED
        BY <4>1, <4>2
    <3>2. CASE Bill(r)
      <4>1. jobs'[r] = Billed(jobs[r])
        BY <1>1, <3>2 DEF Bill, TypeOK
      <4>2. Len(Billed(jobs[r])) = Len(jobs[r])
        BY <1>1, <2>1, BillFacts
      <4>. QED
        BY <4>1, <4>2
    <3>. QED
      BY <1>6, <3>1, <3>2
  <2>. QED
    BY <1>2, <2>1, <2>2
<1>7. CASE Release(r) \/ Retry(r)
  BY <1>7, ReleaseCover
<1>. QED
  BY <1>3, <1>4, <1>5, <1>6, <1>7 DEF Handle, Moves

\* A step of a request handler keeps the counter at or above the holders.
LEMMA HandleCounter == ASSUME CounterInv, NEW r \in Requests, Handle(r) PROVE CounterInv'
<1>1. TypeInv' /\ TypeOK
  BY HandleType DEF CounterInv, TypeInv
<1>2. \A q \in Requests \ {r} : up /\ up' = up /\ pc[q] \notin Busy /\ pc'[q] \notin Busy
  BY Alone
<1>3. Known(r)' /\ Vacancy(r)' /\ DOMAIN nodes' = DOMAIN nodes
  BY HandlePlace
<1>4. CounterCovers' /\ FirstAttemptsWithinLimit'
  BY HandleCover
<1>5. ASSUME NEW q \in Requests \ {r} PROVE Known(q)' /\ Vacancy(q)'
  <2>1. pc'[q] = pc[q] /\ left'[q] = left[q] /\ at'[q] = at[q] /\ Known(q)
    BY <1>1, HandleFrame DEF CounterInv
  <2>2. pc'[q] \notin {"create", "count"}
    BY <1>2 DEF Busy
  <2>. QED
    BY <1>3, <2>1, <2>2 DEF Known, Vacancy
<1>6. up'
  <2>1. Scheduled \/ pc[r] \in Busy \cup Waiting
    <3>1. CASE Moves(r)
      BY <3>1 DEF Moves, Open, AbandonStream, Reply, TransientError, PermanentError, Disconnect,
                  MalformedReply, StoreRaises
    <3>2. CASE ~Moves(r)
      BY <3>2 DEF Handle, Moves, RateLimited, TurnedAway, Route, Create, Count, Complete, Bill, Fail,
                  Release, Retry, Busy
    <3>. QED
      BY <3>1, <3>2
  <2>2. up
    BY <1>1, <2>1 DEF CounterInv, Scheduled, TypeOK
  <2>3. up' = up
    <3>1. CASE Moves(r)
      BY <3>1 DEF Moves, Open, AbandonStream, Reply, TransientError, PermanentError, Disconnect,
                  MalformedReply, StoreRaises
    <3>2. CASE ~Moves(r)
      BY <3>2 DEF Handle, Moves, RateLimited, TurnedAway, Route, Create, Count, Complete, Bill, Fail,
                  Release, Retry
    <3>. QED
      BY <3>1, <3>2
  <2>. QED
    BY <2>2, <2>3
<1>. QED
  BY <1>1, <1>2, <1>3, <1>4, <1>5, <1>6 DEF CounterInv

(* The registry's steps, when only the gateway writes counters. *)
LEMMA RegistryCounter == ASSUME OnlyWriter, CounterInv, Registry PROVE CounterInv'
<1>1. TypeInv' /\ TypeOK /\ TypeInv
  BY RegistryType DEF CounterInv, TypeInv
<1>2. UNCHANGED <<jobs, pc, left, at>>
  BY <1>1, RegistryFrame
<1>3. ASSUME up' = up, DOMAIN nodes' = DOMAIN nodes,
             \A n \in DOMAIN nodes : nodes'[n].jobs = nodes[n].jobs /\ nodes'[n].inv = nodes[n].inv
      PROVE  CounterInv'
  <2>1. NoNewHolder
    BY <1>2 DEF NoNewHolder
  <2>2. CounterCovers' /\ FirstAttemptsWithinLimit'
    BY <1>1, <1>3, <2>1, CoverKept DEF CounterInv
  <2>3. \A r \in Requests : Known(r)'
    BY <1>2, <1>3 DEF CounterInv, Known
  <2>4. ASSUME NEW r \in Requests PROVE Vacancy(r)'
    <3>1. Vacancy(r) /\ Known(r)
      BY DEF CounterInv
    <3>. QED
      BY <1>2, <1>3, <3>1 DEF Vacancy, Known, Busy
  <2>. QED
    BY <1>1, <1>2, <1>3, <2>2, <2>3, <2>4 DEF CounterInv
<1>4. ASSUME NEW beat \in Beats, Heartbeat(beat) PROVE CounterInv'
  <2>1. beat.node \in DOMAIN nodes /\ beat.jobs = None /\ up' = up
    BY <1>4 DEF Heartbeat, OnlyWriter
  <2>2. nodes[beat.node] \in Row
    BY <1>1, <2>1 DEF TypeOK, IsTable
  <2>3. /\ DOMAIN nodes' = DOMAIN nodes
        /\ \A n \in DOMAIN nodes : n # beat.node => nodes'[n] = nodes[n]
        /\ nodes'[beat.node] = [nodes[beat.node] EXCEPT
             !.seen = now, !.status = IF beat.status = None THEN @ ELSE beat.status, !.jobs = @]
    BY <1>4, <2>1 DEF Heartbeat, Upsert
  <2>4. /\ nodes'[beat.node].jobs = nodes[beat.node].jobs
        /\ nodes'[beat.node].inv = nodes[beat.node].inv
    BY <2>2, <2>3 DEF Row
  <2>. QED
    BY <1>3, <2>1, <2>3, <2>4
<1>5. CASE Tick
  BY <1>3, <1>5 DEF Tick, tables
<1>6. CASE Restart
  <2>1. \A r \in Requests : pc[r] \notin Busy \cup Waiting
    BY <1>6 DEF Restart, CounterInv
  <2>2. \A n \in DOMAIN nodes' : /\ Holders(n)' = {}
                                 /\ {r \in Holders(n) : Len(jobs[r]) = 1}' = {}
    BY <1>2, <2>1 DEF Holders, Counted, Busy, Waiting
  <2>3. TypeOK'
    BY <1>1 DEF TypeInv
  <2>4. ASSUME NEW n \in DOMAIN nodes' PROVE nodes'[n].jobs \in Nat /\ MaxJobs[nodes'[n].inv] \in Nat
    <3>1. nodes'[n] \in Row
      BY <2>3 DEF TypeOK, IsTable
    <3>2. CASE n \in Configured
      BY <1>6, <3>1, <3>2, GatewayAssumption DEF Restart, FromConfig, OnlyWriter, Row
    <3>3. CASE n \notin Configured
      <4>1. n \in DOMAIN nodes /\ nodes'[n] = nodes[n]
        BY <1>6, <3>3 DEF Restart
      <4>. QED
        BY <1>1, <4>1, RowFacts DEF CounterInv
    <3>. QED
      BY <3>2, <3>3
  <2>5. Cardinality({}) = 0
    BY FS_EmptySet
  <2>6. ASSUME NEW n \in DOMAIN nodes'
        PROVE  /\ Cardinality(Holders(n)') <= nodes'[n].jobs
               /\ Cardinality({r \in Holders(n) : Len(jobs[r]) = 1}') <= MaxJobs[nodes'[n].inv]
    <3>1. Holders(n)' = {} /\ {r \in Holders(n) : Len(jobs[r]) = 1}' = {}
      BY <2>2
    <3>2. 0 <= nodes'[n].jobs /\ 0 <= MaxJobs[nodes'[n].inv]
      BY <2>4
    <3>. QED
      BY <3>1, <3>2, <2>5
  <2>9. CounterCovers' /\ FirstAttemptsWithinLimit'
    BY <2>6 DEF CounterCovers, FirstAttemptsWithinLimit
  <2>7. DOMAIN nodes \subseteq DOMAIN nodes' /\ up'
    BY <1>6 DEF Restart
  <2>8. \A r \in Requests : Known(r)' /\ Vacancy(r)'
    BY <1>2, <2>1, <2>7 DEF CounterInv, Known, Vacancy, Busy, Waiting
  <2>. QED
    BY <1>1, <1>2, <2>1, <2>9, <2>7, <2>8 DEF CounterInv
<1>. QED
  BY <1>4, <1>5, <1>6 DEF Registry, OnlyWriter, CliUpsert

\* A crash loses holders but no count, so the counter still covers them.
LEMMA CrashCounter == ASSUME CounterInv, Crash PROVE CounterInv'
<1>1. TypeInv' /\ TypeOK
  BY CrashType DEF CounterInv, TypeInv
<1>2. nodes' = nodes /\ jobs' = jobs /\ left' = left /\ at' = at
  BY DEF Crash, tables
<1>3. \A r \in Requests : pc'[r] \notin Busy \cup Waiting
  BY <1>1 DEF Crash, TypeOK, PCs, Busy, Waiting, Answered
<1>4. NoNewHolder
  BY <1>3 DEF NoNewHolder, Counted, Busy, Waiting
<1>5. CounterCovers' /\ FirstAttemptsWithinLimit'
  BY <1>1, <1>2, <1>4, CoverKept DEF CounterInv
<1>6. \A r \in Requests : Known(r)' /\ Vacancy(r)'
  BY <1>2, <1>3 DEF CounterInv, Known, Vacancy, Busy
<1>. QED
  BY <1>1, <1>3, <1>5, <1>6 DEF CounterInv

\* At the start nobody holds a slot.
LEMMA CounterInit == ASSUME OnlyWriter PROVE Init => CounterInv
<1>. SUFFICES ASSUME Init PROVE CounterInv
  OBVIOUS
<1>1. TypeInv
  BY InitType
<1>2. \A n \in DOMAIN nodes : Holders(n) = {} /\ {r \in Holders(n) : Len(jobs[r]) = 1} = {}
  BY DEF Init, Holders, Counted
<1>3. \A n \in DOMAIN nodes : nodes[n].jobs \in Nat /\ MaxJobs[nodes[n].inv] \in Nat
  BY GatewayAssumption DEF Init, FromConfig, OnlyWriter, Advert
<1>4. Cardinality({}) = 0
  BY FS_EmptySet
<1>5. ASSUME NEW n \in DOMAIN nodes
      PROVE  /\ Cardinality(Holders(n)) <= nodes[n].jobs
             /\ Cardinality({r \in Holders(n) : Len(jobs[r]) = 1}) <= MaxJobs[nodes[n].inv]
  <2>1. Holders(n) = {} /\ {r \in Holders(n) : Len(jobs[r]) = 1} = {}
    BY <1>2
  <2>2. 0 <= nodes[n].jobs /\ 0 <= MaxJobs[nodes[n].inv]
    BY <1>3
  <2>. QED
    BY <2>1, <2>2, <1>4
<1>7. CounterCovers /\ FirstAttemptsWithinLimit
  BY <1>5 DEF CounterCovers, FirstAttemptsWithinLimit
<1>6. \A r \in Requests : Known(r) /\ Vacancy(r)
  BY DEF Init, Known, Vacancy, Busy, Waiting
<1>. QED
  BY <1>1, <1>7, <1>6 DEF Init, CounterInv, Busy, Waiting

\* With the gateway as only writer the counter invariant is inductive.
LEMMA CounterNext == ASSUME OnlyWriter PROVE CounterInv /\ [Next]_vars => CounterInv'
<1>. SUFFICES ASSUME CounterInv, [Next]_vars PROVE CounterInv'
  OBVIOUS
<1>1. ASSUME NEW r \in Requests, Handle(r) PROVE CounterInv'
  BY <1>1, HandleCounter
<1>2. CASE Registry
  BY <1>2, RegistryCounter
<1>3. CASE Crash
  BY <1>3, CrashCounter
<1>4. CASE UNCHANGED vars
  <2>1. TypeInv'
    BY <1>4, NextType DEF CounterInv
  <2>2. NoNewHolder
    BY <1>4 DEF vars, NoNewHolder
  <2>3. CounterCovers' /\ FirstAttemptsWithinLimit'
    BY <1>4, <2>2, CoverKept DEF vars, CounterInv, TypeInv
  <2>. QED
    BY <1>4, <2>1, <2>3 DEF vars, CounterInv, Known, Vacancy
<1>. QED
  BY <1>1, <1>2, <1>3, <1>4 DEF Next, Registry, Idle

\* With the gateway as only writer the counter always covers the attempts in flight.
THEOREM CounterInvariant == ASSUME OnlyWriter PROVE Spec => []CounterInv
  BY CounterInit, CounterNext, PTL DEF Spec

(* Under leaks, crashes and writes that raise, current_jobs never          *)
(* understates the attempts in flight (delta_node_jobs and its callers).   *)
THEOREM CounterNeverUnderstates == ASSUME OnlyWriter PROVE Spec => []CounterCovers
<1>1. CounterInv => CounterCovers
  BY DEF CounterInv
<1>. QED
  BY <1>1, CounterInvariant, PTL

(* Routing and counting are two store writes apart, and the concurrency    *)
(* gate still holds for the requests a node is the first choice of.        *)
THEOREM ConcurrencyGate == ASSUME OnlyWriter PROVE Spec => []FirstAttemptsWithinLimit
<1>1. CounterInv => FirstAttemptsWithinLimit
  BY DEF CounterInv
<1>. QED
  BY <1>1, CounterInvariant, PTL

------------------------------------------------------------------------------
(***************************************************************************)
(* Completed and billed.  The two writes follow one another without an     *)
(* await, so only a write that raises or the end of the process can come   *)
(* between them; without those, a completed job is billed.                 *)
(***************************************************************************)
NoBreak == "crash" \notin Faults /\ "store" \notin Faults

CompletedOK(js, p) ==
  \A k \in 1 .. Len(js) : js[k].status = "completed" => js[k].bills = 1 \/ p = "bill"

BilledInv == BooksInv /\ \A r \in Requests : CompletedOK(jobs[r], pc[r])

(* The handler's own rows. *)
LEMMA HandleBilled ==
  ASSUME NoBreak, BilledInv, NEW r \in Requests, Handle(r)
  PROVE  CompletedOK(jobs'[r], pc'[r])
<1>. DEFINE js == jobs[r]
<1>1. /\ TypeOK /\ js \in Seq(Attempt) /\ Len(js) \in Nat
      /\ JobsOK(js, pc[r], left[r], at[r], verdict[r])
      /\ CompletedOK(js, pc[r])
      /\ Placed(r)
  <2>1. TypeOK /\ Placed(r) /\ JobsInv(r) /\ CompletedOK(js, pc[r])
    BY DEF BilledInv, BooksInv, TypeInv
  <2>2. js \in Seq(Attempt)
    BY <2>1 DEF TypeOK
  <2>. QED
    BY <2>1, <2>2 DEF JobsInv
<1>2. CASE jobs' = jobs /\ pc[r] # "bill"
  BY <1>1, <1>2 DEF CompletedOK
<1>3. CASE RateLimited(r) \/ TurnedAway(r) \/ Route(r) \/ Count(r)
  BY <1>2, <1>3 DEF RateLimited, TurnedAway, Route, Count, tables
<1>4. CASE Moves(r)
  <2>1. ~StoreRaises(r)
    BY DEF NoBreak, StoreRaises
  <2>2. pc[r] \in {"open", "await"} /\ jobs' = jobs
    BY <1>4, <2>1 DEF Moves, Open, AbandonStream, Reply, TransientError, PermanentError, Disconnect,
                      MalformedReply, tables
  <2>. QED
    BY <1>2, <2>2
<1>5. CASE Release(r) \/ Retry(r)
  BY <1>2, <1>5 DEF Release, Retry
<1>6. CASE Create(r)
  <2>. DEFINE job == [endpoint |-> at[r], status |-> "started", bills |-> 0]
  <2>1. jobs'[r] = Append(js, job) /\ pc[r] = "create"
    BY <1>1, <1>6 DEF Create, TypeOK
  <2>2. job \in Attempt
    BY <1>1, <2>1 DEF Attempt, Placed, Busy
  <2>3. /\ Len(jobs'[r]) = Len(js) + 1
        /\ \A k \in 1 .. Len(js) : jobs'[r][k] = js[k]
        /\ jobs'[r][Len(js) + 1] = job
    BY <1>1, <2>1, <2>2, AppendProperties
  <2>4. \A k \in 1 .. Len(js) : js[k].status = "error"
    BY <1>1, <2>1 DEF JobsOK, Unbilled
  <2>. QED
    BY <1>1, <2>3, <2>4 DEF CompletedOK
<1>7. CASE Complete(r)
  BY <1>1, <1>7 DEF Complete, Goto, TypeOK, CompletedOK
<1>8. CASE Fail(r)
  <2>1. jobs'[r] = Finished(js, "error") /\ Len(js) > 0 /\ pc[r] = "fail"
    BY <1>1, <1>8 DEF Fail, FinishJob, TypeOK, Placed, Busy, Waiting
  <2>2. /\ Len(jobs'[r]) = Len(js)
        /\ \A k \in 1 .. Len(js) : k # Len(js) => jobs'[r][k] = js[k]
        /\ jobs'[r][Len(js)].status = "error"
    <3>1. js \in Seq(Attempt) /\ Len(js) > 0
      BY <1>1, <2>1
    <3>2. /\ Len(Finished(js, "error")) = Len(js)
          /\ \A k \in 1 .. Len(js) : k # Len(js) => Finished(js, "error")[k] = js[k]
          /\ Finished(js, "error")[Len(js)].status = "error"
      BY <3>1, FinishFacts
    <3>. QED
      BY <2>1, <3>2
  <2>. QED
    BY <1>1, <2>1, <2>2 DEF CompletedOK
<1>9. CASE Bill(r)
  <2>1. jobs'[r] = Billed(js) /\ Len(js) > 0 /\ pc[r] = "bill" /\ js[Len(js)].bills = 0
    BY <1>1, <1>9 DEF Bill, TypeOK, Placed, Busy, Waiting, JobsOK
  <2>2. /\ Len(jobs'[r]) = Len(js)
        /\ \A k \in 1 .. Len(js) : k # Len(js) => jobs'[r][k] = js[k]
        /\ jobs'[r][Len(js)].bills = 1
    BY <1>1, <2>1, BillFacts
  <2>3. \A k \in 1 .. Len(js) : k # Len(js) => js[k].status = "error"
    <3>. SUFFICES ASSUME NEW k \in 1 .. Len(js), k # Len(js) PROVE js[k].status = "error"
      OBVIOUS
    <3>1. Len(js) \in 1 .. Len(js) /\ k \in 1 .. Len(js) - 1
      BY <1>1
    <3>. QED
      BY <1>1, <3>1 DEF JobsOK, Unbilled
  <2>. QED
    BY <2>2, <2>3 DEF CompletedOK
<1>. QED
  BY <1>3, <1>4, <1>5, <1>6, <1>7, <1>8, <1>9 DEF Handle, Moves

\* Without a break between the two writes, every step keeps them together.
LEMMA BilledNext == ASSUME NoBreak PROVE BilledInv /\ [Next]_vars => BilledInv'
<1>. SUFFICES ASSUME BilledInv, [Next]_vars PROVE BilledInv'
  OBVIOUS
<1>1. BooksInv /\ BooksInv' /\ TypeOK
  BY BooksNext DEF BilledInv, BooksInv, TypeInv
<1>2. ASSUME NEW r \in Requests, Handle(r), NEW q \in Requests PROVE CompletedOK(jobs'[q], pc'[q])
  <2>1. CASE q = r
    BY <1>2, <2>1, HandleBilled
  <2>2. CASE q # r
    BY <1>1, <1>2, <2>2, HandleFrame DEF BilledInv
  <2>. QED
    BY <2>1, <2>2
<1>3. ASSUME Registry \/ UNCHANGED vars, NEW q \in Requests PROVE CompletedOK(jobs'[q], pc'[q])
  BY <1>1, <1>3, RegistryFrame DEF vars, BilledInv
<1>4. ~Crash
  BY DEF NoBreak, Crash
<1>. QED
  BY <1>1, <1>2, <1>3, <1>4 DEF Next, Registry, Idle, BilledInv

(* As long as no write raises and the process lives, finish_job with       *)
(* "completed" and add_ledger_entries belong together: every completed job *)
(* is billed once its handler let go of the loop.                          *)
THEOREM BillingIsComplete == ASSUME NoBreak PROVE Spec => []CompletedIsBilled
<1>1. Init => BilledInv
  <2>1. Init => \A r \in Requests : CompletedOK(jobs[r], pc[r])
    BY DEF Init, CompletedOK
  <2>. QED
    BY <2>1, BooksInit DEF BilledInv
<1>2. BilledInv => CompletedIsBilled
  BY DEF BilledInv, CompletedOK, CompletedIsBilled
<1>. QED
  BY <1>1, <1>2, BilledNext, PTL DEF Spec

------------------------------------------------------------------------------
(***************************************************************************)
(* Quotas.  What is still to be billed of the requests in flight counts as *)
(* if every one of them cost MaxCost: that sum is below the quota and      *)
(* MaxCost times the peak when a request is routed, and no other step      *)
(* raises it, because billing a request takes it from the pending ones.    *)
(***************************************************************************)
IsPending(r) ==
  \/ pc[r] \in {"create", "count", "open", "await", "complete", "bill"}
  \/ pc[r] \in {"fail", "release"} /\ verdict[r] = "retry"

Pending(u) == {r \in Requests : Owner[r] = u /\ IsPending(r)}

WithinQuota(u) ==
  \/ used[u] = 0 /\ Pending(u) = {}
  \/ used[u] + MaxCost * Cardinality(Pending(u)) < Quota[u] + MaxCost * peak[u]

QuotaInv == TypeInv /\ \A u \in DOMAIN Quota \cap Users : WithinQuota(u)

(* Products with MaxCost, for the arithmetic below. *)
LEMMA CostGrows ==
  ASSUME NEW a \in Nat, NEW b \in Nat, a <= b
  PROVE  MaxCost * a \in Nat /\ MaxCost * a <= MaxCost * b
  BY GatewayAssumption

LEMMA OneCost ==
  ASSUME NEW a \in Nat
  PROVE  MaxCost * a \in Nat /\ MaxCost * (a + 1) = MaxCost * a + MaxCost
  BY GatewayAssumption

\* Only finitely many requests are pending.
LEMMA PendingFinite ==
  ASSUME NEW u PROVE IsFiniteSet(Pending(u)) /\ Cardinality(Pending(u)) \in Nat
<1>1. Pending(u) \in SUBSET Requests
  BY DEF Pending
<1>. QED
  BY <1>1, GatewayAssumption, FS_Subset, FS_CardinalityType

(* The types of the sums. *)
LEMMA QuotaTypes ==
  ASSUME TypeOK, NEW u \in DOMAIN Quota \cap Users
  PROVE  used[u] \in Nat /\ peak[u] \in Nat /\ Quota[u] \in Nat
  BY GatewayAssumption DEF TypeOK

(* A step after which nothing is pending that was not, and nothing billed. *)
NothingNew ==
  /\ \A r \in Requests : IsPending(r)' => IsPending(r)
  /\ UNCHANGED <<used, peak>>

LEMMA NothingNewKeeps ==
  ASSUME TypeOK, NothingNew, NEW u \in DOMAIN Quota \cap Users, WithinQuota(u)
  PROVE  WithinQuota(u)'
<1>1. Pending(u)' \in SUBSET Pending(u)
  BY DEF NothingNew, Pending
<1>2. CASE used[u] = 0 /\ Pending(u) = {}
  BY <1>1, <1>2 DEF NothingNew, WithinQuota
<1>3. CASE used[u] + MaxCost * Cardinality(Pending(u)) < Quota[u] + MaxCost * peak[u]
  <2>1. /\ Cardinality(Pending(u)) \in Nat /\ Cardinality(Pending(u)') \in Nat
        /\ Cardinality(Pending(u)') <= Cardinality(Pending(u))
    BY <1>1, PendingFinite, FS_Subset, FS_CardinalityType
  <2>2. /\ MaxCost * Cardinality(Pending(u)') <= MaxCost * Cardinality(Pending(u))
        /\ MaxCost * Cardinality(Pending(u)') \in Nat /\ MaxCost * Cardinality(Pending(u)) \in Nat
    BY <2>1, CostGrows
  <2>3. used[u] \in Nat /\ Quota[u] \in Nat /\ MaxCost * peak[u] \in Nat
    BY QuotaTypes, CostGrows
  <2>4. used[u] + MaxCost * Cardinality(Pending(u)') < Quota[u] + MaxCost * peak[u]
    BY <1>3, <2>2, <2>3
  <2>. QED
    BY <2>4 DEF NothingNew, WithinQuota
<1>. QED
  BY <1>2, <1>3 DEF WithinQuota

(* Only routing and billing change the sums. *)
LEMMA QuietHandler ==
  ASSUME TypeInv, NEW r \in Requests, Handle(r), ~Route(r), ~Bill(r)
  PROVE  NothingNew
<1>1. TypeOK
  BY DEF TypeInv
<1>2. \A q \in Requests \ {r} : pc'[q] = pc[q] /\ verdict'[q] = verdict[q]
  BY <1>1, HandleFrame
<1>3. UNCHANGED <<used, peak>> /\ (IsPending(r)' => IsPending(r))
  <2>1. CASE RateLimited(r) \/ TurnedAway(r)
    BY <1>1, <2>1 DEF RateLimited, TurnedAway, Goto, tables, TypeOK, IsPending
  <2>2. CASE Create(r) \/ Count(r)
    BY <1>1, <2>2 DEF Create, Count, Goto, registry, TypeOK, IsPending
  <2>3. CASE Open(r) \/ AbandonStream(r) \/ Reply(r) \/ MalformedReply(r)
    BY <1>1, <2>3 DEF Open, AbandonStream, Reply, MalformedReply, Goto, tables, TypeOK, IsPending
  <2>4. CASE TransientError(r) \/ PermanentError(r) \/ Disconnect(r)
    BY <1>1, <2>4 DEF TransientError, PermanentError, Disconnect, Goto, tables, TypeOK, IsPending
  <2>5. CASE StoreRaises(r)
    <3>1. verdict'[r] = "failed" /\ pc'[r] \in {"fail", "release", "lost", "failed"} /\ UNCHANGED <<used, peak>>
      BY <1>1, <2>5 DEF StoreRaises, Goto, tables, TypeOK
    <3>. QED
      BY <3>1 DEF IsPending
  <2>6. CASE Complete(r) \/ Fail(r)
    BY <1>1, <2>6 DEF Complete, Fail, Goto, registry, TypeOK, IsPending
  <2>7. CASE Release(r)
    <3>1. pc'[r] \in {"ok", "failed", "gone"} /\ UNCHANGED <<used, peak>>
      BY <1>1, <2>7 DEF Release, Goto, TypeOK
    <3>. QED
      BY <3>1 DEF IsPending
  <2>8. CASE Retry(r)
    BY <1>1, <2>8 DEF Retry, Goto, TypeOK, IsPending
  <2>. QED
    BY <2>1, <2>2, <2>3, <2>4, <2>5, <2>6, <2>7, <2>8 DEF Handle
<1>. QED
  BY <1>2, <1>3 DEF NothingNew, IsPending

(* Routing: the quota is not used up, and the peak counts this request. *)
LEMMA RouteQuota ==
  ASSUME QuotaInv, NEW r \in Requests, Route(r), NEW u \in DOMAIN Quota \cap Users
  PROVE  WithinQuota(u)'
<1>1. TypeOK
  BY DEF QuotaInv, TypeInv
<1>2. /\ pc' = [pc EXCEPT ![r] = "create"] /\ UNCHANGED <<used, verdict>>
      /\ pc[r] = "new"
  BY DEF Route, Goto, tables
<1>3. CASE u # Owner[r]
  <2>1. peak'[u] = peak[u]
    BY <1>1, <1>3, GatewayAssumption DEF Route, TypeOK
  <2>2. Pending(u)' = Pending(u)
    BY <1>1, <1>2, <1>3 DEF Pending, IsPending, TypeOK
  <2>. QED
    BY <1>2, <2>1, <2>2 DEF QuotaInv, WithinQuota
<1>4. CASE u = Owner[r]
  <2>. DEFINE n == Cardinality(InFlight(u)) + 1
  <2>1. peak'[u] \in Nat /\ n <= peak'[u] /\ n \in Nat
    <3>1. peak' = [peak EXCEPT ![u] = IF n > @ THEN n ELSE @]
      BY <1>4 DEF Route
    <3>2. n \in Nat /\ peak[u] \in Nat
      BY <1>1, InFlightFinite DEF TypeOK
    <3>. HIDE DEF n
    <3>. QED
      BY <1>1, <3>1, <3>2 DEF TypeOK
  <2>2. Pending(u)' \in SUBSET (InFlight(u) \cup {r})
    BY <1>1, <1>2 DEF Pending, IsPending, InFlight, Busy, Waiting, TypeOK
  <2>3. Cardinality(Pending(u)') \in Nat /\ Cardinality(Pending(u)') <= n
    <3>1. /\ IsFiniteSet(InFlight(u) \cup {r})
          /\ Cardinality(InFlight(u) \cup {r}) <= n
          /\ Cardinality(InFlight(u) \cup {r}) \in Nat
      <4>1. IsFiniteSet(InFlight(u)) /\ Cardinality(InFlight(u)) \in Nat
        BY InFlightFinite
      <4>2. /\ IsFiniteSet(InFlight(u) \cup {r})
            /\ Cardinality(InFlight(u) \cup {r}) =
                 IF r \in InFlight(u) THEN Cardinality(InFlight(u)) ELSE Cardinality(InFlight(u)) + 1
        BY <4>1, FS_AddElement
      <4>. QED
        BY <4>1, <4>2
    <3>2. IsFiniteSet(Pending(u)') /\ Cardinality(Pending(u)') <= Cardinality(InFlight(u) \cup {r})
      BY <2>2, <3>1, FS_Subset
    <3>. QED
      BY <2>1, <3>1, <3>2, FS_CardinalityType
  <2>. HIDE DEF n
  <2>4. Cardinality(Pending(u)') <= peak'[u]
    BY <2>1, <2>3
  <2>5. /\ MaxCost * Cardinality(Pending(u)') <= MaxCost * peak'[u]
        /\ MaxCost * Cardinality(Pending(u)') \in Nat /\ MaxCost * peak'[u] \in Nat
    BY <2>1, <2>3, <2>4, CostGrows
  <2>6. used[u] < Quota[u] /\ used[u] \in Nat /\ Quota[u] \in Nat
    BY <1>1, <1>4, QuotaTypes DEF Route, OverQuota
  <2>7. used[u] + MaxCost * Cardinality(Pending(u)') < Quota[u] + MaxCost * peak'[u]
    BY <2>5, <2>6
  <2>. QED
    BY <1>2, <2>7 DEF WithinQuota
<1>. QED
  BY <1>3, <1>4

(* Billing: what the request may cost becomes what it did cost. *)
LEMMA BillQuota ==
  ASSUME QuotaInv, NEW r \in Requests, Bill(r), NEW u \in DOMAIN Quota \cap Users
  PROVE  WithinQuota(u)'
<1>1. TypeOK /\ Owner[r] \in Users
  BY GatewayAssumption DEF QuotaInv, TypeInv
<1>2. /\ pc[r] = "bill" /\ pc'[r] = "release" /\ verdict'[r] = "ok" /\ peak' = peak
      /\ \A q \in Requests \ {r} : pc'[q] = pc[q] /\ verdict'[q] = verdict[q]
  BY <1>1 DEF Bill, Goto, TypeOK
<1>3. PICK c \in 0 .. MaxCost : used' = [used EXCEPT ![Owner[r]] = @ + c]
  BY DEF Bill
<1>4. CASE u # Owner[r]
  <2>1. Pending(u)' = Pending(u) /\ used'[u] = used[u]
    BY <1>1, <1>2, <1>3, <1>4 DEF Pending, IsPending, TypeOK
  <2>. QED
    BY <1>2, <2>1 DEF QuotaInv, WithinQuota
<1>5. CASE u = Owner[r]
  <2>1. r \in Pending(u) /\ Pending(u)' = Pending(u) \ {r}
    BY <1>2, <1>5 DEF Pending, IsPending
  <2>2. /\ Cardinality(Pending(u)') \in Nat
        /\ Cardinality(Pending(u)) = Cardinality(Pending(u)') + 1
    <3>1. IsFiniteSet(Pending(u)) /\ Cardinality(Pending(u)) \in Nat
      BY PendingFinite
    <3>2. IsFiniteSet(Pending(u) \ {r}) /\ Cardinality(Pending(u) \ {r}) = Cardinality(Pending(u)) - 1
      BY <2>1, <3>1, FS_RemoveElement
    <3>3. Cardinality(Pending(u) \ {r}) \in Nat
      BY <3>2, FS_CardinalityType
    <3>. QED
      BY <2>1, <3>1, <3>2, <3>3
  <2>3. used[u] + MaxCost * Cardinality(Pending(u)) < Quota[u] + MaxCost * peak[u]
    BY <2>1 DEF QuotaInv, WithinQuota
  <2>4. /\ MaxCost * Cardinality(Pending(u)) = MaxCost * Cardinality(Pending(u)') + MaxCost
        /\ MaxCost * Cardinality(Pending(u)') \in Nat
    BY <2>2, OneCost
  <2>5. used'[u] = used[u] + c /\ c \in Nat /\ c <= MaxCost /\ MaxCost \in Nat
    BY <1>1, <1>3, <1>5, GatewayAssumption DEF TypeOK
  <2>6. used[u] \in Nat /\ Quota[u] \in Nat /\ MaxCost * peak[u] \in Nat
    BY <1>1, QuotaTypes, CostGrows
  <2>7. used'[u] + MaxCost * Cardinality(Pending(u)') < Quota[u] + MaxCost * peak[u]
    BY <2>3, <2>4, <2>5, <2>6
  <2>. QED
    BY <1>2, <2>7 DEF WithinQuota
<1>. QED
  BY <1>4, <1>5

\* No step breaks the bound on what a user is and will be billed.
LEMMA QuotaNext == QuotaInv /\ [Next]_vars => QuotaInv'
<1>. SUFFICES ASSUME QuotaInv, [Next]_vars PROVE QuotaInv'
  OBVIOUS
<1>1. TypeInv /\ TypeOK /\ TypeInv'
  BY NextType DEF QuotaInv, TypeInv
<1>2. CASE NothingNew
  BY <1>1, <1>2, NothingNewKeeps DEF QuotaInv
<1>3. ASSUME NEW r \in Requests, Handle(r) PROVE QuotaInv'
  <2>1. CASE Route(r)
    BY <1>1, <2>1, RouteQuota DEF QuotaInv
  <2>2. CASE Bill(r)
    BY <1>1, <2>2, BillQuota DEF QuotaInv
  <2>3. CASE ~Route(r) /\ ~Bill(r)
    BY <1>1, <1>2, <1>3, <2>3, QuietHandler
  <2>. QED
    BY <2>1, <2>2, <2>3
<1>4. CASE Registry \/ UNCHANGED vars
  BY <1>1, <1>2, <1>4, RegistryFrame DEF vars, NothingNew, IsPending
<1>5. CASE Crash
  <2>1. \A r \in Requests : pc'[r] \in {pc[r], "crashed"}
    BY <1>5 DEF Crash
  <2>2. UNCHANGED <<used, peak, verdict>>
    BY <1>5 DEF Crash, tables
  <2>. QED
    BY <1>2, <2>1, <2>2 DEF NothingNew, IsPending
<1>. QED
  BY <1>3, <1>4, <1>5 DEF Next, Registry, Idle

\* At the start nothing is pending and nothing billed.
LEMMA QuotaInit == Init => QuotaInv
<1>. SUFFICES ASSUME Init PROVE QuotaInv
  OBVIOUS
<1>1. TypeInv
  BY InitType
<1>2. \A u \in Users : used[u] = 0 /\ Pending(u) = {}
  BY DEF Init, Pending, IsPending
<1>. QED
  BY <1>1, <1>2 DEF QuotaInv, WithinQuota

\* What users are and will be billed stays bounded in every reachable state.
THEOREM QuotaInvariant == Spec => []QuotaInv
  BY QuotaInit, QuotaNext, PTL DEF Spec

(* The quota check of chat_completions comes before the work and the bill  *)
(* after it; the overrun stays below MaxCost for each request a user ever  *)
(* had in flight at once, under every fault and interleaving.              *)
THEOREM OverrunIsBounded == Spec => []QuotaOverrunBounded
<1>1. ASSUME QuotaInv PROVE QuotaOverrunBounded
  <2>. SUFFICES ASSUME NEW u \in DOMAIN Quota \cap Users, used[u] > 0
                PROVE  used[u] < Quota[u] + MaxCost * peak[u]
    BY DEF QuotaOverrunBounded
  <2>1. used[u] \in Nat /\ peak[u] \in Nat /\ Quota[u] \in Nat
    BY <1>1, QuotaTypes DEF QuotaInv, TypeInv
  <2>2. used[u] + MaxCost * Cardinality(Pending(u)) < Quota[u] + MaxCost * peak[u]
    BY <1>1, <2>1 DEF QuotaInv, WithinQuota
  <2>3. MaxCost * Cardinality(Pending(u)) \in Nat /\ MaxCost * peak[u] \in Nat
    BY <2>1, PendingFinite, CostGrows
  <2>. QED
    BY <2>1, <2>2, <2>3
<1>. QED
  BY <1>1, QuotaInvariant, PTL

------------------------------------------------------------------------------
(***************************************************************************)
(* Signs of life.  No row is newer than the last sign of life of its node, *)
(* neither in the table nor in the hands of a probe: what a probe writes   *)
(* back is at most as new as what it overwrites was when it was read.      *)
(***************************************************************************)
NotNewer(rows) == \A n \in DOMAIN rows : rows[n].seen <= heard[n]

HeardInv ==
  /\ TypeInv
  /\ \A n \in Nodes : heard[n] <= now
  /\ NotNewer(nodes)
  /\ \A p \in Loops \cup Probers : NotNewer(batch[p])

(* A row of a table and what is compared with it are numbers. *)
LEMMA SeenType ==
  ASSUME NEW rows, IsTable(rows), NEW n \in DOMAIN rows
  PROVE  n \in Nodes /\ rows[n] \in Row /\ rows[n].seen \in Nat
  BY DEF IsTable, Row

(* Rows stay old when signs of life only get newer. *)
LEMMA NotNewerKept ==
  ASSUME TypeOK, TypeOK', NEW rows, IsTable(rows), NotNewer(rows),
         \A n \in Nodes : heard[n] <= heard'[n]
  PROVE  \A n \in DOMAIN rows : rows[n].seen <= heard'[n]
<1>. SUFFICES ASSUME NEW n \in DOMAIN rows PROVE rows[n].seen <= heard'[n]
  OBVIOUS
<1>1. n \in Nodes /\ rows[n].seen \in Nat
  BY SeenType
<1>2. heard[n] \in Nat /\ heard'[n] \in Nat
  BY <1>1 DEF TypeOK
<1>. QED
  BY <1>1, <1>2 DEF NotNewer

(* ... and when one of them is replaced by a row that is not newer. *)
LEMMA UpsertNotNewer ==
  ASSUME TypeOK, TypeOK', NotNewer(nodes), \A n \in Nodes : heard[n] <= heard'[n],
         NEW n \in Nodes, NEW row, Upsert(n, row), row.seen <= heard'[n]
  PROVE  NotNewer(nodes)'
<1>1. \A m \in DOMAIN nodes : nodes[m].seen <= heard'[m]
  BY NotNewerKept DEF TypeOK
<1>. QED
  BY <1>1 DEF Upsert, NotNewer

(* What every step does to the rows, the probes and the signs of life. *)
LEMMA HandleRows ==
  ASSUME TypeOK, NEW r \in Requests, Handle(r)
  PROVE  /\ UNCHANGED <<now, heard, batch>>
         /\ nodes' = nodes \/ \E n : \E d \in {-1, 1} : DeltaJobs(n, d)
<1>1. CASE RateLimited(r) \/ TurnedAway(r) \/ Route(r) \/ Create(r)
  BY <1>1 DEF RateLimited, TurnedAway, Route, Create, tables, registry
<1>2. CASE Moves(r)
  BY <1>2 DEF Moves, Open, AbandonStream, Reply, TransientError, PermanentError, Disconnect,
              MalformedReply, StoreRaises, tables
<1>3. CASE Complete(r) \/ Bill(r) \/ Fail(r)
  BY <1>3 DEF Complete, Bill, Fail, registry
<1>4. CASE Count(r) \/ Release(r) \/ Retry(r)
  BY <1>4 DEF Count, Release, Retry
<1>. QED
  BY <1>1, <1>2, <1>3, <1>4 DEF Handle, Moves

(* Counting a job says nothing of the node's life. *)
LEMMA DeltaSeen ==
  ASSUME IsTable(nodes), NotNewer(nodes), heard' = heard, NEW n, NEW d \in {-1, 1}, DeltaJobs(n, d)
  PROVE  NotNewer(nodes)'
<1>1. DOMAIN nodes' = DOMAIN nodes
  BY DeltaType
<1>2. ASSUME NEW m \in DOMAIN nodes PROVE nodes'[m].seen = nodes[m].seen
  <2>1. nodes[m] \in Row
    BY DEF IsTable
  <2>2. CASE m = n
    <3>1. nodes'[m] = [nodes[m] EXCEPT !.jobs = Clamped(@ + d)]
      BY <2>2 DEF DeltaJobs, IsTable
    <3>. QED
      BY <2>1, <3>1 DEF Row
  <2>3. CASE m # n
    BY <2>3 DEF DeltaJobs, IsTable
  <2>. QED
    BY <2>2, <2>3
<1>. QED
  BY <1>1, <1>2 DEF NotNewer

(* A handler's step. *)
LEMMA HandleHeard == ASSUME HeardInv, NEW r \in Requests, Handle(r) PROVE HeardInv'
<1>1. TypeOK /\ TypeInv'
  BY HandleType DEF HeardInv, TypeInv
<1>2. UNCHANGED <<now, heard, batch>>
  BY <1>1, HandleRows
<1>3. NotNewer(nodes)'
  <2>1. CASE nodes' = nodes
    BY <1>2, <2>1 DEF HeardInv, NotNewer
  <2>2. CASE \E n : \E d \in {-1, 1} : DeltaJobs(n, d)
    BY <1>1, <1>2, <2>2, DeltaSeen DEF HeardInv, TypeOK
  <2>. QED
    BY <1>1, <2>1, <2>2, HandleRows
<1>. QED
  BY <1>1, <1>2, <1>3 DEF HeardInv, NotNewer

(* A probe reads rows and writes them back; both are as old as they were. *)
LEMMA ProbeHeard ==
  ASSUME HeardInv, NEW p \in Loops \cup Probers, Probe(p) PROVE HeardInv'
<1>1. TypeOK /\ TypeOK' /\ TypeInv'
  <2>1. TypeInv'
    BY RegistryType DEF HeardInv, Registry
  <2>. QED
    BY <2>1 DEF HeardInv, TypeInv
<1>2. /\ UNCHANGED <<now, heard>>
      /\ \A q \in (Loops \cup Probers) \ {p} : batch'[q] = batch[q]
  BY <1>1 DEF Probe, ProbeLoop, ProbeNode, ProbeWrite, ProbeRaises, request, tables, TypeOK
<1>3. \A n \in Nodes : heard[n] <= heard'[n]
  BY <1>1, <1>2 DEF TypeOK
<1>4. NotNewer(nodes)' /\ NotNewer(batch[p])'
  <2>1. CASE ProbeLoop(p) \/ ProbeRaises(p)
    <3>1. nodes' = nodes /\ batch'[p] \in {nodes, NoRows}
      BY <1>1, <2>1 DEF ProbeLoop, ProbeRaises, TypeOK, tables
    <3>. QED
      BY <1>2, <3>1 DEF HeardInv, NotNewer, NoRows
  <2>2. ASSUME NEW n \in Nodes, ProbeNode(p, n) PROVE NotNewer(nodes)' /\ NotNewer(batch[p])'
    <3>1. nodes' = nodes /\ n \in DOMAIN nodes /\ batch'[p] = [m \in {n} |-> nodes[m]]
      BY <1>1, <2>2 DEF ProbeNode, TypeOK, tables
    <3>. QED
      BY <1>2, <3>1 DEF HeardInv, NotNewer
  <2>3. ASSUME NEW n \in Nodes, ProbeWrite(p, n) PROVE NotNewer(nodes)' /\ NotNewer(batch[p])'
    <3>1. /\ n \in DOMAIN batch[p] /\ Upsert(n, batch[p][n])
          /\ batch'[p] = Without(batch[p], n)
      BY <1>1, <2>3 DEF ProbeWrite, TypeOK
    <3>2. batch[p][n].seen <= heard'[n]
      BY <1>2, <3>1 DEF HeardInv, NotNewer
    <3>3. NotNewer(nodes)'
      BY <1>1, <1>3, <3>1, <3>2, UpsertNotNewer DEF HeardInv
    <3>. QED
      BY <1>2, <3>1, <3>3 DEF HeardInv, NotNewer, Without
  <2>. QED
    BY <2>1, <2>2, <2>3 DEF Probe
<1>. QED
  BY <1>1, <1>2, <1>4 DEF HeardInv, NotNewer

(* A sign of life: the row of n is as new as the clock. *)
LEMMA SignOfLife ==
  ASSUME HeardInv, TypeInv', NEW n \in Nodes, NEW row, Upsert(n, row), row.seen = now,
         heard' = [heard EXCEPT ![n] = now], UNCHANGED <<now, batch>>
  PROVE  HeardInv'
<1>1. TypeOK /\ TypeOK' /\ now \in Nat /\ heard \in [Nodes -> Nat]
  BY DEF HeardInv, TypeInv, TypeOK
<1>2. \A m \in Nodes : heard[m] <= heard'[m] /\ heard'[m] <= now'
  BY <1>1 DEF HeardInv
<1>3. NotNewer(nodes)'
  BY <1>1, <1>2, UpsertNotNewer DEF HeardInv
<1>4. ASSUME NEW p \in Loops \cup Probers PROVE NotNewer(batch[p])'
  BY <1>1, <1>2, NotNewerKept DEF HeardInv, TypeOK, NotNewer
<1>. QED
  BY <1>2, <1>3, <1>4 DEF HeardInv

(* The steps of the registry. *)
LEMMA RegistryHeard == ASSUME HeardInv, Registry PROVE HeardInv'
<1>1. TypeOK /\ TypeInv' /\ TypeOK'
  BY RegistryType DEF HeardInv, TypeInv
<1>2. ASSUME NEW post \in Postings, Register(post) PROVE HeardInv'
  <2>1. post.node \in Nodes
    BY GatewayAssumption DEF Posting
  <2>. DEFINE row == [status |-> post.status, jobs |-> post.jobs, seen |-> now, inv |-> post.inv]
  <2>2. Upsert(post.node, row) /\ heard' = [heard EXCEPT ![post.node] = now] /\ UNCHANGED <<now, batch>>
    BY <1>2 DEF Register
  <2>3. row.seen = now
    OBVIOUS
  <2>. HIDE DEF row
  <2>. QED
    BY <1>1, <2>1, <2>2, <2>3, SignOfLife
<1>3. ASSUME NEW beat \in Beats, Heartbeat(beat) PROVE HeardInv'
  <2>1. beat.node \in Nodes /\ nodes[beat.node] \in Row
    BY <1>1, <1>3, GatewayAssumption DEF Heartbeat, Beat, TypeOK, IsTable
  <2>. DEFINE row == [nodes[beat.node] EXCEPT
                       !.seen = now,
                       !.status = IF beat.status = None THEN @ ELSE beat.status,
                       !.jobs = IF beat.jobs = None THEN @ ELSE Clamped(beat.jobs)]
  <2>2. Upsert(beat.node, row) /\ heard' = [heard EXCEPT ![beat.node] = now] /\ UNCHANGED <<now, batch>>
    BY <1>3 DEF Heartbeat
  <2>3. row.seen = now
    BY <2>1 DEF Row
  <2>. HIDE DEF row
  <2>. QED
    BY <1>1, <2>1, <2>2, <2>3, SignOfLife
<1>4. ASSUME NEW n \in Nodes, CliUpsert(n) PROVE HeardInv'
  <2>1. Upsert(n, FromConfig(n)) /\ heard' = [heard EXCEPT ![n] = now] /\ UNCHANGED <<now, batch>>
    BY <1>4 DEF CliUpsert
  <2>2. FromConfig(n).seen = now
    BY DEF FromConfig
  <2>. QED
    BY <1>1, <2>1, <2>2, SignOfLife
<1>5. CASE Restart
  <2>1. /\ UNCHANGED <<now, batch>> /\ now \in Nat /\ heard \in [Nodes -> Nat]
        /\ heard' = [n \in Nodes |-> IF n \in Configured THEN now ELSE heard[n]]
    BY <1>1, <1>5 DEF Restart, TypeOK
  <2>2. \A m \in Nodes : heard[m] <= heard'[m] /\ heard'[m] <= now'
    BY <2>1 DEF HeardInv
  <2>3. ASSUME NEW n \in DOMAIN nodes' PROVE nodes'[n].seen <= heard'[n]
    <3>1. CASE n \in Configured
      <4>1. nodes'[n].seen = now /\ heard'[n] = now
        BY <1>5, <2>1, <3>1, ConfigType DEF Restart, FromConfig
      <4>. QED
        BY <2>1, <4>1
    <3>2. CASE n \notin Configured
      <4>1. n \in DOMAIN nodes /\ nodes'[n] = nodes[n]
        BY <1>5, <3>2 DEF Restart
      <4>. QED
        BY <1>1, <2>2, <4>1, NotNewerKept DEF HeardInv, TypeOK
    <3>. QED
      BY <3>1, <3>2
  <2>4. ASSUME NEW p \in Loops \cup Probers PROVE NotNewer(batch[p])'
    BY <1>1, <2>1, <2>2, NotNewerKept DEF HeardInv, TypeOK, NotNewer
  <2>. QED
    BY <1>1, <2>2, <2>3, <2>4 DEF HeardInv, NotNewer
<1>6. CASE Tick
  <2>1. UNCHANGED <<nodes, heard, batch>> /\ now' = now + 1
    BY <1>6 DEF Tick, tables
  <2>2. \A n \in Nodes : heard'[n] <= now'
    BY <1>1, <2>1 DEF HeardInv, TypeOK
  <2>. QED
    BY <1>1, <2>1, <2>2 DEF HeardInv, NotNewer
<1>. QED
  BY <1>2, <1>3, <1>4, <1>5, <1>6, ProbeHeard DEF Registry

\* No row is ever newer than its node's last sign of life.
LEMMA HeardNext == HeardInv /\ [Next]_vars => HeardInv'
<1>. SUFFICES ASSUME HeardInv, [Next]_vars PROVE HeardInv'
  OBVIOUS
<1>1. CASE Crash
  <2>1. TypeInv'
    BY <1>1, CrashType DEF HeardInv
  <2>2. UNCHANGED <<now, nodes, heard>> /\ batch' = [p \in Loops \cup Probers |-> NoRows]
    BY <1>1 DEF Crash, tables
  <2>. QED
    BY <2>1, <2>2 DEF HeardInv, NotNewer, NoRows
<1>2. CASE UNCHANGED vars
  <2>1. TypeInv'
    BY <1>2, NextType DEF HeardInv
  <2>. QED
    BY <1>2, <2>1 DEF HeardInv, NotNewer, vars
<1>. QED
  BY <1>1, <1>2, HandleHeard, RegistryHeard DEF Next, Registry, Idle

\* At the start every configured node has just given a sign of life.
LEMMA HeardInit == Init => HeardInv
<1>. SUFFICES ASSUME Init PROVE HeardInv
  OBVIOUS
<1>1. TypeInv
  BY InitType
<1>. QED
  BY <1>1, GatewayAssumption DEF Init, FromConfig, HeardInv, NotNewer, NoRows

\* Every reachable state has only rows as old as the signs of life.
THEOREM HeardInvariant == Spec => []HeardInv
  BY HeardInit, HeardNext, PTL DEF Spec

(* Scheduler.route drops a node that gave no sign of life for longer than  *)
(* the TTL, whatever the probes write back meanwhile, for every timing of  *)
(* heartbeats, probes, restarts and the command line tool.                 *)
THEOREM SilentNodesAreDropped == Spec => SilentNodesNotRouted
<1>. DEFINE Alive(r) == \A e \in {at'[r]} \cup left'[r] :
                          Host[e] = LocalNode \/ now - heard[Host[e]] <= TTL
<1>1. ASSUME HeardInv, NEW r \in Requests, Route(r), TTL > 0 PROVE Alive(r)
  <2>1. TypeOK
    BY <1>1 DEF HeardInv, TypeInv
  <2>2. {at'[r]} \cup left'[r] \subseteq Candidates(r)
    BY <1>1, <2>1 DEF Route, TypeOK
  <2>3. ASSUME NEW e \in Candidates(r) PROVE Host[e] = LocalNode \/ now - heard[Host[e]] <= TTL
    <3>. DEFINE n == Host[e]
    <3>1. n \in DOMAIN nodes /\ ~Stale(n)
      BY DEF Candidates, Routable
    <3>2. n \in Nodes /\ nodes[n].seen \in Nat
      BY <2>1, <3>1, SeenType DEF TypeOK
    <3>3. n = LocalNode \/ ~(now - nodes[n].seen > TTL)
      BY ONLY <1>1, <3>1, Zenon DEF Stale
    <3>4. nodes[n].seen <= heard[n] /\ heard[n] \in Nat
      BY <1>1, <2>1, <3>1, <3>2 DEF HeardInv, NotNewer, TypeOK
    <3>5. now \in Nat /\ TTL \in Nat
      BY <2>1, GatewayAssumption DEF TypeOK
    <3>. HIDE DEF n
    <3>6. n = LocalNode \/ now - heard[n] <= TTL
      BY <3>2, <3>3, <3>4, <3>5
    <3>. QED
      BY <3>6 DEF n
  <2>. QED
    BY <2>2, <2>3
<1>2. HeardInv /\ [Next]_vars =>
        [\A r \in Requests : Route(r) /\ TTL > 0 => Alive(r)]_vars
  BY <1>1
<1>. QED
  BY <1>2, HeardInvariant, PTL DEF Spec, SilentNodesNotRouted

------------------------------------------------------------------------------
(* Part G: the gateway implements SlotPool.                                *)

Slots == [r \in Requests |-> SlotOf(r)]
Counts == [n \in DOMAIN nodes |-> nodes[n].jobs]

(* The configured rows never disappear, so a restart adds no row. *)
PoolInv == CounterInv /\ DOMAIN nodes = Configured

(* What the pool sees of the rows: the same rows with the same counts. *)
SameCounts ==
  DOMAIN nodes' = DOMAIN nodes /\ \A n \in DOMAIN nodes : nodes'[n].jobs = nodes[n].jobs

(* The step of a handler as the pool sees the other handlers. *)
LEMMA OthersKeepSlots ==
  ASSUME TypeOK, NEW r \in Requests, Handle(r), NEW q \in Requests \ {r}
  PROVE  SlotOf(q)' = SlotOf(q)
  BY HandleFrame DEF SlotOf

(* A step that neither moves a slot nor touches a count is a stutter. *)
LEMMA Quiet ==
  ASSUME SameCounts, \A r \in Requests : SlotOf(r)' = SlotOf(r)
  PROVE  UNCHANGED <<Slots, Counts>>
  BY DEF SameCounts, Slots, Counts

(* A handler that ends with its slot, or without having taken one. *)
LEMMA DisappearStep ==
  ASSUME SameCounts, NEW S \in SUBSET Requests,
         \A r \in Requests : SlotOf(r)' = IF r \in S THEN "gone" ELSE SlotOf(r)
  PROVE  Pool!Next
<1>1. Counts' = Counts
  BY DEF SameCounts, Counts
<1>2. Slots' = [r \in Requests |-> IF r \in S THEN "gone" ELSE Slots[r]]
  BY DEF Slots
<1>3. Pool!Disappear(S)
  BY <1>1, <1>2 DEF Pool!Disappear, Slots, Counts
<1>. QED
  BY <1>3 DEF Pool!Next

(* delta_node_jobs(+1) after create_job takes a slot. *)
LEMMA TakeStep == ASSUME PoolInv, NEW r \in Requests, Count(r) PROVE Pool!Next
<1>1. /\ TypeOK /\ pc[r] = "count" /\ at' = at
      /\ pc' = [pc EXCEPT ![r] = IF r \in Streaming THEN "open" ELSE "await"]
      /\ Host[at[r]] \in DOMAIN nodes /\ DeltaJobs(Host[at[r]], 1)
  BY DEF PoolInv, CounterInv, TypeInv, Known, Count, Goto, Busy
<1>. PICK h \in DOMAIN nodes : h = Host[at[r]]
  BY <1>1
<1>2. h \in Nodes /\ nodes[h].jobs \in Nat
  BY <1>1, RowFacts DEF PoolInv, CounterInv
<1>3. /\ DOMAIN nodes' = DOMAIN nodes
      /\ \A n \in DOMAIN nodes : n # h => nodes'[n].jobs = nodes[n].jobs
      /\ nodes'[h].jobs = nodes[h].jobs + 1
  <2>1. /\ DOMAIN nodes' = DOMAIN nodes
        /\ \A n \in DOMAIN nodes : n # h => nodes'[n].jobs = nodes[n].jobs
        /\ nodes'[h].jobs = Clamped(nodes[h].jobs + 1)
    BY <1>1, DeltaFacts
  <2>. QED
    BY <1>2, <2>1 DEF Clamped
<1>4. Counts' = [Counts EXCEPT ![h] = @ + 1] /\ h \in DOMAIN Counts
  BY <1>3 DEF Counts
<1>5. SlotOf(r) = None /\ SlotOf(r)' = h
  BY <1>1 DEF SlotOf, Counted, TypeOK
<1>6. Handle(r)
  BY DEF Handle
<1>7. Slots' = [Slots EXCEPT ![r] = h] /\ Slots[r] = None
  BY <1>1, <1>5, <1>6, OthersKeepSlots DEF Slots
<1>8. Pool!Take(r, h)
  BY <1>4, <1>7 DEF Pool!Take, Slots, Counts
<1>. QED
  BY <1>2, <1>8 DEF Pool!Next

(* delta_node_jobs(-1) gives back the slot that was taken, which is still  *)
(* counted: the clamp at zero has no effect.                               *)
LEMMA GiveBackStep ==
  ASSUME PoolInv, NEW r \in Requests, Release(r) \/ Retry(r) PROVE Pool!Next
<1>1. /\ TypeOK /\ CounterCovers /\ pc[r] = "release"
      /\ Host[at[r]] \in DOMAIN nodes /\ DeltaJobs(Host[at[r]], -1)
      /\ pc'[r] \in {"ok", "failed", "gone", "create"}
  <2>1. TypeOK /\ Known(r) /\ CounterCovers
    BY DEF PoolInv, CounterInv, TypeInv
  <2>2. CASE Release(r)
    BY <2>1, <2>2 DEF Release, Goto, TypeOK, Known, Busy
  <2>3. CASE Retry(r)
    BY <2>1, <2>3 DEF Retry, Goto, TypeOK, Known, Busy
  <2>. QED
    BY <2>2, <2>3
<1>. PICK h \in DOMAIN nodes : h = Host[at[r]]
  BY <1>1
<1>2. nodes[h].jobs \in Nat /\ nodes[h].jobs > 0
  <2>1. nodes[h].jobs \in Nat /\ Cardinality(Holders(h)) <= nodes[h].jobs
    BY <1>1, RowFacts DEF CounterCovers
  <2>2. r \in Holders(h) /\ IsFiniteSet(Holders(h)) /\ Cardinality(Holders(h)) \in Nat
    BY <1>1, HoldersFinite DEF Holders, Counted
  <2>3. Cardinality(Holders(h)) # 0
    BY <2>2, FS_EmptySet
  <2>. QED
    BY <2>1, <2>2, <2>3
<1>3. /\ DOMAIN nodes' = DOMAIN nodes
      /\ \A n \in DOMAIN nodes : n # h => nodes'[n].jobs = nodes[n].jobs
      /\ nodes'[h].jobs = nodes[h].jobs - 1
  <2>1. /\ DOMAIN nodes' = DOMAIN nodes
        /\ \A n \in DOMAIN nodes : n # h => nodes'[n].jobs = nodes[n].jobs
        /\ nodes'[h].jobs = Clamped(nodes[h].jobs + (-1))
    BY <1>1, DeltaFacts
  <2>. QED
    BY <1>2, <2>1 DEF Clamped
<1>4. Counts' = [Counts EXCEPT ![h] = @ - 1] /\ h \in DOMAIN Counts /\ Counts[h] > 0
  BY <1>2, <1>3 DEF Counts
<1>5. SlotOf(r) = h /\ SlotOf(r)' = None
  BY <1>1 DEF SlotOf, Counted
<1>6. Handle(r)
  BY DEF Handle
<1>7. Slots' = [Slots EXCEPT ![r] = None] /\ Slots[r] = h
  BY <1>1, <1>5, <1>6, OthersKeepSlots DEF Slots
<1>8. Pool!GiveBack(r)
  BY <1>4, <1>7 DEF Pool!GiveBack, Slots, Counts
<1>. QED
  BY <1>8 DEF Pool!Next

(* A step of a handler between taking a slot and giving it back: it keeps  *)
(* what it has, or ends without giving it back.                            *)
LEMMA MovesSlots ==
  ASSUME PoolInv, NEW r \in Requests, Moves(r)
  PROVE  Pool!Next \/ UNCHANGED <<Slots, Counts>>
<1>1. TypeInv /\ TypeOK /\ Handle(r)
  BY DEF PoolInv, CounterInv, TypeInv, Handle, Moves
<1>2. SameCounts /\ at' = at
  BY <1>1, MovesFacts DEF SameCounts
<1>3. \/ pc[r] \in Counted /\ pc'[r] \in Counted \cup {"lost"}
      \/ pc[r] \in {"create", "count"} /\ pc'[r] = "failed"
  <2>1. CASE Open(r) \/ AbandonStream(r) \/ Reply(r) \/ TransientError(r) \/ PermanentError(r)
             \/ Disconnect(r) \/ MalformedReply(r)
    BY <1>1, <2>1 DEF Open, AbandonStream, Reply, TransientError, PermanentError, Disconnect,
                      MalformedReply, Goto, TypeOK, Counted
  <2>2. CASE StoreRaises(r)
    BY <1>1, <2>2 DEF StoreRaises, Goto, TypeOK, Counted, Busy
  <2>. QED
    BY <2>1, <2>2 DEF Moves
<1>4. CASE SlotOf(r)' = SlotOf(r)
  <2>1. \A q \in Requests : SlotOf(q)' = SlotOf(q)
    BY <1>1, <1>4, OthersKeepSlots
  <2>. QED
    BY <1>2, <2>1, Quiet
<1>5. CASE SlotOf(r)' # SlotOf(r)
  <2>1. SlotOf(r)' = "gone"
    BY <1>2, <1>3, <1>5 DEF SlotOf, Counted
  <2>2. \A q \in Requests : SlotOf(q)' = IF q \in {r} THEN "gone" ELSE SlotOf(q)
    BY <1>1, <2>1, OthersKeepSlots
  <2>. QED
    BY <1>2, <2>2, DisappearStep
<1>. QED
  BY <1>4, <1>5

(* A step of a handler. *)
LEMMA HandleSlots ==
  ASSUME PoolInv, NEW r \in Requests, Handle(r)
  PROVE  Pool!Next \/ UNCHANGED <<Slots, Counts>>
<1>1. TypeInv /\ TypeOK
  BY DEF PoolInv, CounterInv, TypeInv
<1>2. ASSUME nodes' = nodes, SlotOf(r)' = SlotOf(r) PROVE UNCHANGED <<Slots, Counts>>
  <2>1. \A q \in Requests : SlotOf(q)' = SlotOf(q)
    BY <1>1, <1>2, OthersKeepSlots
  <2>. QED
    BY <1>2, <2>1, Quiet DEF SameCounts
<1>3. CASE RateLimited(r) \/ TurnedAway(r) \/ Route(r) \/ Create(r)
  <2>1. nodes' = nodes /\ pc[r] \in {"new", "create"} /\ pc'[r] \in {"denied", "create", "count"}
    BY <1>1, <1>3 DEF RateLimited, TurnedAway, Route, Create, Goto, tables, registry, TypeOK
  <2>2. SlotOf(r)' = SlotOf(r)
    BY <2>1 DEF SlotOf, Counted
  <2>. QED
    BY <1>2, <2>1, <2>2
<1>4. CASE Count(r)
  BY <1>4, TakeStep
<1>5. CASE Moves(r)
  BY <1>5, MovesSlots
<1>6. CASE Complete(r) \/ Fail(r) \/ Bill(r)
  <2>1. /\ nodes' = nodes /\ at' = at
        /\ pc[r] \in {"complete", "fail", "bill"} /\ pc'[r] \in {"bill", "release"}
    BY <1>1, <1>6 DEF Complete, Fail, Bill, Goto, registry, TypeOK
  <2>2. SlotOf(r)' = SlotOf(r)
    BY <2>1 DEF SlotOf, Counted
  <2>. QED
    BY <1>2, <2>1, <2>2
<1>7. CASE Release(r) \/ Retry(r)
  BY <1>7, GiveBackStep
<1>. QED
  BY <1>3, <1>4, <1>5, <1>6, <1>7 DEF Handle, Moves

(* The registry: only a restart touches a count, and resets it. *)
LEMMA RegistrySlots ==
  ASSUME OnlyWriter, PoolInv, Registry
  PROVE  (Pool!Next \/ UNCHANGED <<Slots, Counts>>) /\ DOMAIN nodes' = Configured
<1>1. TypeInv /\ TypeOK
  BY DEF PoolInv, CounterInv, TypeInv
<1>2. UNCHANGED <<pc, at>>
  BY <1>1, RegistryFrame
<1>3. \A r \in Requests : SlotOf(r)' = SlotOf(r)
  BY <1>2 DEF SlotOf
<1>4. ASSUME SameCounts
      PROVE  (Pool!Next \/ UNCHANGED <<Slots, Counts>>) /\ DOMAIN nodes' = Configured
  BY <1>3, <1>4, Quiet DEF SameCounts, PoolInv
<1>5. ASSUME NEW beat \in Beats, Heartbeat(beat) PROVE SameCounts
  <2>1. beat.node \in DOMAIN nodes /\ beat.jobs = None
    BY <1>5 DEF Heartbeat, OnlyWriter
  <2>2. nodes[beat.node] \in Row
    BY <1>1, <2>1 DEF TypeOK, IsTable
  <2>3. /\ DOMAIN nodes' = DOMAIN nodes
        /\ \A n \in DOMAIN nodes : n # beat.node => nodes'[n] = nodes[n]
        /\ nodes'[beat.node] = [nodes[beat.node] EXCEPT
             !.seen = now, !.status = IF beat.status = None THEN @ ELSE beat.status, !.jobs = @]
    BY <1>5, <2>1 DEF Heartbeat, Upsert
  <2>4. nodes'[beat.node].jobs = nodes[beat.node].jobs
    BY <2>2, <2>3 DEF Row
  <2>. QED
    BY <2>3, <2>4 DEF SameCounts
<1>6. CASE Tick
  BY <1>4, <1>6 DEF Tick, tables, SameCounts
<1>7. CASE Restart
  <2>1. \A r \in Requests : pc[r] \notin Counted
    BY <1>7 DEF Restart, PoolInv, CounterInv, Counted, Busy, Waiting
  <2>2. \A r \in Requests : Slots[r] \in {None, "gone"}
    BY <2>1 DEF Slots, SlotOf
  <2>3. /\ DOMAIN nodes' = DOMAIN nodes
        /\ \A n \in DOMAIN nodes : nodes'[n].jobs = 0
    BY <1>7 DEF Restart, PoolInv, FromConfig, OnlyWriter
  <2>4. Counts' = [n \in DOMAIN Counts |-> IF n \in Nodes THEN 0 ELSE Counts[n]]
    BY <1>1, <2>3 DEF Counts, TypeOK, IsTable
  <2>5. Slots' = Slots
    BY <1>3 DEF Slots
  <2>6. Pool!Reset(Nodes)
    BY <2>2, <2>4, <2>5 DEF Pool!Reset, Slots, Counts
  <2>7. Pool!Next
    BY <2>6 DEF Pool!Next
  <2>. QED
    BY <2>3, <2>7 DEF PoolInv
<1>. QED
  BY <1>4, <1>5, <1>6, <1>7 DEF Registry, OnlyWriter, CliUpsert

(* A crash takes every handler along, with or without a slot. *)
LEMMA CrashSlots == ASSUME PoolInv, Crash PROVE Pool!Next
<1>. DEFINE S == {r \in Requests : pc[r] \in Busy \cup Waiting}
<1>1. TypeOK /\ nodes' = nodes /\ at' = at
  BY DEF PoolInv, CounterInv, TypeInv, Crash, tables
<1>2. \A r \in Requests : SlotOf(r)' = IF r \in S THEN "gone" ELSE SlotOf(r)
  BY <1>1 DEF Crash, SlotOf, Counted, Busy, Waiting, TypeOK
<1>3. SameCounts
  BY <1>1 DEF SameCounts
<1>. HIDE DEF S
<1>4. S \in SUBSET Requests
  BY DEF S
<1>. QED
  BY <1>2, <1>3, <1>4, DisappearStep

(* At the start nobody holds a slot and the configured rows count zero. *)
LEMMA SlotsInit == ASSUME OnlyWriter PROVE Init => PoolInv /\ Pool!Init
<1>. SUFFICES ASSUME Init PROVE PoolInv /\ Pool!Init
  OBVIOUS
<1>1. PoolInv
  BY CounterInit DEF PoolInv, Init
<1>2. Slots = [r \in Requests |-> None]
  BY DEF Init, Slots, SlotOf, Counted
<1>3. Counts = [n \in Configured |-> 0] /\ Configured \in SUBSET Nodes
  BY GatewayAssumption DEF Init, Counts, FromConfig, OnlyWriter
<1>. QED
  BY <1>1, <1>2, <1>3 DEF Pool!Init, Slots, Counts

(* Every step of the gateway is a step of the pool, or none. *)
LEMMA SlotsNext ==
  ASSUME OnlyWriter, PoolInv, [Next]_vars
  PROVE  PoolInv' /\ (Pool!Next \/ UNCHANGED <<Slots, Counts>>)
<1>1. CounterInv'
  BY CounterNext DEF PoolInv
<1>2. ASSUME NEW r \in Requests, Handle(r)
      PROVE  (Pool!Next \/ UNCHANGED <<Slots, Counts>>) /\ DOMAIN nodes' = Configured
  BY <1>2, HandleSlots, HandlePlace DEF PoolInv
<1>3. CASE Registry
  BY <1>1, <1>3, RegistrySlots DEF PoolInv
<1>4. CASE Crash
  BY <1>1, <1>4, CrashSlots DEF PoolInv, Crash, tables
<1>5. CASE UNCHANGED vars
  BY <1>1, <1>5 DEF vars, PoolInv, Slots, SlotOf, Counts
<1>. QED
  BY <1>1, <1>2, <1>3, <1>4, <1>5 DEF Next, Registry, Idle, PoolInv

(***************************************************************************)
(* The job counter of the gateway (delta_node_jobs and its callers) is a   *)
(* pool of slots: no slot is given back twice, none that was given back    *)
(* stays counted, and the clamp never hides a lost decrement, whatever     *)
(* raises, is abandoned or crashes.                                        *)
(***************************************************************************)
THEOREM SlotsArePooled == ASSUME OnlyWriter PROVE Spec => ImplementsSlotPool
<1>1. Init => PoolInv /\ Pool!Init
  BY SlotsInit
<1>2. PoolInv /\ [Next]_vars => PoolInv' /\ [Pool!Next]_<<Slots, Counts>>
  BY SlotsNext
<1>. QED
  BY <1>1, <1>2, PTL DEF Spec, ImplementsSlotPool, Pool!Spec, Slots, Counts

------------------------------------------------------------------------------
(* Part H: no handler runs in circles.                                     *)

\* The steps a handler has left are a natural number: its candidates are finitely many.
LEMMA StepsType ==
  ASSUME TypeOK, NEW r \in Requests
  PROVE  /\ IsFiniteSet(left[r]) /\ Cardinality(left[r]) \in Nat
         /\ \A p \in PCs : StepsHere(p) \in 0 .. 8
<1>1. left[r] \in SUBSET Endpoints
  BY DEF TypeOK
<1>2. IsFiniteSet(left[r])
  BY <1>1, EndpointsAssumption, FS_Subset
<1>3. Cardinality(left[r]) \in Nat
  BY <1>2, FS_CardinalityType
<1>4. \A p \in PCs : StepsHere(p) \in 0 .. 8
  BY DEF StepsHere, PCs, Busy, Waiting, Answered
<1>. QED
  BY <1>2, <1>3, <1>4

(* A step at the same candidates brings the handler nearer to their end.   *)
LEMMA MovesForward ==
  ASSUME TypeInv, NEW r \in Requests, Handle(r), pc[r] \in Busy \cup Waiting, ~ Retry(r)
  PROVE  /\ left' = left
         /\ pc'[r] \in Answered \/ StepsHere(pc'[r]) < StepsHere(pc[r])
<1>1. TypeOK
  BY DEF TypeInv
<1>2. ~ RateLimited(r) /\ ~ TurnedAway(r) /\ ~ Route(r)
  BY DEF RateLimited, TurnedAway, Route, Busy, Waiting
<1>3. CASE Create(r) \/ Count(r) \/ Open(r) \/ AbandonStream(r)
  <2>1. /\ left' = left
        /\ \/ pc[r] = "create" /\ pc'[r] = "count"
           \/ pc[r] = "count" /\ pc'[r] \in {"open", "await"}
           \/ pc[r] = "open" /\ pc'[r] \in {"await", "lost"}
    BY <1>1, <1>3 DEF Create, Count, Open, AbandonStream, Goto, TypeOK
  <2>. QED
    BY <2>1 DEF StepsHere, Answered
<1>4. CASE Reply(r) \/ TransientError(r) \/ PermanentError(r) \/ Disconnect(r) \/ MalformedReply(r)
  <2>1. left' = left /\ pc[r] = "await" /\ pc'[r] \in {"complete", "fail", "release", "lost"}
    BY <1>1, <1>4 DEF Reply, TransientError, PermanentError, Disconnect, MalformedReply, Goto, TypeOK
  <2>. QED
    BY <2>1 DEF StepsHere, Answered
<1>5. CASE Complete(r) \/ Bill(r) \/ Fail(r)
  <2>1. /\ left' = left
        /\ \/ pc[r] = "complete" /\ pc'[r] = "bill"
           \/ pc[r] \in {"bill", "fail"} /\ pc'[r] = "release"
    BY <1>1, <1>5 DEF Complete, Bill, Fail, Goto, TypeOK
  <2>. QED
    BY <2>1 DEF StepsHere
<1>6. CASE Release(r)
  <2>1. left' = left /\ pc'[r] \in {"ok", "failed", "gone"}
    BY <1>1, <1>6 DEF Release, Goto, TypeOK
  <2>. QED
    BY <2>1 DEF Answered
<1>7. CASE StoreRaises(r)
  <2>1. /\ left' = left
        /\ \/ pc[r] \in {"complete", "bill"} /\ pc'[r] = "fail"
           \/ pc[r] = "fail" /\ pc'[r] = "release"
           \/ pc'[r] \in {"lost", "failed"}
    BY <1>1, <1>7 DEF StoreRaises, Goto, TypeOK
  <2>. QED
    BY <2>1 DEF StepsHere, Answered
<1>. QED
  BY <1>2, <1>3, <1>4, <1>5, <1>6, <1>7 DEF Handle

(* Every step of a handler does, and a retry costs it a candidate.         *)
LEMMA HandleRunsOut ==
  ASSUME TypeInv, NEW r \in Requests, Handle(r), pc[r] \in Busy \cup Waiting
  PROVE  pc'[r] \in Answered \/ StepsLeft(r)' < StepsLeft(r)
<1>1. TypeInv' /\ TypeOK /\ TypeOK'
  BY HandleType DEF TypeInv
<1>2. /\ IsFiniteSet(left[r]) /\ Cardinality(left[r]) \in Nat
      /\ StepsHere(pc[r]) \in 0 .. 8 /\ StepsHere(pc'[r]) \in 0 .. 8
  BY <1>1, StepsType DEF TypeOK
<1>. DEFINE here == StepsHere(pc[r])
            there == StepsHere(pc'[r])
            n == Cardinality(left[r])
<1>3. StepsLeft(r) = here + 8 * n /\ StepsLeft(r)' = there + 8 * Cardinality(left'[r])
  BY DEF StepsLeft
<1>4. CASE ~ Retry(r)
  <2>1. left' = left /\ (pc'[r] \in Answered \/ there < here)
    BY <1>4, MovesForward
  <2>2. StepsLeft(r)' = there + 8 * n
    BY <1>3, <2>1
  <2>. HIDE DEF here, there, n
  <2>3. there < here => there + 8 * n < here + 8 * n
    BY <1>2 DEF here, there, n
  <2>. QED
    BY <1>3, <2>1, <2>2, <2>3
<1>5. CASE Retry(r)
  <2>1. PICK e \in left[r] : left'[r] = left[r] \ {e}
    BY <1>1, <1>5 DEF Retry, TypeOK
  <2>2. Cardinality(left'[r]) = n - 1
    BY <1>2, <2>1, FS_RemoveElement
  <2>3. pc[r] = "release" /\ pc'[r] = "create"
    BY <1>1, <1>5 DEF Retry, Goto, TypeOK
  <2>4. here = 1 /\ there = 8
    BY <2>3 DEF StepsHere
  <2>5. StepsLeft(r) = 1 + 8 * n /\ StepsLeft(r)' = 8 + 8 * (n - 1)
    BY <1>3, <2>2, <2>4
  <2>. HIDE DEF here, there, n
  <2>6. 8 + 8 * (n - 1) < 1 + 8 * n
    BY <1>2 DEF n
  <2>. QED
    BY <2>5, <2>6
<1>. QED
  BY <1>4, <1>5

(* Whatever backends answer and writes raise, _dispatch_with_fallback and  *)
(* the stream that follows it run out of steps: what is left of the        *)
(* liveness of a request is that its steps are taken.                      *)
THEOREM StepsRunOut == Spec => FallbacksRunOut
<1>. DEFINE Nearer(r) == pc[r] \in Busy \cup Waiting /\ pc'[r] # pc[r] =>
                           pc'[r] \in Answered \/ StepsLeft(r)' < StepsLeft(r)
<1>1. ASSUME TypeInv, [Next]_vars, NEW r \in Requests PROVE Nearer(r)
  <2>1. TypeOK
    BY <1>1 DEF TypeInv
  <2>. SUFFICES ASSUME pc[r] \in Busy \cup Waiting, pc'[r] # pc[r]
                PROVE  pc'[r] \in Answered \/ StepsLeft(r)' < StepsLeft(r)
    OBVIOUS
  <2>2. ASSUME NEW q \in Requests, Handle(q)
        PROVE  pc'[r] \in Answered \/ StepsLeft(r)' < StepsLeft(r)
    <3>1. q = r
      BY <2>1, <2>2, HandleFrame
    <3>. QED
      BY <1>1, <2>2, <3>1, HandleRunsOut
  <2>3. ~ Registry /\ ~ UNCHANGED vars
    <3>1. Registry => pc' = pc
      BY <2>1, RegistryFrame
    <3>. QED
      BY <3>1 DEF vars
  <2>4. CASE Crash
    BY <2>1, <2>4 DEF Crash, TypeOK, Answered
  <2>. QED
    BY <1>1, <2>2, <2>3, <2>4 DEF Next, Registry, Idle
<1>2. TypeInv /\ [Next]_vars => [\A r \in Requests : Nearer(r)]_vars
  BY <1>1
<1>. QED
  BY <1>2, TypeInvariant, PTL DEF Spec, FallbacksRunOut

------------------------------------------------------------------------------
(***************************************************************************)
(* Part I: nothing is left behind.  When nothing raises, breaks off or     *)
(* crashes and only the gateway counts, the counter is not only large      *)
(* enough (part C): it is exact.  And a job is "started" only as long as   *)
(* its handler will still finish it, or when its client has left.          *)
(***************************************************************************)
Faultless == OnlyWriter /\ Faults = {}

(* A handler at p with verdict v may have a job that is "started". *)
MayRun(p, v) ==
  \/ p \in {"count", "open", "await", "complete", "fail", "gone"}
  \/ p = "release" /\ v = "gone"

StartedOK(js, p, v) == MayRun(p, v) \/ \A k \in 1 .. Len(js) : js[k].status # "started"

Exact == \A n \in DOMAIN nodes : nodes[n].jobs = Cardinality(Holders(n))

RestInv ==
  /\ BooksInv /\ CounterInv
  /\ up
  /\ \A r \in Requests : StartedOK(jobs[r], pc[r], verdict[r])
  /\ Exact

(* The handlers' faults are out. *)
LEMMA NoFaultyStep ==
  ASSUME Faultless, NEW r \in Requests
  PROVE  ~ AbandonStream(r) /\ ~ MalformedReply(r) /\ ~ StoreRaises(r) /\ ~ Crash
  BY DEF Faultless, AbandonStream, MalformedReply, StoreRaises, Crash

(* A handler's step accounts for its own jobs. *)
LEMMA HandleStarted ==
  ASSUME Faultless, RestInv, NEW r \in Requests, Handle(r)
  PROVE  StartedOK(jobs'[r], pc'[r], verdict'[r])
<1>. DEFINE js == jobs[r]
<1>1. /\ TypeOK /\ Placed(r) /\ js \in Seq(Attempt) /\ Len(js) \in Nat
      /\ JobsOK(js, pc[r], left[r], at[r], verdict[r])
      /\ StartedOK(js, pc[r], verdict[r])
  <2>1. TypeOK /\ Placed(r) /\ JobsInv(r) /\ StartedOK(js, pc[r], verdict[r])
    BY DEF RestInv, BooksInv, TypeInv
  <2>2. js \in Seq(Attempt)
    BY <2>1 DEF TypeOK
  <2>. QED
    BY <2>1, <2>2 DEF JobsInv
<1>2. ASSUME Len(js) > 0, pc[r] \notin {"new", "create"},
             NEW k \in 1 .. Len(js), k # Len(js)
      PROVE  js[k].status = "error"
  <2>1. Len(js) \in 1 .. Len(js) /\ k \in 1 .. Len(js) - 1
    BY <1>1, <1>2
  <2>. QED
    BY <1>1, <2>1 DEF JobsOK, Unbilled
<1>3. CASE RateLimited(r) \/ TurnedAway(r) \/ Route(r)
  <2>1. jobs' = jobs /\ pc[r] = "new"
    BY <1>3 DEF RateLimited, TurnedAway, Route, tables
  <2>2. Len(js) = 0
    BY <1>1, <2>1 DEF JobsOK
  <2>. QED
    BY <2>1, <2>2 DEF StartedOK
<1>4. CASE Create(r)
  <2>1. pc'[r] = "count"
    BY <1>1, <1>4 DEF Create, Goto, TypeOK
  <2>. QED
    BY <2>1 DEF StartedOK, MayRun
<1>5. CASE Count(r) \/ Open(r) \/ Reply(r) \/ TransientError(r) \/ PermanentError(r)
  <2>1. pc'[r] \in {"open", "await", "complete", "fail"}
    BY <1>1, <1>5 DEF Count, Open, Reply, TransientError, PermanentError, Goto, TypeOK
  <2>. QED
    BY <2>1 DEF StartedOK, MayRun
<1>6. CASE Disconnect(r)
  <2>1. pc'[r] = "release" /\ verdict'[r] = "gone"
    BY <1>1, <1>6 DEF Disconnect, Goto, TypeOK
  <2>. QED
    BY <2>1 DEF StartedOK, MayRun
<1>7. CASE Complete(r) \/ Fail(r)
  <2>1. PICK st \in {"started", "completed", "error"} : st # "started" /\ jobs'[r] = Finished(js, st)
    BY <1>1, <1>7 DEF Complete, Fail, FinishJob, TypeOK
  <2>2. Len(js) > 0 /\ pc[r] \in {"complete", "fail"}
    BY <1>1, <1>7 DEF Complete, Fail, Placed, Busy, Waiting
  <2>3. /\ Len(jobs'[r]) = Len(js)
        /\ \A k \in 1 .. Len(js) : k # Len(js) => jobs'[r][k] = js[k]
        /\ jobs'[r][Len(js)].status = st
    <3>1. js \in Seq(Attempt) /\ Len(js) > 0
      BY <1>1, <2>2
    <3>2. /\ Len(Finished(js, st)) = Len(js)
          /\ \A k \in 1 .. Len(js) : k # Len(js) => Finished(js, st)[k] = js[k]
          /\ Finished(js, st)[Len(js)].status = st
      BY <3>1, FinishFacts
    <3>. QED
      BY <2>1, <3>2
  <2>4. \A k \in 1 .. Len(js) : jobs'[r][k].status # "started"
    BY <1>2, <2>1, <2>2, <2>3
  <2>. QED
    BY <2>3, <2>4 DEF StartedOK
<1>8. CASE Bill(r)
  <2>1. jobs'[r] = Billed(js) /\ Len(js) > 0 /\ pc[r] = "bill"
    BY <1>1, <1>8 DEF Bill, TypeOK, Placed, Busy, Waiting
  <2>2. /\ Len(jobs'[r]) = Len(js)
        /\ \A k \in 1 .. Len(js) : k # Len(js) => jobs'[r][k] = js[k]
        /\ jobs'[r][Len(js)].status = js[Len(js)].status
    BY <1>1, <2>1, BillFacts
  <2>3. js[Len(js)].status = "completed"
    BY <1>1, <2>1 DEF JobsOK
  <2>4. \A k \in 1 .. Len(js) : jobs'[r][k].status # "started"
    BY <1>2, <2>1, <2>2, <2>3
  <2>. QED
    BY <2>2, <2>4 DEF StartedOK
<1>9. CASE Release(r)
  <2>1. jobs' = jobs /\ pc[r] = "release" /\ pc'[r] = verdict[r]
    BY <1>1, <1>9 DEF Release, Goto, TypeOK
  <2>2. MayRun(pc[r], verdict[r]) => MayRun(pc'[r], verdict'[r])
    BY <2>1 DEF MayRun
  <2>. QED
    BY <1>1, <2>1, <2>2 DEF StartedOK
<1>10. CASE Retry(r)
  <2>1. jobs' = jobs /\ pc[r] = "release" /\ verdict[r] = "retry"
    BY <1>10 DEF Retry
  <2>2. ~ MayRun(pc[r], verdict[r])
    BY <2>1 DEF MayRun
  <2>. QED
    BY <1>1, <2>1, <2>2 DEF StartedOK
<1>. QED
  BY <1>3, <1>4, <1>5, <1>6, <1>7, <1>8, <1>9, <1>10, NoFaultyStep DEF Handle

(* The counters after a step that moves neither a slot nor a count. *)
LEMMA ExactKept ==
  ASSUME Exact, SameCounts,
         \A q \in Requests : (pc'[q] \in Counted) = (pc[q] \in Counted),
         \A q \in Requests : pc[q] \in Counted => at'[q] = at[q]
  PROVE  Exact'
<1>1. ASSUME NEW n PROVE Holders(n)' = Holders(n)
  BY DEF Holders
<1>2. ASSUME NEW n \in DOMAIN nodes PROVE nodes'[n].jobs = Cardinality(Holders(n)')
  BY <1>1 DEF Exact, SameCounts
<1>. QED
  BY <1>2 DEF Exact, SameCounts

(* After the write that takes a slot. *)
LEMMA CountExact ==
  ASSUME RestInv, NEW r \in Requests, Count(r) PROVE Exact'
<1>1. /\ TypeOK /\ pc[r] = "count" /\ at' = at
      /\ pc' = [pc EXCEPT ![r] = IF r \in Streaming THEN "open" ELSE "await"]
      /\ Host[at[r]] \in DOMAIN nodes /\ DeltaJobs(Host[at[r]], 1)
  BY DEF RestInv, CounterInv, TypeInv, Known, Count, Goto, Busy
<1>. PICK h \in DOMAIN nodes : h = Host[at[r]]
  BY <1>1
<1>2. /\ DOMAIN nodes' = DOMAIN nodes
      /\ \A n \in DOMAIN nodes : n # h => nodes'[n].jobs = nodes[n].jobs
      /\ nodes'[h].jobs = nodes[h].jobs + 1
  <2>1. /\ DOMAIN nodes' = DOMAIN nodes
        /\ \A n \in DOMAIN nodes : n # h => nodes'[n].jobs = nodes[n].jobs
        /\ nodes'[h].jobs = Clamped(nodes[h].jobs + 1)
    BY <1>1, DeltaFacts
  <2>2. nodes[h].jobs \in Nat
    BY <1>1, RowFacts DEF RestInv, CounterInv
  <2>. QED
    BY <2>1, <2>2 DEF Clamped
<1>3. Holders(h)' = Holders(h) \cup {r} /\ r \notin Holders(h)
  BY <1>1 DEF Holders, Counted, TypeOK
<1>4. \A n \in DOMAIN nodes : n # h => Holders(n)' = Holders(n)
  BY <1>1 DEF Holders, Counted, TypeOK
<1>5. Cardinality(Holders(h)') = Cardinality(Holders(h)) + 1
  BY <1>3, HoldersFinite, FS_AddElement
<1>6. ASSUME NEW n \in DOMAIN nodes PROVE nodes'[n].jobs = Cardinality(Holders(n)')
  BY <1>2, <1>4, <1>5 DEF RestInv, Exact
<1>. QED
  BY <1>2, <1>6 DEF Exact

(* After the write that gives it back. *)
LEMMA ReleaseExact ==
  ASSUME RestInv, NEW r \in Requests, Release(r) \/ Retry(r) PROVE Exact'
<1>1. /\ TypeOK /\ pc[r] = "release" /\ Host[at[r]] \in DOMAIN nodes
      /\ DeltaJobs(Host[at[r]], -1)
      /\ pc'[r] \notin Counted
      /\ \A q \in Requests \ {r} : pc'[q] = pc[q] /\ at'[q] = at[q]
  BY DEF RestInv, CounterInv, TypeInv, TypeOK, Known, Release, Retry, Goto, Busy, Counted
<1>. PICK h \in DOMAIN nodes : h = Host[at[r]]
  BY <1>1
<1>2. Holders(h)' = Holders(h) \ {r} /\ r \in Holders(h)
  BY <1>1 DEF Holders, Counted
<1>3. \A n \in DOMAIN nodes : n # h => Holders(n)' = Holders(n)
  BY <1>1 DEF Holders
<1>4. /\ Cardinality(Holders(h)') = Cardinality(Holders(h)) - 1
      /\ Cardinality(Holders(h)) \in Nat /\ Cardinality(Holders(h)) # 0
  <2>1. IsFiniteSet(Holders(h)) /\ Cardinality(Holders(h)) \in Nat
    BY HoldersFinite
  <2>. QED
    BY <1>2, <2>1, FS_EmptySet, FS_RemoveElement
<1>5. /\ DOMAIN nodes' = DOMAIN nodes
      /\ \A n \in DOMAIN nodes : n # h => nodes'[n].jobs = nodes[n].jobs
      /\ nodes'[h].jobs = nodes[h].jobs - 1
  <2>1. /\ DOMAIN nodes' = DOMAIN nodes
        /\ \A n \in DOMAIN nodes : n # h => nodes'[n].jobs = nodes[n].jobs
        /\ nodes'[h].jobs = Clamped(nodes[h].jobs + (-1))
    BY <1>1, DeltaFacts
  <2>2. nodes[h].jobs = Cardinality(Holders(h))
    BY DEF RestInv, Exact
  <2>. QED
    BY <1>4, <2>1, <2>2 DEF Clamped
<1>6. ASSUME NEW n \in DOMAIN nodes PROVE nodes'[n].jobs = Cardinality(Holders(n)')
  BY <1>3, <1>4, <1>5 DEF RestInv, Exact
<1>. QED
  BY <1>5, <1>6 DEF Exact

(* The counters are exact after every step of a handler. *)
LEMMA HandleExact ==
  ASSUME Faultless, RestInv, NEW r \in Requests, Handle(r) PROVE Exact'
<1>1. TypeInv /\ TypeOK /\ Exact
  BY DEF RestInv, BooksInv, TypeInv
<1>2. ASSUME nodes' = nodes, (pc'[r] \in Counted) = (pc[r] \in Counted),
             pc[r] \in Counted => at'[r] = at[r]
      PROVE  Exact'
  <2>1. \A q \in Requests \ {r} : pc'[q] = pc[q] /\ at'[q] = at[q]
    BY <1>1, HandleFrame
  <2>. QED
    BY <1>1, <1>2, <2>1, ExactKept DEF SameCounts
<1>3. CASE RateLimited(r) \/ TurnedAway(r) \/ Route(r) \/ Create(r)
  <2>1. nodes' = nodes /\ pc[r] \in {"new", "create"} /\ pc'[r] \in {"denied", "create", "count"}
    BY <1>1, <1>3 DEF RateLimited, TurnedAway, Route, Create, Goto, tables, registry, TypeOK
  <2>. QED
    BY <1>2, <2>1 DEF Counted
<1>4. CASE Open(r) \/ Reply(r) \/ TransientError(r) \/ PermanentError(r) \/ Disconnect(r)
  <2>1. nodes' = nodes /\ at' = at /\ pc[r] \in {"open", "await"}
        /\ pc'[r] \in {"await", "complete", "fail", "release"}
    BY <1>1, <1>4 DEF Open, Reply, TransientError, PermanentError, Disconnect, Goto, tables, TypeOK
  <2>. QED
    BY <1>2, <2>1 DEF Counted
<1>5. CASE Complete(r) \/ Fail(r) \/ Bill(r)
  <2>1. /\ nodes' = nodes /\ at' = at
        /\ pc[r] \in {"complete", "fail", "bill"} /\ pc'[r] \in {"bill", "release"}
    BY <1>1, <1>5 DEF Complete, Fail, Bill, Goto, registry, TypeOK
  <2>. QED
    BY <1>2, <2>1 DEF Counted
<1>6. CASE Count(r)
  BY <1>6, CountExact
<1>7. CASE Release(r) \/ Retry(r)
  BY <1>7, ReleaseExact
<1>. QED
  BY <1>3, <1>4, <1>5, <1>6, <1>7, NoFaultyStep DEF Handle

(* The registry changes no count, because the process never restarts. *)
LEMMA RegistryCounts ==
  ASSUME OnlyWriter, TypeOK, up, Registry
  PROVE  SameCounts /\ up' = up
<1>1. ASSUME NEW beat \in Beats, Heartbeat(beat) PROVE SameCounts /\ up' = up
  <2>1. beat.node \in DOMAIN nodes /\ beat.jobs = None
    BY <1>1 DEF Heartbeat, OnlyWriter
  <2>2. nodes[beat.node] \in Row
    BY <2>1 DEF TypeOK, IsTable
  <2>3. /\ DOMAIN nodes' = DOMAIN nodes /\ up' = up
        /\ \A n \in DOMAIN nodes : n # beat.node => nodes'[n] = nodes[n]
        /\ nodes'[beat.node] = [nodes[beat.node] EXCEPT
             !.seen = now, !.status = IF beat.status = None THEN @ ELSE beat.status, !.jobs = @]
    BY <1>1, <2>1 DEF Heartbeat, Upsert
  <2>4. nodes'[beat.node].jobs = nodes[beat.node].jobs
    BY <2>2, <2>3 DEF Row
  <2>. QED
    BY <2>3, <2>4 DEF SameCounts
<1>2. CASE Tick
  BY <1>2 DEF Tick, tables, SameCounts
<1>3. ~ Restart
  BY DEF Restart
<1>. QED
  BY <1>1, <1>2, <1>3 DEF Registry, OnlyWriter, CliUpsert

\* At the start there are no jobs and no holders.
LEMMA RestInit == ASSUME Faultless PROVE Init => RestInv
<1>. SUFFICES ASSUME Init PROVE RestInv
  OBVIOUS
<1>1. \A r \in Requests : StartedOK(jobs[r], pc[r], verdict[r])
  BY DEF Init, StartedOK
<1>2. ASSUME NEW n \in DOMAIN nodes PROVE nodes[n].jobs = Cardinality(Holders(n))
  <2>1. nodes[n].jobs = 0 /\ Holders(n) = {}
    BY DEF Init, FromConfig, Faultless, OnlyWriter, Holders, Counted
  <2>. QED
    BY <2>1, FS_EmptySet
<1>. QED
  BY <1>1, <1>2, BooksInit, CounterInit DEF Init, RestInv, Exact, Faultless

\* Every step of a gateway without faults keeps its accounts exact.
LEMMA RestNext == ASSUME Faultless PROVE RestInv /\ [Next]_vars => RestInv'
<1>. SUFFICES ASSUME RestInv, [Next]_vars PROVE RestInv'
  OBVIOUS
<1>1. BooksInv' /\ CounterInv' /\ TypeInv /\ TypeOK
  BY BooksNext, CounterNext DEF RestInv, BooksInv, TypeInv, Faultless
<1>2. ASSUME NEW r \in Requests, Handle(r)
      PROVE  up' /\ Exact' /\ \A q \in Requests : StartedOK(jobs'[q], pc'[q], verdict'[q])
  <2>1. Exact' /\ StartedOK(jobs'[r], pc'[r], verdict'[r])
    BY <1>2, HandleExact, HandleStarted
  <2>2. \A q \in Requests \ {r} : StartedOK(jobs'[q], pc'[q], verdict'[q])
    BY <1>1, <1>2, HandleFrame DEF RestInv
  <2>3. up'
    <3>1. CASE Moves(r)
      BY <1>1, <3>1, MovesFacts DEF RestInv
    <3>2. CASE ~ Moves(r)
      BY <1>2, <3>2 DEF Handle, Moves, RestInv, RateLimited, TurnedAway, Route, Create, Count,
                        Complete, Bill, Fail, Release, Retry
    <3>. QED
      BY <3>1, <3>2
  <2>. QED
    BY <2>1, <2>2, <2>3
<1>3. ASSUME Registry \/ UNCHANGED vars
      PROVE  up' /\ Exact' /\ \A q \in Requests : StartedOK(jobs'[q], pc'[q], verdict'[q])
  <2>1. UNCHANGED <<jobs, pc, at, verdict>>
    BY <1>1, <1>3, RegistryFrame DEF vars
  <2>2. SameCounts /\ up' = up
    <3>1. CASE UNCHANGED vars
      BY <3>1 DEF vars, SameCounts
    <3>2. CASE Registry
      BY <1>1, <3>2, RegistryCounts DEF RestInv, Faultless
    <3>. QED
      BY <1>3, <3>1, <3>2
  <2>3. Exact'
    BY <2>1, <2>2, ExactKept DEF RestInv
  <2>. QED
    BY <2>1, <2>2, <2>3 DEF RestInv
<1>4. ~ Crash
  BY DEF Faultless, Crash
<1>. QED
  BY <1>1, <1>2, <1>3, <1>4 DEF Next, Registry, Idle, RestInv

(* What a request takes it gives back: when none is being handled, every   *)
(* slot is free, and no job is "started" but that of a stream its client   *)
(* broke off (the finally clauses and except branches of gateway.py, when  *)
(* the store and the process do not fail).                                 *)
THEOREM QuietIsClean == ASSUME Faultless PROVE Spec => []NothingLeftBehind
<1>1. ASSUME RestInv PROVE NothingLeftBehind
  <2>. SUFFICES ASSUME \A r \in Requests : pc[r] \notin Busy \cup Waiting PROVE AtRest
    BY DEF NothingLeftBehind
  <2>1. ASSUME NEW n \in DOMAIN nodes PROVE nodes[n].jobs = 0
    <3>1. Holders(n) = {}
      BY DEF Holders, Counted, Busy, Waiting
    <3>. QED
      BY <1>1, <3>1, FS_EmptySet DEF RestInv, Exact
  <2>2. ASSUME NEW r \in Requests, NEW k \in 1 .. Len(jobs[r]), jobs[r][k].status = "started"
        PROVE  pc[r] = "gone"
    <3>1. MayRun(pc[r], verdict[r])
      BY <1>1, <2>2 DEF RestInv, StartedOK
    <3>. QED
      BY <3>1 DEF MayRun, Busy, Waiting
  <2>. QED
    BY <2>1, <2>2 DEF AtRest
<1>. QED
  BY <1>1, RestInit, RestNext, PTL DEF Spec
==============================================================================
