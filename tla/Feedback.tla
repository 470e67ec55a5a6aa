------------------------------- MODULE Feedback -------------------------------
(***************************************************************************)
(* POST /v1/feedback of gateway.py over the transactions of StoreTxn: a    *)
(* rating is stored, the latest ratings of each node and model are read    *)
(* back, and the scheduler gets their averages, kept in the gateway's      *)
(* memory.  Meanwhile the gateway counts jobs and the command line tool    *)
(* upserts rows of the same file.                                          *)
(*                                                                         *)
(* An average is modelled by the set of ratings it is the mean of.         *)
(***************************************************************************)
EXTENDS StoreTxn, FiniteSets

CONSTANTS
  MeshToken,   \* mesh_token, or None
  ApiTokens,   \* api_tokens: the requester of each token
  Posts,       \* the feedback posts that may arrive
  Headers,     \* the headers of each
  Job,         \* the job id each names
  Malformed,   \* the posts whose rating is not a number in [0, 1]
  JobOwner,    \* table jobs: the requester of each job
  Served,      \* table jobs: the (node, model) pair of each job
  WindowN,     \* recent_rating_averages: window_n
  MaxJobs,     \* bound of the job counter, for model checking
  MaxTime      \* bound of the clock, for model checking

ASSUME FeedbackAssumption ==
  /\ Procs = {"gateway", "cli"}
  /\ Malformed \subseteq Posts
  /\ DOMAIN Served = DOMAIN JobOwner
  /\ None \notin DOMAIN ApiTokens
  /\ WindowN \in Nat \ {0} /\ MaxJobs \in Nat \ {0} /\ MaxTime \in Nat

INSTANCE Auth

Pairs == {Served[j] : j \in DOMAIN JobOwner}

VARIABLES
  now,       \* the wall clock, which somebody may set back
  up,        \* the gateway process runs
  pc,        \* where the handler of each post is
  averages   \* scheduler._rating_averages

vars == <<txn, now, up, pc, averages>>

Upsert == [kind |-> "upsert"]
Delta(d) == [kind |-> "delta", by |-> d]
Rate(f, t) == [kind |-> "rate", rating |-> [id |-> f, at |-> t]]
Writes ==
  {Upsert, Delta(1), Delta(-1)} \cup {Rate(f, t) : f \in Posts, t \in 0 .. MaxTime}

(* Only delta_node_jobs reads before it writes; jobs is None without a row. *)
Row(o, d) == IF o.kind = "delta" THEN d.jobs ELSE None

(* Fault: the MAX(0, ...) of the update is missing. *)
Unclamped(n) == n

Clamped(n) == IF n < 0 THEN 0 ELSE n

(* The statement each write executes. *)
Written(o, row, d) ==
  CASE o.kind = "upsert" -> [d EXCEPT !.jobs = 0]
    [] o.kind = "rate" -> [d EXCEPT !.ratings = @ \cup {o.rating}]
    [] o.kind = "delta" /\ row = None -> d
    [] OTHER -> [d EXCEPT !.jobs = Clamped(row + o.by)]

Empty == [jobs |-> None, ratings |-> {}]

(* The rows and ratings the file can hold. *)
Ratings == [id : Posts, at : 0 .. MaxTime]
Dbs == [jobs : 0 .. MaxJobs \cup {None}, ratings : SUBSET Ratings]

(* The transactions of StoreTxn are these writes. *)
ASSUME WritesAssumption ==
  /\ Ops = Writes /\ InitialDb = Empty
  /\ \A o \in Writes, d \in Dbs :
       /\ Select(o, d) = Row(o, d)
       /\ Update(o, Row(o, d), d) = Written(o, Row(o, d), d)

Of(pair, ratings) == {r \in ratings : Served[Job[r.id]] = pair}

(* Fault: ORDER BY created_at without DESC. *)
WindowsOldest(S) ==
  {W \in SUBSET S :
     /\ Cardinality(W) = IF Cardinality(S) < WindowN THEN Cardinality(S) ELSE WindowN
     /\ \A r \in W, s \in S \ W : r.at <= s.at}

(* The first WindowN ratings of S in the order created_at DESC. *)
Windows(S) ==
  {W \in SUBSET S :
     /\ Cardinality(W) = IF Cardinality(S) < WindowN THEN Cardinality(S) ELSE WindowN
     /\ \A r \in W, s \in S \ W : r.at >= s.at}

(* recent_rating_averages *)
Recent(avg) == \A pair \in Pairs : avg[pair] \in Windows(Of(pair, db.ratings))

Busying == {"adding", "reading"}
Answered == {"denied", "ok", "failed"}

(* No handler is between two calls: the code of a handler has no await. *)
Scheduled == up /\ step["gateway"] = "idle" /\ \A f \in Posts : pc[f] \notin Busying

Init ==
  /\ TxnInit
  /\ now = 0
  /\ up = TRUE
  /\ pc = [f \in Posts |-> "new"]
  /\ averages = [pair \in Pairs |-> {}]
------------------------------------------------------------------------------
(* Answers 400, 401, 404 and 403: the post changes nothing. *)
Allowed(f) ==
  /\ f \notin Malformed
  /\ Job[f] \in DOMAIN JobOwner
  /\ Requester(Headers[f]) # None
  /\ JobOwner[Job[f]] = Requester(Headers[f])

Deny(f) ==
  /\ Scheduled /\ pc[f] = "new" /\ ~Allowed(f)
  /\ pc' = [pc EXCEPT ![f] = "denied"]
  /\ UNCHANGED <<txn, now, up, averages>>

Submit(f) ==
  /\ Scheduled /\ pc[f] = "new" /\ Allowed(f)
  /\ Call("gateway", Rate(f, now))
  /\ pc' = [pc EXCEPT ![f] = "adding"]
  /\ UNCHANGED <<now, up, averages>>

Stored(f) ==
  /\ pc[f] = "adding" /\ step["gateway"] = "done"
  /\ Return("gateway")
  /\ pc' = [pc EXCEPT ![f] = "reading"]
  /\ UNCHANGED <<now, up, averages>>

NotStored(f) ==
  /\ pc[f] = "adding" /\ step["gateway"] = "raised"
  /\ Return("gateway")
  /\ pc' = [pc EXCEPT ![f] = "failed"]
  /\ UNCHANGED <<now, up, averages>>

(* The read back, and update_rating_averages with what it gives. *)
Average(f) ==
  /\ pc[f] = "reading"
  /\ \E avg \in [Pairs -> SUBSET db.ratings] : Recent(avg) /\ averages' = avg
  /\ pc' = [pc EXCEPT ![f] = "ok"]
  /\ UNCHANGED <<txn, now, up>>

(* The rating is stored, and the client told that the post failed. *)
ReadRaises(f) ==
  /\ pc[f] = "reading"
  /\ pc' = [pc EXCEPT ![f] = "failed"]
  /\ UNCHANGED <<txn, now, up, averages>>

(* A completion counts or uncounts its job, and goes on if that raises. *)
CountJob(d) ==
  /\ Scheduled
  /\ d = 1 => db.jobs # MaxJobs
  /\ Call("gateway", Delta(d))
  /\ UNCHANGED <<now, up, pc, averages>>

JobCounted ==
  /\ up /\ \A f \in Posts : pc[f] # "adding"
  /\ Return("gateway")
  /\ UNCHANGED <<now, up, pc, averages>>

Crash ==
  /\ up
  /\ IF step["gateway"] = "idle" THEN UNCHANGED txn ELSE Die("gateway")
  /\ up' = FALSE
  /\ pc' = [f \in Posts |-> IF pc[f] \in Busying THEN "failed" ELSE pc[f]]
  /\ UNCHANGED <<now, averages>>

(* create_gateway_app reads the averages back.  That it has written the    *)
(* configured rows again before that is in Gateway!Restart.                *)
Restart ==
  /\ ~up
  /\ up' = TRUE
  /\ \E avg \in [Pairs -> SUBSET db.ratings] : Recent(avg) /\ averages' = avg
  /\ UNCHANGED <<txn, now, pc>>

(* The tool writes its configured rows, one after the other. *)
CliUpsert == Call("cli", Upsert) \/ Return("cli") \/ Die("cli")

Transaction(p) == Advance(p) /\ UNCHANGED <<now, up, pc, averages>>

SetClock ==
  /\ now' \in 0 .. MaxTime
  /\ now' # now
  /\ UNCHANGED <<txn, up, pc, averages>>

Handle(f) == Deny(f) \/ Submit(f) \/ Stored(f) \/ NotStored(f) \/ Average(f) \/ ReadRaises(f)

Next ==
  \/ \E f \in Posts : Handle(f)
  \/ \E d \in {1, -1} : CountJob(d)
  \/ JobCounted \/ Crash \/ Restart \/ SetClock
  \/ CliUpsert /\ UNCHANGED <<now, up, pc, averages>>
  \/ \E p \in Procs : Transaction(p)

Spec == Init /\ [][Next]_vars

(* The processes run; nothing is assumed of who gets the write lock. *)
Fairness ==
  /\ \A p \in Procs : WF_vars(Transaction(p))
  /\ \A f \in Posts : WF_vars(Stored(f) \/ NotStored(f) \/ Average(f) \/ ReadRaises(f))

FairSpec == Spec /\ Fairness
------------------------------------------------------------------------------
(* Shape of the state of the store and of the feedback handlers. *)
TypeOK ==
  /\ db \in Dbs
  /\ lock \in Procs \cup {None}
  /\ step \in [Procs -> Steps]
  /\ attempt \in [Procs -> 0 .. RetryMax]
  /\ pc \in [Posts -> {"new"} \cup Busying \cup Answered]
  /\ averages \in [Pairs -> SUBSET Ratings]

(***************************************************************************)
(* A rating that was answered 200 is in the averages the scheduler uses,   *)
(* until WindowN ratings of the same node and model that are not older     *)
(* have displaced it, through failed reads and restarts, and whatever the  *)
(* clock does.                                                             *)
(***************************************************************************)
AcknowledgedIsHeard ==
  up => \A f \in Posts : pc[f] = "ok" =>
    \E r \in db.ratings : r.id = f /\
      LET heard == averages[Served[Job[f]]] IN
      r \in heard \/ (Cardinality(heard) = WindowN /\ \A s \in heard : s.at >= r.at)

(***************************************************************************)
(* When API tokens are configured, whatever else the headers claim, a job  *)
(* is only rated with the token of the requester it was run for.           *)
(***************************************************************************)
OwnJobsRated ==
  DOMAIN ApiTokens # {} =>
    \A r \in db.ratings : LET token == Headers[r.id].token IN
      token \in DOMAIN ApiTokens /\ ApiTokens[token] = JobOwner[Job[r.id]]

(* A post is answered, however long other processes keep the database. *)
PostIsAnswered == \A f \in Posts : pc[f] = "adding" ~> pc[f] \in Answered
==============================================================================
