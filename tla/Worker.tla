-------------------------------- MODULE Worker -------------------------------
(***************************************************************************)
(* A worker process, worker.py with worker_heartbeat.py: the /infer calls  *)
(* it runs, its in-flight counter and the inventory that mirrors it, drain *)
(* and resume, the heartbeat loop and the shutdown of the process; and the *)
(* row the gateway keeps of it, as far as heartbeats change that row.      *)
(*                                                                         *)
(* A call is checked against the limit, and counted in a later step: that  *)
(* nothing of the process comes in between is Scheduled below.             *)
(***************************************************************************)
EXTENDS Integers, FiniteSets

CONSTANTS
  Calls,         \* calls of POST /infer
  Refused,       \* those the request checks or the static policy gates refuse
  Initial,       \* the inventory the worker starts with, or None
  Inventories,   \* bodies of POST /inventory
  Posted,        \* what registering the worker writes into its gateway row
  Faults,        \* what the network may do to a heartbeat
  MaxFailures,   \* bound of the failure counter, for model checking
  None

Statuses == {"online", "degraded", "draining", "offline"}
Inventory == [status : Statuses, jobs : Nat, maxJobs : Nat]
Report == [status : Statuses, jobs : Nat]

ASSUME WorkerAssumption ==
  /\ IsFiniteSet(Calls)
  /\ Refused \subseteq Calls
  /\ Initial \in Inventory \cup {None}
  /\ Inventories \subseteq Inventory
  /\ Posted \subseteq Report
  /\ Faults \subseteq {"lost", "late"}
  /\ MaxFailures \in Nat
  /\ None \notin Inventory \cup Report

(* current_jobs is what the worker reports, not something one configures. *)
ASSUME InitialAssumption == Initial # None => Initial.jobs = 0

VARIABLES
  pc,         \* where each call is
  inFlight,   \* state["in_flight"]
  draining,   \* state["draining"]
  inv,        \* state["inventory"]
  phase,      \* the lifespan of the process
  loop,       \* the heartbeat task
  beat,       \* the heartbeat it is sending
  failures,   \* _consecutive_failures
  late,       \* heartbeats the worker gave up on, still on their way
  row         \* the worker's row in the gateway, None before it is registered

vars == <<pc, inFlight, draining, inv, phase, loop, beat, failures, late, row>>
serving == <<pc, inFlight, draining, inv>>
heartbeat == <<loop, beat, failures>>
gateway == <<late, row>>

Running == {c \in Calls : pc[c] = "running"}

(* Fault: the counter's lock is held across an await, so that acquiring it *)
(* gives way to other tasks.                                               *)
ScheduledAnytime == TRUE

(***************************************************************************)
(* asyncio runs one task of the process until it suspends.  Between the    *)
(* check of the limit and the counting of the call the code only acquires  *)
(* in_flight_lock, which no task holds across an await: that never         *)
(* suspends, and a call that was let in is counted before anything else    *)
(* of the process runs.                                                    *)
(***************************************************************************)
Scheduled == \A c \in Calls : pc[c] # "admitted"

(* _set_in_flight: the counter, and its copy in the current inventory. *)
SetInFlight(delta) ==
  LET n == IF inFlight + delta < 0 THEN 0 ELSE inFlight + delta
  IN  /\ inFlight' = n
      /\ inv' = IF inv = None THEN None ELSE [inv EXCEPT !.jobs = n]

Init ==
  /\ pc = [c \in Calls |-> "new"]
  /\ inFlight = 0
  /\ draining = FALSE
  /\ inv = Initial
  /\ phase = "serving"
  /\ loop = "waiting"
  /\ beat = None
  /\ failures = 0
  /\ late = {}
  /\ row = None
------------------------------------------------------------------------------
(* The HTTP handlers. *)

Admissible(c) ==
  /\ inv # None
  /\ ~draining
  /\ c \notin Refused
  /\ inv.status \in {"online", "degraded"} /\ inv.jobs < inv.maxJobs
  /\ inFlight < inv.maxJobs

Serving == Scheduled /\ phase = "serving"

(* The checks of /infer: let in, but not yet counted. *)
Infer(c) ==
  /\ Serving /\ pc[c] = "new"
  /\ Admissible(c)
  /\ pc' = [pc EXCEPT ![c] = "admitted"]
  /\ UNCHANGED <<inFlight, draining, inv, phase, heartbeat, gateway>>

Count(c) ==
  /\ pc[c] = "admitted"
  /\ SetInFlight(1)
  /\ pc' = [pc EXCEPT ![c] = "running"]
  /\ UNCHANGED <<draining, phase, heartbeat, gateway>>

Refuse(c) ==
  /\ Serving /\ pc[c] = "new"
  /\ ~Admissible(c)
  /\ pc' = [pc EXCEPT ![c] = "done"]
  /\ UNCHANGED <<inFlight, draining, inv, phase, heartbeat, gateway>>

(* The backend answered, failed or the call was cancelled: the finally. *)
Finish(c) ==
  /\ Scheduled /\ phase # "stopped" /\ pc[c] = "running"
  /\ SetInFlight(-1)
  /\ pc' = [pc EXCEPT ![c] = "done"]
  /\ UNCHANGED <<draining, phase, heartbeat, gateway>>

(* Fault: the posted current_jobs is believed. *)
SetInventoryAsPosted(i) ==
  /\ Serving
  /\ inv' = i
  /\ UNCHANGED <<pc, inFlight, draining, phase, heartbeat, gateway>>

SetInventory(i) ==
  /\ Serving
  /\ inv' = [i EXCEPT !.jobs = inFlight]
  /\ UNCHANGED <<pc, inFlight, draining, phase, heartbeat, gateway>>

WithStatus(status) == inv' = IF inv = None THEN None ELSE [inv EXCEPT !.status = status]

Drain ==
  /\ Serving
  /\ draining' = TRUE
  /\ WithStatus("draining")
  /\ UNCHANGED <<pc, inFlight, phase, heartbeat, gateway>>

Resume ==
  /\ Serving
  /\ draining' = FALSE
  /\ WithStatus("online")
  /\ UNCHANGED <<pc, inFlight, phase, heartbeat, gateway>>
------------------------------------------------------------------------------
(* The heartbeat loop.  Its delays are left out: it wakes at any time. *)

(* _tick reads the inventory, then awaits the POST of what it read. *)
Tick ==
  /\ Scheduled /\ loop = "waiting"
  /\ inv # None
  /\ loop' = "sending"
  /\ beat' = [status |-> inv.status, jobs |-> inv.jobs]
  /\ UNCHANGED <<serving, phase, failures, gateway>>

(* Fault: the task ends with the first refused heartbeat. *)
RestingOff == IF phase = "stopping" \/ row = None THEN "off" ELSE "waiting"

(* After an attempt the loop waits, or ends when stop() has set the event. *)
Resting == IF phase = "stopping" THEN "off" ELSE "waiting"

Failed == failures' = IF failures < MaxFailures THEN failures + 1 ELSE failures

(* The gateway writes the row; a worker it does not know is a 404. *)
Deliver ==
  /\ Scheduled /\ loop = "sending"
  /\ row' = IF row = None THEN None ELSE beat
  /\ IF row = None THEN Failed ELSE failures' = 0
  /\ loop' = Resting
  /\ beat' = None
  /\ UNCHANGED <<serving, phase, late>>

(* The POST fails; a timed-out one may still reach the gateway. *)
Lose ==
  /\ Scheduled /\ loop = "sending"
  /\ \/ "lost" \in Faults /\ UNCHANGED late
     \/ "late" \in Faults /\ late = {} /\ late' = {beat}
  /\ Failed
  /\ loop' = Resting
  /\ beat' = None
  /\ UNCHANGED <<serving, phase, row>>

LateArrival ==
  /\ \E b \in late :
       /\ late' = late \ {b}
       /\ row' = IF row = None THEN None ELSE b
  /\ UNCHANGED <<serving, phase, heartbeat>>

(* Somebody posts the worker's inventory to the gateway. *)
Register(post) ==
  /\ row' = post
  /\ UNCHANGED <<serving, phase, heartbeat, late>>
------------------------------------------------------------------------------
(* The shutdown half of the lifespan. *)

Shutdown ==
  /\ Serving
  /\ phase' = "draining"
  /\ draining' = TRUE
  /\ WithStatus("draining")
  /\ UNCHANGED <<pc, inFlight, heartbeat, gateway>>

(* The counter is zero or the grace period is over: stop() the loop, which *)
(* ends at once if it waits, and after its POST otherwise.                 *)
StopLoop ==
  /\ Scheduled /\ phase = "draining"
  /\ phase' = "stopping"
  /\ loop' = IF loop = "waiting" THEN "off" ELSE loop
  /\ UNCHANGED <<serving, beat, failures, gateway>>

(* Fault: stop() waits for the task without a limit. *)
CancelLoopNever == FALSE

(* The task is not done after the five seconds of stop().  The POST it was *)
(* sending may be lost with it, or be on its way to the gateway.           *)
CancelLoop ==
  /\ Scheduled /\ phase = "stopping" /\ loop # "off"
  /\ loop' = "off"
  /\ beat' = None
  /\ \/ UNCHANGED late
     \/ "late" \in Faults /\ beat # None /\ late = {} /\ late' = {beat}
  /\ UNCHANGED <<serving, phase, failures, row>>

Stopped ==
  /\ Scheduled /\ phase = "stopping" /\ loop = "off"
  /\ phase' = "stopped"
  /\ UNCHANGED <<serving, heartbeat, gateway>>

Handlers ==
  \/ \E c \in Calls : Infer(c) \/ Count(c) \/ Refuse(c) \/ Finish(c)
  \/ \E i \in Inventories : SetInventory(i)
  \/ Drain \/ Resume

Next ==
  \/ Handlers
  \/ Tick \/ Deliver \/ Lose \/ LateArrival
  \/ \E post \in Posted : Register(post)
  \/ Shutdown \/ StopLoop \/ CancelLoop \/ Stopped

Spec == Init /\ [][Next]_vars

(***************************************************************************)
(* The event loop runs what is ready: the heartbeat task wakes, an         *)
(* admitted call is counted, the shutdown proceeds.  While the process     *)
(* serves, the HTTP client's timeouts end every POST of a heartbeat, and   *)
(* the network does not lose all of them for ever.  Those timeouts bound   *)
(* each read and not the POST, so nothing is assumed of a POST that the    *)
(* shutdown finds under way.  The calls to the backends come to an end.    *)
(***************************************************************************)
Fairness ==
  /\ WF_vars(Tick)
  /\ WF_vars(phase = "serving" /\ (Deliver \/ Lose))
  /\ SF_vars(phase = "serving" /\ Deliver)
  /\ WF_vars(StopLoop) /\ WF_vars(CancelLoop) /\ WF_vars(Stopped)
  /\ \A c \in Calls : WF_vars(Count(c)) /\ WF_vars(Finish(c))

FairSpec == Spec /\ Fairness
------------------------------------------------------------------------------
(* Shape of the state of the worker. *)
TypeOK ==
  /\ pc \in [Calls -> {"new", "admitted", "running", "done"}]
  /\ inFlight \in Nat
  /\ draining \in BOOLEAN
  /\ inv \in Inventory \cup {None}
  /\ phase \in {"serving", "draining", "stopping", "stopped"}
  /\ loop \in {"waiting", "sending", "off"}
  /\ beat \in IF loop = "sending" THEN Report ELSE {None}
  /\ failures \in Nat
  /\ late \subseteq Report
  /\ row \in Report \cup {None}

(***************************************************************************)
(* The in-flight counter and its copy in the inventory count the calls     *)
(* that run, however often the inventory is replaced under them: that is   *)
(* what heartbeats ship and what both concurrency checks read.             *)
(***************************************************************************)
InFlightExact ==
  /\ inFlight = Cardinality(Running)
  /\ inv # None => inv.jobs = inFlight

(***************************************************************************)
(* A call that was let in, with the checks and the count in two steps,     *)
(* only starts when the worker, with it, runs no more calls than the       *)
(* inventory of that moment allows.                                        *)
(***************************************************************************)
AdmittedWithinLimit ==
  [][\A c \in Calls : pc[c] = "admitted" /\ pc'[c] = "running" =>
       Cardinality(Running') <= inv'.maxJobs]_vars

(***************************************************************************)
(* A worker that stays in the draining status, and is registered, is known *)
(* as draining to the gateway again and again, whatever heartbeats are     *)
(* lost or late.                                                           *)
(***************************************************************************)
Lasting == phase = "serving" /\ inv # None /\ inv.status = "draining" /\ row # None
DrainReachesGateway == <>[]Lasting => []<>(row # None /\ row.status = "draining")

(* A shutdown comes to its end, whether or not the calls it waits for and  *)
(* the heartbeat it finds under way come to theirs.                        *)
ShutdownEnds == phase # "serving" ~> phase = "stopped"
==============================================================================
