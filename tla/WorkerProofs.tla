----------------------------- MODULE WorkerProofs ----------------------------
(***************************************************************************)
(* Proofs about Worker: the shape of its state, that its in-flight counter *)
(* is exact, and that the counter therefore bounds what it runs.           *)
(***************************************************************************)
EXTENDS Worker, FiniteSetTheorems, TLAPS

(* What the checks of /infer found still holds when the call is counted,   *)
(* and no second call was let in meanwhile.                                *)
LetIn ==
  \A c \in Calls : pc[c] = "admitted" =>
    /\ inv # None /\ inFlight < inv.maxJobs
    /\ \A d \in Calls : pc[d] = "admitted" => d = c

Counts == TypeOK /\ InFlightExact /\ LetIn

(* The three are inductive together.                                       *)
LEMMA CountsInit == Init => Counts
<1>. SUFFICES ASSUME Init PROVE Counts
  OBVIOUS
<1>1. Running = {}
  BY DEF Init, Running
<1>2. Cardinality(Running) = 0
  BY <1>1, FS_EmptySet
<1>3. TypeOK
  BY WorkerAssumption DEF Init, TypeOK
<1>. QED
  BY <1>2, <1>3, InitialAssumption DEF Init, Counts, InFlightExact, LetIn

(* The counter follows the set of running calls when one joins it.         *)
LEMMA Joins ==
  ASSUME Counts, NEW c \in Calls, Count(c)
  PROVE  /\ Cardinality(Running') = Cardinality(Running) + 1
         /\ inFlight' = inFlight + 1
<1>1. IsFiniteSet(Running)
  BY WorkerAssumption, FS_Subset DEF Running
<1>2. c \notin Running /\ Running' = Running \cup {c}
  BY DEF Counts, TypeOK, Count, Running
<1>3. Cardinality(Running') = Cardinality(Running) + 1
  BY <1>1, <1>2, FS_AddElement
<1>4. inFlight' = inFlight + 1
  BY DEF Counts, TypeOK, Count, SetInFlight
<1>. QED
  BY <1>3, <1>4

(* And when one leaves it: the clamp at zero of _set_in_flight is idle.    *)
LEMMA Leaves ==
  ASSUME Counts, NEW c \in Calls, Finish(c)
  PROVE  /\ Cardinality(Running') = Cardinality(Running) - 1
         /\ inFlight' = inFlight - 1
         /\ inFlight' \in Nat
<1>1. IsFiniteSet(Running)
  BY WorkerAssumption, FS_Subset DEF Running
<1>2. c \in Running /\ Running' = Running \ {c}
  BY DEF Counts, TypeOK, Finish, Running
<1>3. Cardinality(Running') = Cardinality(Running) - 1
  BY <1>1, <1>2, FS_RemoveElement
<1>4. Cardinality(Running) > 0
  <2>1. Cardinality(Running) # 0 /\ Cardinality(Running) \in Nat
    BY <1>1, <1>2, FS_EmptySet, FS_CardinalityType
  <2>. QED
    BY <2>1
<1>5. inFlight \in Nat /\ inFlight = Cardinality(Running)
  BY DEF Counts, TypeOK, InFlightExact
<1>6. inFlight' = inFlight - 1 /\ inFlight' \in Nat
  BY <1>4, <1>5 DEF Finish, SetInFlight
<1>. QED
  BY <1>3, <1>6

\* Every step of the worker keeps the shape, and the counter equal to the
\* number of running calls.
LEMMA CountsKept == ASSUME Counts, [Next]_vars PROVE TypeOK' /\ InFlightExact'
<1>. USE DEF Counts
<1>1. CASE UNCHANGED vars
  <2>1. Running' = Running
    BY <1>1 DEF vars, Running
  <2>. QED
    BY <1>1, <2>1 DEF vars, TypeOK, InFlightExact
<1>2. ASSUME NEW c \in Calls, Count(c) PROVE TypeOK' /\ InFlightExact'
  <2>1. inFlight' = inFlight + 1 /\ Cardinality(Running') = Cardinality(Running) + 1
    BY <1>2, Joins
  <2>2. inv # None /\ inv \in Inventory /\ inv' = [inv EXCEPT !.jobs = inFlight']
    BY <1>2 DEF Count, LetIn, SetInFlight, TypeOK
  <2>3. inFlight' \in Nat
    BY <2>1 DEF TypeOK
  <2>4. inv' \in Inventory /\ inv'.jobs = inFlight'
    BY <2>2, <2>3 DEF Inventory
  <2>5. TypeOK'
    BY <1>2, <2>3, <2>4 DEF Count, heartbeat, gateway, TypeOK
  <2>. QED
    BY <2>1, <2>4, <2>5 DEF InFlightExact
<1>3. ASSUME NEW c \in Calls, Finish(c) PROVE TypeOK' /\ InFlightExact'
  <2>1. /\ inFlight' = inFlight - 1 /\ Cardinality(Running') = Cardinality(Running) - 1
        /\ inFlight' \in Nat
    BY <1>3, Leaves
  <2>2. inv' = IF inv = None THEN None ELSE [inv EXCEPT !.jobs = inFlight']
    BY <1>3 DEF Finish, SetInFlight
  <2>3. inv' \in Inventory \cup {None} /\ (inv' # None => inv'.jobs = inFlight')
    BY <2>1, <2>2, WorkerAssumption DEF TypeOK, Inventory
  <2>4. TypeOK'
    BY <1>3, <2>1, <2>3 DEF Finish, heartbeat, gateway, TypeOK
  <2>. QED
    BY <2>1, <2>3, <2>4 DEF InFlightExact
<1>4. ASSUME NEW c \in Calls, Infer(c) \/ Refuse(c) PROVE TypeOK' /\ InFlightExact'
  <2>1. Running' = Running
    BY <1>4 DEF Infer, Refuse, Running, TypeOK
  <2>2. TypeOK'
    BY <1>4 DEF Infer, Refuse, heartbeat, gateway, TypeOK
  <2>. QED
    BY <1>4, <2>1, <2>2 DEF Infer, Refuse, InFlightExact
<1>5. ASSUME NEW i \in Inventories, SetInventory(i) PROVE TypeOK' /\ InFlightExact'
  <2>1. i \in Inventory
    BY WorkerAssumption
  <2>2. inv' \in Inventory /\ inv'.jobs = inFlight
    BY <1>5, <2>1 DEF SetInventory, Inventory, TypeOK
  <2>3. Running' = Running
    BY <1>5 DEF SetInventory, Running
  <2>4. TypeOK'
    BY <1>5, <2>2 DEF SetInventory, heartbeat, gateway, TypeOK
  <2>. QED
    BY <1>5, <2>2, <2>3, <2>4 DEF SetInventory, InFlightExact
<1>6. ASSUME NEW s \in Statuses, WithStatus(s)
      PROVE  inv' \in Inventory \cup {None} /\ (inv' # None => inv # None /\ inv'.jobs = inv.jobs)
  BY <1>6, WorkerAssumption DEF WithStatus, TypeOK, Inventory
<1>7. CASE Drain \/ Resume \/ Shutdown
  <2>1. inv' \in Inventory \cup {None} /\ (inv' # None => inv # None /\ inv'.jobs = inv.jobs)
    BY <1>6, <1>7 DEF Drain, Resume, Shutdown, Statuses
  <2>2. Running' = Running
    BY <1>7 DEF Drain, Resume, Shutdown, Running
  <2>3. TypeOK'
    BY <1>7, <2>1 DEF Drain, Resume, Shutdown, heartbeat, gateway, TypeOK
  <2>. QED
    BY <1>7, <2>1, <2>2, <2>3 DEF Drain, Resume, Shutdown, InFlightExact
<1>8. ASSUME UNCHANGED serving, TypeOK' PROVE TypeOK' /\ InFlightExact'
  <2>1. Running' = Running
    BY <1>8 DEF serving, Running
  <2>. QED
    BY <1>8, <2>1 DEF serving, InFlightExact
<1>9. CASE Tick
  <2>1. beat' \in Report
    BY <1>9 DEF Tick, TypeOK, Inventory, Report
  <2>2. TypeOK'
    BY <1>9, <2>1 DEF Tick, serving, gateway, TypeOK
  <2>. QED
    BY <1>8, <1>9, <2>2 DEF Tick
<1>10. CASE Deliver
  <2>1. failures' \in Nat
    BY <1>10 DEF Deliver, Failed, TypeOK
  <2>2. TypeOK'
    BY <1>10, <2>1 DEF Deliver, Resting, serving, TypeOK
  <2>. QED
    BY <1>8, <1>10, <2>2 DEF Deliver
<1>11. CASE Lose
  <2>1. failures' \in Nat
    BY <1>11 DEF Lose, Failed, TypeOK
  <2>2. late' \subseteq Report
    BY <1>11 DEF Lose, TypeOK
  <2>3. TypeOK'
    BY <1>11, <2>1, <2>2 DEF Lose, Resting, serving, TypeOK
  <2>. QED
    BY <1>8, <1>11, <2>3 DEF Lose
<1>12. CASE LateArrival
  BY <1>8, <1>12 DEF LateArrival, heartbeat, serving, TypeOK
<1>13. CASE \E post \in Posted : Register(post)
  BY <1>8, <1>13, WorkerAssumption DEF Register, heartbeat, serving, TypeOK
<1>14. CASE StopLoop \/ Stopped
  BY <1>8, <1>14 DEF StopLoop, Stopped, heartbeat, gateway, serving, TypeOK
<1>15. CASE CancelLoop
  <2>1. late' \subseteq Report
    BY <1>15 DEF CancelLoop, TypeOK
  <2>2. TypeOK'
    BY <1>15, <2>1 DEF CancelLoop, serving, TypeOK
  <2>. QED
    BY <1>8, <1>15, <2>2 DEF CancelLoop
<1>. QED
  BY <1>1, <1>2, <1>3, <1>4, <1>5, <1>7, <1>9, <1>10, <1>11, <1>12, <1>13, <1>14, <1>15
  DEF Next, Handlers

(* Between the checks and the count nothing of the process runs, and the   *)
(* gateway does not touch what was checked.                                *)
LEMMA LetInKept == ASSUME Counts, [Next]_vars PROVE LetIn'
<1>. USE DEF Counts
<1>1. ASSUME NEW c \in Calls, Infer(c) PROVE LetIn'
  <2>1. \A d \in Calls : pc'[d] = "admitted" => d = c
    BY <1>1 DEF Infer, Serving, Scheduled, TypeOK
  <2>2. inv' # None /\ inFlight' < inv'.maxJobs
    BY <1>1 DEF Infer, Admissible
  <2>. QED
    BY <2>1, <2>2 DEF LetIn
<1>2. ASSUME NEW c \in Calls, Count(c) PROVE LetIn'
  BY <1>2 DEF Count, LetIn, TypeOK
<1>3. ASSUME Scheduled, \A c \in Calls : pc'[c] = "admitted" => pc[c] = "admitted"
      PROVE  LetIn'
  BY <1>3 DEF Scheduled, LetIn
<1>4. ASSUME NEW c \in Calls, Refuse(c) \/ Finish(c) PROVE LetIn'
  BY <1>3, <1>4 DEF Refuse, Finish, Serving, TypeOK
<1>5. CASE (\E i \in Inventories : SetInventory(i)) \/ Drain \/ Resume \/ Shutdown
  BY <1>3, <1>5 DEF SetInventory, Drain, Resume, Shutdown, Serving
<1>6. CASE Tick \/ Deliver \/ Lose \/ StopLoop \/ CancelLoop \/ Stopped
  BY <1>3, <1>6 DEF Tick, Deliver, Lose, StopLoop, CancelLoop, Stopped, serving
<1>7. CASE LateArrival \/ (\E post \in Posted : Register(post)) \/ UNCHANGED vars
  BY <1>7 DEF LateArrival, Register, vars, serving, LetIn
<1>. QED
  BY <1>1, <1>2, <1>4, <1>5, <1>6, <1>7 DEF Next, Handlers

(* In every reachable state the state has its shape and the counter is     *)
(* exact.                                                                  *)
THEOREM CountsInvariant == Spec => []Counts
<1>1. Counts /\ [Next]_vars => Counts'
  BY CountsKept, LetInKept DEF Counts
<1>. QED
  BY <1>1, CountsInit, PTL DEF Spec

(* The variables of a worker always have their type.                       *)
THEOREM TypeCorrect == Spec => []TypeOK
<1>1. Counts => TypeOK
  BY DEF Counts
<1>. QED
  BY <1>1, CountsInvariant, PTL

(* state["in_flight"] and the inventory's current_jobs are the number of   *)
(* /infer calls that run, whatever happens around them.                    *)
THEOREM CounterIsExact == Spec => []InFlightExact
<1>1. Counts => InFlightExact
  BY DEF Counts
<1>. QED
  BY <1>1, CountsInvariant, PTL

(* No call starts that makes the worker run more than its current          *)
(* inventory allows, checked and counted in two steps as it is.            *)
THEOREM AdmissionIsBounded == Spec => AdmittedWithinLimit
<1>1. ASSUME Counts, [Next]_vars, NEW c \in Calls, pc[c] = "admitted", pc'[c] = "running"
      PROVE  Cardinality(Running') <= inv'.maxJobs
  <2>1. Count(c)
    <3>1. ASSUME NEW d \in Calls, Infer(d) \/ Refuse(d) \/ Finish(d) PROVE FALSE
      BY <1>1, <3>1 DEF Counts, TypeOK, Infer, Refuse, Finish
    <3>2. ASSUME NEW d \in Calls, Count(d) PROVE d = c
      BY <1>1, <3>2 DEF Counts, TypeOK, Count
    <3>3. ~UNCHANGED pc
      BY <1>1
    <3>. QED
      BY <1>1, <3>1, <3>2, <3>3
      DEF Next, Handlers, vars, serving, SetInventory, Drain, Resume, Tick, Deliver, Lose,
          LateArrival, Register, Shutdown, StopLoop, CancelLoop, Stopped
  <2>2. Cardinality(Running') = Cardinality(Running) + 1
    BY <1>1, <2>1, Joins
  <2>3. /\ inv \in Inventory /\ inv'.maxJobs = inv.maxJobs
        /\ inFlight < inv.maxJobs
    BY <1>1, <2>1 DEF Counts, LetIn, TypeOK, Count, SetInFlight, Inventory
  <2>4. inFlight \in Nat /\ inFlight = Cardinality(Running)
    BY <1>1 DEF Counts, TypeOK, InFlightExact
  <2>. QED
    BY <2>2, <2>3, <2>4 DEF Inventory
<1>2. Counts /\ [Next]_vars =>
        [\A c \in Calls : pc[c] = "admitted" /\ pc'[c] = "running" =>
           Cardinality(Running') <= inv'.maxJobs]_vars
  BY <1>1
<1>. QED
  BY <1>2, CountsInvariant, PTL DEF Spec, AdmittedWithinLimit
==============================================================================
