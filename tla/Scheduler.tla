------------------------------ MODULE Scheduler ------------------------------
(***************************************************************************)
(* scheduler.Scheduler: which (node, model) pairs of the registry a        *)
(* request can go to, and in which order it tries them.                    *)
(*                                                                         *)
(* Scores are integers here, in half points of the code's floats, so that  *)
(* the factor 1.5 of the tool benchmark stays exact; what the code         *)
(* computes from a confidence or a rating is abstracted to the points it   *)
(* contributes.                                                            *)
(***************************************************************************)
EXTENDS Policy, Sequences

CONSTANTS
  LocalNodeId,   \* local_node_id, or a value no node has
  NodeTtl        \* node_ttl_seconds, 0 for None

ASSUME SchedulerAssumption == NodeTtl \in Nat

IsStale(node, moment) ==
  NodeTtl > 0 /\ node.id # LocalNodeId /\ moment - node.seen > NodeTtl

(* Fault: the cap of min(tps, 250) is missing. *)
Uncapped(tps) == tps

Capped(tps) == IF tps > 250 THEN 250 ELSE tps

(* What a benchmark promises: the best positive sample, else the estimate. *)
Observed(samples, expected) ==
  LET seen == {s \in samples : s > 0}
  IN  IF seen = {} THEN expected ELSE CHOOSE s \in seen : \A t \in seen : t <= s

FirstSet(a, b, c) == IF a # 0 THEN a ELSE IF b # 0 THEN b ELSE c

BestDecode(b) == Observed(b.decodes, b.expectedDecode)
BestTool(b) == Observed(b.tools, FirstSet(b.expectedTool, b.expectedEndToEnd, b.expectedDecode))

StatePoints(state) ==
  CASE state = "active"  -> 180
    [] state = "warm"    -> 150
    [] state = "loading" -> -50
    [] state = "cold"    -> -100
    [] OTHER             -> 0

Points(condition, points) == IF condition THEN points ELSE 0

(* Queue depth and running jobs, at 8 and 12 points each. *)
Penalty(node) == 16 * node.queue + 24 * node.jobs

Throughput(request, model) ==
  IF request.task = "tool-use" THEN 3 * Capped(BestTool(model.benchmark))
  ELSE 2 * Capped(BestDecode(model.benchmark))

(* score(); nudge is (rating - 0.5) * RATING_WEIGHT, 0 without a rating. *)
Score(request, node, model, backend, nudge) ==
  Points(request.model = model.id, 2000)
    + Points(request.task \in model.tasks, 240)
    + 40 * Cardinality(request.required \cap model.tags)
    + StatePoints(model.state)
    + Points(node.id = LocalNodeId, 90)
    - Penalty(node)
    + Throughput(request, model)
    + Points(backend.streaming /\ request.stream, 30)
    + Points(backend.tools /\ request.task = "tool-use", 60)
    + model.benchmark.confidence
    + nudge
==============================================================================
