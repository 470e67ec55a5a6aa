-------------------------------- MODULE Market -------------------------------
(***************************************************************************)
(* The capability market of the gateway: the inventories the scheduler     *)
(* chooses from, as probes, heartbeats and feedback move them, and the     *)
(* decision on every request that asks for a route while they do.          *)
(*                                                                         *)
(* A decision is one step: the handler reads the inventories and ranks     *)
(* them without an await.  A probe is one step too; what can overtake it   *)
(* between its read and its write is the matter of Gateway.                *)
(***************************************************************************)
EXTENDS Scheduler, SequencesExt

CONSTANTS
  Inventories,   \* the inventories as configured, in node_id order
  Payloads,      \* bodies of POST /v1/chat/completions
  Asks,          \* bodies of POST /mesh/route
  Beats,         \* bodies of heartbeats: [status, jobs, queue]
  Nudges,        \* what an average rating contributes to a score
  MaxTime,       \* bound of the clock, for model checking
  None

(* What the models hold: counts and samples are numbers, an inventory has  *)
(* the fields of NodeInventory, a confidence and a rating are in 0 .. 1    *)
(* (here 0 .. 40 and -80 .. 80 half points).  The code validates the last  *)
(* two; that load and speeds are not negative is what nodes report.        *)
Samples == {s \in SUBSET Nat : IsFiniteSet(s)}
BenchmarkProfiles ==
  [decodes : Samples, tools : Samples, expectedTool : Nat, expectedEndToEnd : Nat,
   expectedDecode : Nat, confidence : 0 .. 40]
ModelStates == {"active", "warm", "cold", "loading", "absent", "unloading"}
ModelCapabilities ==
  [id : STRING, backend : STRING, state : ModelStates, tasks : SUBSET STRING,
   tags : SUBSET STRING, ctx : Nat, out : Nat, benchmark : BenchmarkProfiles]
NodeInventories ==
  [id : STRING, domain : STRING, status : STRING, jobs : Nat, queue : Nat, seen : Nat,
   maxJobs : Nat, users : SUBSET STRING, ctx : Nat, out : Nat, tags : SUBSET STRING,
   backends : SUBSET [id : STRING, streaming : BOOLEAN, tools : BOOLEAN],
   allowed : SUBSET STRING, denied : SUBSET STRING, authority : BOOLEAN,
   models : Seq(ModelCapabilities)]

ASSUME MarketAssumption ==
  /\ Inventories \in Seq(NodeInventories)
  /\ Beats \subseteq [status : STRING, jobs : Nat, queue : Nat]
  /\ Nudges \subseteq -80 .. 80
  /\ \A ask \in Asks : IsFiniteSet(ask.required)

VARIABLES
  now,
  nodes,     \* table nodes, in node_id order
  ratings,   \* _rating_averages of each (node id, model id), as a nudge
  result     \* the last decision: the request, its candidates best first, and
             \* the rejected pairs with their reasons (model 0: the whole node)

vars == <<now, nodes, ratings, result>>

(* The models of the registry, as positions: node, then model of the node. *)
Pairs(ns) == UNION {{i} \X (DOMAIN ns[i].models) : i \in DOMAIN ns}

(* The key of a model in _rating_averages. *)
Key(ns, p) == <<ns[p[1]].id, ns[p[1]].models[p[2]].id>>

Backends(node, model) == {b \in node.backends : b.id = model.backend}
(* backend_by_id; only used when there is one *)
BackendOf(node, model) == CHOOSE b \in Backends(node, model) : TRUE

ScoreOf(request, ns, p) ==
  LET node == ns[p[1]]
      model == node.models[p[2]]
  IN  Score(request, node, model, BackendOf(node, model), ratings[Key(ns, p)])

IsCandidate(request, p) ==
  LET node == nodes[p[1]]
      model == node.models[p[2]]
  IN  Backends(node, model) # {} /\ Allowed(request, node, model)

Rejection(request, p) ==
  LET node == nodes[p[1]]
      model == node.models[p[2]]
  IN  IF Backends(node, model) = {} THEN "backend is missing"
      ELSE DenialReason(request, node, model)

(* The stable sort by descending score: pairs of equal score keep the      *)
(* order of the registry.                                                  *)
Earlier(p, q) == p[1] < q[1] \/ (p[1] = q[1] /\ p[2] < q[2])
Before(score, p, q) == score[p] > score[q] \/ (score[p] = score[q] /\ Earlier(p, q))
Sorted(pairs, score) ==
  CHOOSE s \in SetToSeqs(pairs) :
    \A j, k \in DOMAIN s : j < k => Before(score, s[j], s[k])

(* Scheduler.route: the pairs of the nodes that are not stale, sorted if   *)
(* they are allowed and rejected with a reason if not.                     *)
Stale == {i \in DOMAIN nodes : IsStale(nodes[i], now)}
Fresh == {p \in Pairs(nodes) : p[1] \notin Stale}
Candidates(request) == {p \in Fresh : IsCandidate(request, p)}

Route(request, payload) ==
  LET allowed == Candidates(request)
  IN  [request    |-> request,
       payload    |-> payload,
       candidates |-> Sorted(allowed, [p \in allowed |-> ScoreOf(request, nodes, p)]),
       rejections |-> {<<p, Rejection(request, p)>> : p \in Fresh \ allowed}
                        \cup {<<<<i, 0>>, "stale">> : i \in Stale}]

(* Fault: tools only bring the tool authority gate. *)
TaskAsAsked(payload) == IF payload.task = None THEN "chat" ELSE payload.task

(* The task class: tools change that of a chat, and no other. *)
TaskClass(payload) ==
  IF payload.tools /\ payload.task \in {None, "chat"} THEN "tool-use"
  ELSE IF payload.task = None THEN "chat" ELSE payload.task

(* The request chat_completions makes of a payload; tools bring the tool   *)
(* authority gate.                                                         *)
FromPayload(payload) ==
  [requester   |-> payload.requester,
   sensitivity |-> IF payload.sensitivity = None THEN "public" ELSE payload.sensitivity,
   task        |-> TaskClass(payload),
   model       |-> payload.model,
   required    |-> {},
   forbidden   |-> {},
   ctx         |-> payload.tokens + payload.out,
   out         |-> payload.out,
   stream      |-> payload.stream,
   authority   |-> payload.tools \/ payload.authority]

(* Fault: a model that comes back starts cold. *)
RefreshedCold(state, listed) ==
  IF ~listed THEN "absent"
  ELSE IF state = "absent" THEN "cold"
  ELSE IF state \in {"cold", "loading"} THEN "warm" ELSE state

(* refresh_node_model_states: what each backend lists, None for one that   *)
(* did not answer.  A mock backend lists nothing.                          *)
Refreshed(state, listed) ==
  IF ~listed THEN "absent"
  ELSE IF state \in {"cold", "absent", "loading"} THEN "warm" ELSE state

RefreshModelStates(node, listing) ==
  [node EXCEPT !.models =
    [j \in DOMAIN @ |->
      LET model == @[j] IN
      IF Backends(node, model) = {} \/ listing[model.backend] = None THEN model
      ELSE [model EXCEPT !.state = Refreshed(@, model.id \in listing[model.backend])]]]

ModelIds(node) == {node.models[j].id : j \in DOMAIN node.models}
Listings(node) == [{b.id : b \in node.backends} -> SUBSET ModelIds(node) \cup {None}]
------------------------------------------------------------------------------
Init ==
  /\ now = 0
  /\ nodes = Inventories
  /\ ratings = [k \in {Key(Inventories, p) : p \in Pairs(Inventories)} |-> 0]
  /\ result = None

Chat(payload) ==
  /\ result' = Route(FromPayload(payload), payload)
  /\ UNCHANGED <<now, nodes, ratings>>

DryRoute(ask) ==
  /\ result' = Route(ask, None)
  /\ UNCHANGED <<now, nodes, ratings>>

Probe(i, listing) ==
  /\ nodes' = [nodes EXCEPT ![i] = RefreshModelStates(@, listing)]
  /\ result' = None
  /\ UNCHANGED <<now, ratings>>

Heartbeat(i, beat) ==
  /\ nodes' = [nodes EXCEPT ![i].status = beat.status, ![i].jobs = beat.jobs,
                            ![i].queue = beat.queue, ![i].seen = now]
  /\ result' = None
  /\ UNCHANGED <<now, ratings>>

(* submit_feedback ends by handing the new averages to the scheduler. *)
Feedback(key, nudge) ==
  /\ ratings' = [ratings EXCEPT ![key] = nudge]
  /\ result' = None
  /\ UNCHANGED <<now, nodes>>

Tick ==
  /\ now < MaxTime
  /\ now' = now + 1
  /\ result' = None
  /\ UNCHANGED <<nodes, ratings>>

Next ==
  \/ \E payload \in Payloads : Chat(payload)
  \/ \E ask \in Asks : DryRoute(ask)
  \/ \E i \in DOMAIN nodes :
       \/ \E listing \in Listings(nodes[i]) : Probe(i, listing)
       \/ \E beat \in Beats : Heartbeat(i, beat)
  \/ \E key \in DOMAIN ratings, nudge \in Nudges : Feedback(key, nudge)
  \/ Tick

Spec == Init /\ [][Next]_vars
------------------------------------------------------------------------------
Decided == result # None
Ranked == {result.candidates[k] : k \in DOMAIN result.candidates}
IsRequested(p) == result.request.model = nodes[p[1]].models[p[2]].id

(***************************************************************************)
(* The model a client names wins over any other candidate, however fast,   *)
(* warm, local or well rated that one is: only the load of the node that   *)
(* has the named model (and the tags the request requires) can outweigh    *)
(* the name, and only from 295 points on.                                  *)
(***************************************************************************)
RequestedModelWins ==
  Decided =>
    \A p \in Ranked :
      IsRequested(p) /\ Penalty(nodes[p[1]]) + 40 * Cardinality(result.request.required) < 590
        => IsRequested(result.candidates[1])

(***************************************************************************)
(* What must stay local stays local on every candidate, the fallbacks      *)
(* included: secrets, tool-local data, tool-use jobs, and the payloads     *)
(* with tools that do not name a task class.                               *)
(***************************************************************************)
LocalOnlyStaysLocal ==
  Decided =>
    \/ \A p \in Ranked : nodes[p[1]].domain = "local"
    \/ /\ result.request.sensitivity \notin LocalOnly /\ result.request.task # "tool-use"
       /\ result.payload # None => ~(result.payload.tools /\ result.payload.task = None)

StateOf(ns, p) == ns[p[1]].models[p[2]].state
Moved(p) == StateOf(nodes', p) # StateOf(nodes, p)

(***************************************************************************)
(* A probe that finds a model listed never makes it worse: whatever state  *)
(* it was in, no request scores it lower than before.                      *)
(***************************************************************************)
ListedModelsRise ==
  [][\A p \in Pairs(nodes), ask \in Asks :
       Moved(p) /\ StateOf(nodes', p) # "absent"
       => ScoreOf(ask, nodes', p) >= ScoreOf(ask, nodes, p)]_vars

(* What the documentation promises and the code does not keep. *)

(***************************************************************************)
(* "Inbound tools / tool_choice in an OpenAI payload are detected and      *)
(* upgraded to tool-use automatically - clients do not need to set a       *)
(* custom task_class field to get the local-only guarantee" (README).      *)
(***************************************************************************)
ToolPayloadsStayLocal ==
  Decided /\ result.payload # None /\ result.payload.tools =>
    \A p \in Ranked : nodes[p[1]].domain = "local"
==============================================================================
