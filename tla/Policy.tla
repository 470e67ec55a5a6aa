------------------------------- MODULE Policy -------------------------------
(***************************************************************************)
(* policy.evaluate_policy: the gates between a request and one model of    *)
(* one node.  The gateway asks it while routing, the worker once more      *)
(* before it runs the job.                                                 *)
(*                                                                         *)
(* Requests, nodes and models are records; a limit of 0 stands for a limit *)
(* that is absent or zero, which the code's truth tests treat alike.       *)
(***************************************************************************)
EXTENDS Integers, FiniteSets

LocalOnly == {"secret-local", "tool-local"}

(* Both limits are given and the asked amount exceeds the offered one. *)
Exceeds(asked, offered) == asked > 0 /\ offered > 0 /\ asked > offered

TagsOf(node, model) == model.tags \cup node.tags

(* The gates in the order of the code, and whether each one is closed. *)
Gates(request, node, model) ==
  << <<"node status",          node.status \notin {"online", "degraded"}>>,
     <<"concurrency limit",    node.jobs >= node.maxJobs>>,
     <<"requester",            node.users # {} /\ request.requester \notin node.users>>,
     <<"denied sensitivity",   request.sensitivity \in node.denied>>,
     <<"sensitivity",          request.sensitivity \notin node.allowed>>,
     <<"must stay local",      request.sensitivity \in LocalOnly /\ node.domain # "local">>,
     <<"tool authority",       request.authority /\ ~node.authority>>,
     <<"tool use is local",    request.task = "tool-use" /\ node.domain # "local">>,
     <<"model context",        Exceeds(request.ctx, model.ctx)>>,
     <<"node context",         Exceeds(request.ctx, node.ctx)>>,
     <<"model output",         Exceeds(request.out, model.out)>>,
     <<"node output",          Exceeds(request.out, node.out)>>,
     <<"missing tags",         ~(request.required \subseteq TagsOf(node, model))>>,
     <<"blocked tags",         request.forbidden \cap TagsOf(node, model) # {}>>,
     <<"task class",           request.task \notin model.tasks \cup {"chat"}>> >>

(* The closed gates; the first one gives evaluate_policy its reason. *)
Closed(request, node, model) ==
  LET gates == Gates(request, node, model) IN {i \in DOMAIN gates : gates[i][2]}

Allowed(request, node, model) == Closed(request, node, model) = {}

DenialReason(request, node, model) ==
  LET closed == Closed(request, node, model)
  IN  Gates(request, node, model)[CHOOSE i \in closed : \A j \in closed : i <= j][1]
==============================================================================
