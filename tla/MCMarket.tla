------------------------------- MODULE MCMarket ------------------------------
(***************************************************************************)
(* A small instance of Market: home is the gateway's own slow node with    *)
(* the model "m"; rig is the fast node of a friend, who allows tool        *)
(* authority, with "big" on one backend and on another that is missing.    *)
(***************************************************************************)
EXTENDS Market

Bench(tps) == [decodes |-> {tps}, tools |-> {0}, expectedTool |-> 0, expectedEndToEnd |-> tps,
               expectedDecode |-> 10, confidence |-> IF tps > 250 THEN 40 ELSE 0]

Model(id, backend, state, tasks, tps) ==
  [id |-> id, backend |-> backend, state |-> state, tasks |-> tasks, tags |-> {},
   ctx |-> 8, out |-> 4, benchmark |-> Bench(tps)]

Node(id, domain, backends, models) ==
  [id |-> id, domain |-> domain, status |-> "online", jobs |-> 0, queue |-> 0, seen |-> 0,
   maxJobs |-> 30, users |-> {}, ctx |-> 0, out |-> 0, tags |-> {id}, backends |-> backends,
   allowed |-> {"public", "secret-local"}, denied |-> {}, authority |-> TRUE, models |-> models]

Backend(id) == [id |-> id, streaming |-> TRUE, tools |-> TRUE]

MCInventories ==
  << Node("home", "local", {Backend("llama")},
          <<Model("m", "llama", "cold", {"chat", "tool-use"}, 1)>>),
     Node("rig", "friends", {Backend("vllm")},
          <<Model("big", "vllm", "loading", {"chat", "tool-use", "coding"}, 900),
            Model("big", "gone", "warm", {"chat"}, 900)>>) >>

Payload(sensitivity, task, tools, model) ==
  [requester |-> "keith", sensitivity |-> sensitivity, task |-> task, tools |-> tools,
   authority |-> FALSE, model |-> model, tokens |-> 4, out |-> 2, stream |-> TRUE]

MCPayloads ==
  { Payload(None, None, FALSE, "m"), Payload(None, None, TRUE, "big"),
    Payload(None, "coding", TRUE, "big"), Payload("secret-local", None, FALSE, "big") }

Ask(task, model, required) ==
  [requester |-> "keith", sensitivity |-> "public", task |-> task, model |-> model,
   required |-> required, forbidden |-> {}, ctx |-> 0, out |-> 0, stream |-> FALSE,
   authority |-> FALSE]

MCAsks == { Ask("chat", "m", {}), Ask("tool-use", "m", {"home"}) }

MCNudges == {-80, 80}

MCBeats == { [status |-> "online", jobs |-> 24, queue |-> 0],
             [status |-> "degraded", jobs |-> 0, queue |-> 40],
             [status |-> "draining", jobs |-> 0, queue |-> 0] }
==============================================================================
