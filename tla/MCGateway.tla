------------------------------ MODULE MCGateway ------------------------------
(***************************************************************************)
(* Small instances of Gateway.  near is the gateway's own node with one    *)
(* slot, far a second configured node, guest a node that registers itself. *)
(***************************************************************************)
EXTENDS GatewaySlots

MCPosition == [n \in Nodes |-> CASE n = "far" -> 1 [] n = "guest" -> 2 [] OTHER -> 3]
MCConfig ==
  [n \in Configured |-> [status |-> IF n = "far" THEN "degraded" ELSE "online", jobs |-> 0, inv |-> n]]

(* Endpoints, one or two per node; an inventory is named after its node. *)
MCEndpoints == {"near.a", "far.a", "far.b", "guest.a"}
MCHost == [e \in MCEndpoints |-> CASE e = "near.a" -> "near" [] e = "guest.a" -> "guest" [] OTHER -> "far"]
MCInventories == {"near", "far", "guest", "bare"}
MCOffers == [i \in MCInventories |-> {e \in MCEndpoints : MCHost[e] = i}]
MCMaxJobs == [i \in MCInventories |-> IF i = "far" THEN 2 ELSE 1]

(* Requests: k1, k2 and the stream s1 of keith, a1 and the refused a2 of alice. *)
MCOwner == [r \in Requests |-> IF r \in {"a1", "a2"} THEN "alice" ELSE "keith"]
MCEligible == [r \in Requests |-> IF r = "k1" THEN MCEndpoints ELSE {"near.a", "far.a"}]

NoQuota == [u \in {} |-> 0]
KeithQuota == [keith |-> 2]
NoLimits == [u \in {} |-> 0]
KeithLimit == [keith |-> 1]
OneEach == [r \in Requests |-> {"far.a", "guest.a"}]
(* k2 has no second choice. *)
NearFar == [r \in Requests |-> IF r = "k2" THEN {"near.a"} ELSE {"near.a", "far.a"}]

(* A registration, and a beat, may report a negative count. *)
GuestPostings ==
  {[node |-> "guest", status |-> "online", jobs |-> -2, inv |-> "guest"]}
MCBeats ==
  {[node |-> "guest", status |-> "draining", jobs |-> 1],
   [node |-> "far", status |-> None, jobs |-> -1],
   [node |-> "far", status |-> None, jobs |-> None]}
(* The worker of far counts only the jobs that came through its own /infer. *)
IdleBeats == {[node |-> "far", status |-> "online", jobs |-> 0]}
==============================================================================
