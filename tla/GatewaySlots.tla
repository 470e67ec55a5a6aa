---------------------------- MODULE GatewaySlots ----------------------------
(***************************************************************************)
(* The gateway as a pool of slots: an attempt holds a slot of its node     *)
(* from the write that counts it to the write that gives it back.          *)
(***************************************************************************)
EXTENDS Gateway

ASSUME SlotAssumption == None \notin Nodes /\ "gone" \notin Nodes \cup {None}

SlotOf(r) ==
  IF pc[r] \in Counted THEN Host[at[r]]
  ELSE IF pc[r] \in {"lost", "crashed"} THEN "gone" ELSE None

Pool == INSTANCE SlotPool WITH
  Places <- Nodes,
  Takers <- Requests,
  Gone <- "gone",
  holds <- [r \in Requests |-> SlotOf(r)],
  count <- [n \in DOMAIN nodes |-> nodes[n].jobs]

(***************************************************************************)
(* Whatever raises, is abandoned or crashes, current_jobs behaves like a   *)
(* pool of slots: every attempt that was counted gives its slot back       *)
(* exactly once or ends with it, the clamp at zero of delta_node_jobs      *)
(* never swallows a decrement, and no other step touches a count.          *)
(***************************************************************************)
ImplementsSlotPool == Pool!Spec
==============================================================================
