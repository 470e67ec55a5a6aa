------------------------------ MODULE SlotPool ------------------------------
(***************************************************************************)
(* What the gateway's current_jobs promises, without handlers, writes and  *)
(* rows: a pool of slots per place.  Taking a slot raises the count of its *)
(* place and giving it back lowers it again, so a taker may go through     *)
(* many places, one after the other.  A taker that disappears with a slot  *)
(* leaves the count as it is and never comes back; counts are only reset   *)
(* while nobody holds a slot.                                              *)
(***************************************************************************)
EXTENDS Naturals

CONSTANTS
  Places,
  Takers,
  None,    \* no slot; not a place
  Gone     \* disappeared, with a slot or without; neither a place nor None

VARIABLES
  holds,   \* the place each taker has a slot of, or None, or Gone
  count    \* the number kept for each known place

Init ==
  /\ holds = [t \in Takers |-> None]
  /\ \E known \in SUBSET Places : count = [p \in known |-> 0]

Take(t, p) ==
  /\ holds[t] = None
  /\ p \in DOMAIN count
  /\ holds' = [holds EXCEPT ![t] = p]
  /\ count' = [count EXCEPT ![p] = @ + 1]

(* The place is the one the slot was taken from, and it still counts it. *)
GiveBack(t) ==
  LET p == holds[t] IN
  /\ p \in DOMAIN count
  /\ count[p] > 0
  /\ holds' = [holds EXCEPT ![t] = None]
  /\ count' = [count EXCEPT ![p] = @ - 1]

(* Some disappear; when all do, their slots leak together. *)
Disappear(S) ==
  /\ holds' = [t \in Takers |-> IF t \in S THEN Gone ELSE holds[t]]
  /\ UNCHANGED count

Reset(known) ==
  /\ \A t \in Takers : holds[t] \in {None, Gone}
  /\ count' = [p \in DOMAIN count |-> IF p \in known THEN 0 ELSE count[p]]
  /\ UNCHANGED holds

Next ==
  \/ \E t \in Takers : GiveBack(t) \/ \E p \in Places : Take(t, p)
  \/ \E S \in SUBSET Takers : Disappear(S)
  \/ \E known \in SUBSET Places : Reset(known)

Spec == Init /\ [][Next]_<<holds, count>>
==============================================================================
