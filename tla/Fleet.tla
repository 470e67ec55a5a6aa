-------------------------------- MODULE Fleet --------------------------------
(***************************************************************************)
(* When a node that lives is taken for dead: the heartbeat loop of a       *)
(* worker with its backoff, the last_seen of its row at the gateway, the   *)
(* probe task that writes rows back as it read them, and outages of the    *)
(* network or of the gateway between them.  Time passes in discrete steps; *)
(* nobody is late for what it waits for.                                   *)
(*                                                                         *)
(* The row is that of one registered node; that the probe task waits for   *)
(* the backends of the others too is the length of its window.             *)
(***************************************************************************)
EXTENDS Naturals

CONSTANTS
  Interval,        \* interval_s of the heartbeat loop
  BackoffMax,      \* backoff_max_s
  Timeout,         \* timeout_s of send_heartbeat
  TTL,             \* node_ttl_seconds
  ProbeInterval,   \* probe_interval_s
  ProbeMax,        \* how long the probe task holds the row, at most, and
                   \* how long it is busy with other rows after that
  ShortTrouble,    \* the troubles nobody notices are at most that long
  MaxTrouble,      \* bound of a trouble, for model checking
  None

ASSUME FleetAssumption ==
  /\ Interval \in Nat \ {0} /\ BackoffMax \in Nat /\ Interval <= BackoffMax
  /\ Timeout \in Nat /\ TTL \in Nat /\ ProbeMax \in Nat
  /\ ProbeInterval \in Nat /\ Interval + Timeout < ProbeInterval
  /\ ShortTrouble \in Nat /\ MaxTrouble \in Nat
  /\ None \notin Nat

(* A fact about numbers, named for the proofs: the provers do not know it. *)
ASSUME PowersAssumption == \A k \in 0 .. 8 : 2 ^ k \in Nat \ {0}

VARIABLES
  timer,      \* how long the loop still waits
  sending,    \* how long the POST has been on its way, or None
  failures,   \* _consecutive_failures
  age,        \* how old last_seen is
  held,       \* the age of the row in the hands of the probe task, or None
  probe,      \* how long the probe task has held it, or not held it since
  up,         \* the worker reaches the gateway
  calm,       \* for how long it has
  trouble     \* how long it did not, or only for moments

loop == <<timer, sending, failures>>
task == <<held, probe>>
network == <<up, calm, trouble>>
vars == <<loop, age, task, network>>

Least(a, b) == IF a < b THEN a ELSE b

(* Fault: no limit to the backoff. *)
NextDelayUncapped(k) == IF k = 0 THEN Interval ELSE Interval * 2 ^ Least(k - 1, 8)

NextDelay(k) ==
  IF k = 0 THEN Interval ELSE Least(Interval * 2 ^ Least(k - 1, 8), BackoffMax)

(* How long an undisturbed loop takes from one arrival to the next, at most. *)
Beat == Interval + Timeout

(* Before that instant a beat has arrived that no probe undoes: the loop   *)
(* gives up a last POST, waits, and sends the next; the probe that undoes  *)
(* it ends; and the next beat comes before the next probe.                 *)
Settled == Timeout + BackoffMax + Timeout + ProbeMax + Beat + 1

(* Ages above are not told apart. *)
Old == TTL + Settled

Init ==
  /\ timer = 0 /\ sending = None /\ failures = 0
  /\ age = 0
  /\ held = None /\ probe = ProbeInterval
  /\ up = TRUE /\ calm = Settled /\ trouble = 0
------------------------------------------------------------------------------
Rest(k) == sending' = None /\ failures' = k /\ timer' = NextDelay(k)

Send ==
  /\ timer = 0 /\ sending = None
  /\ sending' = 0
  /\ UNCHANGED <<timer, failures, age, task, network>>

(* Fault: a beat that arrives does not end the backoff. *)
ArriveBackedOff ==
  /\ up /\ sending # None
  /\ age' = 0
  /\ Rest(failures)
  /\ UNCHANGED <<task, network>>

Arrive ==
  /\ up /\ sending # None
  /\ age' = 0
  /\ Rest(0)
  /\ UNCHANGED <<task, network>>

(* Refused at once, or given up at the timeout. *)
Fail ==
  /\ ~up /\ sending # None
  /\ Rest(failures + 1)
  /\ UNCHANGED <<age, task, network>>

(* The POST was sent into an outage and is given up after it. *)
FailLate ==
  /\ up /\ calm <= Timeout /\ sending = Timeout
  /\ Rest(failures + 1)
  /\ UNCHANGED <<age, task, network>>

(* The next round begins ProbeInterval after the end of the last one. *)
ProbeRead ==
  /\ held = None /\ probe >= ProbeInterval
  /\ held' = age
  /\ probe' = 0
  /\ UNCHANGED <<loop, age, network>>

(* The row is written; the round goes on with others, then the task sleeps. *)
ProbeWrite ==
  /\ held # None
  /\ age' = held
  /\ held' = None
  /\ probe' = 0
  /\ UNCHANGED <<loop, network>>

(* The round ends without a write, and the task sleeps. *)
ProbeRaises ==
  /\ held # None
  /\ held' = None
  /\ probe' = 0
  /\ UNCHANGED <<loop, age, network>>

(* A trouble goes on when the last one has not settled. *)
GoDown ==
  /\ up
  /\ calm < Settled => trouble + calm <= MaxTrouble
  /\ up' = FALSE
  /\ trouble' = IF calm < Settled THEN trouble + calm ELSE 0
  /\ calm' = 0
  /\ UNCHANGED <<loop, age, task>>

(* The network is back, or the gateway, whose probe task starts anew. *)
ComeBack ==
  /\ ~up
  /\ up' = TRUE
  /\ \/ UNCHANGED task
     \/ held' = None /\ probe' = ProbeInterval
  /\ UNCHANGED <<loop, age, calm, trouble>>

(* Time passes, when nobody has something to do first. *)
Tick ==
  /\ timer > 0 \/ sending \in 0 .. Timeout - 1
  /\ IF held = None THEN probe < ProbeInterval + ProbeMax ELSE probe < ProbeMax
  /\ up \/ trouble < MaxTrouble
  /\ IF sending = None THEN timer' = timer - 1 /\ UNCHANGED sending
     ELSE sending' = sending + 1 /\ UNCHANGED timer
  /\ age' = Least(age + 1, Old)
  /\ held' = IF held = None THEN None ELSE Least(held + 1, Old)
  /\ probe' = probe + 1
  /\ IF up THEN calm' = Least(calm + 1, Settled) /\ UNCHANGED trouble
     ELSE trouble' = trouble + 1 /\ UNCHANGED calm
  /\ UNCHANGED <<failures, up>>

Next ==
  \/ Send \/ Arrive \/ Fail \/ FailLate
  \/ ProbeRead \/ ProbeWrite \/ ProbeRaises
  \/ GoDown \/ ComeBack \/ Tick

Spec == Init /\ [][Next]_vars
------------------------------------------------------------------------------
(* The age of a row in a calm, at most: two beats and a probe. *)
Fresh == Beat + ProbeMax + Beat

(* How long the loop waits between k + 1 POSTs that fail in a row. *)
Waits[k \in Nat] == IF k = 0 THEN 0 ELSE Waits[k - 1] + NextDelay(k)

(* A row that is so old when a beat arrives is young enough until the next *)
(* one, even if a probe undoes the first.                                  *)
InTime(x) == x + ProbeMax + Beat <= TTL

(***************************************************************************)
(* What the configuration must satisfy for a trouble of ShortTrouble to    *)
(* pass unnoticed.  The first beat after it comes in time if it was about  *)
(* to be sent, if all POSTs since the beginning failed, k + 1 of them, and *)
(* if as many failed since a beat that a probe undid.                      *)
(***************************************************************************)
TroubleIsShort ==
  /\ InTime(Fresh + ShortTrouble + Beat)
  /\ \A k \in 0 .. ShortTrouble :
       /\ Waits[k] <= ShortTrouble =>
            InTime(Fresh + Waits[k + 1] + (k + 1) * Timeout)
       /\ Interval + Waits[k] <= ShortTrouble =>
            InTime(Fresh + ShortTrouble + Timeout + NextDelay(k + 1) + Timeout)

(***************************************************************************)
(* A node that lives is not stale, and so can be routed to, through every  *)
(* trouble that is short enough, although its heartbeats back off and the  *)
(* probe task undoes some that arrive.                                     *)
(***************************************************************************)
ShortTroubleUnnoticed == trouble <= ShortTrouble => age <= TTL

(***************************************************************************)
(* However long the trouble was, once the worker has reached the gateway   *)
(* for Settled, the row is as fresh as it can be kept beside the probe     *)
(* task: two beats and a probe old at most.                                *)
(***************************************************************************)
FreshWhenSettled == calm = Settled => age <= Fresh
==============================================================================
