------------------------------ MODULE FleetProofs ------------------------------
(***************************************************************************)
(* Proofs about Fleet: for every interval, backoff, timeout and probe      *)
(* period, a calm network makes the row of a node fresh in time.           *)
(***************************************************************************)
EXTENDS Fleet, Integers, WellFoundedInduction, TLAPS

(* The loop never waits longer than its limit, and always for a while.     *)
LEMMA DelayBounded == \A k \in Nat : NextDelay(k) \in 1 .. BackoffMax
<1>. TAKE k \in Nat
<1>1. Interval \in Nat \ {0} /\ BackoffMax \in Nat /\ Interval <= BackoffMax
  BY FleetAssumption
<1>2. CASE k = 0
  BY <1>1, <1>2 DEF NextDelay
<1>3. CASE k # 0
  <2>. DEFINE e == Least(k - 1, 8)
              p == 2 ^ e
  <2>1. e \in 0 .. 8
    BY <1>3 DEF Least
  <2>. HIDE DEF e
  <2>2. p \in Nat \ {0}
    BY <2>1, PowersAssumption
  <2>3. NextDelay(k) = Least(Interval * p, BackoffMax)
    BY <1>3 DEF NextDelay, e
  <2>. HIDE DEF p
  <2>4. Interval * p \in Nat \ {0}
    BY <1>1, <2>2
  <2>. QED
    BY <1>1, <2>3, <2>4 DEF Least
<1>. QED
  BY <1>2, <1>3

(***************************************************************************)
(* The next beat arrives within Due, if the network stays up.              *)
(***************************************************************************)
Due == IF sending = None THEN timer + Timeout ELSE Timeout - sending

LoopOK ==
  /\ timer \in 0 .. BackoffMax /\ sending \in 0 .. Timeout \cup {None} /\ failures \in Nat
  /\ sending # None => timer = 0

TaskOK ==
  /\ age \in Nat /\ held \in Nat \cup {None} /\ probe \in Nat
  /\ IF held = None THEN probe <= ProbeInterval + ProbeMax ELSE probe <= ProbeMax

NetworkOK ==
  /\ up \in BOOLEAN /\ calm \in 0 .. Settled
  /\ ~ up => calm = 0

(* The row is as old as the last beat.                                     *)
Kept == age + Due <= Beat

(* By then the loop has sent its first beat into the calm.                 *)
FirstBeat == BackoffMax + Timeout + Timeout

(* The calm is too young for a beat to have arrived in it for certain.     *)
Waiting == calm + Due <= FirstBeat

(* A beat has arrived, but the probe task may still undo it ...            *)
Threatened == held # None /\ Kept /\ calm <= FirstBeat + probe

(* ... or has just done so.                                                *)
Undone == held = None /\ probe + Due <= Beat /\ calm + Due <= FirstBeat + ProbeMax + Beat

(* A beat has arrived, and all that the probe task holds is a later row.   *)
Steady ==
  \/ held = None /\ Kept
  \/ held = None /\ probe + Due <= Beat /\ age + Due <= Beat + ProbeMax + Beat
  \/ held # None /\ Kept /\ held <= Beat + probe

FleetInv ==
  /\ LoopOK /\ TaskOK /\ NetworkOK
  /\ up => Waiting \/ Threatened \/ Undone \/ Steady
------------------------------------------------------------------------------
LEMMA Numbers ==
  /\ Interval \in Nat \ {0} /\ BackoffMax \in Nat /\ Timeout \in Nat /\ ProbeMax \in Nat
  /\ TTL \in Nat /\ ProbeInterval \in Nat /\ None \notin Nat
  /\ Interval <= BackoffMax /\ Beat < ProbeInterval
  /\ Beat = Interval + Timeout /\ Beat \in Nat
  /\ FirstBeat = BackoffMax + Timeout + Timeout /\ FirstBeat \in Nat
  /\ Settled = FirstBeat + ProbeMax + Beat + 1 /\ Settled \in Nat
  /\ Old = TTL + Settled /\ Old \in Nat
<1>1. /\ Interval \in Nat \ {0} /\ BackoffMax \in Nat /\ Timeout \in Nat /\ ProbeMax \in Nat
      /\ TTL \in Nat /\ ProbeInterval \in Nat /\ None \notin Nat
      /\ Interval <= BackoffMax /\ Interval + Timeout < ProbeInterval
  BY FleetAssumption
<1>2. Beat = Interval + Timeout /\ Beat \in Nat
  BY <1>1 DEF Beat
<1>3. FirstBeat = BackoffMax + Timeout + Timeout /\ FirstBeat \in Nat
  BY <1>1 DEF FirstBeat
<1>4. Settled = FirstBeat + ProbeMax + Beat + 1 /\ Settled \in Nat
  BY <1>1, <1>2, <1>3 DEF Settled
<1>5. Old = TTL + Settled /\ Old \in Nat
  BY <1>1, <1>4 DEF Old
<1>. QED
  BY <1>1, <1>2, <1>3, <1>4, <1>5

(* The next beat is at most a backoff and a timeout away, and nearer after *)
(* one that arrived.                                                       *)
LEMMA DueBounded ==
  ASSUME LoopOK
  PROVE  Due \in Nat /\ Due <= BackoffMax + Timeout
<1>. QED
  BY Numbers DEF LoopOK, Due

LEMMA FleetInit == Init => FleetInv
<1>. SUFFICES ASSUME Init PROVE FleetInv
  OBVIOUS
<1>1. Due = Timeout
  BY Numbers DEF Init, Due
<1>2. LoopOK /\ TaskOK /\ NetworkOK
  BY Numbers DEF Init, LoopOK, TaskOK, NetworkOK
<1>3. Steady
  BY <1>1, Numbers DEF Init, Steady, Kept
<1>. QED
  BY <1>2, <1>3 DEF FleetInv

(* Whatever grows by one at most while a beat comes nearer by one.         *)
LEMMA OlderAndNearer ==
  ASSUME NEW x \in Int, NEW y \in Int, y <= x + 1,
         NEW d \in Int, NEW e \in Int, e = d - 1
  PROVE  y + e <= x + d /\ y + e \in Int /\ x + d \in Int
<1>. QED
  OBVIOUS

LEMMA Below == \A x, y, z \in Int : x <= y /\ y <= z => x <= z
  OBVIOUS

(* What the loop does between two beats.                                   *)
LEMMA SendStep ==
  ASSUME FleetInv, Send
  PROVE  FleetInv'
<1>1. LoopOK' /\ TaskOK' /\ NetworkOK'
  BY Numbers DEF FleetInv, Send, LoopOK, TaskOK, NetworkOK, task, network, Settled, Beat
<1>2. Due' = Due
  BY Numbers DEF Send, Due
<1>3. UNCHANGED <<age, held, probe, up, calm>>
  BY DEF Send, task, network
<1>. QED
  BY <1>1, <1>2, <1>3 DEF FleetInv, Waiting, Threatened, Undone, Steady, Kept

(* A beat that arrives is kept, unless the probe task holds an older row.  *)
LEMMA ArriveStep ==
  ASSUME FleetInv, Arrive
  PROVE  FleetInv'
<1>1. /\ up /\ age' = 0 /\ sending' = None /\ failures' = 0 /\ timer' = Interval
      /\ UNCHANGED <<held, probe, up, calm>>
  BY DEF Arrive, Rest, NextDelay, task, network
<1>2. LoopOK' /\ TaskOK' /\ NetworkOK'
  BY <1>1, Numbers DEF FleetInv, LoopOK, TaskOK, NetworkOK, Settled, Beat
<1>3. Due' = Beat /\ Due \in Nat
  BY <1>1, DueBounded, Numbers DEF FleetInv, Due
<1>4. Kept'
  BY <1>1, <1>3, Numbers DEF Kept
<1>5. calm \in Nat /\ probe \in Nat /\ (held # None => held \in Nat)
  BY Numbers DEF FleetInv, TaskOK, NetworkOK
<1>6. CASE held = None
  BY <1>1, <1>2, <1>4, <1>6 DEF FleetInv, Steady
<1>7. CASE held # None
  <2>1. CASE Waiting
    <3>1. calm <= FirstBeat
      BY <1>3, <1>5, <2>1, Numbers DEF Waiting
    <3>. QED
      BY <1>1, <1>2, <1>4, <1>5, <1>7, <3>1, Numbers DEF FleetInv, Threatened
  <2>2. CASE Threatened
    BY <1>1, <1>2, <1>4, <1>7, <2>2 DEF FleetInv, Threatened
  <2>3. CASE Undone
    BY <1>7, <2>3 DEF Undone
  <2>4. CASE Steady
    BY <1>1, <1>2, <1>4, <1>7, <2>4 DEF FleetInv, Steady
  <2>. QED
    BY <1>1, <2>1, <2>2, <2>3, <2>4 DEF FleetInv
<1>. QED
  BY <1>6, <1>7

LEMMA FailStep ==
  ASSUME FleetInv, Fail
  PROVE  FleetInv'
<1>1. /\ ~ up /\ sending' = None /\ failures' = failures + 1 /\ timer' = NextDelay(failures + 1)
      /\ UNCHANGED <<age, held, probe, up, calm>>
  BY DEF Fail, Rest, task, network
<1>2. failures \in Nat /\ NextDelay(failures + 1) \in 1 .. BackoffMax
  BY DelayBounded DEF FleetInv, LoopOK
<1>. QED
  BY <1>1, <1>2 DEF FleetInv, LoopOK, TaskOK, NetworkOK, Settled, Beat

(* A POST given up late leaves the calm young.                             *)
LEMMA FailLateStep ==
  ASSUME FleetInv, FailLate
  PROVE  FleetInv'
<1>1. /\ calm <= Timeout /\ sending' = None /\ failures' = failures + 1 /\ timer' = NextDelay(failures + 1)
      /\ UNCHANGED <<age, held, probe, up, calm>>
  BY DEF FailLate, Rest, task, network
<1>2. failures \in Nat /\ NextDelay(failures + 1) \in 1 .. BackoffMax
  BY DelayBounded DEF FleetInv, LoopOK
<1>3. LoopOK' /\ TaskOK' /\ NetworkOK'
  BY <1>1, <1>2 DEF FleetInv, LoopOK, TaskOK, NetworkOK, Settled, Beat
<1>4. Due' \in Nat /\ Due' <= BackoffMax + Timeout
  BY <1>1, <1>2, Numbers DEF Due
<1>5. Waiting'
  <2>1. calm \in Nat
    BY Numbers DEF FleetInv, NetworkOK
  <2>2. FirstBeat' = FirstBeat
    BY DEF FirstBeat
  <2>. QED
    <3>. DEFINE d == Due'
    <3>3. d \in Nat /\ d <= BackoffMax + Timeout
      BY <1>4
    <3>. HIDE DEF d
    <3>4. calm + d <= BackoffMax + Timeout + Timeout
      BY <1>1, <2>1, <3>3, FleetAssumption
    <3>1. calm' + Due' <= FirstBeat
      BY <1>1, <3>4 DEF FirstBeat, d
    <3>. QED
      BY <2>2, <3>1 DEF Waiting
<1>. QED
  BY <1>3, <1>5 DEF FleetInv

(* The probe task reads the row when it has slept for longer than a beat.  *)
LEMMA ProbeReadStep ==
  ASSUME FleetInv, ProbeRead
  PROVE  FleetInv'
<1>1. /\ held = None /\ probe >= ProbeInterval /\ held' = age /\ probe' = 0
      /\ UNCHANGED <<timer, sending, failures, age, up, calm>>
  BY DEF ProbeRead, loop, network
<1>2. /\ age \in Nat /\ age # None /\ Due \in Nat /\ probe \in Nat
  BY DueBounded, Numbers DEF FleetInv, TaskOK
<1>3. LoopOK' /\ TaskOK' /\ NetworkOK'
  BY <1>1, <1>2, Numbers DEF FleetInv, LoopOK, TaskOK, NetworkOK, Settled, Beat
<1>4. Due' = Due
  BY <1>1 DEF Due
<1>5. ~ (probe + Due <= Beat)
  BY <1>1, <1>2, Numbers
<1>6. Waiting => Waiting'
  BY <1>1, <1>4 DEF Waiting, FirstBeat
<1>7. Kept => Steady'
  BY <1>1, <1>2, <1>4, Numbers DEF Kept, Steady, Beat
<1>. QED
  BY <1>1, <1>3, <1>5, <1>6, <1>7 DEF FleetInv, Threatened, Undone, Steady

(* What it writes back is as old as it has held it, and a beat.            *)
LEMMA ProbeWriteStep ==
  ASSUME FleetInv, ProbeWrite
  PROVE  FleetInv'
<1>1. /\ held # None /\ age' = held /\ held' = None /\ probe' = 0
      /\ UNCHANGED <<timer, sending, failures, up, calm>>
  BY DEF ProbeWrite, loop, network
<1>2. /\ age \in Nat /\ held \in Nat /\ probe \in Nat /\ probe <= ProbeMax /\ calm \in Nat
      /\ Due \in Nat
  BY <1>1, DueBounded, Numbers DEF FleetInv, TaskOK, NetworkOK
<1>3. LoopOK' /\ TaskOK' /\ NetworkOK'
  BY <1>1, <1>2, Numbers DEF FleetInv, LoopOK, TaskOK, NetworkOK, Settled, Beat
<1>4. Due' = Due
  BY <1>1 DEF Due
<1>5. Waiting => Waiting'
  BY <1>1, <1>4 DEF Waiting, FirstBeat
<1>6. Kept => Due <= Beat
  BY <1>2, Numbers DEF Kept
<1>7. Threatened => Undone'
  BY <1>1, <1>2, <1>4, <1>6, Numbers DEF Threatened, Undone, Beat, FirstBeat
<1>8. Steady => Steady'
  BY <1>1, <1>2, <1>4, <1>6, Numbers DEF Steady, Beat
<1>. QED
  BY <1>1, <1>3, <1>5, <1>7, <1>8 DEF FleetInv, Undone

LEMMA ProbeRaisesStep ==
  ASSUME FleetInv, ProbeRaises
  PROVE  FleetInv'
<1>1. /\ held # None /\ held' = None /\ probe' = 0
      /\ UNCHANGED <<timer, sending, failures, age, up, calm>>
  BY DEF ProbeRaises, loop, network
<1>2. LoopOK' /\ TaskOK' /\ NetworkOK'
  BY <1>1, Numbers DEF FleetInv, LoopOK, TaskOK, NetworkOK, Settled, Beat
<1>3. Due' = Due
  BY <1>1 DEF Due
<1>4. Waiting => Waiting'
  BY <1>1, <1>3 DEF Waiting, FirstBeat
<1>5. Kept => Steady'
  BY <1>1, <1>3 DEF Kept, Steady, Beat
<1>. QED
  BY <1>1, <1>2, <1>4, <1>5 DEF FleetInv, Threatened, Undone, Steady

(* When the network comes back, the calm is as young as can be.            *)
LEMMA NetworkStep ==
  ASSUME FleetInv, GoDown \/ ComeBack
  PROVE  FleetInv'
<1>1. CASE GoDown
  <2>1. up' = FALSE /\ calm' = 0 /\ UNCHANGED <<timer, sending, failures, age, held, probe>>
    BY <1>1 DEF GoDown, loop, task
  <2>2. LoopOK' /\ TaskOK'
    BY <2>1 DEF FleetInv, LoopOK, TaskOK
  <2>3. NetworkOK'
    <3>1. 0 \in 0 .. Settled /\ Settled' = Settled
      BY Numbers DEF Settled, Beat
    <3>. QED
      BY <2>1, <3>1 DEF NetworkOK
  <2>. QED
    BY <2>1, <2>2, <2>3 DEF FleetInv
<1>2. CASE ComeBack
  <2>1. /\ ~ up /\ up' = TRUE /\ UNCHANGED <<timer, sending, failures, age, calm>>
        /\ UNCHANGED <<held, probe>> \/ (held' = None /\ probe' = ProbeInterval)
    BY <1>2 DEF ComeBack, loop, task
  <2>2. calm = 0 /\ Due \in Nat /\ Due <= BackoffMax + Timeout
    BY <2>1, DueBounded DEF FleetInv, NetworkOK
  <2>3. Due' = Due
    BY <2>1 DEF Due
  <2>4. Waiting'
    BY <2>1, <2>2, <2>3, Numbers DEF Waiting, FirstBeat
  <2>5. LoopOK' /\ TaskOK' /\ NetworkOK'
    BY <2>1, <2>2, Numbers DEF FleetInv, LoopOK, TaskOK, NetworkOK
  <2>. QED
    BY <2>4, <2>5 DEF FleetInv
<1>. QED
  BY <1>1, <1>2

(* Time brings the next beat nearer, as much as it makes the row older.    *)
LEMMA TickFacts ==
  ASSUME FleetInv, Tick
  PROVE  /\ probe' = probe + 1 /\ probe' \in Nat /\ UNCHANGED <<failures, up>>
         /\ age' \in Nat /\ age' <= age + 1
         /\ held = None <=> held' = None
         /\ held # None => held \in Nat /\ held' \in Nat /\ held' <= held + 1
         /\ up => calm' \in 0 .. Settled /\ calm' \in Nat /\ calm' <= calm + 1
         /\ LoopOK' /\ Due' = Due - 1
<1>1. /\ age' = Least(age + 1, Old) /\ probe' = probe + 1
      /\ held' = IF held = None THEN None ELSE Least(held + 1, Old)
      /\ IF up THEN calm' = Least(calm + 1, Settled) ELSE calm' = calm
      /\ UNCHANGED <<failures, up>>
  BY DEF Tick
<1>2. /\ age \in Nat /\ probe \in Nat /\ held \in Nat \cup {None} /\ calm \in 0 .. Settled /\ calm \in Nat
      /\ Due \in Nat
  BY DueBounded, Numbers DEF FleetInv, TaskOK, NetworkOK
<1>3. /\ age' \in Nat /\ age' <= age + 1 /\ probe' \in Nat
      /\ held = None <=> held' = None
      /\ held # None => held \in Nat /\ held' \in Nat /\ held' <= held + 1
      /\ up => calm' \in 0 .. Settled /\ calm' \in Nat /\ calm' <= calm + 1
  BY <1>1, <1>2, Numbers DEF Least
<1>4. LoopOK' /\ Due' = Due - 1
  <2>1. CASE sending = None
    <3>1. timer > 0 /\ timer' = timer - 1 /\ sending' = None
      BY <2>1, Numbers DEF Tick
    <3>. QED
      BY <1>1, <2>1, <3>1, Numbers DEF FleetInv, LoopOK, Due
  <2>2. CASE sending # None
    <3>1. timer = 0 /\ sending \in 0 .. Timeout - 1 /\ sending' = sending + 1 /\ timer' = timer
      BY <2>2, Numbers DEF Tick, FleetInv, LoopOK
    <3>. QED
      BY <1>1, <2>2, <3>1, Numbers DEF FleetInv, LoopOK, Due
  <2>. QED
    BY <2>1, <2>2
<1>. QED
  BY <1>1, <1>3, <1>4

LEMMA TickStep ==
  ASSUME FleetInv, Tick
  PROVE  FleetInv'
<1>1. /\ probe' = probe + 1
      /\ IF up THEN calm' = Least(calm + 1, Settled) ELSE calm' = calm
      /\ UNCHANGED <<failures, up>>
  BY DEF Tick
<1>2. /\ age \in Nat /\ probe \in Nat /\ held \in Nat \cup {None} /\ calm \in 0 .. Settled /\ calm \in Nat
      /\ Due \in Nat
  BY DueBounded, Numbers DEF FleetInv, TaskOK, NetworkOK
<1>3. /\ age' \in Nat /\ age' <= age + 1 /\ probe' \in Nat
      /\ held = None <=> held' = None
      /\ held # None => held \in Nat /\ held' \in Nat /\ held' <= held + 1
      /\ up => calm' \in 0 .. Settled /\ calm' \in Nat /\ calm' <= calm + 1
  BY TickFacts
<1>4. LoopOK' /\ Due' = Due - 1
  BY TickFacts
<1>5. TaskOK'
  <2>1. IF held = None THEN probe < ProbeInterval + ProbeMax ELSE probe < ProbeMax
    BY DEF Tick
  <2>2. IF held' = None THEN probe' <= ProbeInterval + ProbeMax ELSE probe' <= ProbeMax
    BY <1>1, <1>2, <1>3, <2>1, Numbers
  <2>3. held' \in Nat \cup {None}
    BY <1>3
  <2>. QED
    BY <1>3, <2>2, <2>3 DEF TaskOK
<1>6. NetworkOK'
  <2>1. calm' \in 0 .. Settled
    BY <1>1, <1>2, <1>3
  <2>2. up' \in BOOLEAN /\ (~ up' => calm' = 0)
    BY <1>1 DEF FleetInv, NetworkOK
  <2>. QED
    BY <2>1, <2>2 DEF NetworkOK, Settled, Beat
<1>7. ASSUME up
      PROVE  /\ Waiting => Waiting'
             /\ Kept => Kept'
             /\ Threatened => Threatened'
             /\ Undone => Undone'
             /\ Steady => Steady'
  <2>. DEFINE left == Due'
              b == Beat
              f == FirstBeat
  <2>1. /\ b \in Nat /\ f \in Nat /\ ProbeMax \in Nat /\ Beat' = b /\ FirstBeat' = f
        /\ left \in Int /\ left = Due - 1
    <3>1. Beat' = b /\ FirstBeat' = f
      BY DEF Beat, FirstBeat
    <3>. QED
      BY <1>2, <1>4, <3>1, Numbers
  <2>. HIDE DEF left, b, f
  <2>2. calm' \in Nat /\ calm' <= calm + 1
    BY <1>3, <1>7
  <2>3. /\ calm \in Int /\ calm' \in Int /\ age \in Int /\ age' \in Int /\ Due \in Int
        /\ b \in Int /\ f \in Int
    BY <1>2, <1>3, <2>1, <2>2
  <2>4. /\ calm' + left <= calm + Due /\ calm' + left \in Int /\ calm + Due \in Int
    BY <2>1, <2>3, <2>2, OlderAndNearer
  <2>5. /\ age' + left <= age + Due /\ age' + left \in Int /\ age + Due \in Int
    BY <1>3, <2>1, <2>3, OlderAndNearer
  <2>6. Waiting => Waiting'
    <3>1. ASSUME calm + Due <= f PROVE calm' + left <= f
      BY <2>3, <2>4, <3>1, Below
    <3>. QED
      BY <2>1, <3>1 DEF Waiting, left, f
  <2>7. Kept => Kept'
    <3>1. ASSUME age + Due <= b PROVE age' + left <= b
      BY <2>3, <2>5, <3>1, Below
    <3>. QED
      BY <2>1, <3>1 DEF Kept, left, b
  <2>8. Threatened => Threatened'
    BY <1>1, <1>2, <1>3, <2>2, <2>7, Numbers DEF Threatened, FirstBeat
  <2>9. probe + Due <= Beat => probe' + Due' <= Beat'
    <3>1. probe + Due <= b => probe' + left <= b
      BY <1>1, <1>2, <2>1
    <3>. QED
      BY <2>1, <3>1 DEF left, b
  <2>10. Undone => Undone'
    <3>. DEFINE k == f + ProbeMax + b
    <3>1. k \in Int
      BY <2>1
    <3>. HIDE DEF k
    <3>2. ASSUME calm + Due <= k PROVE calm' + left <= k
      BY <2>4, <3>1, <3>2, Below
    <3>3. calm + Due <= f + ProbeMax + b => calm' + left <= f + ProbeMax + b
      BY <3>2 DEF k
    <3>. QED
      BY <1>3, <2>1, <2>9, <3>3 DEF Undone, left, b, f
  <2>11. Steady => Steady'
    <3>1. CASE held = None /\ Kept
      BY <1>3, <2>7, <3>1 DEF Steady
    <3>2. CASE held = None /\ probe + Due <= Beat /\ age + Due <= Beat + ProbeMax + Beat
      <4>. DEFINE k == b + ProbeMax + b
      <4>1. k \in Int /\ age + Due <= k
        BY <2>1, <3>2 DEF b
      <4>. HIDE DEF k
      <4>2. age' + left <= k
        BY <2>5, <4>1, Below
      <4>3. age' + left <= b + ProbeMax + b
        BY <4>2 DEF k
      <4>4. age' + Due' <= Beat' + ProbeMax + Beat'
        BY <2>1, <4>3 DEF left
      <4>. QED
        BY <1>3, <2>9, <3>2, <4>4 DEF Steady
    <3>3. CASE held # None /\ Kept /\ held <= Beat + probe
      BY <1>1, <1>2, <1>3, <2>7, <3>3, Numbers DEF Steady, Beat
    <3>. QED
      BY <3>1, <3>2, <3>3 DEF Steady
  <2>. QED
    BY <2>6, <2>7, <2>8, <2>10, <2>11
<1>8. up' = up
  BY <1>1
<1>. QED
  BY <1>4, <1>5, <1>6, <1>7, <1>8 DEF FleetInv

LEMMA FleetStep == FleetInv /\ [Next]_vars => FleetInv'
<1>. SUFFICES ASSUME FleetInv, [Next]_vars PROVE FleetInv'
  OBVIOUS
<1>1. CASE UNCHANGED vars
  BY <1>1 DEF vars, loop, task, network, FleetInv, LoopOK, TaskOK, NetworkOK,
       Waiting, Threatened, Undone, Steady, Kept, Due, FirstBeat, Settled, Beat
<1>. QED
  BY <1>1, SendStep, ArriveStep, FailStep, FailLateStep, ProbeReadStep, ProbeWriteStep,
     ProbeRaisesStep, NetworkStep, TickStep DEF Next

THEOREM FleetInvariant == Spec => []FleetInv
<1>. QED
  BY FleetInit, FleetStep, PTL DEF Spec

(* When the calm is that old, none of the earlier stages can last.         *)
LEMMA SettledSteady ==
  ASSUME FleetInv, calm = Settled
  PROVE  up /\ ~ Waiting /\ Steady
<1>1. calm \in Nat /\ age \in Nat /\ probe \in Nat /\ Due \in Nat
  BY DueBounded, Numbers DEF FleetInv, TaskOK, NetworkOK
<1>2. up
  BY Numbers DEF FleetInv, NetworkOK
<1>3. ~ Waiting
  BY <1>1, Numbers DEF Waiting
<1>4. ~ Threatened
  <2>1. held # None => probe <= ProbeMax
    BY DEF FleetInv, TaskOK
  <2>. QED
    BY <1>1, <2>1, Numbers DEF Threatened
<1>5. ~ Undone
  BY <1>1, Numbers DEF Undone
<1>. QED
  BY <1>2, <1>3, <1>4, <1>5 DEF FleetInv

(***************************************************************************)
(* For every interval, backoff limit, timeout and probe period of which    *)
(* the last is longer than a beat: when the network has been calm for a    *)
(* timeout, the longest backoff, another timeout, a probe and a beat, the  *)
(* row of the node is at most two beats and a probe old, and stays so,     *)
(* although probes keep undoing beats.                                     *)
(***************************************************************************)
THEOREM CalmMakesFresh == Spec => []FreshWhenSettled
<1>1. ASSUME FleetInv, calm = Settled
      PROVE  age <= Fresh
  <2>1. age \in Nat /\ Due \in Nat
    BY <1>1, DueBounded, Numbers DEF FleetInv, TaskOK
  <2>. QED
    BY <1>1, <2>1, SettledSteady, Numbers DEF Steady, Kept, Fresh
<1>2. FleetInv => FreshWhenSettled
  BY <1>1 DEF FreshWhenSettled
<1>. QED
  BY <1>2, FleetInvariant, PTL
------------------------------------------------------------------------------
(* Waits is the function it is written to be: what is short of it, the     *)
(* first n + 1 of its values, exists for each n and is unique, by          *)
(* induction in the form of least elements.                                *)
Lower == {ss \in Nat \X Nat : ss[1] < ss[2]}

LEMMA LeastElement ==
  ASSUME NEW T \in SUBSET Nat, T # {}
  PROVE  \E x \in T : \A y \in T : x <= y
<1>1. IsWellFoundedOn(Lower, Nat)
  BY NatLessThanWellFounded DEF OpToRel, Lower
<1>2. PICK x \in T : \A y \in T : ~ (<<y, x>> \in Lower)
  BY <1>1, WFMin
<1>3. \A y \in T : ~ (y < x)
  BY <1>2 DEF Lower
<1>. QED
  BY <1>3

WaitsUpTo(g, n) ==
  /\ g \in [0 .. n -> Nat]
  /\ \A k \in 0 .. n : g[k] = IF k = 0 THEN 0 ELSE g[k - 1] + NextDelay(k)

LEMMA WaitsExist == \A n \in Nat : \E g : WaitsUpTo(g, n)
<1>. DEFINE T == {n \in Nat : ~ \E g : WaitsUpTo(g, n)}
<1>1. SUFFICES ASSUME T # {} PROVE FALSE
  OBVIOUS
<1>2. PICK n \in T : \A j \in T : n <= j
  BY <1>1, LeastElement
<1>3. n # 0
  <2>1. WaitsUpTo([k \in 0 .. 0 |-> 0], 0)
    BY DEF WaitsUpTo
  <2>. QED
    BY <1>2, <2>1
<1>4. n - 1 \in Nat /\ n - 1 \notin T
  BY <1>2, <1>3
<1>5. PICK g : WaitsUpTo(g, n - 1)
  BY <1>4
<1>. DEFINE h == [k \in 0 .. n |-> IF k = n THEN g[n - 1] + NextDelay(n) ELSE g[k]]
<1>6. NextDelay(n) \in Nat /\ g[n - 1] \in Nat
  <2>1. NextDelay(n) \in Nat
    BY <1>2, DelayBounded, FleetAssumption
  <2>2. n - 1 \in 0 .. n - 1
    BY <1>4
  <2>. QED
    BY <1>5, <2>1, <2>2 DEF WaitsUpTo
<1>7. h \in [0 .. n -> Nat]
  <2>1. \A k \in 0 .. n : k # n => k \in 0 .. n - 1
    BY <1>2
  <2>2. \A k \in 0 .. n - 1 : g[k] \in Nat
    BY <1>5 DEF WaitsUpTo
  <2>. QED
    BY <1>6, <2>1, <2>2
<1>8. ASSUME NEW k \in 0 .. n
      PROVE  h[k] = IF k = 0 THEN 0 ELSE h[k - 1] + NextDelay(k)
  <2>1. CASE k = n
    <3>1. n - 1 \in 0 .. n /\ n - 1 # n
      BY <1>4
    <3>2. h[n] = g[n - 1] + NextDelay(n) /\ h[n - 1] = g[n - 1]
      BY <1>2, <3>1
    <3>. QED
      BY <1>3, <2>1, <3>2
  <2>2. CASE k # n
    <3>1. k \in 0 .. n - 1 /\ (k # 0 => k - 1 \in 0 .. n - 1 /\ k - 1 \in 0 .. n /\ k - 1 # n)
      BY <1>2, <2>2
    <3>2. h[k] = g[k] /\ (k # 0 => h[k - 1] = g[k - 1])
      BY <2>2, <3>1
    <3>3. g[k] = IF k = 0 THEN 0 ELSE g[k - 1] + NextDelay(k)
      BY <1>5, <3>1 DEF WaitsUpTo
    <3>. QED
      BY <3>2, <3>3
  <2>. QED
    BY <2>1, <2>2
<1>9. WaitsUpTo(h, n)
  BY <1>7, <1>8 DEF WaitsUpTo
<1>. QED
  BY <1>2, <1>9

LEMMA WaitsAgree ==
  ASSUME NEW m \in Nat, NEW n \in Nat, NEW g, NEW h, WaitsUpTo(g, m), WaitsUpTo(h, n),
         NEW k \in Nat, k <= m, k <= n
  PROVE  g[k] = h[k]
<1>. DEFINE T == {j \in 0 .. m : j <= n /\ g[j] # h[j]}
<1>1. SUFFICES ASSUME T # {} PROVE FALSE
  OBVIOUS
<1>2. PICK j \in T : \A i \in T : j <= i
  <2>1. T \in SUBSET Nat
    OBVIOUS
  <2>. QED
    BY <1>1, <2>1, LeastElement
<1>3. j \in 0 .. m /\ j \in 0 .. n /\ g[j] # h[j]
  BY <1>2
<1>4. /\ g[j] = IF j = 0 THEN 0 ELSE g[j - 1] + NextDelay(j)
      /\ h[j] = IF j = 0 THEN 0 ELSE h[j - 1] + NextDelay(j)
  BY <1>3 DEF WaitsUpTo
<1>5. j # 0 => g[j - 1] = h[j - 1]
  BY <1>2, <1>3
<1>. QED
  BY <1>3, <1>4, <1>5

LEMMA WaitsAdd ==
  /\ Waits[0] = 0
  /\ \A k \in Nat : Waits[k] \in Nat /\ Waits[k + 1] = Waits[k] + NextDelay(k + 1)
<1>. DEFINE g(n) == CHOOSE f : WaitsUpTo(f, n)
            F == [k \in Nat |-> g(k)[k]]
            Step(f, k) == IF k = 0 THEN 0 ELSE f[k - 1] + NextDelay(k)
<1>1. \A n \in Nat : WaitsUpTo(g(n), n)
  BY WaitsExist
<1>. HIDE DEF g
<1>2. ASSUME NEW k \in Nat
      PROVE  F[k] \in Nat /\ F[k] = Step(F, k)
  <2>1. g(k) \in [0 .. k -> Nat] /\ g(k)[k] = Step(g(k), k)
    BY <1>1 DEF WaitsUpTo
  <2>2. k # 0 => g(k)[k - 1] = g(k - 1)[k - 1]
    <3>. HAVE k # 0
    <3>1. k - 1 \in Nat /\ k - 1 <= k
      OBVIOUS
    <3>. QED
      BY <1>1, <3>1, WaitsAgree
  <2>. QED
    BY <2>1, <2>2
<1>3. F = [k \in Nat |-> Step(F, k)]
  BY <1>2
<1>. HIDE DEF F
<1>4. Waits = CHOOSE f : f = [k \in Nat |-> Step(f, k)]
  BY DEF Waits
<1>5. Waits = [k \in Nat |-> Step(Waits, k)]
  BY <1>3, <1>4
<1>6. \A k \in Nat : Waits[k] = Step(Waits, k)
  BY <1>5
<1>7. \A k \in Nat : Waits[k] \in Nat
  <2>. DEFINE T == {k \in Nat : Waits[k] \notin Nat}
  <2>1. SUFFICES ASSUME T # {} PROVE FALSE
    OBVIOUS
  <2>2. PICK k \in T : \A i \in T : k <= i
    BY <2>1, LeastElement
  <2>3. k # 0 => k - 1 \in Nat /\ Waits[k - 1] \in Nat
    BY <2>2
  <2>4. Waits[k] = IF k = 0 THEN 0 ELSE Waits[k - 1] + NextDelay(k)
    BY <1>6, <2>2
  <2>. QED
    BY <2>2, <2>3, <2>4, DelayBounded, FleetAssumption
<1>8. Waits[0] = 0
  BY <1>6
<1>9. \A k \in Nat : Waits[k + 1] = Waits[k] + NextDelay(k + 1)
  <2>. TAKE k \in Nat
  <2>1. k + 1 \in Nat /\ k + 1 # 0 /\ (k + 1) - 1 = k
    OBVIOUS
  <2>. QED
    BY <1>6, <2>1
<1>. QED
  BY <1>7, <1>8, <1>9
------------------------------------------------------------------------------
(***************************************************************************)
(* How old the row gets in a trouble, and until the first beat after it.   *)
(***************************************************************************)

(* How long ago the trouble began. *)
Elapsed == trouble + calm

(* When the last POST was sent, or the next will be, since it began. *)
Sent == IF sending = None THEN Elapsed + timer ELSE Elapsed - sending

(* The age of the row when a beat arrives after that many failures. *)
Lag == Fresh + Waits[failures] + failures * Timeout

(* No beat has arrived since: how late the next will be is known. *)
NoneArrived ==
  /\ failures > 0 => Waits[failures] <= Sent
  /\ age + Due <= Lag
  /\ held # None => held + Due <= Lag

(* One has, and may have been undone: the failures came after it. *)
SomeArrived == Interval + Waits[failures] <= Sent

History ==
  /\ age <= Fresh + Elapsed
  /\ held # None => held <= Fresh + Elapsed
  /\ failures > 0 => failures <= Sent
  /\ NoneArrived \/ SomeArrived

(* The next beat will be in time, whatever the probe task does. *)
Early == InTime(age + Due) /\ (held # None => InTime(held + Due))

(* It was, but the probe task holds an older row ... *)
Risky == held # None /\ Kept /\ held + ProbeMax + Beat <= TTL + probe

(* ... or has written it back. *)
Late == held = None /\ probe + Due <= Beat /\ age + Due <= TTL

Stages == (~ up => Early) /\ (Early \/ Risky \/ Late)

TroubleInv ==
  /\ trouble \in Nat
  /\ up /\ failures # 0 => Waiting
  /\ trouble <= ShortTrouble => Stages /\ (calm < Settled => History)
------------------------------------------------------------------------------
LEMMA FreshNumber == Fresh = Beat + ProbeMax + Beat /\ Fresh \in Nat
  BY Numbers DEF Fresh

LEMMA TroubleTypes ==
  ASSUME FleetInv, TroubleInv
  PROVE  /\ age \in Nat /\ probe \in Nat /\ calm \in Nat /\ trouble \in Nat /\ failures \in Nat
         /\ held # None => held \in Nat /\ probe <= ProbeMax
         /\ Due \in Nat /\ Elapsed \in Nat /\ Sent \in Int
         /\ Waits[failures] \in Nat /\ Lag \in Nat
<1>1. /\ age \in Nat /\ probe \in Nat /\ calm \in Nat /\ trouble \in Nat /\ failures \in Nat
      /\ held # None => held \in Nat /\ probe <= ProbeMax
      /\ timer \in Nat /\ (sending # None => sending \in Nat)
  BY Numbers DEF FleetInv, TroubleInv, LoopOK, TaskOK, NetworkOK
<1>2. Due \in Nat
  BY DueBounded DEF FleetInv
<1>3. Elapsed \in Nat
  BY <1>1 DEF Elapsed
<1>4. Sent \in Int
  BY <1>1, <1>3 DEF Sent
<1>5. Waits[failures] \in Nat
  BY <1>1, WaitsAdd
<1>6. failures * Timeout \in Nat
  BY <1>1, Numbers
<1>7. Lag \in Nat
  BY <1>5, <1>6, FreshNumber DEF Lag
<1>. QED
  BY <1>1, <1>2, <1>3, <1>4, <1>5, <1>7

(* What a trouble is to be, in numbers.                                    *)
LEMMA ShortEnough ==
  ASSUME TroubleIsShort
  PROVE  /\ ShortTrouble \in Nat
         /\ Fresh + ShortTrouble + Beat + ProbeMax + Beat <= TTL
         /\ \A k \in 0 .. ShortTrouble : Waits[k] <= ShortTrouble =>
              (Fresh + Waits[k + 1] + (k + 1) * Timeout) + ProbeMax + Beat <= TTL
         /\ \A k \in 0 .. ShortTrouble : Interval + Waits[k] <= ShortTrouble =>
              (Fresh + ShortTrouble + Timeout + NextDelay(k + 1) + Timeout) + ProbeMax + Beat <= TTL
  BY FleetAssumption DEF TroubleIsShort, InTime

LEMMA TroubleInit == TroubleIsShort /\ Init => TroubleInv
<1>. SUFFICES ASSUME TroubleIsShort, Init PROVE TroubleInv
  OBVIOUS
<1>1. Due = Timeout /\ held = None /\ age = 0 /\ up /\ failures = 0 /\ calm = Settled /\ trouble = 0
  BY Numbers DEF Init, Due
<1>2. Early
  BY <1>1, Numbers, FreshNumber, ShortEnough DEF Early, InTime
<1>. QED
  BY <1>1, <1>2, Numbers DEF TroubleInv, Stages

(* A step of the loop or of the probe task that moves no beat: rows are    *)
(* copied, and no row gets older.                                          *)
LEMMA QuietStep ==
  ASSUME FleetInv, TroubleInv, UNCHANGED <<failures, up, calm, trouble>>,
         Due' = Due, Sent' = Sent, Elapsed' = Elapsed,
         age' = age \/ (held # None /\ age' = held),
         held' = None \/ held' = age \/ held' = held,
         trouble <= ShortTrouble => Stages'
  PROVE  TroubleInv'
<1>1. Lag' = Lag /\ Fresh' = Fresh /\ Settled' = Settled
  BY DEF Lag, Fresh, Settled, Beat
<1>2. up' /\ failures' # 0 => Waiting'
  BY DEF TroubleInv, Waiting, FirstBeat
<1>3. History => History'
  BY <1>1 DEF History, NoneArrived, SomeArrived
<1>. QED
  BY <1>1, <1>2, <1>3 DEF TroubleInv

LEMMA SendTrouble ==
  ASSUME FleetInv, TroubleInv, Send
  PROVE  TroubleInv'
<1>1. UNCHANGED <<failures, age, held, probe, up, calm, trouble>> /\ timer = 0 /\ timer' = 0
      /\ sending = None /\ sending' = 0
  BY DEF Send, task, network
<1>2. Due' = Due /\ Elapsed' = Elapsed
  BY <1>1, Numbers DEF Due, Elapsed
<1>3. Sent' = Sent
  <2>1. Elapsed \in Nat
    BY TroubleTypes
  <2>. QED
    BY <1>1, <1>2, <2>1, Numbers DEF Sent
<1>4. Stages => Stages'
  BY <1>1, <1>2 DEF Stages, Early, Risky, Late, Kept, InTime, Beat
<1>. QED
  BY <1>1, <1>2, <1>3, <1>4, QuietStep DEF TroubleInv

LEMMA ProbeTrouble ==
  ASSUME TroubleIsShort, FleetInv, TroubleInv, ProbeRead \/ ProbeWrite \/ ProbeRaises
  PROVE  TroubleInv'
<1>1. UNCHANGED <<timer, sending, failures, up, calm, trouble>> /\ probe' = 0
  BY DEF ProbeRead, ProbeWrite, ProbeRaises, loop, network
<1>2. Due' = Due /\ Elapsed' = Elapsed /\ Sent' = Sent
  BY <1>1 DEF Due, Elapsed, Sent
<1>3. /\ age \in Nat /\ probe \in Nat /\ Due \in Nat /\ age # None
      /\ held # None => held \in Nat /\ probe <= ProbeMax
  BY TroubleTypes, Numbers
<1>4. Kept => Due <= Beat
  BY <1>3, Numbers DEF Kept
<1>5. Beat + ProbeMax + Beat <= TTL
  BY Numbers, FreshNumber, ShortEnough
<1>6. ASSUME Stages, ProbeRead PROVE Stages'
  <2>1. held = None /\ probe >= ProbeInterval /\ held' = age /\ age' = age
    BY <1>6 DEF ProbeRead
  <2>2. ~ Late /\ ~ Risky
    BY <1>3, <2>1, Numbers DEF Late, Risky
  <2>3. Early'
    BY <1>2, <1>6, <2>1, <2>2 DEF Stages, Early, InTime, Beat
  <2>. QED
    BY <2>3 DEF Stages
<1>7. ASSUME Stages, ProbeWrite PROVE Stages'
  <2>1. held # None /\ held' = None /\ age' = held
    BY <1>7 DEF ProbeWrite
  <2>2. Early => Early'
    BY <1>2, <2>1 DEF Early, InTime, Beat
  <2>3. Risky => Late'
    <3>. HAVE Risky
    <3>1. Due <= Beat /\ held + ProbeMax + Beat <= TTL + probe
      BY <1>4 DEF Risky
    <3>2. held + Due <= TTL /\ 0 + Due <= Beat
      BY <1>3, <2>1, <3>1, Numbers
    <3>. QED
      BY <1>1, <1>2, <2>1, <3>2 DEF Late, Beat
  <2>. QED
    BY <1>1, <1>7, <2>1, <2>2, <2>3 DEF Stages, Late
<1>8. ASSUME Stages, ProbeRaises PROVE Stages'
  <2>1. held # None /\ held' = None /\ age' = age
    BY <1>8 DEF ProbeRaises
  <2>2. Early => Early'
    BY <1>2, <2>1 DEF Early, InTime, Beat
  <2>3. Risky => Early'
    <3>. HAVE Risky
    <3>1. (age + Due) + ProbeMax + Beat <= TTL
      BY <1>3, <1>5, Numbers DEF Risky, Kept
    <3>. QED
      BY <1>2, <2>1, <3>1 DEF Early, InTime, Beat
  <2>. QED
    BY <1>1, <1>8, <2>1, <2>2, <2>3 DEF Stages, Late
<1>9. /\ age' = age \/ (held # None /\ age' = held)
      /\ held' = None \/ held' = age \/ held' = held
  BY DEF ProbeRead, ProbeWrite, ProbeRaises
<1>10. trouble <= ShortTrouble => Stages'
  BY <1>6, <1>7, <1>8 DEF TroubleInv
<1>. QED
  BY <1>1, <1>2, <1>9, <1>10, QuietStep

(* A beat arrives: it stays, unless the probe task holds an older row.     *)
LEMMA ArriveTrouble ==
  ASSUME TroubleIsShort, FleetInv, TroubleInv, Arrive
  PROVE  TroubleInv'
<1>1. /\ up /\ age' = 0 /\ sending # None /\ sending' = None /\ failures' = 0 /\ timer' = Interval
      /\ UNCHANGED <<held, probe, up, calm, trouble>>
  BY DEF Arrive, Rest, NextDelay, task, network
<1>2. /\ age \in Nat /\ probe \in Nat /\ Due \in Nat /\ Elapsed \in Nat
      /\ held # None => held \in Nat
  BY TroubleTypes
<1>3. Due' = Beat /\ Sent' = Elapsed + Interval /\ Elapsed' = Elapsed
  BY <1>1, Numbers DEF Due, Sent, Elapsed
<1>4. Beat' = Beat /\ Fresh' = Fresh /\ Settled' = Settled
  BY DEF Fresh, Settled, Beat
<1>5. ASSUME Stages PROVE Stages'
  <2>1. CASE held = None
    <3>1. (0 + Beat) + ProbeMax + Beat <= TTL
      BY Numbers, FreshNumber, ShortEnough
    <3>. QED
      BY <1>1, <1>3, <2>1, <3>1 DEF Stages, Early, InTime, Beat
  <2>2. CASE held # None
    <3>1. Kept'
      BY <1>1, <1>3, <1>4, Numbers DEF Kept
    <3>2. held + ProbeMax + Beat <= TTL + probe
      <4>1. Early => held + Due + ProbeMax + Beat <= TTL
        BY <2>2 DEF Early, InTime
      <4>. QED
        BY <1>2, <1>5, <2>2, <4>1, Numbers DEF Stages, Risky, Late
    <3>. QED
      BY <1>1, <1>4, <2>2, <3>1, <3>2 DEF Stages, Risky
  <2>. QED
    BY <2>1, <2>2
<1>6. ASSUME History PROVE History'
  <2>1. 0 <= Fresh + Elapsed
    BY <1>2, FreshNumber
  <2>2. Interval + Waits[0] <= Sent'
    BY <1>2, <1>3, WaitsAdd, Numbers
  <2>3. SomeArrived'
    BY <1>1, <2>2 DEF SomeArrived
  <2>. QED
    BY <1>1, <1>3, <1>4, <1>6, <2>1, <2>3, Numbers DEF History
<1>. QED
  BY <1>1, <1>4, <1>5, <1>6 DEF TroubleInv

(* A POST fails that was sent in the trouble: what the next beat finds.    *)
LEMMA FailureTrouble ==
  ASSUME TroubleIsShort, FleetInv, TroubleInv, trouble <= ShortTrouble, calm < Settled,
         sending # None, Elapsed - sending <= ShortTrouble, Rest(failures + 1),
         UNCHANGED <<age, task, network>>
  PROVE  Early' /\ History'
<1>. DEFINE delay == NextDelay(failures + 1)
<1>1. /\ sending' = None /\ failures' = failures + 1 /\ timer' = delay
      /\ UNCHANGED <<age, held, probe, up, calm, trouble>>
  BY DEF Rest, task, network
<1>2. /\ age \in Nat /\ failures \in Nat /\ Elapsed \in Nat /\ sending \in 0 .. Timeout
      /\ held # None => held \in Nat
      /\ Waits[failures] \in Nat /\ Lag \in Nat /\ Due = Timeout - sending
  BY TroubleTypes DEF FleetInv, LoopOK, Due
<1>3. delay \in Nat \ {0}
  BY <1>2, DelayBounded, Numbers
<1>. HIDE DEF delay
<1>4. Due' = delay + Timeout /\ Sent = Elapsed - sending /\ Sent' = Elapsed + delay /\ Elapsed' = Elapsed
  BY <1>1 DEF Due, Sent, Elapsed
<1>5. Waits[failures + 1] = Waits[failures] + delay
  BY <1>2, WaitsAdd DEF delay
<1>6. Lag' = Fresh + Waits[failures + 1] + (failures + 1) * Timeout
  BY <1>1 DEF Lag, Fresh, Beat
<1>7. Lag' = Lag + delay + Timeout /\ Lag' \in Nat
  <2>1. (failures + 1) * Timeout = failures * Timeout + Timeout /\ failures * Timeout \in Nat
    BY <1>2, Numbers
  <2>. QED
    BY <1>2, <1>3, <1>5, <1>6, <2>1, Numbers, FreshNumber DEF Lag
<1>8. History
  BY DEF TroubleInv
<1>9. failures \in 0 .. ShortTrouble
  BY <1>2, <1>4, <1>8, ShortEnough DEF History
<1>10. CASE NoneArrived
  <2>1. Waits[failures] <= ShortTrouble
    BY <1>2, <1>4, <1>10, WaitsAdd, ShortEnough DEF NoneArrived
  <2>2. Lag' + ProbeMax + Beat <= TTL
    BY <1>6, <1>9, <2>1, ShortEnough
  <2>3. age + Due' <= Lag' /\ (held # None => held + Due' <= Lag')
    BY <1>2, <1>3, <1>4, <1>7, <1>10, Numbers DEF NoneArrived
  <2>4. Early'
    <3>1. (age + Due') + ProbeMax + Beat <= TTL /\ (held # None => (held + Due') + ProbeMax + Beat <= TTL)
      BY <1>2, <1>3, <1>4, <1>7, <2>2, <2>3, Numbers
    <3>. QED
      BY <1>1, <3>1 DEF Early, InTime, Beat
  <2>5. Waits[failures + 1] <= Sent'
    <3>1. failures = 0 => Waits[failures + 1] = delay
      BY <1>3, <1>5, WaitsAdd
    <3>2. failures > 0 => Waits[failures] <= Elapsed
      BY <1>2, <1>4, <1>10 DEF NoneArrived
    <3>. QED
      BY <1>2, <1>3, <1>4, <1>5, <3>1, <3>2
  <2>6. NoneArrived'
    BY <1>1, <2>3, <2>5 DEF NoneArrived
  <2>7. History'
    <3>1. failures + 1 <= Elapsed + delay
      BY <1>2, <1>3, <1>4, <1>8 DEF History
    <3>. QED
      BY <1>1, <1>4, <1>8, <2>6, <3>1 DEF History, Fresh, Beat
  <2>. QED
    BY <2>4, <2>7
<1>11. CASE SomeArrived
  <2>1. Interval + Waits[failures] <= ShortTrouble
    BY <1>2, <1>4, <1>11, Numbers, ShortEnough DEF SomeArrived
  <2>2. (Fresh + ShortTrouble + Timeout + delay + Timeout) + ProbeMax + Beat <= TTL
    BY <1>9, <2>1, ShortEnough DEF delay
  <2>3. Elapsed <= ShortTrouble + Timeout
    BY <1>2, Numbers, ShortEnough
  <2>4. /\ (age + (delay + Timeout)) + ProbeMax + Beat <= TTL
        /\ held # None => (held + (delay + Timeout)) + ProbeMax + Beat <= TTL
    BY <1>2, <1>3, <1>8, <2>2, <2>3, Numbers, FreshNumber, ShortEnough DEF History
  <2>5. Early'
    BY <1>1, <1>4, <2>4 DEF Early, InTime, Beat
  <2>6. SomeArrived'
    <3>1. Interval + Waits[failures + 1] <= Elapsed + delay
      BY <1>2, <1>3, <1>4, <1>5, <1>11, Numbers DEF SomeArrived
    <3>. QED
      BY <1>1, <1>4, <3>1 DEF SomeArrived
  <2>7. History'
    <3>1. failures + 1 <= Elapsed + delay
      BY <1>2, <1>3, <1>4, <1>8 DEF History
    <3>. QED
      BY <1>1, <1>4, <1>8, <2>6, <3>1 DEF History, Fresh, Beat
  <2>. QED
    BY <2>5, <2>7
<1>. QED
  BY <1>8, <1>10, <1>11 DEF History

LEMMA FailTrouble ==
  ASSUME TroubleIsShort, FleetInv, TroubleInv, Fail \/ FailLate
  PROVE  TroubleInv'
<1>1. /\ sending # None /\ Rest(failures + 1) /\ UNCHANGED <<age, task, network>>
      /\ UNCHANGED <<up, calm, trouble>>
  BY Numbers DEF Fail, FailLate, network
<1>2. /\ calm \in Nat /\ trouble \in Nat /\ sending \in 0 .. Timeout
      /\ ~ up => calm = 0
  BY <1>1, TroubleTypes DEF FleetInv, LoopOK, NetworkOK
<1>3. calm < Settled
  BY <1>2, Numbers DEF Fail, FailLate
<1>4. Elapsed - sending <= trouble
  BY <1>2, Numbers DEF Fail, FailLate, Elapsed
<1>5. trouble <= ShortTrouble => Early' /\ History'
  <2>. HAVE trouble <= ShortTrouble
  <2>1. Elapsed - sending <= ShortTrouble
    BY <1>2, <1>4, TroubleTypes, ShortEnough
  <2>. QED
    BY <1>1, <1>3, <2>1, FailureTrouble
<1>6. up' /\ failures' # 0 => Waiting'
  <2>1. CASE Fail
    BY <1>1, <2>1 DEF Fail
  <2>2. CASE FailLate
    <3>1. calm <= Timeout /\ sending' = None /\ timer' = NextDelay(failures + 1)
      BY <2>2 DEF FailLate, Rest
    <3>2. NextDelay(failures + 1) \in Nat /\ NextDelay(failures + 1) <= BackoffMax
      BY TroubleTypes, DelayBounded, Numbers
    <3>3. Due' = NextDelay(failures + 1) + Timeout
      BY <3>1 DEF Due
    <3>4. calm + (NextDelay(failures + 1) + Timeout) <= BackoffMax + Timeout + Timeout
      BY <1>2, <3>1, <3>2, Numbers
    <3>. QED
      BY <1>1, <3>3, <3>4 DEF Waiting, FirstBeat
  <2>. QED
    BY <2>1, <2>2
<1>. QED
  BY <1>1, <1>5, <1>6 DEF TroubleInv, Stages

(* The network goes: a settled row is fresh, and nothing has failed; in a  *)
(* trouble that goes on, the row is as old as the trouble, and fresh.      *)
LEMMA GoDownTrouble ==
  ASSUME TroubleIsShort, FleetInv, TroubleInv, GoDown
  PROVE  TroubleInv'
<1>1. /\ up /\ ~ up' /\ calm' = 0 /\ UNCHANGED <<timer, sending, failures, age, held, probe>>
      /\ trouble' = IF calm < Settled THEN Elapsed ELSE 0
  BY DEF GoDown, loop, task, Elapsed
<1>2. /\ age \in Nat /\ probe \in Nat /\ Due \in Nat /\ Elapsed \in Nat /\ Sent \in Int
      /\ trouble \in Nat /\ calm \in Nat /\ failures \in Nat
      /\ held # None => held \in Nat /\ probe <= ProbeMax
  BY TroubleTypes
<1>3. trouble' \in Nat
  BY <1>1, <1>2
<1>4. Due' = Due /\ Fresh' = Fresh /\ Lag' = Lag /\ Beat' = Beat /\ Settled' = Settled
  BY <1>1 DEF Due, Fresh, Lag, Beat, Settled
<1>5. Kept => Due <= Beat
  BY <1>2, Numbers DEF Kept
<1>6. CASE calm < Settled
  <2>1. Elapsed' = Elapsed
    BY <1>1, <1>2, <1>6 DEF Elapsed
  <2>2. Sent' = Sent
    BY <1>1, <2>1 DEF Sent
  <2>3. trouble' <= ShortTrouble => trouble <= ShortTrouble
    BY <1>1, <1>2, <1>6, ShortEnough DEF Elapsed
  <2>4. History => History'
    BY <1>1, <1>4, <2>1, <2>2 DEF History, NoneArrived, SomeArrived
  <2>5. ASSUME History, Stages, Elapsed <= ShortTrouble PROVE Early'
    <3>1. Early => Early'
      BY <1>1, <1>4 DEF Early, InTime
    <3>2. ASSUME Due <= Beat PROVE Early'
      <4>1. /\ (age + Due) + ProbeMax + Beat <= TTL
            /\ held # None => (held + Due) + ProbeMax + Beat <= TTL
        BY <1>2, <2>5, <3>2, Numbers, FreshNumber, ShortEnough DEF History
      <4>. QED
        BY <1>1, <1>4, <4>1 DEF Early, InTime
    <3>3. Risky => Due <= Beat
      BY <1>5 DEF Risky
    <3>4. Late => Due <= Beat
      BY <1>2, Numbers DEF Late
    <3>. QED
      BY <2>5, <3>1, <3>2, <3>3, <3>4 DEF Stages
  <2>. QED
    BY <1>1, <1>3, <1>6, <2>3, <2>4, <2>5 DEF TroubleInv, Stages
<1>7. CASE ~ (calm < Settled)
  <2>1. calm = Settled
    BY <1>2, <1>7, Numbers DEF FleetInv, NetworkOK
  <2>2. ~ Waiting /\ Steady
    BY <1>1, <2>1, SettledSteady
  <2>3. failures = 0
    BY <1>1, <2>2 DEF TroubleInv
  <2>4. age + Due <= Fresh /\ (held # None => held + Due <= Fresh)
    BY <1>2, <1>5, <2>2, Numbers, FreshNumber DEF Steady, Kept
  <2>5. Lag = Fresh
    BY <2>3, WaitsAdd, Numbers, FreshNumber DEF Lag
  <2>6. NoneArrived'
    BY <1>1, <1>4, <2>3, <2>4, <2>5 DEF NoneArrived
  <2>7. Elapsed' = 0
    BY <1>1, <1>7 DEF Elapsed
  <2>8. age <= Fresh + 0 /\ (held # None => held <= Fresh + 0)
    BY <1>2, <2>4, FreshNumber
  <2>9. History'
    BY <1>1, <1>4, <2>3, <2>6, <2>7, <2>8 DEF History
  <2>10. Early'
    <3>1. /\ (age + Due) + ProbeMax + Beat <= TTL
          /\ held # None => (held + Due) + ProbeMax + Beat <= TTL
      BY <1>2, <2>4, Numbers, FreshNumber, ShortEnough
    <3>. QED
      BY <1>1, <1>4, <3>1 DEF Early, InTime
  <2>. QED
    BY <1>1, <1>3, <2>9, <2>10 DEF TroubleInv, Stages
<1>. QED
  BY <1>6, <1>7

LEMMA ComeBackTrouble ==
  ASSUME FleetInv, TroubleInv, ComeBack
  PROVE  TroubleInv'
<1>1. /\ ~ up /\ UNCHANGED <<timer, sending, failures, age, calm, trouble>>
      /\ held' = held \/ held' = None
  BY DEF ComeBack, loop, task
<1>2. calm = 0 /\ Due \in Nat /\ Due <= BackoffMax + Timeout
  BY <1>1, DueBounded DEF FleetInv, NetworkOK
<1>3. Due' = Due /\ Elapsed' = Elapsed /\ Sent' = Sent /\ Lag' = Lag
  BY <1>1 DEF Due, Elapsed, Sent, Lag, Fresh, Beat
<1>4. Waiting'
  <2>1. 0 + Due <= FirstBeat
    BY <1>2, Numbers
  <2>. QED
    BY <1>1, <1>2, <1>3, <2>1 DEF Waiting, FirstBeat
<1>5. Early => Early'
  BY <1>1, <1>3 DEF Early, InTime, Beat
<1>6. History => History'
  BY <1>1, <1>3 DEF History, NoneArrived, SomeArrived, Fresh, Beat
<1>. QED
  BY <1>1, <1>4, <1>5, <1>6 DEF TroubleInv, Stages, Settled, Beat

(* Time passes for a row and for the probe that holds it.                  *)
LEMMA OlderHeld ==
  \A x, y, p, b, t, q \in Nat : y <= x + 1 /\ x + p + b <= t + q => y + p + b <= t + (q + 1)
  OBVIOUS

(* Time leaves every stage as it is: the next beat comes nearer.           *)
LEMMA TickTrouble ==
  ASSUME FleetInv, TroubleInv, Tick
  PROVE  TroubleInv'
<1>1. /\ probe' = probe + 1 /\ UNCHANGED <<failures, up>> /\ Due' = Due - 1
      /\ age' \in Nat /\ age' <= age + 1
      /\ held = None <=> held' = None
      /\ held # None => held' \in Nat /\ held' <= held + 1
  BY TickFacts
<1>2. /\ age \in Nat /\ probe \in Nat /\ Due \in Nat /\ Elapsed \in Nat /\ Sent \in Int
      /\ trouble \in Nat /\ calm \in Nat /\ failures \in Nat /\ Lag \in Nat
      /\ held # None => held \in Nat
  BY TroubleTypes
<1>3. IF up THEN calm' = Least(calm + 1, Settled) /\ trouble' = trouble
      ELSE trouble' = trouble + 1 /\ calm' = calm
  BY DEF Tick
<1>4. trouble' \in Nat /\ trouble <= trouble'
  BY <1>2, <1>3
<1>5. Fresh' = Fresh /\ Lag' = Lag /\ Beat' = Beat /\ Settled' = Settled /\ FirstBeat' = FirstBeat
  BY <1>1 DEF Fresh, Lag, Beat, Settled, FirstBeat
<1>. DEFINE left == Due'
<1>6. left = Due - 1 /\ left \in Int /\ Due \in Int
  BY <1>1, <1>2
<1>. HIDE DEF left
<1>7. /\ age' + left <= age + Due /\ age' + left \in Int /\ age + Due \in Int
      /\ held # None => held' + left <= held + Due /\ held' + left \in Int /\ held + Due \in Int
  <2>1. age \in Int /\ age' \in Int /\ age' <= age + 1
    BY <1>1, <1>2
  <2>2. held # None => held \in Int /\ held' \in Int /\ held' <= held + 1
    BY <1>1, <1>2
  <2>. QED
    BY <1>6, <2>1, <2>2, OlderAndNearer
<1>8. up /\ Waiting => Waiting'
  <2>. HAVE up /\ Waiting
  <2>1. calm' \in Int /\ calm' <= calm + 1 /\ calm \in Int
    BY <1>2, TickFacts
  <2>2. calm' + left <= calm + Due /\ calm' + left \in Int /\ calm + Due \in Int
    BY <1>6, <2>1, OlderAndNearer
  <2>3. calm' + left <= FirstBeat
    BY <2>2, Below, Numbers DEF Waiting
  <2>. QED
    BY <1>5, <2>3 DEF Waiting, left
<1>9. Early => Early'
  <2>. HAVE Early
  <2>1. \A x, y \in Int : x <= y /\ InTime(y) => InTime(x)
    BY Numbers DEF InTime
  <2>2. InTime(age' + left) /\ (held # None => InTime(held' + left))
    BY <1>7, <2>1 DEF Early
  <2>. QED
    BY <1>1, <1>5, <2>2 DEF Early, InTime, left
<1>10. Risky => Risky'
  <2>. HAVE Risky
  <2>1. age' + left <= Beat
    BY <1>7, Below, Numbers DEF Risky, Kept
  <2>2. held' + ProbeMax + Beat <= TTL + (probe + 1)
    <3>1. held \in Nat /\ held' \in Nat /\ held' <= held + 1 /\ held + ProbeMax + Beat <= TTL + probe
      BY <1>1, <1>2 DEF Risky
    <3>2. probe \in Nat /\ ProbeMax \in Nat /\ Beat \in Nat /\ TTL \in Nat
      BY <1>2, Numbers
    <3>. QED
      BY ONLY <3>1, <3>2, OlderHeld
  <2>. QED
    BY <1>1, <1>5, <2>1, <2>2 DEF Risky, Kept, left
<1>11. Late => Late'
  <2>. HAVE Late
  <2>1. (probe + 1) + left <= Beat
    BY <1>2, <1>6, Numbers DEF Late
  <2>2. age' + left <= TTL
    BY <1>7, Below, Numbers DEF Late
  <2>. QED
    BY <1>1, <1>5, <2>1, <2>2 DEF Late, left
<1>12. Stages => Stages'
  BY <1>1, <1>9, <1>10, <1>11 DEF Stages
<1>13. ASSUME calm' < Settled, calm < Settled => History
       PROVE  History'
  <2>1. calm < Settled /\ Elapsed' = Elapsed + 1
    <3>1. calm \in 0 .. Settled /\ Settled \in Nat
      BY Numbers DEF FleetInv, NetworkOK
    <3>. QED
      BY <1>2, <1>3, <1>13, <3>1 DEF Least, Elapsed
  <2>2. Sent' = Sent
    <3>1. CASE sending = None
      <4>1. timer' = timer - 1 /\ sending' = None /\ timer \in Nat
        BY <3>1 DEF Tick, FleetInv, LoopOK
      <4>. QED
        BY <1>2, <2>1, <3>1, <4>1 DEF Sent
    <3>2. CASE sending # None
      <4>1. sending' = sending + 1 /\ sending \in Nat /\ sending' # None
        BY <3>2, Numbers DEF Tick, FleetInv, LoopOK
      <4>. QED
        BY <1>2, <2>1, <3>2, <4>1 DEF Sent
    <3>. QED
      BY <3>1, <3>2
  <2>3. age' <= Fresh + (Elapsed + 1) /\ (held # None => held' <= Fresh + (Elapsed + 1))
    BY <1>1, <1>2, <1>13, <2>1, FreshNumber DEF History
  <2>4. NoneArrived => NoneArrived'
    <3>. HAVE NoneArrived
    <3>1. Lag \in Int
      BY <1>2
    <3>2. age' + left <= Lag /\ (held # None => held' + left <= Lag)
      BY <1>7, <3>1, Below DEF NoneArrived
    <3>. QED
      BY <1>1, <1>5, <2>2, <3>2 DEF NoneArrived, left
  <2>5. SomeArrived => SomeArrived'
    BY <1>1, <2>2 DEF SomeArrived
  <2>. QED
    BY <1>1, <1>5, <1>13, <2>1, <2>2, <2>3, <2>4, <2>5 DEF History
<1>14. trouble' <= ShortTrouble => trouble <= ShortTrouble
  BY <1>2, <1>4, FleetAssumption
<1>. QED
  BY <1>1, <1>4, <1>5, <1>8, <1>12, <1>13, <1>14 DEF TroubleInv

LEMMA TroubleStep == TroubleIsShort /\ FleetInv /\ TroubleInv /\ [Next]_vars => TroubleInv'
<1>. SUFFICES ASSUME TroubleIsShort, FleetInv, TroubleInv, [Next]_vars PROVE TroubleInv'
  OBVIOUS
<1>1. CASE UNCHANGED vars
  <2>1. UNCHANGED <<timer, sending, failures, age, held, probe, up, calm, trouble>>
    BY <1>1 DEF vars, loop, task, network
  <2>2. Due' = Due /\ Elapsed' = Elapsed /\ Sent' = Sent
    BY <2>1 DEF Due, Elapsed, Sent
  <2>3. Stages => Stages'
    BY <2>1, <2>2 DEF Stages, Early, Risky, Late, Kept, InTime, Beat
  <2>. QED
    BY <2>1, <2>2, <2>3, QuietStep DEF TroubleInv
<1>. QED
  BY <1>1, SendTrouble, ArriveTrouble, FailTrouble, ProbeTrouble, GoDownTrouble, ComeBackTrouble,
     TickTrouble DEF Next

(***************************************************************************)
(* For every configuration, and every ShortTrouble that TroubleIsShort     *)
(* allows it: a node that lives is not stale through any trouble that is   *)
(* no longer, whatever backs off, fails, and is undone by probes in it.    *)
(***************************************************************************)
THEOREM ShortTroublesPass == TroubleIsShort => (Spec => []ShortTroubleUnnoticed)
<1>. SUFFICES ASSUME TroubleIsShort PROVE Spec => []ShortTroubleUnnoticed
  OBVIOUS
<1>1. ASSUME FleetInv, TroubleInv PROVE ShortTroubleUnnoticed
  <2>1. /\ age \in Nat /\ probe \in Nat /\ Due \in Nat
    BY <1>1, TroubleTypes
  <2>2. ASSUME Stages PROVE age <= TTL
    BY <2>1, <2>2, Numbers, FreshNumber, ShortEnough DEF Stages, Early, InTime, Risky, Late, Kept
  <2>. QED
    BY <1>1, <2>2 DEF TroubleInv, ShortTroubleUnnoticed
<1>2. Init => TroubleInv
  BY TroubleInit
<1>3. FleetInv /\ TroubleInv /\ [Next]_vars => TroubleInv'
  BY TroubleStep
<1>. QED
  BY <1>1, <1>2, <1>3, FleetInvariant, PTL DEF Spec
==============================================================================
