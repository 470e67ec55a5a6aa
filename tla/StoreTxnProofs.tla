---------------------------- MODULE StoreTxnProofs ----------------------------
(***************************************************************************)
(* The transactions of the store implement its atomic writes, for every    *)
(* set of processes and operations and every number of attempts.           *)
(*                                                                         *)
(* The lock belongs to the one process that is inside its transaction, so  *)
(* what a process has read is still what it would read.  With that every   *)
(* commit is the effect of the whole operation, and every other step       *)
(* either changes how the call ended or is not seen by the callers.        *)
(***************************************************************************)
EXTENDS StoreTxn, TLAPS

(* Shape of the state. *)
Shape ==
  /\ step \in [Procs -> Steps]
  /\ op \in [Procs -> Ops \cup {None}]
  /\ DOMAIN seen = Procs
  /\ attempt \in [Procs -> Nat]

(* Whoever is inside a transaction holds the lock. *)
LockHeld == \A p \in Procs : step[p] \in Inside => lock = p

(* What was read is what would be read now. *)
ReadIsFresh == \A p \in Procs : step[p] = "write" => seen[p] = Select(op[p], db)

Inv == Shape /\ LockHeld /\ ReadIsFresh
------------------------------------------------------------------------------
(* At the start every process is idle.                                     *)
LEMMA InvInit == TxnInit => Inv
<1>. QED
  BY StoreTxnAssumption
     DEF TxnInit, Inv, Shape, LockHeld, ReadIsFresh, Steps, Inside

(* Every step of every process keeps the invariant.                        *)
LEMMA InvStep == Inv /\ [TxnNext]_txn => Inv'
<1> USE StoreTxnAssumption DEF Inv, Shape, LockHeld, ReadIsFresh, Steps, Inside
<1> SUFFICES ASSUME Inv, [TxnNext]_txn PROVE Inv'
  OBVIOUS
<1>1. CASE UNCHANGED txn
  BY <1>1 DEF txn
<1> SUFFICES ASSUME NEW p \in Procs,
                    \/ \E o \in Ops : Call(p, o)
                    \/ Advance(p) \/ Return(p) \/ Die(p)
             PROVE Inv'
  BY <1>1 DEF TxnNext
<1>2. ASSUME NEW o \in Ops, Call(p, o) PROVE Inv'
  BY <1>2 DEF Call
<1>3. CASE Begin(p)
  BY <1>3 DEF Begin
<1>4. CASE Busy(p)
  BY <1>4 DEF Busy, Again
<1>5. CASE Read(p)
  BY <1>5 DEF Read
<1>6. CASE Commit(p)
  BY <1>6 DEF Commit
<1>7. CASE Rollback(p)
  BY <1>7 DEF Rollback, Again
<1>8. CASE Return(p)
  BY <1>8 DEF Return, Over
<1>9. CASE Die(p)
  BY <1>9 DEF Die, Over
<1> QED
  BY <1>2, <1>3, <1>4, <1>5, <1>6, <1>7, <1>8, <1>9 DEF Advance

LEMMA InvHolds == TxnSpec => []Inv
<1> QED
  BY InvInit, InvStep, PTL DEF TxnSpec

Calls == [p \in Procs |-> Seen(p)]

(* How the calls look after a step that moves one process. *)
LEMMA OneMoves ==
  ASSUME Shape, NEW p \in Procs, NEW s \in Steps, step' = [step EXCEPT ![p] = s]
  PROVE  /\ s = "idle" => Seen(p)' = "idle"
         /\ s = "done" => Seen(p)' = "applied"
         /\ s = "raised" => Seen(p)' = "refused"
         /\ s \in Inside \cup {"begin"} => Seen(p)' = "pending"
         /\ Calls' = [Calls EXCEPT ![p] = Seen(p)']
<1>1. step'[p] = s /\ \A q \in Procs \ {p} : step'[q] = step[q]
  BY DEF Shape
<1>2. Calls' = [Calls EXCEPT ![p] = Seen(p)']
  BY <1>1 DEF Seen, Calls
<1>. QED
  BY <1>1, <1>2 DEF Seen, Steps, Inside

(* A step inside a call that neither commits nor ends it is not seen. *)
LEMMA Unseen ==
  ASSUME Shape, NEW p \in Procs, step[p] \in Inside \cup {"begin"},
         NEW s \in Inside \cup {"begin"}, step' = [step EXCEPT ![p] = s],
         UNCHANGED <<db, op>>
  PROVE  UNCHANGED <<db, Calls, op>>
<1>1. Seen(p)' = "pending" /\ Calls' = [Calls EXCEPT ![p] = Seen(p)']
  BY OneMoves DEF Steps, Inside
<1>2. Seen(p) = "pending"
  BY DEF Seen, Inside
<1>. QED
  BY <1>1, <1>2 DEF Calls

(* An attempt that fails with nothing written is retried or refused. *)
LEMMA FailedStep ==
  ASSUME Shape, NEW p \in Procs, step[p] \in Inside \cup {"begin"},
         Again(p) \/ step' = [step EXCEPT ![p] = "raised"], UNCHANGED <<db, op>>
  PROVE  Atomic!Next \/ UNCHANGED <<db, Calls, op>>
<1>1. CASE step' = [step EXCEPT ![p] = "begin"]
  BY <1>1, Unseen
<1>2. CASE step' = [step EXCEPT ![p] = "raised"]
  <2>1. Seen(p)' = "refused" /\ Calls' = [Calls EXCEPT ![p] = Seen(p)']
    BY <1>2, OneMoves DEF Steps
  <2>2. Calls[p] = "pending"
    BY DEF Seen, Calls, Inside
  <2>3. Atomic!Refuse(p)
    BY <2>1, <2>2 DEF Atomic!Refuse, Calls
  <2>. QED
    BY <2>3 DEF Atomic!Next
<1>. QED
  BY <1>1, <1>2 DEF Again

(* The commit writes what the whole operation would write at this moment. *)
LEMMA CommitStep ==
  ASSUME Shape, ReadIsFresh, NEW p \in Procs, Commit(p) PROVE Atomic!Next
<1>1. step[p] = "write" /\ step' = [step EXCEPT ![p] = "done"] /\ op' = op
  BY DEF Commit
<1>2. Seen(p)' = "applied" /\ Calls' = [Calls EXCEPT ![p] = Seen(p)']
  BY <1>1, OneMoves DEF Steps
<1>3. Calls[p] = "pending"
  BY <1>1 DEF Seen, Calls
<1>4. db' = Effect(op[p], db)
  BY <1>1 DEF Commit, ReadIsFresh, Effect
<1>5. Atomic!Apply(p)
  BY <1>1, <1>2, <1>3, <1>4 DEF Atomic!Apply, Calls
<1>. QED
  BY <1>5 DEF Atomic!Next

(* The caller takes the outcome, or dies. *)
LEMMA OverStep ==
  ASSUME Shape, NEW p \in Procs, step[p] # "idle", Over(p), db' = db PROVE Atomic!Next
<1>1. step' = [step EXCEPT ![p] = "idle"] /\ op' = [op EXCEPT ![p] = None]
  BY DEF Over
<1>2. Seen(p)' = "idle" /\ Calls' = [Calls EXCEPT ![p] = Seen(p)']
  BY <1>1, OneMoves DEF Steps
<1>3. Calls[p] # "idle"
  BY DEF Seen, Calls
<1>4. Atomic!End(p)
  BY <1>1, <1>2, <1>3 DEF Atomic!End, Calls
<1>. QED
  BY <1>4 DEF Atomic!Next

LEMMA CallStep ==
  ASSUME Shape, NEW p \in Procs, NEW o \in Ops, Call(p, o) PROVE Atomic!Next
<1>1. /\ step[p] = "idle" /\ step' = [step EXCEPT ![p] = "begin"]
      /\ op' = [op EXCEPT ![p] = o] /\ db' = db
  BY DEF Call
<1>2. Seen(p)' = "pending" /\ Calls' = [Calls EXCEPT ![p] = Seen(p)']
  BY <1>1, OneMoves DEF Steps
<1>3. Calls[p] = "idle"
  BY <1>1 DEF Seen, Calls
<1>4. Atomic!Invoke(p, o)
  BY <1>1, <1>2, <1>3 DEF Atomic!Invoke, Calls
<1>. QED
  BY <1>4 DEF Atomic!Next

LEMMA StepRefines ==
  ASSUME Inv, TxnNext PROVE Atomic!Next \/ UNCHANGED <<db, Calls, op>>
<1>. SUFFICES ASSUME NEW p \in Procs,
                     \/ \E o \in Ops : Call(p, o)
                     \/ Advance(p) \/ Return(p) \/ Die(p)
              PROVE  Atomic!Next \/ UNCHANGED <<db, Calls, op>>
  BY DEF TxnNext
<1>1. Shape /\ ReadIsFresh
  BY DEF Inv
<1>2. ASSUME NEW o \in Ops, Call(p, o) PROVE Atomic!Next
  BY <1>1, <1>2, CallStep
<1>3. CASE Begin(p)
  BY <1>1, <1>3, Unseen DEF Begin, Inside
<1>4. CASE Busy(p)
  BY <1>1, <1>4, FailedStep DEF Busy
<1>5. CASE Read(p)
  BY <1>1, <1>5, Unseen DEF Read, Inside
<1>6. CASE Commit(p)
  BY <1>1, <1>6, CommitStep
<1>7. CASE Rollback(p)
  BY <1>1, <1>7, FailedStep DEF Rollback
<1>8. CASE Return(p)
  BY <1>1, <1>8, OverStep DEF Return
<1>9. CASE Die(p)
  BY <1>1, <1>9, OverStep DEF Die
<1>. QED
  BY <1>2, <1>3, <1>4, <1>5, <1>6, <1>7, <1>8, <1>9 DEF Advance

(***************************************************************************)
(* Every write of the store, whatever it reads and writes and whoever else *)
(* writes to the file, takes effect at once between its call and its       *)
(* return, or not at all if it raises.                                     *)
(***************************************************************************)
THEOREM WritesAreAtomic == TxnSpec => ImplementsAtomicStore
<1>1. TxnInit => Atomic!Init
  BY DEF TxnInit, Atomic!Init, Seen
<1>2. Inv /\ [TxnNext]_txn => [Atomic!Next]_<<db, Calls, op>>
  <2>1. UNCHANGED txn => UNCHANGED <<db, Calls, op>>
    BY DEF txn, Calls, Seen
  <2>. QED
    BY <2>1, StepRefines
<1>. QED
  BY <1>1, <1>2, InvHolds, PTL DEF TxnSpec, ImplementsAtomicStore, Atomic!Spec, Calls
==============================================================================
