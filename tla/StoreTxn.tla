------------------------------ MODULE StoreTxn ------------------------------
(***************************************************************************)
(* The writes of store.py as transactions of several processes on one      *)
(* SQLite file: the gateway, the command line tool, another replica.       *)
(* _execute_write, _executemany_write and delta_node_jobs share one shape: *)
(* BEGIN IMMEDIATE, perhaps a SELECT, a statement, COMMIT; ROLLBACK when   *)
(* anything raises; up to RetryMax attempts as long as the error is that   *)
(* the database is busy.                                                   *)
(*                                                                         *)
(* SQLite itself is external: one process at a time has the write lock,    *)
(* nobody else sees a transaction before its commit, and a process that    *)
(* dies loses its lock and its transaction.                                *)
(***************************************************************************)
EXTENDS Integers

CONSTANTS
  Procs,            \* processes that write
  Ops,              \* the writes they make
  Select(_, _),     \* what an operation reads from the database
  Update(_, _, _),  \* the database after it, given what it read
  InitialDb,        \* the tables at the start
  RetryMax,         \* _BUSY_RETRY_MAX
  None

ASSUME StoreTxnAssumption == RetryMax \in Nat \ {0} /\ None \notin Procs

VARIABLES
  db,        \* the committed content of the tables
  lock,      \* the process inside BEGIN IMMEDIATE ... COMMIT, or None
  step,      \* where each process is
  op,        \* the operation of its last call
  attempt,   \* how many of its attempts failed
  seen       \* what it read in its transaction

txn == <<db, lock, step, op, attempt, seen>>

Inside == {"read", "write"}
Steps == {"idle", "begin", "done", "raised"} \cup Inside

TxnInit ==
  /\ db = InitialDb
  /\ lock = None
  /\ step = [p \in Procs |-> "idle"]
  /\ op = [p \in Procs |-> None]
  /\ attempt = [p \in Procs |-> 0]
  /\ seen = [p \in Procs |-> None]

Call(p, o) ==
  /\ step[p] = "idle"
  /\ step' = [step EXCEPT ![p] = "begin"]
  /\ op' = [op EXCEPT ![p] = o]
  /\ UNCHANGED <<db, lock, attempt, seen>>

(* Fault: a plain BEGIN, which takes no lock. *)
BeginDeferred(p) ==
  /\ step[p] = "begin" /\ lock = None
  /\ step' = [step EXCEPT ![p] = "read"]
  /\ UNCHANGED <<db, lock, op, attempt, seen>>

(* BEGIN IMMEDIATE, within the busy timeout. *)
Begin(p) ==
  /\ step[p] = "begin" /\ lock = None
  /\ lock' = p
  /\ step' = [step EXCEPT ![p] = "read"]
  /\ UNCHANGED <<db, op, attempt, seen>>

(* Fault: the failed attempt is not counted. *)
AgainForever(p) ==
  /\ step' = [step EXCEPT ![p] = "begin"]
  /\ UNCHANGED attempt

(* An attempt failed because the database is busy: sleep and try again. *)
Again(p) ==
  /\ attempt' = [attempt EXCEPT ![p] = @ + 1]
  /\ step' = [step EXCEPT ![p] = IF attempt[p] + 1 < RetryMax THEN "begin" ELSE "raised"]

(* The busy timeout passed while another process held the lock. *)
Busy(p) ==
  /\ step[p] = "begin" /\ lock # None
  /\ Again(p)
  /\ UNCHANGED <<db, lock, op, seen>>

Read(p) ==
  /\ step[p] = "read"
  /\ seen' = [seen EXCEPT ![p] = Select(op[p], db)]
  /\ step' = [step EXCEPT ![p] = "write"]
  /\ UNCHANGED <<db, lock, op, attempt>>

Commit(p) ==
  /\ step[p] = "write"
  /\ db' = Update(op[p], seen[p], db)
  /\ lock' = None
  /\ step' = [step EXCEPT ![p] = "done"]
  /\ UNCHANGED <<op, attempt, seen>>

(* A statement, or the COMMIT, fails inside the transaction: ROLLBACK, and *)
(* the error is raised, or retried if it says busy.                        *)
Rollback(p) ==
  /\ step[p] \in Inside
  /\ lock' = None
  /\ \/ Again(p)
     \/ step' = [step EXCEPT ![p] = "raised"] /\ UNCHANGED attempt
  /\ UNCHANGED <<db, op, seen>>

(* The call and its local variables are gone. *)
Over(p) ==
  /\ step' = [step EXCEPT ![p] = "idle"]
  /\ op' = [op EXCEPT ![p] = None]
  /\ attempt' = [attempt EXCEPT ![p] = 0]
  /\ seen' = [seen EXCEPT ![p] = None]

(* The call returned, or it raised. *)
Return(p) ==
  /\ step[p] \in {"done", "raised"}
  /\ Over(p)
  /\ UNCHANGED <<db, lock>>

(* The process dies in a call. *)
Die(p) ==
  /\ step[p] # "idle"
  /\ Over(p)
  /\ lock' = IF lock = p THEN None ELSE lock
  /\ UNCHANGED db

(* A call in progress moves on by itself. *)
Advance(p) == Begin(p) \/ Busy(p) \/ Read(p) \/ Commit(p) \/ Rollback(p)

TxnNext ==
  \E p \in Procs : (\E o \in Ops : Call(p, o)) \/ Advance(p) \/ Return(p) \/ Die(p)

TxnSpec == TxnInit /\ [][TxnNext]_txn
------------------------------------------------------------------------------
(* The calls as their callers see them. *)

Effect(o, d) == Update(o, Select(o, d), d)

Seen(p) ==
  IF step[p] = "idle" THEN "idle"
  ELSE IF step[p] = "done" THEN "applied"
  ELSE IF step[p] = "raised" THEN "refused" ELSE "pending"

Atomic == INSTANCE AtomicStore WITH call <- [p \in Procs |-> Seen(p)]

(***************************************************************************)
(* A write of the store, several steps long, retried and interleaved with  *)
(* the writes of other processes, takes effect exactly once if it returns  *)
(* and not at all if it raises, and is computed from the rows it changes.  *)
(***************************************************************************)
ImplementsAtomicStore == Atomic!Spec
==============================================================================
