----------------------------- MODULE AtomicStore -----------------------------
(***************************************************************************)
(* What a write of the store promises to the process that calls it: it     *)
(* takes effect as a whole, at one moment between the call and the return, *)
(* or not at all.  A call that returned took effect, one that raised did   *)
(* not; of a call whose process died one cannot tell, but it will have no  *)
(* effect any more.                                                        *)
(***************************************************************************)
CONSTANTS
  Procs, Ops, None,
  InitialDb,
  Effect(_, _)   \* the database after an operation on it

VARIABLES
  db,
  call,   \* idle, pending, applied, refused
  op      \* the operation of the call, None while idle

Init ==
  /\ db = InitialDb
  /\ call = [p \in Procs |-> "idle"]
  /\ op = [p \in Procs |-> None]

Invoke(p, o) ==
  /\ call[p] = "idle"
  /\ call' = [call EXCEPT ![p] = "pending"]
  /\ op' = [op EXCEPT ![p] = o]
  /\ UNCHANGED db

Apply(p) ==
  /\ call[p] = "pending"
  /\ db' = Effect(op[p], db)
  /\ call' = [call EXCEPT ![p] = "applied"]
  /\ UNCHANGED op

Refuse(p) ==
  /\ call[p] = "pending"
  /\ call' = [call EXCEPT ![p] = "refused"]
  /\ UNCHANGED <<db, op>>

(* The caller sees the outcome, or dies at any point of the call. *)
End(p) ==
  /\ call[p] # "idle"
  /\ call' = [call EXCEPT ![p] = "idle"]
  /\ op' = [op EXCEPT ![p] = None]
  /\ UNCHANGED db

Next == \E p \in Procs : (\E o \in Ops : Invoke(p, o)) \/ Apply(p) \/ Refuse(p) \/ End(p)

Spec == Init /\ [][Next]_<<db, call, op>>
==============================================================================
