---------------------------- MODULE FeedbackProofs ---------------------------
(***************************************************************************)
(* Proofs about feedback over the transactions of the store: for every set *)
(* of posts, tokens and jobs, every window and every number of attempts.   *)
(*                                                                         *)
(* A step of the program is to the store a call, its end, or a step of one *)
(* in progress (StoreStep).  What it stores passed the gates of its        *)
(* handler; the handler whose post is being stored is known by the call of *)
(* the gateway in progress, the only one there can be; and a post that is  *)
(* acknowledged has a rating in the file, which never loses one, so that   *)
(* whatever is read back hears it or WindowN that are not older.           *)
(***************************************************************************)
EXTENDS Feedback, StoreTxnProofs, FiniteSetTheorems

(* A call in progress.                                                     *)
Active(p) == step[p] \in Inside \cup {"begin"}

(* What the store holds, and the calls in progress on it.                  *)
StoreInv ==
  /\ Inv
  /\ db \in Dbs /\ IsFiniteSet(db.ratings)
  /\ lock \in Procs \cup {None}
  /\ attempt \in [Procs -> 0 .. RetryMax]
  /\ \A p \in Procs : step[p] = "idle" => attempt[p] = 0
  /\ \A p \in Procs : Active(p) => attempt[p] < RetryMax /\ op[p] \in Writes
  /\ Active("cli") => op["cli"] = Upsert

(* The gateway counts a job only where there is room for it.               *)
RoomForJob == Active("gateway") /\ op["gateway"] = Delta(1) => db.jobs # MaxJobs

(* What is stored, or being stored, passed the gates of the handler.       *)
AllowedInv ==
  /\ \A r \in db.ratings : Allowed(r.id)
  /\ \A f \in Posts, t \in 0 .. MaxTime :
       step["gateway"] # "idle" /\ op["gateway"] = Rate(f, t) => Allowed(f)

(* The gateway is storing the rating of a post, or has just stored it.     *)
Adding(f) ==
  /\ step["gateway"] # "idle"
  /\ \E t \in 0 .. MaxTime :
       /\ op["gateway"] = Rate(f, t)
       /\ step["gateway"] = "done" => [id |-> f, at |-> t] \in db.ratings

(* A post has a rating in the file.                                        *)
HasRating(f) == \E r \in db.ratings : r.id = f

(* Where a handler is tells what it has stored.                            *)
HandlerInv ==
  /\ now \in 0 .. MaxTime
  /\ pc \in [Posts -> {"new"} \cup Busying \cup Answered]
  /\ averages \in [Pairs -> SUBSET Ratings]
  /\ \A f \in Posts : pc[f] = "adding" => Adding(f)
  /\ \A f \in Posts : pc[f] \in {"reading", "ok"} => HasRating(f)

(* The inductive invariant.                                                *)
FeedbackInv ==
  StoreInv /\ RoomForJob /\ AllowedInv /\ HandlerInv /\ AcknowledgedIsHeard
------------------------------------------------------------------------------
(* The writes, and the calls a step of the program makes of them.          *)
LEMMA WritesAre ==
  /\ Upsert \in Writes /\ Delta(1) \in Writes /\ Delta(-1) \in Writes
  /\ \A f \in Posts, t \in 0 .. MaxTime : Rate(f, t) \in Writes
  /\ \A o \in Writes : \/ o = Upsert \/ o = Delta(1) \/ o = Delta(-1)
                       \/ \E f \in Posts, t \in 0 .. MaxTime : o = Rate(f, t)
  /\ \A d \in {1, -1} : \A f, t : Delta(d) # Rate(f, t) /\ Upsert # Rate(f, t) /\ Upsert # Delta(d)
  /\ Delta(1) # Delta(-1)
  /\ \A f, t, g, u : Rate(f, t) = Rate(g, u) => f = g /\ t = u
<1>1. /\ Upsert.kind = "upsert"
      /\ \A d : Delta(d).kind = "delta" /\ Delta(d).by = d
      /\ \A f, t : Rate(f, t).kind = "rate" /\ Rate(f, t).rating.id = f /\ Rate(f, t).rating.at = t
  BY DEF Upsert, Delta, Rate
<1>2. /\ Upsert \in Writes /\ Delta(1) \in Writes /\ Delta(-1) \in Writes
      /\ \A f \in Posts, t \in 0 .. MaxTime : Rate(f, t) \in Writes
      /\ \A o \in Writes : \/ o = Upsert \/ o = Delta(1) \/ o = Delta(-1)
                           \/ \E f \in Posts, t \in 0 .. MaxTime : o = Rate(f, t)
  BY DEF Writes
<1>3. \A d \in {1, -1} : \A f, t : Delta(d) # Rate(f, t) /\ Upsert # Rate(f, t) /\ Upsert # Delta(d)
  BY <1>1
<1>4. Delta(1) # Delta(-1)
  BY <1>1
<1>5. \A f, t, g, u : Rate(f, t) = Rate(g, u) => f = g /\ t = u
  BY <1>1
<1>. QED
  BY <1>2, <1>3, <1>4, <1>5

(* What each write does to the tables.                                     *)
LEMMA WrittenIs ==
  ASSUME NEW d \in Dbs
  PROVE  /\ Written(Upsert, Row(Upsert, d), d) = [d EXCEPT !.jobs = 0]
         /\ \A f, t : Written(Rate(f, t), Row(Rate(f, t), d), d)
                        = [d EXCEPT !.ratings = @ \cup {[id |-> f, at |-> t]}]
         /\ \A by \in {1, -1} :
              Written(Delta(by), Row(Delta(by), d), d)
                = IF d.jobs = None THEN d ELSE [d EXCEPT !.jobs = Clamped(d.jobs + by)]
<1>1. Written(Upsert, Row(Upsert, d), d) = [d EXCEPT !.jobs = 0]
  BY DEF Upsert, Written
<1>2. ASSUME NEW f, NEW t
      PROVE  Written(Rate(f, t), Row(Rate(f, t), d), d)
               = [d EXCEPT !.ratings = @ \cup {[id |-> f, at |-> t]}]
  <2>1. Rate(f, t).kind = "rate" /\ Rate(f, t).rating = [id |-> f, at |-> t]
    BY DEF Rate
  <2>. QED
    BY <2>1 DEF Written
<1>3. ASSUME NEW by \in {1, -1}
      PROVE  Written(Delta(by), Row(Delta(by), d), d)
               = IF d.jobs = None THEN d ELSE [d EXCEPT !.jobs = Clamped(d.jobs + by)]
  <2>1. Delta(by).kind = "delta" /\ Delta(by).by = by /\ Row(Delta(by), d) = d.jobs
    BY DEF Delta, Row
  <2>. QED
    BY <2>1 DEF Written
<1>. QED
  BY <1>1, <1>2, <1>3

(* What a commit leaves behind.                                            *)
LEMMA CommitStores ==
  ASSUME StoreInv, RoomForJob, AllowedInv, NEW p \in Procs, Commit(p)
  PROVE  /\ db' \in Dbs /\ IsFiniteSet(db'.ratings)
         /\ db.ratings \subseteq db'.ratings
         /\ p # "gateway" => db'.jobs = 0 /\ db'.ratings = db.ratings
         /\ \A r \in db'.ratings : Allowed(r.id)
         /\ \A f \in Posts, t \in 0 .. MaxTime :
              op[p] = Rate(f, t) => [id |-> f, at |-> t] \in db'.ratings
<1>. DEFINE o == op[p]
<1>1. /\ step[p] = "write" /\ o \in Writes /\ db \in Dbs /\ IsFiniteSet(db.ratings)
      /\ seen[p] = Select(o, db)
  BY DEF Commit, StoreInv, Active, Inside, Inv, ReadIsFresh
<1>2. db' = Written(o, Row(o, db), db)
  BY <1>1, WritesAssumption DEF Commit
<1>3. db.jobs \in 0 .. MaxJobs \cup {None} /\ db.ratings \in SUBSET Ratings
  BY <1>1 DEF Dbs
<1>4. p # "gateway" => o = Upsert
  BY <1>1, FeedbackAssumption DEF StoreInv, Active, Inside
<1>5. CASE o = Upsert
  <2>1. db' = [db EXCEPT !.jobs = 0]
    BY <1>1, <1>2, <1>5, WrittenIs
  <2>2. db' \in Dbs /\ db'.jobs = 0 /\ db'.ratings = db.ratings
    BY <1>1, <2>1, FeedbackAssumption DEF Dbs
  <2>3. \A f \in Posts, t \in 0 .. MaxTime : op[p] # Rate(f, t)
    BY <1>5, WritesAre
  <2>. QED
    BY <1>1, <2>2, <2>3 DEF AllowedInv
<1>6. ASSUME NEW f \in Posts, NEW t \in 0 .. MaxTime, o = Rate(f, t)
      PROVE  /\ db' \in Dbs /\ IsFiniteSet(db'.ratings) /\ db.ratings \subseteq db'.ratings
             /\ \A r \in db'.ratings : Allowed(r.id)
             /\ [id |-> f, at |-> t] \in db'.ratings
  <2>1. db' = [db EXCEPT !.ratings = @ \cup {[id |-> f, at |-> t]}]
    BY <1>1, <1>2, <1>6, WrittenIs
  <2>2. [id |-> f, at |-> t] \in Ratings
    BY DEF Ratings
  <2>3. db'.ratings = db.ratings \cup {[id |-> f, at |-> t]} /\ db' \in Dbs
    BY <1>1, <1>3, <2>1, <2>2 DEF Dbs
  <2>4. IsFiniteSet(db'.ratings)
    BY <1>1, <2>3, FS_AddElement
  <2>5. p = "gateway"
    BY <1>4, <1>6, WritesAre
  <2>6. Allowed(f)
    BY <1>1, <1>6, <2>5 DEF AllowedInv
  <2>7. \A r \in db'.ratings : Allowed(r.id)
    BY <2>3, <2>6 DEF AllowedInv
  <2>. QED
    BY <2>3, <2>4, <2>7
<1>7. ASSUME NEW by \in {1, -1}, o = Delta(by)
      PROVE  db' \in Dbs /\ db'.ratings = db.ratings
  <2>1. db' = IF db.jobs = None THEN db ELSE [db EXCEPT !.jobs = Clamped(db.jobs + by)]
    BY <1>1, <1>2, <1>7, WrittenIs
  <2>2. CASE db.jobs = None
    BY <1>1, <2>1, <2>2
  <2>3. CASE db.jobs # None
    <3>1. db.jobs \in 0 .. MaxJobs
      BY <1>3, <2>3
    <3>2. p = "gateway"
      BY <1>4, <1>7, WritesAre
    <3>3. by = 1 => db.jobs # MaxJobs
      BY <1>1, <1>7, <3>2 DEF RoomForJob, Active, Inside
    <3>4. db.jobs + by \in Int /\ db.jobs + by <= MaxJobs
      BY <3>1, <3>3, FeedbackAssumption
    <3>5. Clamped(db.jobs + by) \in 0 .. MaxJobs
      BY <3>4, FeedbackAssumption DEF Clamped
    <3>. QED
      BY <1>1, <2>1, <2>3, <3>5 DEF Dbs
  <2>. QED
    BY <2>2, <2>3
<1>8. CASE \E by \in {1, -1} : o = Delta(by)
  <2>1. db' \in Dbs /\ db'.ratings = db.ratings
    BY <1>7, <1>8
  <2>2. p = "gateway" /\ \A f \in Posts, t \in 0 .. MaxTime : op[p] # Rate(f, t)
    BY <1>4, <1>8, WritesAre
  <2>. QED
    BY <1>1, <2>1, <2>2 DEF AllowedInv
<1>9. CASE \E f \in Posts, t \in 0 .. MaxTime : o = Rate(f, t)
  <2>1. PICK f \in Posts, t \in 0 .. MaxTime : o = Rate(f, t)
    BY <1>9
  <2>0. \A g, u : Rate(f, t) = Rate(g, u) => f = g /\ t = u
    BY WritesAre
  <2>2. \A g \in Posts, u \in 0 .. MaxTime : op[p] = Rate(g, u) => g = f /\ u = t
    BY <2>0, <2>1
  <2>3. p = "gateway"
    BY <1>4, <2>1, WritesAre
  <2>. QED
    BY <1>6, <2>1, <2>2, <2>3
<1>. QED
  BY <1>1, <1>5, <1>8, <1>9, WritesAre

------------------------------------------------------------------------------
(* The calls the program makes, and the steps of those in progress.        *)
Calling(p, o) ==
  /\ Call(p, o) /\ o \in Writes
  /\ p = "cli" => o = Upsert
  /\ p = "gateway" =>
       /\ o = Delta(1) => db.jobs # MaxJobs
       /\ \A f \in Posts, t \in 0 .. MaxTime : o = Rate(f, t) => Allowed(f)

Ending(p) == Return(p) \/ Die(p)

(* A call starts with all its attempts before it.                          *)
LEMMA CallKeeps ==
  ASSUME StoreInv, RoomForJob, AllowedInv, NEW p \in Procs, NEW o, Calling(p, o)
  PROVE  StoreInv' /\ RoomForJob' /\ AllowedInv'
<1>1. /\ step \in [Procs -> Steps] /\ op \in [Procs -> Ops \cup {None}]
      /\ attempt \in [Procs -> 0 .. RetryMax]
  BY DEF StoreInv, Inv, Shape
<1>2. /\ step[p] = "idle" /\ step' = [step EXCEPT ![p] = "begin"]
      /\ op' = [op EXCEPT ![p] = o] /\ UNCHANGED <<db, lock, attempt>> /\ o \in Ops
  BY WritesAssumption DEF Calling, Call
<1>3. Inv'
  BY <1>2, InvStep DEF StoreInv, TxnNext, Calling
<1>4. /\ step'[p] = "begin" /\ op'[p] = o
      /\ \A q \in Procs \ {p} : step'[q] = step[q] /\ op'[q] = op[q]
  BY <1>1, <1>2
<1>5. "gateway" \in Procs /\ "cli" \in Procs
  BY FeedbackAssumption
<1>6. \A q \in Procs : step'[q] = "idle" => attempt'[q] = 0
  BY <1>2, <1>4 DEF StoreInv
<1>7. \A q \in Procs : Active(q)' => attempt'[q] < RetryMax /\ op'[q] \in Writes
  <2>. TAKE q \in Procs
  <2>1. CASE q = p
    <3>1. attempt[p] = 0 /\ o \in Writes
      BY <1>2 DEF StoreInv, Calling
    <3>. QED
      BY <1>2, <1>4, <2>1, <3>1, StoreTxnAssumption
  <2>2. CASE q # p
    BY <1>2, <1>4, <2>2 DEF Active, StoreInv
  <2>. QED
    BY <2>1, <2>2
<1>8. Active("cli")' => op'["cli"] = Upsert
  <2>1. p = "cli" => o = Upsert
    BY DEF Calling
  <2>. QED
    BY <1>4, <1>5, <2>1 DEF StoreInv, Active
<1>9. RoomForJob'
  <2>1. p = "gateway" => (o = Delta(1) => db.jobs # MaxJobs)
    BY DEF Calling
  <2>. QED
    BY <1>2, <1>4, <1>5, <2>1 DEF RoomForJob, Active
<1>10. AllowedInv'
  <2>1. p = "gateway" => \A f \in Posts, t \in 0 .. MaxTime : o = Rate(f, t) => Allowed(f)
    BY DEF Calling
  <2>2. \A f \in Posts, t \in 0 .. MaxTime :
          step'["gateway"] # "idle" /\ op'["gateway"] = Rate(f, t) => Allowed(f)
    BY <1>4, <1>5, <2>1 DEF AllowedInv
  <2>3. \A r \in db'.ratings : Allowed(r.id)
    BY <1>2 DEF AllowedInv
  <2>. QED
    BY <2>2, <2>3 DEF AllowedInv, Allowed
<1>. QED
  BY <1>2, <1>3, <1>6, <1>7, <1>8, <1>9, <1>10 DEF StoreInv

(* A call that ends leaves the tables alone.                               *)
LEMMA EndKeeps ==
  ASSUME StoreInv, RoomForJob, AllowedInv, NEW p \in Procs, Ending(p)
  PROVE  StoreInv' /\ RoomForJob' /\ AllowedInv'
<1>1. /\ step \in [Procs -> Steps] /\ op \in [Procs -> Ops \cup {None}]
      /\ attempt \in [Procs -> 0 .. RetryMax] /\ lock \in Procs \cup {None}
  BY DEF StoreInv, Inv, Shape
<1>2. /\ step' = [step EXCEPT ![p] = "idle"] /\ op' = [op EXCEPT ![p] = None]
      /\ attempt' = [attempt EXCEPT ![p] = 0] /\ db' = db /\ lock' \in Procs \cup {None}
  BY <1>1 DEF Ending, Return, Die, Over
<1>3. Inv'
  BY InvStep DEF StoreInv, TxnNext, Ending
<1>4. /\ step'[p] = "idle" /\ attempt'[p] = 0
      /\ \A q \in Procs \ {p} :
           step'[q] = step[q] /\ op'[q] = op[q] /\ attempt'[q] = attempt[q]
  BY <1>1, <1>2
<1>5. "gateway" \in Procs /\ "cli" \in Procs
  BY FeedbackAssumption
<1>6. attempt' \in [Procs -> 0 .. RetryMax]
  BY <1>1, <1>2, StoreTxnAssumption
<1>7. \A q \in Procs : step'[q] = "idle" => attempt'[q] = 0
  BY <1>4 DEF StoreInv
<1>8. \A q \in Procs : Active(q)' => attempt'[q] < RetryMax /\ op'[q] \in Writes
  <2>. TAKE q \in Procs
  <2>1. CASE q = p
    BY <1>4, <2>1 DEF Active, Inside
  <2>2. CASE q # p
    BY <1>4, <2>2 DEF Active, StoreInv
  <2>. QED
    BY <2>1, <2>2
<1>9. Active("cli")' => op'["cli"] = Upsert
  BY <1>4, <1>5 DEF StoreInv, Active, Inside
<1>10. RoomForJob'
  BY <1>2, <1>4, <1>5 DEF RoomForJob, Active, Inside
<1>11. AllowedInv'
  <2>1. \A f \in Posts, t \in 0 .. MaxTime :
          step'["gateway"] # "idle" /\ op'["gateway"] = Rate(f, t) => Allowed(f)
    BY <1>4, <1>5 DEF AllowedInv
  <2>2. \A r \in db'.ratings : Allowed(r.id)
    BY <1>2 DEF AllowedInv
  <2>. QED
    BY <2>1, <2>2 DEF AllowedInv, Allowed
<1>. QED
  BY <1>2, <1>3, <1>6, <1>7, <1>8, <1>9, <1>10, <1>11 DEF StoreInv

(* A step of a call: its attempts stay below the bound, and whatever it    *)
(* commits was allowed.                                                    *)
LEMMA AdvanceKeeps ==
  ASSUME StoreInv, RoomForJob, AllowedInv, NEW p \in Procs, Advance(p)
  PROVE  StoreInv' /\ RoomForJob' /\ AllowedInv'
<1>1. /\ step \in [Procs -> Steps] /\ attempt \in [Procs -> 0 .. RetryMax]
      /\ lock \in Procs \cup {None} /\ op' = op /\ Active(p) /\ attempt[p] < RetryMax
  BY DEF StoreInv, Inv, Shape, Advance, Begin, Busy, Read, Commit, Rollback, Active, Inside
<1>2. /\ lock' \in Procs \cup {None}
      /\ \A q \in Procs \ {p} : step'[q] = step[q] /\ attempt'[q] = attempt[q]
      /\ step'[p] # "idle" /\ DOMAIN attempt' = Procs
      /\ \/ attempt' = attempt
         \/ /\ attempt' = [attempt EXCEPT ![p] = @ + 1]
            /\ Active(p)' => attempt[p] + 1 < RetryMax
  BY <1>1 DEF Advance, Begin, Busy, Read, Commit, Rollback, Again, Active, Inside
<1>3. Inv'
  BY InvStep DEF StoreInv, TxnNext
<1>4. "gateway" \in Procs /\ "cli" \in Procs /\ RetryMax \in Nat
  BY FeedbackAssumption, StoreTxnAssumption
<1>5. attempt' \in [Procs -> 0 .. RetryMax] /\ (Active(p)' => attempt'[p] < RetryMax)
  BY <1>1, <1>2, <1>4
<1>6. \A q \in Procs : step'[q] = "idle" => attempt'[q] = 0
  BY <1>2 DEF StoreInv
<1>7. \A q \in Procs : Active(q)' => attempt'[q] < RetryMax /\ op'[q] \in Writes
  <2>. TAKE q \in Procs
  <2>1. CASE q = p
    BY <1>1, <1>5, <2>1 DEF StoreInv
  <2>2. CASE q # p
    BY <1>1, <1>2, <2>2 DEF Active, StoreInv
  <2>. QED
    BY <2>1, <2>2
<1>8. Active("cli")' => op'["cli"] = Upsert
  BY <1>1, <1>2, <1>4 DEF StoreInv, Active
<1>9. ASSUME db' \in Dbs, IsFiniteSet(db'.ratings), \A r \in db'.ratings : Allowed(r.id),
             Active("gateway")' /\ op["gateway"] = Delta(1) => db'.jobs # MaxJobs
      PROVE  StoreInv' /\ RoomForJob' /\ AllowedInv'
  <2>1. StoreInv'
    BY <1>2, <1>3, <1>5, <1>6, <1>7, <1>8, <1>9 DEF StoreInv
  <2>2. RoomForJob'
    BY <1>1, <1>9 DEF RoomForJob
  <2>3. \A f \in Posts, t \in 0 .. MaxTime :
          step'["gateway"] # "idle" /\ op'["gateway"] = Rate(f, t) => Allowed(f)
    BY <1>1, <1>2, <1>4 DEF AllowedInv, Active, Inside
  <2>4. AllowedInv'
    BY <1>9, <2>3 DEF AllowedInv, Allowed
  <2>. QED
    BY <2>1, <2>2, <2>4
<1>10. CASE Commit(p)
  <2>1. /\ db' \in Dbs /\ IsFiniteSet(db'.ratings) /\ \A r \in db'.ratings : Allowed(r.id)
        /\ p # "gateway" => db'.jobs = 0
    BY <1>10, CommitStores
  <2>2. p = "gateway" => ~ Active("gateway")'
    BY <1>1, <1>10 DEF Commit, Active, Inside
  <2>3. 0 # MaxJobs
    BY FeedbackAssumption
  <2>. QED
    BY <1>9, <2>1, <2>2, <2>3
<1>11. CASE ~ Commit(p)
  <2>1. db' = db
    BY <1>11 DEF Advance, Begin, Busy, Read, Rollback
  <2>2. Active("gateway")' => Active("gateway")
    BY <1>1, <1>2, <1>4 DEF Active
  <2>. QED
    BY <1>9, <2>1, <2>2 DEF StoreInv, RoomForJob, AllowedInv
<1>. QED
  BY <1>10, <1>11

(* What a step of the program is to the store: a call, the step of one, or *)
(* its end, and what the handlers see of it.                               *)
StoreStep ==
  \/ UNCHANGED txn
  \/ \E p \in Procs : (\E o : Calling(p, o)) \/ Ending(p) \/ Advance(p)

(* Every action of the program is one of them.                             *)
LEMMA StepsOfStore ==
  ASSUME StoreInv, HandlerInv, [Next]_vars
  PROVE  StoreStep
<1>0. "gateway" \in Procs /\ "cli" \in Procs /\ "gateway" # "cli"
  BY FeedbackAssumption
<1>1. ASSUME NEW f \in Posts, Submit(f) PROVE StoreStep
  <2>1. Call("gateway", Rate(f, now)) /\ now \in 0 .. MaxTime /\ Allowed(f)
    BY <1>1 DEF Submit, HandlerInv
  <2>2. Rate(f, now) \in Writes /\ Rate(f, now) # Delta(1)
    BY <2>1, WritesAre
  <2>3. \A g, t : Rate(f, now) = Rate(g, t) => g = f
    BY WritesAre
  <2>4. Calling("gateway", Rate(f, now))
    BY <1>0, <2>1, <2>2, <2>3 DEF Calling
  <2>. QED
    BY <1>0, <2>4 DEF StoreStep
<1>2. ASSUME NEW d \in {1, -1}, CountJob(d) PROVE StoreStep
  <2>1. Call("gateway", Delta(d)) /\ (d = 1 => db.jobs # MaxJobs)
    BY <1>2 DEF CountJob
  <2>2. Delta(d) \in Writes /\ (Delta(d) = Delta(1) => d = 1)
    BY WritesAre
  <2>3. \A g, t : Delta(d) # Rate(g, t)
    BY WritesAre
  <2>4. Calling("gateway", Delta(d))
    BY <1>0, <2>1, <2>2, <2>3 DEF Calling
  <2>. QED
    BY <1>0, <2>4 DEF StoreStep
<1>3. CASE CliUpsert
  <2>1. CASE Call("cli", Upsert)
    <3>1. Calling("cli", Upsert)
      BY <1>0, <2>1, WritesAre DEF Calling
    <3>. QED
      BY <1>0, <3>1 DEF StoreStep
  <2>2. CASE Return("cli") \/ Die("cli")
    BY <1>0, <2>2 DEF StoreStep, Ending
  <2>. QED
    BY <1>3, <2>1, <2>2 DEF CliUpsert
<1>4. ASSUME NEW f \in Posts, Stored(f) \/ NotStored(f) PROVE StoreStep
  BY <1>0, <1>4 DEF Stored, NotStored, StoreStep, Ending
<1>5. ASSUME NEW f \in Posts, Deny(f) \/ Average(f) \/ ReadRaises(f) PROVE StoreStep
  BY <1>5 DEF Deny, Average, ReadRaises, StoreStep
<1>6. CASE JobCounted
  BY <1>0, <1>6 DEF JobCounted, StoreStep, Ending
<1>7. CASE Crash
  BY <1>0, <1>7 DEF Crash, StoreStep, Ending
<1>8. CASE Restart \/ SetClock
  BY <1>8 DEF Restart, SetClock, StoreStep
<1>9. ASSUME NEW p \in Procs, Transaction(p) PROVE StoreStep
  BY <1>9 DEF Transaction, StoreStep
<1>10. CASE UNCHANGED vars
  BY <1>10 DEF vars, StoreStep
<1>. QED
  BY <1>1, <1>2, <1>3, <1>4, <1>5, <1>6, <1>7, <1>8, <1>9, <1>10 DEF Next, Handle

(* Every step keeps what is known of the store, and loses no rating.       *)
LEMMA StoreKeeps ==
  ASSUME StoreInv, RoomForJob, AllowedInv, HandlerInv, [Next]_vars
  PROVE  StoreInv' /\ RoomForJob' /\ AllowedInv' /\ db.ratings \subseteq db'.ratings
<1>1. CASE UNCHANGED txn
  <2>1. StoreInv'
    BY <1>1 DEF txn, StoreInv, Active, Inv, Shape, LockHeld, ReadIsFresh
  <2>2. RoomForJob'
    BY <1>1 DEF txn, RoomForJob, Active
  <2>3. AllowedInv'
    BY <1>1 DEF txn, AllowedInv, Allowed
  <2>. QED
    BY <1>1, <2>1, <2>2, <2>3 DEF txn
<1>2. ASSUME NEW p \in Procs, NEW o, Calling(p, o)
      PROVE  StoreInv' /\ RoomForJob' /\ AllowedInv' /\ db.ratings \subseteq db'.ratings
  <2>1. db' = db
    BY <1>2 DEF Calling, Call
  <2>. QED
    BY <1>2, <2>1, CallKeeps
<1>3. ASSUME NEW p \in Procs, Ending(p)
      PROVE  StoreInv' /\ RoomForJob' /\ AllowedInv' /\ db.ratings \subseteq db'.ratings
  <2>1. db' = db
    BY <1>3 DEF Ending, Return, Die
  <2>. QED
    BY <1>3, <2>1, EndKeeps
<1>4. ASSUME NEW p \in Procs, Advance(p)
      PROVE  StoreInv' /\ RoomForJob' /\ AllowedInv' /\ db.ratings \subseteq db'.ratings
  <2>1. db.ratings \subseteq db'.ratings
    <3>1. CASE Commit(p)
      BY <3>1, CommitStores
    <3>2. CASE ~ Commit(p)
      BY <1>4, <3>2 DEF Advance, Begin, Busy, Read, Rollback
    <3>. QED
      BY <3>1, <3>2
  <2>. QED
    BY <1>4, <2>1, AdvanceKeeps
<1>. QED
  BY <1>1, <1>2, <1>3, <1>4, StepsOfStore DEF StoreStep

(* The averages read back hold, of every stored rating, it or WindowN that *)
(* are not older.                                                          *)
LEMMA ReadBack ==
  ASSUME StoreInv, AllowedInv, NEW avg \in [Pairs -> SUBSET db.ratings], Recent(avg),
         NEW r \in db.ratings
  PROVE  LET heard == avg[Served[Job[r.id]]] IN
         r \in heard \/ (Cardinality(heard) = WindowN /\ \A s \in heard : s.at >= r.at)
<1>. DEFINE pair == Served[Job[r.id]]
            S == Of(pair, db.ratings)
            W == avg[pair]
<1>1. pair \in Pairs
  <2>1. Allowed(r.id)
    BY DEF AllowedInv
  <2>. QED
    BY <2>1 DEF Allowed, Pairs
<1>2. W \in Windows(S)
  BY <1>1 DEF Recent
<1>3. r \in S
  BY DEF Of
<1>4. IsFiniteSet(S)
  <2>1. S \subseteq db.ratings
    BY DEF Of
  <2>. QED
    BY <2>1, FS_Subset DEF StoreInv
<1>. HIDE DEF S, W
<1>5. /\ W \subseteq S
      /\ Cardinality(W) = IF Cardinality(S) < WindowN THEN Cardinality(S) ELSE WindowN
      /\ \A x \in W, y \in S \ W : x.at >= y.at
  BY <1>2 DEF Windows
<1>6. ASSUME r \notin W
      PROVE  Cardinality(W) = WindowN /\ \A s \in W : s.at >= r.at
  <2>1. W # S
    BY <1>3, <1>6
  <2>2. Cardinality(W) # Cardinality(S)
    BY <1>4, <1>5, <2>1, FS_Subset
  <2>. QED
    BY <1>3, <1>5, <1>6, <2>2
<1>. QED
  BY <1>6 DEF W

(* What the averages become is computed from ratings.                      *)
LEMMA AveragesType ==
  ASSUME StoreInv, NEW avg \in [Pairs -> SUBSET db.ratings]
  PROVE  avg \in [Pairs -> SUBSET Ratings]
<1>1. db.ratings \subseteq Ratings
  BY DEF StoreInv, Dbs
<1>. QED
  BY <1>1

(* Reading the ratings back makes every acknowledged one heard.            *)
LEMMA ReadBackIsHeard ==
  ASSUME StoreInv, AllowedInv, NEW avg \in [Pairs -> SUBSET db.ratings], Recent(avg),
         db' = db, averages' = avg,
         \A f \in Posts : pc'[f] = "ok" => \E r \in db.ratings : r.id = f
  PROVE  AcknowledgedIsHeard'
<1>. SUFFICES ASSUME NEW f \in Posts, pc'[f] = "ok"
              PROVE  \E r \in db.ratings : r.id = f /\
                       LET heard == avg[Served[Job[f]]] IN
                       r \in heard \/ (Cardinality(heard) = WindowN
                                         /\ \A s \in heard : s.at >= r.at)
  BY DEF AcknowledgedIsHeard
<1>1. PICK r \in db.ratings : r.id = f
  OBVIOUS
<1>2. LET heard == avg[Served[Job[f]]] IN
      r \in heard \/ (Cardinality(heard) = WindowN /\ \A s \in heard : s.at >= r.at)
  BY <1>1, ReadBack
<1>. QED
  BY <1>1, <1>2

(* As long as the averages and the acknowledged posts stay, they stay      *)
(* heard.                                                                  *)
LEMMA StaysHeard ==
  ASSUME AcknowledgedIsHeard, up' => up, averages' = averages,
         db.ratings \subseteq db'.ratings,
         \A f \in Posts : pc'[f] = "ok" => pc[f] = "ok"
  PROVE  AcknowledgedIsHeard'
<1>. SUFFICES ASSUME up, NEW f \in Posts, pc'[f] = "ok"
              PROVE  \E r \in db'.ratings : r.id = f /\
                       LET heard == averages[Served[Job[f]]] IN
                       r \in heard \/ (Cardinality(heard) = WindowN
                                         /\ \A s \in heard : s.at >= r.at)
  BY DEF AcknowledgedIsHeard
<1>1. pc[f] = "ok"
  OBVIOUS
<1>2. PICK r \in db.ratings : r.id = f /\
        LET heard == averages[Served[Job[f]]] IN
        r \in heard \/ (Cardinality(heard) = WindowN /\ \A s \in heard : s.at >= r.at)
  BY <1>1 DEF AcknowledgedIsHeard
<1>. QED
  BY <1>2

(* A post that is being stored goes on being so, until its call ends.      *)
LEMMA StillAdding ==
  ASSUME StoreInv, RoomForJob, AllowedInv, NEW f \in Posts, Adding(f),
         db.ratings \subseteq db'.ratings,
         Advance("gateway") \/ (step'["gateway"] = step["gateway"] /\ op'["gateway"] = op["gateway"])
  PROVE  Adding(f)'
<1>0. "gateway" \in Procs /\ step \in [Procs -> Steps]
  BY FeedbackAssumption DEF StoreInv, Inv, Shape
<1>1. PICK t \in 0 .. MaxTime :
        /\ op["gateway"] = Rate(f, t)
        /\ step["gateway"] = "done" => [id |-> f, at |-> t] \in db.ratings
  BY DEF Adding
<1>2. CASE Commit("gateway")
  <2>1. [id |-> f, at |-> t] \in db'.ratings
    BY <1>0, <1>1, <1>2, CommitStores
  <2>2. step'["gateway"] = "done" /\ op'["gateway"] = Rate(f, t)
    BY <1>0, <1>1, <1>2 DEF Commit
  <2>. QED
    BY <2>1, <2>2 DEF Adding
<1>3. CASE Advance("gateway") /\ ~ Commit("gateway")
  <2>1. op'["gateway"] = Rate(f, t)
    BY <1>1, <1>3 DEF Advance, Begin, Busy, Read, Rollback
  <2>2. step'["gateway"] \notin {"done", "idle"}
    BY <1>0, <1>3 DEF Advance, Begin, Busy, Read, Rollback, Again
  <2>. QED
    BY <2>1, <2>2 DEF Adding
<1>4. CASE step'["gateway"] = step["gateway"] /\ op'["gateway"] = op["gateway"]
  BY <1>1, <1>4 DEF Adding
<1>. QED
  BY <1>2, <1>3, <1>4

(* The handlers after a step, when the one that moved did its part.        *)
LEMMA HandlerFrame ==
  ASSUME HandlerInv, db.ratings \subseteq db'.ratings,
         now' \in 0 .. MaxTime,
         pc' \in [Posts -> {"new"} \cup Busying \cup Answered],
         averages' \in [Pairs -> SUBSET Ratings],
         \A f \in Posts : pc'[f] = "adding" => Adding(f)',
         \A f \in Posts : pc'[f] \in {"reading", "ok"} =>
            pc[f] \in {"reading", "ok"} \/ HasRating(f)
  PROVE  HandlerInv'
<1>1. \A f \in Posts : HasRating(f) => HasRating(f)'
  BY DEF HasRating
<1>. QED
  BY <1>1 DEF HandlerInv

(* Every step keeps the handlers in order and acknowledged posts heard.    *)
LEMMA HandlersKeep ==
  ASSUME FeedbackInv, [Next]_vars
  PROVE  HandlerInv' /\ AcknowledgedIsHeard'
<1>0. /\ StoreInv /\ RoomForJob /\ AllowedInv /\ HandlerInv /\ AcknowledgedIsHeard
      /\ db.ratings \subseteq db'.ratings
  BY StoreKeeps DEF FeedbackInv
<1>00. /\ now \in 0 .. MaxTime /\ averages \in [Pairs -> SUBSET Ratings]
       /\ pc \in [Posts -> {"new"} \cup Busying \cup Answered]
  BY <1>0 DEF HandlerInv
<1>000. "gateway" \in Procs /\ "cli" \in Procs /\ "gateway" # "cli" /\ step \in [Procs -> Steps]
        /\ op \in [Procs -> Ops \cup {None}]
  BY <1>0, FeedbackAssumption DEF StoreInv, Inv, Shape
<1>1. ASSUME step'["gateway"] = step["gateway"], op'["gateway"] = op["gateway"]
      PROVE  \A f \in Posts : pc[f] = "adding" => Adding(f)'
  BY <1>0, <1>1, StillAdding DEF HandlerInv
\* Steps that leave the handlers and the averages alone.
<1>2. ASSUME UNCHANGED <<pc, averages>>, now' \in 0 .. MaxTime, up' => up,
             \A f \in Posts : pc[f] = "adding" => Adding(f)'
      PROVE  HandlerInv' /\ AcknowledgedIsHeard'
  <2>1. HandlerInv'
    BY <1>0, <1>00, <1>2, HandlerFrame
  <2>2. AcknowledgedIsHeard'
    BY <1>0, <1>2, StaysHeard
  <2>. QED
    BY <2>1, <2>2
\* Steps of one handler that keep the averages.
<1>3. ASSUME NEW f \in Posts, NEW s \in {"new"} \cup Busying \cup Answered, s # "ok",
             pc' = [pc EXCEPT ![f] = s], UNCHANGED <<now, up, averages>>,
             s = "reading" => HasRating(f),
             \A g \in Posts : pc'[g] = "adding" => Adding(g)'
      PROVE  HandlerInv' /\ AcknowledgedIsHeard'
  <2>1. pc' \in [Posts -> {"new"} \cup Busying \cup Answered]
    BY <1>00, <1>3
  <2>2. \A g \in Posts : pc'[g] = "ok" => pc[g] = "ok"
    BY <1>00, <1>3
  <2>3. \A g \in Posts : pc'[g] \in {"reading", "ok"} =>
          pc[g] \in {"reading", "ok"} \/ HasRating(g)
    BY <1>00, <1>3
  <2>4. HandlerInv'
    BY <1>0, <1>00, <1>3, <2>1, <2>3, HandlerFrame
  <2>5. AcknowledgedIsHeard'
    BY <1>0, <1>3, <2>2, StaysHeard
  <2>. QED
    BY <2>4, <2>5
<1>4. ASSUME NEW f \in Posts, Deny(f) PROVE HandlerInv' /\ AcknowledgedIsHeard'
  <2>1. /\ pc' = [pc EXCEPT ![f] = "denied"] /\ UNCHANGED <<now, up, averages>>
        /\ step' = step /\ op' = op
    BY <1>4 DEF Deny, txn
  <2>2. \A g \in Posts : pc'[g] = "adding" => Adding(g)'
    BY <1>00, <1>1, <2>1
  <2>3. "denied" \in Answered
    BY DEF Answered
  <2>. QED
    BY <1>3, <2>1, <2>2, <2>3
<1>5. ASSUME NEW f \in Posts, Submit(f) PROVE HandlerInv' /\ AcknowledgedIsHeard'
  <2>1. /\ pc' = [pc EXCEPT ![f] = "adding"] /\ UNCHANGED <<now, up, averages>>
        /\ step'["gateway"] = "begin" /\ op'["gateway"] = Rate(f, now)
        /\ \A g \in Posts : pc[g] # "adding"
    BY <1>000, <1>5 DEF Submit, Call, Scheduled, Busying
  <2>2. Adding(f)'
    BY <1>00, <2>1 DEF Adding
  <2>3. \A g \in Posts : pc'[g] = "adding" => Adding(g)'
    BY <1>00, <2>1, <2>2
  <2>4. "adding" \in Busying
    BY DEF Busying
  <2>. QED
    BY <1>3, <2>1, <2>3, <2>4
<1>6. ASSUME NEW f \in Posts, pc[f] = "adding", NEW g \in Posts, pc[g] = "adding"
      PROVE  f = g
  <2>1. PICK t \in 0 .. MaxTime : op["gateway"] = Rate(f, t)
    BY <1>0, <1>6 DEF HandlerInv, Adding
  <2>2. PICK u \in 0 .. MaxTime : op["gateway"] = Rate(g, u)
    BY <1>0, <1>6 DEF HandlerInv, Adding
  <2>3. \A a, b, c, d : Rate(a, b) = Rate(c, d) => a = c
    BY WritesAre
  <2>. QED
    BY <2>1, <2>2, <2>3
<1>7. ASSUME NEW f \in Posts, Stored(f) PROVE HandlerInv' /\ AcknowledgedIsHeard'
  <2>1. /\ pc[f] = "adding" /\ step["gateway"] = "done"
        /\ pc' = [pc EXCEPT ![f] = "reading"] /\ UNCHANGED <<now, up, averages>>
    BY <1>7 DEF Stored
  <2>2. HasRating(f)
    BY <1>0, <2>1 DEF HandlerInv, Adding, HasRating
  <2>3. \A g \in Posts : pc'[g] # "adding"
    BY <1>00, <1>6, <2>1
  <2>4. "reading" \in Busying
    BY DEF Busying
  <2>. QED
    BY <1>3, <2>1, <2>2, <2>3, <2>4
<1>8. ASSUME NEW f \in Posts, NotStored(f) PROVE HandlerInv' /\ AcknowledgedIsHeard'
  <2>1. /\ pc[f] = "adding"
        /\ pc' = [pc EXCEPT ![f] = "failed"] /\ UNCHANGED <<now, up, averages>>
    BY <1>8 DEF NotStored
  <2>2. \A g \in Posts : pc'[g] # "adding"
    BY <1>00, <1>6, <2>1
  <2>3. "failed" \in Answered
    BY DEF Answered
  <2>. QED
    BY <1>3, <2>1, <2>2, <2>3
<1>9. ASSUME NEW f \in Posts, Average(f) PROVE HandlerInv' /\ AcknowledgedIsHeard'
  <2>1. PICK avg \in [Pairs -> SUBSET db.ratings] : Recent(avg) /\ averages' = avg
    BY <1>9 DEF Average
  <2>2. /\ pc[f] = "reading" /\ pc' = [pc EXCEPT ![f] = "ok"] /\ UNCHANGED <<now, up>>
        /\ step' = step /\ op' = op /\ db' = db
    BY <1>9 DEF Average, txn
  <2>3. \A g \in Posts : pc'[g] = "adding" => Adding(g)'
    BY <1>00, <1>1, <2>2
  <2>4. averages' \in [Pairs -> SUBSET Ratings]
    BY <1>0, <2>1, AveragesType
  <2>5. pc' \in [Posts -> {"new"} \cup Busying \cup Answered]
    BY <1>00, <2>2 DEF Answered
  <2>6. \A g \in Posts : pc'[g] \in {"reading", "ok"} => pc[g] \in {"reading", "ok"}
    BY <1>00, <2>2
  <2>7. HandlerInv'
    BY <1>0, <1>00, <2>2, <2>3, <2>4, <2>5, <2>6, HandlerFrame
  <2>8. \A g \in Posts : pc'[g] = "ok" => \E r \in db.ratings : r.id = g
    BY <1>0, <2>6 DEF HandlerInv, HasRating
  <2>9. AcknowledgedIsHeard'
    BY <1>0, <2>1, <2>2, <2>8, ReadBackIsHeard
  <2>. QED
    BY <2>7, <2>9
<1>10. ASSUME NEW f \in Posts, ReadRaises(f) PROVE HandlerInv' /\ AcknowledgedIsHeard'
  <2>1. /\ pc' = [pc EXCEPT ![f] = "failed"] /\ UNCHANGED <<now, up, averages>>
        /\ step' = step /\ op' = op
    BY <1>10 DEF ReadRaises, txn
  <2>2. \A g \in Posts : pc'[g] = "adding" => Adding(g)'
    BY <1>00, <1>1, <2>1
  <2>3. "failed" \in Answered
    BY DEF Answered
  <2>. QED
    BY <1>3, <2>1, <2>2, <2>3
<1>11. ASSUME NEW d \in {1, -1}, CountJob(d) PROVE HandlerInv' /\ AcknowledgedIsHeard'
  <2>1. UNCHANGED <<now, up, pc, averages>> /\ \A f \in Posts : pc[f] # "adding"
    BY <1>11 DEF CountJob, Scheduled, Busying
  <2>. QED
    BY <1>00, <1>2, <2>1
<1>12. CASE JobCounted
  <2>1. UNCHANGED <<now, up, pc, averages>> /\ \A f \in Posts : pc[f] # "adding"
    BY <1>12 DEF JobCounted
  <2>. QED
    BY <1>00, <1>2, <2>1
<1>13. CASE Crash
  <2>1. /\ pc' = [f \in Posts |-> IF pc[f] \in Busying THEN "failed" ELSE pc[f]]
        /\ UNCHANGED <<now, averages>> /\ up' = FALSE
    BY <1>13 DEF Crash
  <2>2. pc' \in [Posts -> {"new"} \cup Busying \cup Answered]
    BY <1>00, <2>1 DEF Answered
  <2>3. \A f \in Posts : pc'[f] # "adding" /\ (pc'[f] \in {"reading", "ok"} => pc[f] = "ok")
    BY <2>1 DEF Busying
  <2>4. HandlerInv'
    BY <1>0, <1>00, <2>1, <2>2, <2>3, HandlerFrame
  <2>5. AcknowledgedIsHeard'
    BY <2>1 DEF AcknowledgedIsHeard
  <2>. QED
    BY <2>4, <2>5
<1>14. CASE Restart
  <2>1. PICK avg \in [Pairs -> SUBSET db.ratings] : Recent(avg) /\ averages' = avg
    BY <1>14 DEF Restart
  <2>2. UNCHANGED <<now, pc>> /\ step' = step /\ op' = op /\ db' = db
    BY <1>14 DEF Restart, txn
  <2>3. \A g \in Posts : pc'[g] = "adding" => Adding(g)'
    BY <1>1, <2>2
  <2>4. averages' \in [Pairs -> SUBSET Ratings]
    BY <1>0, <2>1, AveragesType
  <2>5. HandlerInv'
    BY <1>0, <1>00, <2>2, <2>3, <2>4, HandlerFrame
  <2>6. \A g \in Posts : pc'[g] = "ok" => \E r \in db.ratings : r.id = g
    BY <1>0, <2>2 DEF HandlerInv, HasRating
  <2>7. AcknowledgedIsHeard'
    BY <1>0, <2>1, <2>2, <2>6, ReadBackIsHeard
  <2>. QED
    BY <2>5, <2>7
<1>15. CASE SetClock
  <2>1. UNCHANGED <<up, pc, averages>> /\ now' \in 0 .. MaxTime /\ step' = step /\ op' = op
    BY <1>15 DEF SetClock, txn
  <2>. QED
    BY <1>1, <1>2, <2>1
<1>16. CASE CliUpsert /\ UNCHANGED <<now, up, pc, averages>>
  <2>1. step'["gateway"] = step["gateway"] /\ op'["gateway"] = op["gateway"]
    BY <1>000, <1>16 DEF CliUpsert, Call, Return, Die, Over
  <2>. QED
    BY <1>00, <1>1, <1>2, <1>16, <2>1
<1>17. ASSUME NEW p \in Procs, Transaction(p) PROVE HandlerInv' /\ AcknowledgedIsHeard'
  <2>1. UNCHANGED <<now, up, pc, averages>> /\ Advance(p)
    BY <1>17 DEF Transaction
  <2>2. \/ Advance("gateway")
        \/ step'["gateway"] = step["gateway"] /\ op'["gateway"] = op["gateway"]
    BY <1>000, <2>1 DEF Advance, Begin, Busy, Read, Commit, Rollback, Again
  <2>3. \A f \in Posts : pc[f] = "adding" => Adding(f)'
    BY <1>0, <2>2, StillAdding DEF HandlerInv
  <2>. QED
    BY <1>00, <1>2, <2>1, <2>3
<1>18. CASE UNCHANGED vars
  <2>1. UNCHANGED <<now, up, pc, averages>> /\ step' = step /\ op' = op
    BY <1>18 DEF vars, txn
  <2>. QED
    BY <1>00, <1>1, <1>2, <2>1
<1>. QED
  BY <1>4, <1>5, <1>7, <1>8, <1>9, <1>10, <1>11, <1>12, <1>13, <1>14, <1>15, <1>16, <1>17,
     <1>18 DEF Next, Handle

------------------------------------------------------------------------------
(* At the start nothing is stored and no post has arrived.                 *)
LEMMA FeedbackInit == Init => FeedbackInv
<1>. SUFFICES ASSUME Init PROVE FeedbackInv
  OBVIOUS
<1>1. /\ db = [jobs |-> None, ratings |-> {}] /\ lock = None
      /\ \A p \in Procs : step[p] = "idle" /\ attempt[p] = 0
      /\ attempt = [p \in Procs |-> 0]
  BY WritesAssumption DEF Init, TxnInit, Empty
<1>2. Inv
  BY InvInit DEF Init
<1>3. db \in Dbs /\ IsFiniteSet(db.ratings) /\ db.ratings = {}
  BY <1>1, FS_EmptySet DEF Dbs
<1>4. "gateway" \in Procs /\ "cli" \in Procs /\ RetryMax \in Nat /\ MaxTime \in Nat
  BY FeedbackAssumption, StoreTxnAssumption
<1>5. StoreInv
  BY <1>1, <1>2, <1>3, <1>4 DEF StoreInv, Active, Inside
<1>6. RoomForJob /\ AllowedInv
  BY <1>1, <1>3, <1>4 DEF RoomForJob, AllowedInv, Active, Inside
<1>7. HandlerInv
  BY <1>4 DEF Init, HandlerInv
<1>8. AcknowledgedIsHeard
  BY DEF Init, AcknowledgedIsHeard
<1>. QED
  BY <1>5, <1>6, <1>7, <1>8 DEF FeedbackInv

(***************************************************************************)
(* What is stored was allowed, whoever is being served has a rating stored *)
(* or in the one call of the gateway, and every acknowledged one is heard. *)
(***************************************************************************)
THEOREM FeedbackInvariant == Spec => []FeedbackInv
<1>1. FeedbackInv /\ [Next]_vars => FeedbackInv'
  BY StoreKeeps, HandlersKeep DEF FeedbackInv
<1>. QED
  BY <1>1, FeedbackInit, PTL DEF Spec

(***************************************************************************)
(* The state of the store and of the feedback handlers keeps its shape:    *)
(* the counter within its bound, the attempts within the retries.          *)
(***************************************************************************)
THEOREM FeedbackTypeCorrect == Spec => []TypeOK
<1>1. FeedbackInv => TypeOK
  BY DEF FeedbackInv, StoreInv, HandlerInv, TypeOK, Inv, Shape
<1>. QED
  BY <1>1, FeedbackInvariant, PTL

(***************************************************************************)
(* A rating answered 200 is heard by the scheduler until enough others of  *)
(* its node and model, none of them older, have displaced it, through      *)
(* retries, failed reads, crashes, restarts and clocks that are set back.  *)
(***************************************************************************)
THEOREM AcknowledgedStaysHeard == Spec => []AcknowledgedIsHeard
<1>1. FeedbackInv => AcknowledgedIsHeard
  BY DEF FeedbackInv
<1>. QED
  BY <1>1, FeedbackInvariant, PTL

(***************************************************************************)
(* With API tokens configured, every rating in the file was given with the *)
(* token of the requester its job was run for, whatever the headers of the *)
(* post claim besides.                                                     *)
(***************************************************************************)
THEOREM OnlyOwnJobsRated == Spec => []OwnJobsRated
<1>1. FeedbackInv => OwnJobsRated
  <2>. SUFFICES ASSUME FeedbackInv, DOMAIN ApiTokens # {}, NEW r \in db.ratings
                PROVE  LET token == Headers[r.id].token IN
                       token \in DOMAIN ApiTokens /\ ApiTokens[token] = JobOwner[Job[r.id]]
    BY DEF OwnJobsRated
  <2>. DEFINE h == Headers[r.id]
  <2>1. Requester(h) # None /\ JobOwner[Job[r.id]] = Requester(h)
    BY DEF FeedbackInv, AllowedInv, Allowed
  <2>2. Presented(h) \in DOMAIN ApiTokens /\ Requester(h) = ApiTokens[Presented(h)]
    BY <2>1 DEF Requester
  <2>3. Presented(h) # None
    BY <2>2, FeedbackAssumption
  <2>4. Presented(h) = h.token
    BY <2>3 DEF Presented, Bearer, BasicPassword
  <2>. QED
    BY <2>1, <2>2, <2>4
<1>. QED
  BY <1>1, FeedbackInvariant, PTL

(***************************************************************************)
(* The store calls of the program, which writes what, are transactions of  *)
(* StoreTxn, so each takes effect at once or not at all.                   *)
(***************************************************************************)
THEOREM FeedbackWritesAreAtomic == Spec => ImplementsAtomicStore
<1>1. Init => TxnInit
  BY DEF Init
<1>2. FeedbackInv /\ [Next]_vars => [TxnNext]_txn
  <2>. SUFFICES ASSUME FeedbackInv, [Next]_vars PROVE [TxnNext]_txn
    OBVIOUS
  <2>1. StoreStep
    BY StepsOfStore DEF FeedbackInv
  <2>2. ASSUME NEW p \in Procs, NEW o, Calling(p, o) PROVE TxnNext
    BY <2>2, WritesAssumption DEF Calling, TxnNext
  <2>. QED
    BY <2>1, <2>2 DEF StoreStep, Ending, TxnNext
<1>3. Spec => TxnSpec
  BY <1>1, <1>2, FeedbackInvariant, PTL DEF Spec, TxnSpec
<1>. QED
  BY <1>3, WritesAreAtomic
==============================================================================
