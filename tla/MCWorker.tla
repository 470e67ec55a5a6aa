------------------------------- MODULE MCWorker ------------------------------
(* Small instances of Worker: inventories of one and of two slots.         *)
EXTENDS Worker

OneSlot == [status |-> "online", jobs |-> 0, maxJobs |-> 1]
TwoSlots == [status |-> "degraded", jobs |-> 2, maxJobs |-> 2]
OutOfService == [status |-> "draining", jobs |-> 0, maxJobs |-> 1]

MCInventories == {OneSlot, TwoSlots, OutOfService}
MCPosted == {[status |-> "online", jobs |-> 0]}
==============================================================================
