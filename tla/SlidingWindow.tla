---------------------------- MODULE SlidingWindow ----------------------------
(***************************************************************************)
(* The arithmetic of rate_limit.SlidingWindowLimiter: one requester's      *)
(* deque of admission times.  RateLimiter gives it a clock and a history,  *)
(* Gateway uses it in front of every chat completion.                      *)
(***************************************************************************)
EXTENDS Integers, Sequences

CONSTANTS
  Window,        \* length of the sliding window, 60 s in the code
  PerMinute,     \* rate_limit_per_minute: a function on some of the requesters
  DefaultLimit   \* rate_limit_default_per_minute, 0 standing for "not set"

ASSUME WindowAssumption ==
  /\ Window \in Nat
  /\ \A u \in DOMAIN PerMinute : PerMinute[u] \in Nat
  /\ DefaultLimit \in Nat

(* The limit of a requester; 0 switches the limiter off for it. *)
LimitFor(u) == IF u \in DOMAIN PerMinute THEN PerMinute[u] ELSE DefaultLimit

(* Fault: <= instead of < in the popleft loop. *)
PoppedOneEarly(w, t) ==
  {k \in 0 .. Len(w) : /\ \A i \in 1 .. k : w[i] <= t - Window
                       /\ k < Len(w) => w[k + 1] > t - Window}

(***************************************************************************)
(* What the popleft loop leaves of the deque w at time t: the entries      *)
(* older than the window go from the left, up to the first that is not.    *)
(* An entry exactly Window old stays.  The set has exactly one member; it  *)
(* is a set because the number k of popped entries is what the proofs name.*)
(***************************************************************************)
Popped(w, t) ==
  {k \in 0 .. Len(w) : /\ \A i \in 1 .. k : w[i] < t - Window
                       /\ k < Len(w) => w[k + 1] >= t - Window}

After(w, k) == SubSeq(w, k + 1, Len(w))

(* Fault: the wait is rounded down. *)
RetryAfterShort(w, t) == LET rest == Window - (t - w[1]) - 1 IN IF rest < 0 THEN 0 ELSE rest

(* The seconds a denied requester is told to wait; w is not empty. *)
RetryAfter(w, t) == LET rest == Window - (t - w[1]) IN IF rest < 0 THEN 0 ELSE rest
==============================================================================
