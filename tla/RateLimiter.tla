----------------------------- MODULE RateLimiter -----------------------------
(***************************************************************************)
(* rate_limit.SlidingWindowLimiter over time: requesters call check at     *)
(* moments of a clock that never runs backwards (time.monotonic).          *)
(***************************************************************************)
EXTENDS SlidingWindow

CONSTANTS
  Users,      \* requester names
  HalfSecond, \* half a second in ticks of the clock
  MaxTime     \* bound of the clock, for model checking

ASSUME HalfSecondAssumption == HalfSecond \in Nat \ {0}

VARIABLES
  now,        \* the clock
  history,    \* _history: the deque of each requester
  granted,    \* history variable: every admission time of each requester
  dropped,    \* history variable: how many entries the deque has lost
  promise,    \* history variable: when the last denial said to come back, -1 if
              \* the requester was admitted since
  told        \* history variable: the same moment as its Retry-After header has
              \* it, -1 if the requester was admitted since

vars == <<now, history, granted, dropped, promise, told>>

Second == 2 * HalfSecond

(* Fault: the header cuts the fraction of a second off. *)
HeaderWaitTruncated(wait) == (IF wait = 0 THEN Second ELSE wait) \div Second

(***************************************************************************)
(* The whole seconds of the Retry-After header, for a wait in ticks: the   *)
(* nearest number, which may be the one below; a wait of nothing counts as *)
(* a second.                                                               *)
(***************************************************************************)
HeaderWait(wait) == ((IF wait = 0 THEN Second ELSE wait) + HalfSecond) \div Second

Init ==
  /\ now = 0
  /\ history = [u \in Users |-> <<>>]
  /\ granted = [u \in Users |-> <<>>]
  /\ dropped = [u \in Users |-> 0]
  /\ promise = [u \in Users |-> -1]
  /\ told = [u \in Users |-> -1]

(* check(u) for a requester without a limit: the deque is not looked at. *)
Unlimited(u) ==
  /\ LimitFor(u) = 0
  /\ UNCHANGED vars

Grant(u) ==
  /\ LimitFor(u) > 0
  /\ \E k \in Popped(history[u], now) :
       /\ Len(After(history[u], k)) < LimitFor(u)
       /\ history' = [history EXCEPT ![u] = Append(After(history[u], k), now)]
       /\ dropped' = [dropped EXCEPT ![u] = @ + k]
  /\ granted' = [granted EXCEPT ![u] = Append(@, now)]
  /\ promise' = [promise EXCEPT ![u] = -1]
  /\ told' = [told EXCEPT ![u] = -1]
  /\ UNCHANGED now

Deny(u) ==
  /\ LimitFor(u) > 0
  /\ \E k \in Popped(history[u], now) :
       LET w == After(history[u], k) IN
       /\ Len(w) >= LimitFor(u)
       /\ history' = [history EXCEPT ![u] = w]
       /\ dropped' = [dropped EXCEPT ![u] = @ + k]
       /\ promise' = [promise EXCEPT ![u] = now + RetryAfter(w, now)]
       /\ told' = [told EXCEPT ![u] = now + Second * HeaderWait(RetryAfter(w, now))]
  /\ UNCHANGED <<now, granted>>

Tick ==
  /\ now < MaxTime
  /\ now' = now + 1
  /\ UNCHANGED <<history, granted, dropped, promise, told>>

Next == Tick \/ \E u \in Users : Unlimited(u) \/ Grant(u) \/ Deny(u)

Spec == Init /\ [][Next]_vars
------------------------------------------------------------------------------
(* Shape of the state of the limiter. *)
TypeOK ==
  /\ now \in Nat
  /\ history \in [Users -> Seq(Nat)]
  /\ granted \in [Users -> Seq(Nat)]
  /\ dropped \in [Users -> Nat]
  /\ promise \in [Users -> Int]
  /\ told \in [Users -> Int]

(***************************************************************************)
(* The rate is respected: any LimitFor(u) + 1 consecutive admissions of a  *)
(* limited requester span more than the window, wherever the window is     *)
(* laid, although check only ever prunes and counts its own deque.         *)
(***************************************************************************)
RateRespected ==
  \A u \in Users : LimitFor(u) > 0 =>
    \A i \in 1 .. Len(granted[u]) - LimitFor(u) :
      granted[u][i] < granted[u][i + LimitFor(u)] - Window

(***************************************************************************)
(* A denial tells the truth about the wait: a requester that comes back    *)
(* later than the retry_after it was given, and was not admitted in        *)
(* between, is not denied again.                                           *)
(***************************************************************************)
RetryAfterHonoured ==
  [][\A u \in Users : Deny(u) /\ promise[u] >= 0 => now <= promise[u]]_vars

(***************************************************************************)
(* The header of the 429 rounds the wait to whole seconds, possibly down.  *)
(* A client that reads nothing but the header may come back too early, but *)
(* not by more than half a second: coming any later than that after the    *)
(* moment the header named, it is not denied again.                        *)
(***************************************************************************)
HeaderHonoured ==
  [][\A u \in Users : Deny(u) /\ promise[u] >= 0 => now <= told[u] + HalfSecond]_vars
==============================================================================
