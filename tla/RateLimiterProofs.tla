-------------------------- MODULE RateLimiterProofs --------------------------
(***************************************************************************)
(* Proofs about RateLimiter, for every set of requesters, every limits and *)
(* every window.  The deque of a requester is the tail of its admissions;  *)
(* what it lost is older than the window.                                  *)
(***************************************************************************)
EXTENDS RateLimiter, SequenceTheorems, TLAPS

(* h is what is left of g after d entries. *)
IsTail(h, g, d) ==
  /\ Len(h) = Len(g) - d
  /\ \A i \in 1 .. Len(h) : h[i] = g[d + i]

(* The first d entries of g are out of the window at time t. *)
Expired(g, d, t) == \A i \in 1 .. d : g[i] < t - Window

(* The last denial promised the moment the oldest entry leaves the window. *)
PromiseOldest(u) ==
  promise[u] >= 0 => Len(history[u]) > 0 /\ promise[u] = history[u][1] + Window

(* Its header names a moment at most half a second before that. *)
HeaderClose(u) == promise[u] >= 0 => promise[u] <= told[u] + HalfSecond

WithinLimit(u) == LimitFor(u) > 0 => Len(history[u]) <= LimitFor(u)

IInv ==
  /\ TypeOK
  /\ \A u \in Users : IsTail(history[u], granted[u], dropped[u])
  /\ \A u \in Users : Expired(granted[u], dropped[u], now)
  /\ \A u \in Users : PromiseOldest(u)
  /\ \A u \in Users : HeaderClose(u)
  /\ \A u \in Users : WithinLimit(u)
  /\ RateRespected

(* The limit of a requester is a natural number. *)
LEMMA LimitType == ASSUME NEW u PROVE LimitFor(u) \in Nat
  BY WindowAssumption DEF LimitFor

(* Rounding a wait to whole seconds takes off half a second at most. *)
LEMMA HeaderWaitFacts ==
  ASSUME NEW wait \in Nat
  PROVE  /\ Second * HeaderWait(wait) \in Nat
         /\ wait <= Second * HeaderWait(wait) + HalfSecond
<1>. DEFINE x == (IF wait = 0 THEN Second ELSE wait) + HalfSecond
            h == x \div Second
            t == Second * h
<1>1. HalfSecond \in Nat \ {0} /\ Second = 2 * HalfSecond /\ Second \in Nat \ {0}
  BY HalfSecondAssumption DEF Second
<1>2. x \in Nat /\ x >= wait + HalfSecond
  BY <1>1
<1>. HIDE DEF x
<1>3. t \in Nat /\ x < t + Second
  <2>1. \A y \in Nat, s \in Nat \ {0} : s * (y \div s) \in Nat /\ y < s * (y \div s) + s
    OBVIOUS
  <2>. QED
    BY <1>1, <1>2, <2>1
<1>. HIDE DEF t
<1>4. wait <= t + HalfSecond
  BY <1>1, <1>2, <1>3
<1>5. Second * HeaderWait(wait) = t
  BY DEF HeaderWait, x, t
<1>. QED
  BY <1>3, <1>4, <1>5

(* Popping k entries leaves the last ones, in order. *)
LEMMA AfterFacts ==
  ASSUME NEW w \in Seq(Nat), NEW t \in Nat, NEW k \in Popped(w, t)
  PROVE  /\ k \in 0 .. Len(w)
         /\ After(w, k) \in Seq(Nat)
         /\ Len(After(w, k)) = Len(w) - k
         /\ \A i \in 1 .. Len(w) - k : After(w, k)[i] = w[k + i]
         /\ \A i \in 1 .. k : w[i] < t - Window
         /\ k < Len(w) => w[k + 1] >= t - Window
<1>1. k \in 0 .. Len(w) /\ Len(w) \in Nat
  BY DEF Popped
<1>2. /\ After(w, k) \in Seq(Nat)
      /\ Len(After(w, k)) = Len(w) - k
      /\ \A i \in 1 .. Len(w) - k : After(w, k)[i] = w[k + i]
  BY <1>1 DEF After
<1>. QED
  BY <1>1, <1>2 DEF Popped

(* Popping the deque moves the boundary between its entries and the lost   *)
(* ones, and keeps the lost ones out of the window.                        *)
LEMMA PopTail ==
  ASSUME NEW h \in Seq(Nat), NEW g \in Seq(Nat), NEW d \in Nat, NEW t \in Nat,
         NEW k \in Popped(h, t), IsTail(h, g, d), Expired(g, d, t)
  PROVE  /\ IsTail(After(h, k), g, d + k)
         /\ Expired(g, d + k, t)
         /\ d + k \in 0 .. Len(g)
<1>1. /\ Len(h) \in Nat /\ Len(g) \in Nat
      /\ k \in 0 .. Len(h)
      /\ Len(After(h, k)) = Len(h) - k
      /\ \A i \in 1 .. Len(h) - k : After(h, k)[i] = h[k + i]
      /\ \A i \in 1 .. k : h[i] < t - Window
  BY AfterFacts
<1>2. Len(h) = Len(g) - d /\ \A i \in 1 .. Len(h) : h[i] = g[d + i]
  BY DEF IsTail
<1>3. ASSUME NEW i \in 1 .. Len(After(h, k)) PROVE After(h, k)[i] = g[(d + k) + i]
  <2>1. i \in 1 .. Len(h) - k /\ k + i \in 1 .. Len(h) /\ d + (k + i) = (d + k) + i
    BY <1>1
  <2>. QED
    BY <1>1, <1>2, <2>1
<1>4. ASSUME NEW i \in 1 .. d + k PROVE g[i] < t - Window
  <2>1. CASE i <= d
    BY <2>1 DEF Expired
  <2>2. CASE i > d
    <3>1. i - d \in 1 .. k /\ i - d \in 1 .. Len(h) /\ d + (i - d) = i
      BY <1>1, <2>2
    <3>. QED
      BY <1>1, <1>2, <3>1
  <2>. QED
    BY <1>1, <2>1, <2>2
<1>. QED
  BY <1>1, <1>2, <1>3, <1>4 DEF IsTail, Expired

(* An admission goes to the end of both the deque and the record of all    *)
(* admissions.                                                             *)
LEMMA AppendTail ==
  ASSUME NEW h \in Seq(Nat), NEW g \in Seq(Nat), NEW d \in 0 .. Len(g), NEW t \in Nat,
         IsTail(h, g, d), Expired(g, d, t)
  PROVE  IsTail(Append(h, t), Append(g, t), d) /\ Expired(Append(g, t), d, t)
<1>. DEFINE h2 == Append(h, t)
            g2 == Append(g, t)
<1>1. /\ Len(h2) = Len(h) + 1
      /\ \A i \in 1 .. Len(h) : h2[i] = h[i]
      /\ h2[Len(h) + 1] = t
  BY AppendProperties
<1>2. /\ Len(g2) = Len(g) + 1
      /\ \A i \in 1 .. Len(g) : g2[i] = g[i]
      /\ g2[Len(g) + 1] = t
  BY AppendProperties
<1>3. Len(h) = Len(g) - d /\ \A i \in 1 .. Len(h) : h[i] = g[d + i]
  BY DEF IsTail
<1>. HIDE DEF h2, g2
<1>4. Len(h) \in Nat /\ Len(g) \in Nat /\ d \in Nat
  OBVIOUS
<1>5. ASSUME NEW i \in 1 .. Len(h2) PROVE h2[i] = g2[d + i]
  <2>1. CASE i = Len(h) + 1
    <3>1. d + i = Len(g) + 1
      BY <1>3, <1>4, <2>1
    <3>. QED
      BY <1>1, <1>2, <2>1, <3>1
  <2>2. CASE i \in 1 .. Len(h)
    <3>1. d + i \in 1 .. Len(g)
      BY <1>3, <1>4, <2>2
    <3>. QED
      BY <1>1, <1>2, <1>3, <2>2, <3>1
  <2>. QED
    BY <1>1, <1>4, <2>1, <2>2
<1>6. Len(h2) = Len(g2) - d
  BY <1>1, <1>2, <1>3, <1>4
<1>7. ASSUME NEW i \in 1 .. d PROVE g2[i] < t - Window
  <2>1. i \in 1 .. Len(g)
    BY <1>4
  <2>. QED
    BY <1>2, <2>1 DEF Expired
<1>8. IsTail(h2, g2, d) /\ Expired(g2, d, t)
  BY <1>5, <1>6, <1>7 DEF IsTail, Expired
<1>. QED
  BY <1>8 DEF h2, g2

(* The rate of one list of admissions, with limit m. *)
Spaced(g, m) == \A i \in 1 .. Len(g) - m : g[i] < g[i + m] - Window

(* Admitting when fewer than m entries are in the window keeps the rate.   *)
LEMMA AppendSpaced ==
  ASSUME NEW g \in Seq(Nat), NEW d \in 0 .. Len(g), NEW t \in Nat, NEW m \in Nat \ {0},
         Expired(g, d, t), Spaced(g, m), Len(g) - d < m
  PROVE  Spaced(Append(g, t), m)
<1>. DEFINE g2 == Append(g, t)
<1>1. /\ Len(g2) = Len(g) + 1
      /\ \A i \in 1 .. Len(g) : g2[i] = g[i]
      /\ g2[Len(g) + 1] = t
  BY AppendProperties
<1>2. Len(g) \in Nat
  OBVIOUS
<1>. HIDE DEF g2
<1>. SUFFICES ASSUME NEW i \in 1 .. Len(g) + 1 - m
              PROVE  g2[i] < g2[i + m] - Window
  <2>1. (\A i \in 1 .. Len(g2) - m : g2[i] < g2[i + m] - Window) => Spaced(g2, m)
    BY DEF Spaced
  <2>. QED
    BY <1>1, <2>1 DEF g2
<1>3. i \in 1 .. Len(g)
  BY <1>2
<1>4. CASE i + m = Len(g) + 1
  <2>1. i \in 1 .. d
    BY <1>2, <1>4
  <2>. QED
    BY <1>1, <1>3, <1>4, <2>1 DEF Expired
<1>5. CASE i \in 1 .. Len(g) - m
  <2>1. i + m \in 1 .. Len(g)
    BY <1>2, <1>5
  <2>. QED
    BY <1>1, <1>3, <1>5, <2>1 DEF Spaced
<1>6. i + m = Len(g) + 1 \/ i \in 1 .. Len(g) - m
  BY <1>2
<1>. QED
  BY <1>4, <1>5, <1>6

(* The limiter starts in the invariant. *)
LEMMA InitIInv == Init => IInv
<1>. SUFFICES ASSUME Init PROVE IInv
  OBVIOUS
<1>1. TypeOK
  BY DEF Init, TypeOK
<1>2. \A u \in Users : /\ IsTail(history[u], granted[u], dropped[u])
                       /\ Expired(granted[u], dropped[u], now)
                       /\ PromiseOldest(u) /\ HeaderClose(u) /\ WithinLimit(u)
  BY LimitType DEF Init, IsTail, Expired, PromiseOldest, HeaderClose, WithinLimit
<1>3. RateRespected
  BY LimitType DEF Init, RateRespected
<1>. QED
  BY <1>1, <1>2, <1>3 DEF IInv

(* What popping does to the deque of u, when its limit is looked at. *)
LEMMA PopFacts ==
  ASSUME IInv, NEW u \in Users, NEW k \in Popped(history[u], now)
  PROVE  /\ now \in Nat /\ k \in Nat
         /\ history[u] \in Seq(Nat) /\ granted[u] \in Seq(Nat) /\ dropped[u] \in Nat
         /\ After(history[u], k) \in Seq(Nat)
         /\ IsTail(After(history[u], k), granted[u], dropped[u] + k)
         /\ Expired(granted[u], dropped[u] + k, now)
         /\ dropped[u] + k \in 0 .. Len(granted[u])
<1>1. /\ now \in Nat
      /\ history[u] \in Seq(Nat) /\ granted[u] \in Seq(Nat) /\ dropped[u] \in Nat
  BY DEF IInv, TypeOK
<1>2. IsTail(history[u], granted[u], dropped[u]) /\ Expired(granted[u], dropped[u], now)
  BY DEF IInv
<1>3. After(history[u], k) \in Seq(Nat) /\ k \in Nat
  BY <1>1, AfterFacts
<1>. QED
  BY <1>1, <1>2, <1>3, PopTail

(* An admission keeps the invariant. *)
LEMMA GrantIInv == ASSUME IInv, NEW u \in Users, Grant(u) PROVE IInv'
<1>1. PICK k \in Popped(history[u], now) :
        /\ Len(After(history[u], k)) < LimitFor(u)
        /\ history' = [history EXCEPT ![u] = Append(After(history[u], k), now)]
        /\ dropped' = [dropped EXCEPT ![u] = @ + k]
  BY DEF Grant
<1>2. /\ LimitFor(u) > 0 /\ LimitFor(u) \in Nat
      /\ granted' = [granted EXCEPT ![u] = Append(@, now)]
      /\ promise' = [promise EXCEPT ![u] = -1]
      /\ told' = [told EXCEPT ![u] = -1]
      /\ now' = now
  BY LimitType DEF Grant
<1>3. /\ now \in Nat /\ k \in Nat
      /\ history[u] \in Seq(Nat) /\ granted[u] \in Seq(Nat) /\ dropped[u] \in Nat
      /\ After(history[u], k) \in Seq(Nat)
      /\ IsTail(After(history[u], k), granted[u], dropped[u] + k)
      /\ Expired(granted[u], dropped[u] + k, now)
      /\ dropped[u] + k \in 0 .. Len(granted[u])
  BY PopFacts
<1>4. TypeOK /\ TypeOK'
  <2>1. TypeOK
    BY DEF IInv
  <2>2. Append(After(history[u], k), now) \in Seq(Nat)
    BY <1>3
  <2>3. history' \in [Users -> Seq(Nat)] /\ dropped' \in [Users -> Nat]
    BY <1>1, <1>3, <2>1, <2>2 DEF TypeOK
  <2>4. granted' \in [Users -> Seq(Nat)]
    BY <1>2, <1>3, <2>1 DEF TypeOK
  <2>5. promise' \in [Users -> Int] /\ told' \in [Users -> Int]
    BY <1>2, <2>1 DEF TypeOK
  <2>. QED
    BY <1>2, <2>1, <2>3, <2>4, <2>5 DEF TypeOK
<1>5. /\ history'[u] = Append(After(history[u], k), now)
      /\ granted'[u] = Append(granted[u], now)
      /\ dropped'[u] = dropped[u] + k
      /\ promise'[u] = -1
  BY <1>1, <1>2, <1>4 DEF TypeOK
<1>6. ASSUME NEW v \in Users, v # u
      PROVE  /\ history'[v] = history[v] /\ granted'[v] = granted[v]
             /\ dropped'[v] = dropped[v] /\ promise'[v] = promise[v]
             /\ told'[v] = told[v]
  BY <1>1, <1>2, <1>4, <1>6 DEF TypeOK
<1>7. \A v \in Users : IsTail(history[v], granted[v], dropped[v])'
  <2>1. IsTail(history'[u], granted'[u], dropped'[u])
    BY <1>3, <1>5, AppendTail
  <2>. QED
    BY <1>6, <2>1 DEF IInv, IsTail
<1>8. \A v \in Users : Expired(granted[v], dropped[v], now)'
  <2>1. Expired(granted'[u], dropped'[u], now')
    BY <1>2, <1>3, <1>5, AppendTail
  <2>. QED
    BY <1>2, <1>6, <2>1 DEF IInv, Expired
<1>9. \A v \in Users : PromiseOldest(v)' /\ HeaderClose(v)'
  BY <1>5, <1>6 DEF IInv, PromiseOldest, HeaderClose
<1>10. \A v \in Users : WithinLimit(v)'
  <2>1. Len(history'[u]) <= LimitFor(u)
    <3>1. Len(history'[u]) = Len(After(history[u], k)) + 1
      BY <1>3, <1>5, AppendProperties
    <3>. QED
      BY <1>1, <1>2, <1>3, <3>1
  <2>. QED
    BY <1>6, <2>1 DEF IInv, WithinLimit, LimitFor
<1>11. RateRespected'
  <2>1. ASSUME NEW v \in Users, LimitFor(v) > 0 PROVE Spaced(granted'[v], LimitFor(v))
    <3>1. Spaced(granted[v], LimitFor(v))
      BY <2>1 DEF IInv, RateRespected, Spaced
    <3>2. CASE v = u
      <4>1. Len(granted[u]) - (dropped[u] + k) < LimitFor(u)
        BY <1>1, <1>3 DEF IsTail
      <4>. QED
        BY <1>2, <1>3, <1>5, <3>1, <3>2, <4>1, AppendSpaced
    <3>. QED
      BY <1>6, <3>1, <3>2
  <2>. QED
    BY <2>1 DEF RateRespected, Spaced, LimitFor
<1>. QED
  BY <1>4, <1>7, <1>8, <1>9, <1>10, <1>11 DEF IInv

(* A denial keeps the invariant. *)
LEMMA DenyIInv == ASSUME IInv, NEW u \in Users, Deny(u) PROVE IInv'
<1>1. PICK k \in Popped(history[u], now) :
        /\ Len(After(history[u], k)) >= LimitFor(u)
        /\ history' = [history EXCEPT ![u] = After(history[u], k)]
        /\ dropped' = [dropped EXCEPT ![u] = @ + k]
        /\ promise' = [promise EXCEPT ![u] = now + RetryAfter(After(history[u], k), now)]
        /\ told' = [told EXCEPT ![u] =
                      now + Second * HeaderWait(RetryAfter(After(history[u], k), now))]
  BY DEF Deny
<1>2. LimitFor(u) > 0 /\ LimitFor(u) \in Nat /\ granted' = granted /\ now' = now
  BY LimitType DEF Deny
<1>3. /\ now \in Nat /\ k \in Nat
      /\ history[u] \in Seq(Nat) /\ granted[u] \in Seq(Nat) /\ dropped[u] \in Nat
      /\ After(history[u], k) \in Seq(Nat)
      /\ IsTail(After(history[u], k), granted[u], dropped[u] + k)
      /\ Expired(granted[u], dropped[u] + k, now)
  BY PopFacts
<1>. DEFINE wait == RetryAfter(After(history[u], k), now)
<1>4. wait = After(history[u], k)[1] + Window - now /\ wait \in Nat
  <2>1. k \in 0 .. Len(history[u]) /\ Len(After(history[u], k)) = Len(history[u]) - k
    BY <1>3, AfterFacts
  <2>2. Len(After(history[u], k)) > 0 /\ Len(history[u]) \in Nat
    BY <1>1, <1>2, <1>3
  <2>3. k < Len(history[u]) /\ 1 \in 1 .. Len(history[u]) - k /\ 1 \in 1 .. Len(After(history[u], k))
    BY <2>1, <2>2
  <2>4. After(history[u], k)[1] = history[u][k + 1] /\ history[u][k + 1] >= now - Window
    BY <1>3, <2>3, AfterFacts
  <2>5. After(history[u], k)[1] \in Nat
    BY <1>3, <2>3
  <2>. DEFINE oldest == After(history[u], k)[1]
  <2>6. oldest \in Nat /\ oldest >= now - Window
    BY <2>4, <2>5
  <2>. DEFINE rest == Window - (now - oldest)
  <2>7. RetryAfter(After(history[u], k), now) = IF rest < 0 THEN 0 ELSE rest
    BY DEF RetryAfter
  <2>. HIDE DEF oldest
  <2>8. rest \in Int /\ rest >= 0 /\ rest = oldest + Window - now
    BY <1>3, <2>6, WindowAssumption
  <2>. HIDE DEF rest
  <2>9. wait = oldest + Window - now /\ wait \in Nat
    BY <2>7, <2>8
  <2>. QED
    BY <2>9 DEF oldest
<1>5. Len(After(history[u], k)) > 0 /\ After(history[u], k)[1] \in Nat
  BY <1>1, <1>2, <1>3
<1>. HIDE DEF wait
<1>. DEFINE whole == Second * HeaderWait(wait)
<1>6. whole \in Nat /\ wait <= whole + HalfSecond
  BY <1>4, HeaderWaitFacts
<1>7. promise' = [promise EXCEPT ![u] = now + wait] /\ told' = [told EXCEPT ![u] = now + whole]
  BY <1>1 DEF wait
<1>. HIDE DEF whole
<1>8. TypeOK /\ TypeOK'
  <2>1. now + wait \in Int /\ now + whole \in Int
    BY <1>3, <1>4, <1>6
  <2>2. TypeOK
    BY DEF IInv
  <2>3. history' \in [Users -> Seq(Nat)] /\ dropped' \in [Users -> Nat]
    BY <1>1, <1>3, <2>2 DEF TypeOK
  <2>4. promise' \in [Users -> Int] /\ told' \in [Users -> Int]
    BY <1>7, <2>1, <2>2 DEF TypeOK
  <2>. QED
    BY <1>2, <2>2, <2>3, <2>4 DEF TypeOK
<1>9. /\ history'[u] = After(history[u], k)
      /\ dropped'[u] = dropped[u] + k
      /\ promise'[u] = After(history[u], k)[1] + Window
      /\ promise'[u] <= told'[u] + HalfSecond
  <2>1. /\ history'[u] = After(history[u], k) /\ dropped'[u] = dropped[u] + k
        /\ promise'[u] = now + wait /\ told'[u] = now + whole
    BY <1>1, <1>7, <1>8 DEF TypeOK
  <2>2. now + wait = After(history[u], k)[1] + Window
    BY <1>3, <1>4, <1>5, WindowAssumption
  <2>3. now + wait <= (now + whole) + HalfSecond
    BY <1>3, <1>4, <1>6, HalfSecondAssumption
  <2>. QED
    BY <2>1, <2>2, <2>3
<1>10. ASSUME NEW v \in Users, v # u
      PROVE  /\ history'[v] = history[v] /\ dropped'[v] = dropped[v]
             /\ promise'[v] = promise[v] /\ told'[v] = told[v]
  BY <1>1, <1>7, <1>8, <1>10 DEF TypeOK
<1>11. \A v \in Users : IsTail(history[v], granted[v], dropped[v])'
  <2>1. IsTail(history'[u], granted'[u], dropped'[u])
    BY <1>2, <1>3, <1>9
  <2>. QED
    BY <1>2, <1>10, <2>1 DEF IInv, IsTail
<1>12. \A v \in Users : Expired(granted[v], dropped[v], now)'
  BY <1>2, <1>3, <1>9, <1>10 DEF IInv, Expired
<1>13. \A v \in Users : PromiseOldest(v)'
  BY <1>5, <1>9, <1>10 DEF IInv, PromiseOldest
<1>14. \A v \in Users : HeaderClose(v)'
  BY <1>9, <1>10 DEF IInv, HeaderClose
<1>15. \A v \in Users : WithinLimit(v)'
  <2>1. Len(history'[u]) <= LimitFor(u)
    <3>1. Len(After(history[u], k)) <= Len(history[u])
      BY <1>3, AfterFacts
    <3>. QED
      BY <1>2, <1>3, <1>9, <3>1 DEF IInv, WithinLimit
  <2>. QED
    BY <1>10, <2>1 DEF IInv, WithinLimit, LimitFor
<1>16. RateRespected'
  BY <1>2 DEF IInv, RateRespected, LimitFor
<1>. QED
  BY <1>8, <1>11, <1>12, <1>13, <1>14, <1>15, <1>16 DEF IInv

(* Time passing keeps the invariant: what is expired stays expired. *)
LEMMA TickIInv == ASSUME IInv, Tick PROVE IInv'
<1>1. /\ now' = now + 1 /\ now \in Nat
      /\ history' = history /\ granted' = granted /\ dropped' = dropped
      /\ promise' = promise /\ told' = told
  BY DEF Tick, IInv, TypeOK
<1>2. TypeOK'
  BY <1>1 DEF IInv, TypeOK
<1>3. ASSUME NEW v \in Users PROVE Expired(granted[v], dropped[v], now + 1)
  <2>. SUFFICES ASSUME NEW i \in 1 .. dropped[v] PROVE granted[v][i] < (now + 1) - Window
    BY <1>1, WindowAssumption DEF Expired
  <2>1. granted[v][i] < now - Window
    <3>1. Expired(granted[v], dropped[v], now)
      BY DEF IInv
    <3>. QED
      BY <3>1 DEF Expired
  <2>2. granted[v][i] \in Nat
    <3>1. Len(history[v]) = Len(granted[v]) - dropped[v]
      BY DEF IInv, IsTail
    <3>2. history[v] \in Seq(Nat) /\ granted[v] \in Seq(Nat) /\ dropped[v] \in Nat
      BY DEF IInv, TypeOK
    <3>3. i \in 1 .. Len(granted[v])
      BY <3>1, <3>2
    <3>. QED
      BY <3>2, <3>3
  <2>. QED
    BY <1>1, <2>1, <2>2, WindowAssumption
<1>4. \A v \in Users : Expired(granted[v], dropped[v], now)'
  BY <1>1, <1>3
<1>. QED
  BY <1>1, <1>2, <1>4 DEF IInv, IsTail, PromiseOldest, HeaderClose, WithinLimit, RateRespected, LimitFor

(* Every step of the limiter keeps the invariant. *)
LEMMA NextIInv == IInv /\ [Next]_vars => IInv'
<1>. SUFFICES ASSUME IInv, [Next]_vars PROVE IInv'
  OBVIOUS
<1>1. CASE UNCHANGED vars
  BY <1>1 DEF vars, IInv, TypeOK, IsTail, Expired, PromiseOldest, HeaderClose, WithinLimit, RateRespected, LimitFor
<1>2. CASE Tick
  BY <1>2, TickIInv
<1>3. ASSUME NEW u \in Users, Unlimited(u) PROVE IInv'
  BY <1>1, <1>3 DEF Unlimited
<1>4. ASSUME NEW u \in Users, Grant(u) PROVE IInv'
  BY <1>4, GrantIInv
<1>5. ASSUME NEW u \in Users, Deny(u) PROVE IInv'
  BY <1>5, DenyIInv
<1>. QED
  BY <1>1, <1>2, <1>3, <1>4, <1>5 DEF Next

(* The inductive invariant of the limiter. *)
THEOREM LimiterInvariant == Spec => []IInv
  BY InitIInv, NextIInv, PTL DEF Spec

(* The state of the limiter has its shape. *)
THEOREM TypeCorrect == Spec => []TypeOK
<1>1. IInv => TypeOK
  BY DEF IInv
<1>. QED
  BY <1>1, LimiterInvariant, PTL

(* No requester is ever admitted more often than its limit allows within a *)
(* window, wherever the window is laid (SlidingWindowLimiter.check).       *)
THEOREM RateIsRespected == Spec => []RateRespected
<1>1. IInv => RateRespected
  BY DEF IInv
<1>. QED
  BY <1>1, LimiterInvariant, PTL

(* A denial within the time the last one promised: the deque it finds is   *)
(* the one it left, with its oldest entry still in the window.             *)
LEMMA DenialWithinPromise ==
  ASSUME IInv, NEW u \in Users, Deny(u), promise[u] >= 0
  PROVE  now <= promise[u]
<1>1. PICK k \in Popped(history[u], now) : Len(After(history[u], k)) >= LimitFor(u)
  BY DEF Deny
<1>2. /\ now \in Nat /\ history[u] \in Seq(Nat) /\ LimitFor(u) \in Nat /\ LimitFor(u) > 0
      /\ Len(history[u]) \in Nat
  BY LimitType DEF IInv, TypeOK, Deny
<1>3. /\ k \in 0 .. Len(history[u])
      /\ Len(After(history[u], k)) = Len(history[u]) - k
      /\ k < Len(history[u]) => history[u][k + 1] >= now - Window
  BY <1>2, AfterFacts
<1>4. Len(history[u]) <= LimitFor(u)
  BY <1>2 DEF IInv, WithinLimit
<1>5. k = 0 /\ Len(history[u]) > 0
  BY <1>1, <1>2, <1>3, <1>4
<1>6. history[u][1] >= now - Window /\ history[u][1] \in Nat
  BY <1>2, <1>3, <1>5
<1>7. promise[u] = history[u][1] + Window
  BY DEF IInv, PromiseOldest
<1>. QED
  BY <1>2, <1>6, <1>7, WindowAssumption

(* A requester that waits out the retry_after of its last denial is not    *)
(* denied again.                                                           *)
THEOREM RetryAfterIsHonoured == Spec => RetryAfterHonoured
<1>1. IInv => [\A u \in Users : Deny(u) /\ promise[u] >= 0 => now <= promise[u]]_vars
  BY DenialWithinPromise
<1>. QED
  BY <1>1, LimiterInvariant, PTL DEF RetryAfterHonoured

(* A client that reads only the Retry-After header of the 429, which is    *)
(* rounded to whole seconds, is not denied again if it comes back more     *)
(* than half a second later than the header says.                          *)
THEOREM HeaderIsHonoured == Spec => HeaderHonoured
<1>1. ASSUME IInv, NEW u \in Users, Deny(u), promise[u] >= 0
      PROVE  now <= told[u] + HalfSecond
  <2>1. now <= promise[u]
    BY <1>1, DenialWithinPromise
  <2>2. promise[u] <= told[u] + HalfSecond
    BY <1>1 DEF IInv, HeaderClose
  <2>3. now \in Nat /\ promise[u] \in Int /\ told[u] \in Int /\ HalfSecond \in Nat
    BY <1>1, HalfSecondAssumption DEF IInv, TypeOK
  <2>. QED
    BY <2>1, <2>2, <2>3
<1>2. IInv => [\A u \in Users : Deny(u) /\ promise[u] >= 0 => now <= told[u] + HalfSecond]_vars
  BY <1>1
<1>. QED
  BY <1>2, LimiterInvariant, PTL DEF HeaderHonoured
==============================================================================
