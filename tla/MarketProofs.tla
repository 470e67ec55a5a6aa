----------------------------- MODULE MarketProofs ----------------------------
(***************************************************************************)
(* Proofs about the market and the scheduler it consults: what the gates   *)
(* of Policy keep local, how the weights of Scheduler compare, and that    *)
(* every decision of every reachable market ranks by them.                 *)
(***************************************************************************)
EXTENDS Market, FiniteSetTheorems, TLAPS

------------------------------------------------------------------------------
(* Gates and weights, for every request, node and model.                   *)

(* An allowed pair has every gate open; the ones used below.               *)
LEMMA OpenGates ==
  ASSUME NEW request, NEW node, NEW model, Allowed(request, node, model)
  PROVE  /\ request.sensitivity \in LocalOnly => node.domain = "local"
         /\ request.task = "tool-use" => node.domain = "local"
         /\ request.task \in model.tasks \cup {"chat"}
<1>0. DOMAIN Gates(request, node, model) = 1 .. 15
  BY DEF Gates
<1>1. \A i \in 1 .. 15 : ~Gates(request, node, model)[i][2]
  BY <1>0, Zenon DEF Allowed, Closed
<1>2. ~Gates(request, node, model)[6][2]
  BY <1>1
<1>3. ~Gates(request, node, model)[8][2]
  BY <1>1
<1>4. ~Gates(request, node, model)[15][2]
  BY <1>1
<1>5. request.sensitivity \in LocalOnly => node.domain = "local"
  BY <1>2 DEF Gates
<1>6. request.task = "tool-use" => node.domain = "local"
  BY <1>3 DEF Gates
<1>7. request.task \in model.tasks \cup {"chat"}
  BY <1>4 DEF Gates
<1>. QED
  BY <1>5, <1>6, <1>7

(* Secrets, tool-local data and tool-use jobs are allowed on nodes of the  *)
(* local trust domain only, whatever lists and flags a node's policy has.  *)
THEOREM LocalOnlyIsLocal ==
  ASSUME NEW request, NEW node, NEW model, Allowed(request, node, model),
         request.sensitivity \in LocalOnly \/ request.task = "tool-use"
  PROVE  node.domain = "local"
<1>. QED
  BY OpenGates

(* What the weights of a score assume of the data they are computed from.  *)
Scorable(node, model, nudge) ==
  /\ node.queue \in Nat /\ node.jobs \in Nat
  /\ BestDecode(model.benchmark) \in Nat
  /\ BestTool(model.benchmark) \in Nat
  /\ model.benchmark.confidence \in 0 .. 40
  /\ nudge \in -80 .. 80

(* The number of required tags a model has itself.                         *)
LEMMA TagHits ==
  ASSUME NEW request, NEW model, IsFiniteSet(request.required)
  PROVE  /\ Cardinality(request.required) \in Nat
         /\ Cardinality(request.required \cap model.tags) \in 0 .. Cardinality(request.required)
<1>1. request.required \cap model.tags \subseteq request.required
  OBVIOUS
<1>2. /\ IsFiniteSet(request.required \cap model.tags)
      /\ Cardinality(request.required \cap model.tags) <= Cardinality(request.required)
  BY <1>1, FS_Subset
<1>. QED
  BY <1>2, FS_CardinalityType

(* Benchmarks add between nothing and 500 half points, 750 for tools.      *)
LEMMA ThroughputBound ==
  ASSUME NEW request, NEW node, NEW model, NEW nudge, Scorable(node, model, nudge)
  PROVE  /\ Throughput(request, model) \in 0 .. 750
         /\ request.task # "tool-use" => Throughput(request, model) <= 500
<1>1. ASSUME NEW tps \in Nat PROVE Capped(tps) \in 0 .. 250
  BY DEF Capped
<1>2. Capped(BestTool(model.benchmark)) \in 0 .. 250
  BY <1>1 DEF Scorable
<1>3. Capped(BestDecode(model.benchmark)) \in 0 .. 250
  BY <1>1 DEF Scorable
<1>. HIDE DEF Capped
<1>. QED
  BY <1>2, <1>3 DEF Throughput

(***************************************************************************)
(* The requested model outranks every other one, whatever both are         *)
(* otherwise worth, as long as the load of its node and the required tags  *)
(* stay below 295 points: no sum of the other bonuses beats the name.      *)
(***************************************************************************)
THEOREM RequestedModelOutranks ==
  ASSUME NEW request, IsFiniteSet(request.required),
         NEW n, NEW m, NEW b, NEW g, Scorable(n, m, g), Allowed(request, n, m),
         NEW n2, NEW m2, NEW b2, NEW g2, Scorable(n2, m2, g2),
         request.model = m.id, request.model # m2.id,
         Penalty(n) + 40 * Cardinality(request.required) < 590
  PROVE  Score(request, n2, m2, b2, g2) < Score(request, n, m, b, g)
<1>. DEFINE T == Cardinality(request.required)
            hits(x) == Cardinality(request.required \cap x.tags)
<1>1. T \in Nat /\ hits(m) \in 0 .. T /\ hits(m2) \in 0 .. T
  BY TagHits
<1>2. /\ Throughput(request, m) \in 0 .. 750
      /\ Throughput(request, m2) \in 0 .. 750
      /\ request.task # "tool-use" => Throughput(request, m2) <= 500
  BY ThroughputBound
<1>3. Penalty(n) \in Nat /\ Penalty(n2) \in Nat
  BY DEF Penalty, Scorable
<1>4. StatePoints(m.state) \in -100 .. 180 /\ StatePoints(m2.state) \in -100 .. 180
  BY DEF StatePoints
<1>. DEFINE task  == Points(request.task \in m.tasks, 240)
            task2 == Points(request.task \in m2.tasks, 240)
            home  == Points(n.id = LocalNodeId, 90)
            home2 == Points(n2.id = LocalNodeId, 90)
            str   == Points(b.streaming /\ request.stream, 30)
            str2  == Points(b2.streaming /\ request.stream, 30)
            tool  == Points(b.tools /\ request.task = "tool-use", 60)
            tool2 == Points(b2.tools /\ request.task = "tool-use", 60)
<1>5. /\ task \in {0, 240} /\ task2 \in {0, 240}
      /\ home \in {0, 90} /\ home2 \in {0, 90}
      /\ str \in {0, 30} /\ str2 \in {0, 30}
      /\ tool \in {0, 60} /\ tool2 \in {0, 60}
  BY DEF Points
<1>6. request.task # "tool-use" => tool2 = 0
  BY DEF Points
<1>7. request.task # "chat" => task = 240
  BY OpenGates DEF Points
<1>8. Points(request.model = m.id, 2000) = 2000 /\ Points(request.model = m2.id, 2000) = 0
  BY DEF Points
<1>9. /\ m.benchmark.confidence \in 0 .. 40 /\ m2.benchmark.confidence \in 0 .. 40
      /\ g \in -80 .. 80 /\ g2 \in -80 .. 80
  BY DEF Scorable
<1>10. Score(request, n, m, b, g) =
         2000 + task + 40 * hits(m) + StatePoints(m.state) + home - Penalty(n)
           + Throughput(request, m) + str + tool + m.benchmark.confidence + g
  BY <1>8 DEF Score
<1>11. Score(request, n2, m2, b2, g2) =
         0 + task2 + 40 * hits(m2) + StatePoints(m2.state) + home2 - Penalty(n2)
           + Throughput(request, m2) + str2 + tool2 + m2.benchmark.confidence + g2
  BY <1>8 DEF Score
<1>. HIDE DEF T, hits, task, task2, home, home2, str, str2, tool, tool2
<1>12. Penalty(n) + 40 * T < 590
  BY DEF T
<1>. DEFINE st == StatePoints(m.state)    st2 == StatePoints(m2.state)
            th == Throughput(request, m)  th2 == Throughput(request, m2)
            cf == m.benchmark.confidence  cf2 == m2.benchmark.confidence
            p == Penalty(n)               p2 == Penalty(n2)
<1>13. /\ p \in Int /\ hits(m) \in Int /\ st \in Int /\ home \in Int /\ th \in Int
       /\ str \in Int /\ tool \in Int /\ cf \in Int /\ g \in Int /\ task \in Int
       /\ hits(m) >= 0 /\ st >= -100 /\ home >= 0 /\ th >= 0
       /\ str >= 0 /\ tool >= 0 /\ cf >= 0 /\ g >= -80
  BY <1>1, <1>2, <1>3, <1>4, <1>5, <1>9
<1>14. /\ p2 \in Int /\ hits(m2) \in Int /\ st2 \in Int /\ home2 \in Int /\ th2 \in Int
       /\ str2 \in Int /\ tool2 \in Int /\ cf2 \in Int /\ g2 \in Int /\ task2 \in Int
       /\ hits(m2) <= T /\ st2 <= 180 /\ home2 <= 90 /\ T \in Int
       /\ str2 <= 30 /\ cf2 <= 40 /\ g2 <= 80 /\ task2 <= 240 /\ p2 >= 0
  BY <1>1, <1>2, <1>3, <1>4, <1>5, <1>9
<1>15. /\ 2000 + task + 40 * hits(m) + st + home - p + th + str + tool + cf + g \in Int
       /\ 2000 + task + 40 * hits(m) + st + home - p + th + str + tool + cf + g >= 1820 + task - p
  <2>. HIDE DEF st, th, cf, p
  <2>1. /\ 2000 + task + 40 * hits(m) + st + home \in Int
        /\ 2000 + task + 40 * hits(m) + st + home >= 1900 + task
    BY <1>13
  <2>2. /\ 2000 + task + 40 * hits(m) + st + home - p + th + str + tool \in Int
        /\ 2000 + task + 40 * hits(m) + st + home - p + th + str + tool >= 1900 + task - p
    BY <1>13, <2>1
  <2>. QED
    BY <1>13, <2>2
<1>16. /\ 0 + task2 + 40 * hits(m2) + st2 + home2 - p2 + th2 + str2 + tool2 + cf2 + g2 \in Int
       /\ 0 + task2 + 40 * hits(m2) + st2 + home2 - p2 + th2 + str2 + tool2 + cf2 + g2
            <= 660 + 40 * T + th2 + tool2
  <2>. HIDE DEF st2, th2, cf2, p2
  <2>1. /\ 0 + task2 + 40 * hits(m2) + st2 + home2 \in Int
        /\ 0 + task2 + 40 * hits(m2) + st2 + home2 <= 510 + 40 * T
    BY <1>14
  <2>2. /\ 0 + task2 + 40 * hits(m2) + st2 + home2 - p2 + th2 + str2 + tool2 \in Int
        /\ 0 + task2 + 40 * hits(m2) + st2 + home2 - p2 + th2 + str2 + tool2
             <= 540 + 40 * T + th2 + tool2
    BY <1>14, <2>1
  <2>. QED
    BY <1>14, <2>2
<1>17. /\ Score(request, n, m, b, g) \in Int
       /\ Score(request, n, m, b, g) >= 1820 + task - Penalty(n)
  BY <1>10, <1>15
<1>18. /\ Score(request, n2, m2, b2, g2) \in Int
       /\ Score(request, n2, m2, b2, g2) <= 660 + 40 * T + Throughput(request, m2) + tool2
  BY <1>11, <1>16
<1>19. 660 + Throughput(request, m2) + tool2 + 590 <= 1820 + task
  BY <1>2, <1>5, <1>7, <1>6
<1>. QED
  BY <1>1, <1>2, <1>3, <1>5, <1>12, <1>17, <1>18, <1>19

------------------------------------------------------------------------------
(* Finite orders.                                                          *)

(* R is a strict total order on S. *)
Orders(R, S) ==
  /\ \A x, y \in S : <<x, y>> \in R => <<y, x>> \notin R
  /\ \A x, y \in S : x = y \/ <<x, y>> \in R \/ <<y, x>> \in R
  /\ \A x, y, z \in S : <<x, y>> \in R /\ <<y, z>> \in R => <<x, z>> \in R

(* A finite set has a sequence of all its elements in a given order: the   *)
(* place of an element is the number of those below it.                    *)
LEMMA SortedSequence ==
  ASSUME NEW S, IsFiniteSet(S), NEW R, Orders(R, S)
  PROVE  \E s \in SetToSeqs(S) : \A j, k \in DOMAIN s : j < k => <<s[j], s[k]>> \in R
<1>. DEFINE n == Cardinality(S)
            below(x) == {y \in S : <<y, x>> \in R}
            rank == [x \in S |-> Cardinality(below(x)) + 1]
<1>0. /\ \A x, y \in S : <<x, y>> \in R => <<y, x>> \notin R
      /\ \A x, y \in S : x = y \/ <<x, y>> \in R \/ <<y, x>> \in R
      /\ \A x, y, z \in S : <<x, y>> \in R /\ <<y, z>> \in R => <<x, z>> \in R
  BY DEF Orders
<1>1. n \in Nat
  BY FS_CardinalityType
<1>2. \A x \in S : IsFiniteSet(below(x)) /\ Cardinality(below(x)) \in Nat
  <2>. TAKE x \in S
  <2>1. IsFiniteSet(below(x))
    BY FS_Subset
  <2>. QED
    BY <2>1, FS_CardinalityType
<1>3. ASSUME NEW x \in S, NEW y \in S, <<x, y>> \in R
      PROVE  Cardinality(below(x)) < Cardinality(below(y))
  <2>1. below(x) \subseteq below(y) /\ x \in below(y) /\ x \notin below(x)
    BY <1>0, <1>3
  <2>2. /\ Cardinality(below(x)) <= Cardinality(below(y))
        /\ Cardinality(below(y)) = Cardinality(below(x)) => below(y) = below(x)
    BY <1>2, <2>1, FS_Subset
  <2>3. below(y) # below(x)
    BY <2>1
  <2>4. Cardinality(below(x)) \in Nat /\ Cardinality(below(y)) \in Nat
    BY <1>2
  <2>. HIDE DEF below
  <2>. QED
    BY <2>2, <2>3, <2>4
<1>4. \A x \in S : Cardinality(below(x)) < n
  <2>. TAKE x \in S
  <2>1. below(x) \subseteq S /\ x \notin below(x)
    BY <1>0
  <2>2. Cardinality(below(x)) <= n /\ (n = Cardinality(below(x)) => S = below(x))
    BY <2>1, FS_Subset
  <2>. QED
    BY <1>1, <1>2, <2>1, <2>2
<1>5. rank \in [S -> 1 .. n]
  BY <1>1, <1>2, <1>4
<1>6. \A x, y \in S : <<x, y>> \in R => rank[x] < rank[y]
  <2>. SUFFICES ASSUME NEW x \in S, NEW y \in S, <<x, y>> \in R
                PROVE  rank[x] < rank[y]
    OBVIOUS
  <2>1. Cardinality(below(x)) < Cardinality(below(y))
    BY <1>3
  <2>. QED
    BY <1>2, <2>1
<1>7. \A x, y \in S : rank[x] = rank[y] => x = y
  <2>. SUFFICES ASSUME NEW x \in S, NEW y \in S, rank[x] = rank[y], x # y
                PROVE  FALSE
    OBVIOUS
  <2>1. <<x, y>> \in R \/ <<y, x>> \in R
    BY <1>0
  <2>2. rank[x] \in Int /\ rank[y] \in Int
    BY <1>1, <1>5
  <2>3. rank[x] < rank[y] \/ rank[y] < rank[x]
    BY <1>6, <2>1
  <2>. QED
    BY <2>2, <2>3
<1>. HIDE DEF rank
<1>8. rank \in Injection(S, 1 .. n)
  BY <1>5, <1>7 DEF Injection, IsInjective
<1>9. IsFiniteSet(1 .. n) /\ Cardinality(1 .. n) = n
  BY <1>1, FS_Interval
<1>10. rank \in Surjection(S, 1 .. n)
  BY <1>8, <1>9, FS_Injection
<1>11. \A k \in 1 .. n : \E x \in S : rank[x] = k
  BY <1>10 DEF Surjection
<1>. DEFINE s == [k \in 1 .. n |-> CHOOSE x \in S : rank[x] = k]
<1>12. s \in [1 .. n -> S] /\ \A k \in 1 .. n : rank[s[k]] = k
  BY <1>11
<1>. HIDE DEF s
<1>13. s \in SetToSeqs(S)
  BY <1>12 DEF SetToSeqs
<1>14. ASSUME NEW j \in 1 .. n, NEW k \in 1 .. n, j < k
       PROVE  <<s[j], s[k]>> \in R
  <2>1. s[j] \in S /\ s[k] \in S /\ rank[s[j]] = j /\ rank[s[k]] = k
    BY <1>12
  <2>2. s[j] # s[k] /\ ~ (<<s[k], s[j]>> \in R)
    BY <1>6, <1>14, <2>1, <1>1
  <2>. QED
    BY <1>0, <2>1, <2>2
<1>. QED
  BY <1>12, <1>13, <1>14

(* A sequence without repetition, as long as a set has elements, has all   *)
(* of them.                                                                *)
LEMMA EveryElement ==
  ASSUME NEW S, IsFiniteSet(S), NEW s \in [1 .. Cardinality(S) -> S],
         \A j, k \in 1 .. Cardinality(S) : j # k => s[j] # s[k]
  PROVE  \A x \in S : \E j \in 1 .. Cardinality(S) : s[j] = x
<1>1. Cardinality(S) \in Nat
  BY FS_CardinalityType
<1>2. IsFiniteSet(1 .. Cardinality(S)) /\ Cardinality(1 .. Cardinality(S)) = Cardinality(S)
  BY <1>1, FS_Interval
<1>3. s \in Injection(1 .. Cardinality(S), S)
  BY DEF Injection, IsInjective
<1>4. s \in Surjection(1 .. Cardinality(S), S)
  BY <1>2, <1>3, FS_Injection
<1>. QED
  BY <1>4 DEF Surjection

(* A finite set of numbers has a largest one.                              *)
LEMMA LargestNumber ==
  ASSUME NEW S \in SUBSET Nat, IsFiniteSet(S), S # {}
  PROVE  \E x \in S : \A y \in S : y <= x
<1>. DEFINE R == {p \in Nat \X Nat : p[1] < p[2]}
            n == Cardinality(S)
<1>0. \A x \in S : x \in Nat
  OBVIOUS
<1>1. \A x, y \in Nat : <<x, y>> \in R <=> x < y
  OBVIOUS
<1>. HIDE DEF R
<1>2. \A x, y \in S : <<x, y>> \in R => <<y, x>> \notin R
  BY <1>0, <1>1
<1>2a. \A x, y \in S : x = y \/ <<x, y>> \in R \/ <<y, x>> \in R
  <2>. TAKE x, y \in S
  <2>1. x \in Nat /\ y \in Nat
    BY <1>0
  <2>2. x = y \/ x < y \/ y < x
    BY <2>1
  <2>. QED
    BY <1>1, <2>1, <2>2
<1>2b. \A x, y, z \in S : <<x, y>> \in R /\ <<y, z>> \in R => <<x, z>> \in R
  BY <1>0, <1>1
<1>3. PICK s \in SetToSeqs(S) : \A j, k \in DOMAIN s : j < k => <<s[j], s[k]>> \in R
  <2>1. Orders(R, S)
    BY <1>2, <1>2a, <1>2b DEF Orders
  <2>. QED
    BY <2>1, SortedSequence
<1>4. n \in Nat \ {0}
  BY FS_CardinalityType, FS_EmptySet
<1>5. s \in [1 .. n -> S] /\ \A j, k \in 1 .. n : j # k => s[j] # s[k]
  BY <1>3 DEF SetToSeqs
<1>6. \A y \in S : \E j \in 1 .. n : s[j] = y
  BY <1>5, EveryElement
<1>. HIDE DEF n
<1>7. \A j \in 1 .. n : s[j] <= s[n]
  <2>. TAKE j \in 1 .. n
  <2>0. s[j] \in S /\ s[n] \in S
    BY <1>4, <1>5
  <2>1. s[j] \in Nat /\ s[n] \in Nat
    BY <1>0, <2>0
  <2>2. j = n \/ j < n
    BY <1>4
  <2>3. j < n => s[j] < s[n]
    <3>. HAVE j < n
    <3>1. DOMAIN s = 1 .. n /\ n \in 1 .. n
      BY <1>4, <1>5
    <3>2. <<s[j], s[n]>> \in R
      BY <1>3, <3>1
    <3>. QED
      BY <1>1, <2>1, <3>2
  <2>. QED
    BY <2>1, <2>2, <2>3
<1>8. s[n] \in S
  BY <1>4, <1>5
<1>. QED
  BY <1>6, <1>7, <1>8

------------------------------------------------------------------------------
(* What every reachable market is.                                         *)

(* The part of an inventory no action changes, and the counts one may.     *)
SameModels(i) ==
  /\ nodes[i].id = Inventories[i].id
  /\ DOMAIN nodes[i].models = DOMAIN Inventories[i].models
  /\ \A j \in DOMAIN Inventories[i].models :
       nodes[i].models[j].id = Inventories[i].models[j].id

(* The keys of the ratings. *)
Rated == {Key(Inventories, p) : p \in Pairs(Inventories)}

(* The registry has the shape it was configured with. *)
RegistryInv ==
  /\ now \in Nat
  /\ nodes \in [DOMAIN Inventories -> NodeInventories]
  /\ \A i \in DOMAIN Inventories : SameModels(i)
  /\ ratings \in [Rated -> -80 .. 80]

(* A decision is that of a payload or of a dry run. *)
DecisionInv ==
  Decided => \/ \E payload \in Payloads : result = Route(FromPayload(payload), payload)
             \/ \E ask \in Asks : result = Route(ask, None)

(* What a benchmark promises is a number, sampled or estimated.            *)
LEMMA BenchmarkNumbers ==
  ASSUME NEW b \in BenchmarkProfiles
  PROVE  BestDecode(b) \in Nat /\ BestTool(b) \in Nat
<1>1. ASSUME NEW samples \in Samples, NEW expected \in Nat
      PROVE  Observed(samples, expected) \in Nat
  <2>. DEFINE seen == {s \in samples : s > 0}
  <2>1. seen \in SUBSET Nat /\ IsFiniteSet(seen)
    <3>1. samples \in SUBSET Nat /\ IsFiniteSet(samples)
      BY DEF Samples
    <3>. QED
      BY <3>1, FS_Subset
  <2>2. CASE seen = {}
    BY <2>2 DEF Observed
  <2>3. CASE seen # {}
    <3>1. \E s \in seen : \A t \in seen : t <= s
      BY <2>1, <2>3, LargestNumber
    <3>2. (CHOOSE s \in seen : \A t \in seen : t <= s) \in seen
      BY <3>1
    <3>. QED
      BY <2>1, <2>3, <3>2 DEF Observed
  <2>. QED
    BY <2>2, <2>3
<1>2. /\ b.decodes \in Samples /\ b.tools \in Samples
      /\ b.expectedDecode \in Nat
      /\ FirstSet(b.expectedTool, b.expectedEndToEnd, b.expectedDecode) \in Nat
  BY DEF BenchmarkProfiles, FirstSet
<1>. QED
  BY <1>1, <1>2 DEF BestDecode, BestTool

(* The models of an inventory and its counts are well formed.              *)
LEMMA ModelPart ==
  ASSUME NEW node \in NodeInventories, NEW j \in DOMAIN node.models
  PROVE  /\ node.models[j] \in ModelCapabilities
         /\ node.queue \in Nat /\ node.jobs \in Nat
         /\ node.models[j].benchmark \in BenchmarkProfiles
<1>1. node.models \in Seq(ModelCapabilities) /\ node.queue \in Nat /\ node.jobs \in Nat
  BY DEF NodeInventories
<1>2. node.models[j] \in ModelCapabilities
  BY <1>1
<1>. QED
  BY <1>1, <1>2 DEF ModelCapabilities

(* A pair of the registry is a node and a position in its models, and its  *)
(* key is that of the configured pair.                                     *)
LEMMA PairsAre ==
  ASSUME RegistryInv, NEW p \in Pairs(nodes)
  PROVE  /\ p[1] \in DOMAIN Inventories /\ p[2] \in DOMAIN nodes[p[1]].models
         /\ p = <<p[1], p[2]>> /\ p[1] \in Nat /\ p[2] \in Nat
         /\ nodes[p[1]] \in NodeInventories
         /\ p \in Pairs(Inventories)
         /\ Key(nodes, p) = Key(Inventories, p)
<1>1. PICK i \in DOMAIN nodes : p \in {i} \X (DOMAIN nodes[i].models)
  BY DEF Pairs
<1>2. /\ DOMAIN nodes = DOMAIN Inventories /\ i \in DOMAIN Inventories
      /\ nodes[i] \in NodeInventories /\ SameModels(i)
  BY <1>1 DEF RegistryInv
<1>3. p[1] = i /\ p[2] \in DOMAIN nodes[i].models /\ p = <<p[1], p[2]>>
  BY <1>1
<1>4. nodes[i].models \in Seq(ModelCapabilities) /\ Inventories \in Seq(NodeInventories)
  BY <1>2, MarketAssumption DEF NodeInventories
<1>5. i \in Nat /\ p[2] \in Nat
  BY <1>2, <1>3, <1>4
<1>6. p \in Pairs(Inventories)
  BY <1>2, <1>3 DEF Pairs, SameModels
<1>7. Key(nodes, p) = Key(Inventories, p)
  BY <1>2, <1>3 DEF Key, SameModels
<1>. QED
  BY <1>2, <1>3, <1>5, <1>6, <1>7

(* Every pair of the registry has what the score is computed from.         *)
LEMMA PairScorable ==
  ASSUME RegistryInv, NEW p \in Pairs(nodes)
  PROVE  /\ Scorable(nodes[p[1]], nodes[p[1]].models[p[2]], ratings[Key(nodes, p)])
         /\ nodes[p[1]].models[p[2]] \in ModelCapabilities
<1>1. /\ p[2] \in DOMAIN nodes[p[1]].models /\ nodes[p[1]] \in NodeInventories
      /\ Key(nodes, p) \in Rated
  BY PairsAre DEF Rated
<1>2. ratings[Key(nodes, p)] \in -80 .. 80
  BY <1>1 DEF RegistryInv
<1>3. /\ nodes[p[1]].models[p[2]] \in ModelCapabilities
      /\ nodes[p[1]].queue \in Nat /\ nodes[p[1]].jobs \in Nat
      /\ nodes[p[1]].models[p[2]].benchmark \in BenchmarkProfiles
  BY <1>1, ModelPart
<1>4. nodes[p[1]].models[p[2]].benchmark.confidence \in 0 .. 40
  BY <1>3 DEF BenchmarkProfiles
<1>. QED
  BY <1>2, <1>3, <1>4, BenchmarkNumbers DEF Scorable

(* A score is a number.                                                    *)
LEMMA ScoreIsNumber ==
  ASSUME NEW request, IsFiniteSet(request.required), NEW node, NEW model, NEW backend,
         NEW nudge, Scorable(node, model, nudge)
  PROVE  Score(request, node, model, backend, nudge) \in Int
<1>1. \A c, n : n \in Int => Points(c, n) \in Int
  BY DEF Points
<1>2. Cardinality(request.required \cap model.tags) \in Int
  BY TagHits
<1>3. Throughput(request, model) \in Int
  BY ThroughputBound
<1>4. Penalty(node) \in Int /\ model.benchmark.confidence \in Int /\ nudge \in Int
  BY DEF Penalty, Scorable
<1>5. StatePoints(model.state) \in Int
  BY DEF StatePoints
<1>. DEFINE a == Points(request.model = model.id, 2000)
            b == Points(request.task \in model.tasks, 240)
            c == Cardinality(request.required \cap model.tags)
            d == StatePoints(model.state)
            e == Points(node.id = LocalNodeId, 90)
            f == Points(backend.streaming /\ request.stream, 30)
            g == Points(backend.tools /\ request.task = "tool-use", 60)
            t == Throughput(request, model)
            p == Penalty(node)
            q == model.benchmark.confidence
<1>6. /\ a \in Int /\ b \in Int /\ c \in Int /\ d \in Int /\ e \in Int /\ f \in Int
      /\ g \in Int /\ t \in Int /\ p \in Int /\ q \in Int /\ nudge \in Int
  BY <1>1, <1>2, <1>3, <1>4, <1>5
<1>7. Score(request, node, model, backend, nudge)
        = a + b + 40 * c + d + e - p + t + f + g + q + nudge
  BY DEF Score
<1>. HIDE DEF a, b, c, d, e, f, g, t, p, q
<1>8. a + b + 40 * c + d + e - p + t + f + g + q + nudge \in Int
  BY <1>6
<1>. QED
  BY <1>7, <1>8

(* The registry has finitely many pairs.                                   *)
LEMMA PairsFinite ==
  ASSUME RegistryInv
  PROVE  IsFiniteSet(Pairs(nodes))
<1>. DEFINE rows == {{i} \X (DOMAIN nodes[i].models) : i \in DOMAIN nodes}
            f == [i \in DOMAIN nodes |-> {i} \X (DOMAIN nodes[i].models)]
<1>1. IsFiniteSet(DOMAIN nodes)
  <2>1. Inventories \in Seq(NodeInventories)
    BY MarketAssumption
  <2>2. DOMAIN nodes = 1 .. Len(Inventories) /\ Len(Inventories) \in Nat
    BY <2>1 DEF RegistryInv
  <2>. QED
    BY <2>2, FS_Interval
<1>2. f \in Surjection(DOMAIN nodes, rows)
  BY DEF Surjection
<1>3. IsFiniteSet(rows)
  BY <1>1, <1>2, FS_Surjection
<1>4. ASSUME NEW T \in rows PROVE IsFiniteSet(T)
  <2>1. PICK i \in DOMAIN nodes : T = {i} \X (DOMAIN nodes[i].models)
    OBVIOUS
  <2>2. nodes[i] \in NodeInventories
    BY DEF RegistryInv
  <2>3. nodes[i].models \in Seq(ModelCapabilities)
    BY <2>2 DEF NodeInventories
  <2>4. DOMAIN nodes[i].models = 1 .. Len(nodes[i].models) /\ Len(nodes[i].models) \in Nat
    BY <2>3
  <2>5. IsFiniteSet(DOMAIN nodes[i].models)
    BY <2>4, FS_Interval
  <2>6. IsFiniteSet({i})
    BY FS_Singleton
  <2>. QED
    BY <2>1, <2>5, <2>6, FS_Product
<1>5. IsFiniteSet(UNION rows)
  BY <1>3, <1>4, FS_UNION
<1>. QED
  BY <1>5 DEF Pairs

------------------------------------------------------------------------------
(* Decisions.                                                              *)

(* The stable sort of route exists: score, then place in the registry, is  *)
(* a strict total order of the candidates.                                 *)
LEMMA SortedCandidates ==
  ASSUME RegistryInv, NEW request, IsFiniteSet(request.required)
  PROVE  LET allowed == Candidates(request)
             score == [p \in allowed |-> ScoreOf(request, nodes, p)]
             s == Sorted(allowed, score)
         IN  /\ s \in SetToSeqs(allowed)
             /\ \A j, k \in DOMAIN s : j < k => Before(score, s[j], s[k])
<1>. DEFINE allowed == Candidates(request)
            score == [p \in allowed |-> ScoreOf(request, nodes, p)]
            R == {pq \in allowed \X allowed : Before(score, pq[1], pq[2])}
<1>1. allowed \subseteq Pairs(nodes)
  BY DEF Candidates, Fresh
<1>2. IsFiniteSet(allowed)
  BY <1>1, PairsFinite, FS_Subset
<1>3. \A p \in allowed : score[p] \in Int
  <2>. TAKE p \in allowed
  <2>1. Scorable(nodes[p[1]], nodes[p[1]].models[p[2]], ratings[Key(nodes, p)])
    BY <1>1, PairScorable
  <2>. QED
    BY <2>1, ScoreIsNumber DEF ScoreOf
<1>4. \A p \in allowed : p[1] \in Nat /\ p[2] \in Nat /\ p = <<p[1], p[2]>>
  BY <1>1, PairsAre
<1>5. \A p, q \in allowed : <<p, q>> \in R <=> Before(score, p, q)
  OBVIOUS
<1>. HIDE DEF R, score, allowed
<1>6. \A p, q \in allowed : <<p, q>> \in R => <<q, p>> \notin R
  <2>. TAKE p, q \in allowed
  <2>1. Before(score, p, q) => ~ Before(score, q, p)
    BY <1>3, <1>4 DEF Before, Earlier
  <2>. QED
    BY <1>5, <2>1
<1>7. \A p, q \in allowed : p = q \/ <<p, q>> \in R \/ <<q, p>> \in R
  <2>. TAKE p, q \in allowed
  <2>1. score[p] \in Int /\ score[q] \in Int
    BY <1>3
  <2>2. score[p] > score[q] \/ score[q] > score[p] \/ score[p] = score[q]
    BY <2>1
  <2>3. /\ p[1] \in Nat /\ p[2] \in Nat /\ q[1] \in Nat /\ q[2] \in Nat
        /\ p = <<p[1], p[2]>> /\ q = <<q[1], q[2]>>
    BY <1>4
  <2>4. \/ p[1] < q[1] \/ q[1] < p[1]
        \/ p[1] = q[1] /\ (p[2] < q[2] \/ q[2] < p[2] \/ p[2] = q[2])
    BY <2>3
  <2>5. p = q \/ Earlier(p, q) \/ Earlier(q, p)
    BY <2>3, <2>4 DEF Earlier
  <2>6. p = q \/ Before(score, p, q) \/ Before(score, q, p)
    BY <2>2, <2>5 DEF Before
  <2>. QED
    BY <1>5, <2>6
<1>8. \A p, q, r \in allowed : <<p, q>> \in R /\ <<q, r>> \in R => <<p, r>> \in R
  <2>. TAKE p, q, r \in allowed
  <2>1. Before(score, p, q) /\ Before(score, q, r) => Before(score, p, r)
    BY <1>3, <1>4 DEF Before, Earlier
  <2>. QED
    BY <1>5, <2>1
<1>9. Orders(R, allowed)
  BY <1>6, <1>7, <1>8 DEF Orders
<1>10. PICK s \in SetToSeqs(allowed) : \A j, k \in DOMAIN s : j < k => <<s[j], s[k]>> \in R
  BY <1>2, <1>9, SortedSequence
<1>11. \A j \in DOMAIN s : s[j] \in allowed
  BY <1>10 DEF SetToSeqs
<1>12. \A j, k \in DOMAIN s : j < k => Before(score, s[j], s[k])
  BY <1>5, <1>10, <1>11
<1>13. /\ Sorted(allowed, score) \in SetToSeqs(allowed)
       /\ \A j, k \in DOMAIN Sorted(allowed, score) :
            j < k => Before(score, Sorted(allowed, score)[j], Sorted(allowed, score)[k])
  BY <1>12 DEF Sorted
<1>. QED
  BY <1>13 DEF allowed, score

(* The candidates of a decision are the allowed pairs of fresh nodes, and  *)
(* the first of them has the highest score.                                *)
LEMMA RankedCandidates ==
  ASSUME RegistryInv, NEW request, IsFiniteSet(request.required), NEW payload,
         result = Route(request, payload)
  PROVE  /\ result.request = request /\ result.payload = payload
         /\ Ranked = Candidates(request)
         /\ \A p \in Candidates(request) :
              /\ result.candidates[1] \in Candidates(request)
              /\ ScoreOf(request, nodes, result.candidates[1]) >= ScoreOf(request, nodes, p)
<1>. DEFINE allowed == Candidates(request)
            score == [p \in allowed |-> ScoreOf(request, nodes, p)]
            s == Sorted(allowed, score)
            n == Cardinality(allowed)
<1>1. /\ result.request = request /\ result.payload = payload
      /\ result.candidates = s
  BY DEF Route
<1>2. /\ s \in SetToSeqs(allowed)
      /\ \A j, k \in DOMAIN s : j < k => Before(score, s[j], s[k])
  BY SortedCandidates
<1>3. allowed \subseteq Pairs(nodes)
  BY DEF Candidates, Fresh
<1>4. IsFiniteSet(allowed) /\ n \in Nat
  BY <1>3, PairsFinite, FS_Subset, FS_CardinalityType
<1>5. s \in [1 .. n -> allowed] /\ \A j, k \in 1 .. n : j # k => s[j] # s[k]
  BY <1>2 DEF SetToSeqs
<1>6. \A p \in allowed : \E k \in 1 .. n : s[k] = p
  BY <1>4, <1>5, EveryElement
<1>7. \A p \in allowed : score[p] = ScoreOf(request, nodes, p) /\ score[p] \in Int
  <2>. TAKE p \in allowed
  <2>1. Scorable(nodes[p[1]], nodes[p[1]].models[p[2]], ratings[Key(nodes, p)])
    BY <1>3, PairScorable
  <2>. QED
    BY <2>1, ScoreIsNumber DEF ScoreOf
<1>. HIDE DEF s, allowed, score, n
<1>8. Ranked = allowed
  BY <1>1, <1>5, <1>6 DEF Ranked
<1>9. ASSUME NEW p \in allowed
      PROVE  s[1] \in allowed /\ score[s[1]] >= score[p]
  <2>1. PICK k \in 1 .. n : s[k] = p
    BY <1>6
  <2>2. 1 \in 1 .. n /\ s[1] \in allowed /\ DOMAIN s = 1 .. n
    BY <1>4, <1>5, <2>1
  <2>3. score[s[1]] \in Int /\ score[p] \in Int
    BY <1>7, <2>2
  <2>4. k = 1 \/ 1 < k
    BY <1>4
  <2>5. 1 < k => Before(score, s[1], p)
    BY <1>2, <2>1, <2>2
  <2>. QED
    BY <2>1, <2>2, <2>3, <2>4, <2>5 DEF Before
<1>10. \A p \in allowed :
         s[1] \in allowed /\ ScoreOf(request, nodes, s[1]) >= ScoreOf(request, nodes, p)
  BY <1>7, <1>9
<1>. QED
  BY <1>1, <1>8, <1>10 DEF allowed

(* A decision in the books is what route makes of its request now.         *)
LEMMA Decision ==
  ASSUME RegistryInv, DecisionInv, Decided
  PROVE  /\ IsFiniteSet(result.request.required)
         /\ result = Route(result.request, result.payload)
         /\ result.payload # None => result.request = FromPayload(result.payload)
<1>1. CASE \E payload \in Payloads : result = Route(FromPayload(payload), payload)
  <2>1. PICK payload \in Payloads : result = Route(FromPayload(payload), payload)
    BY <1>1
  <2>2. result.request = FromPayload(payload) /\ result.payload = payload
    BY <2>1 DEF Route
  <2>3. IsFiniteSet(FromPayload(payload).required)
    BY FS_EmptySet DEF FromPayload
  <2>. QED
    BY <2>1, <2>2, <2>3
<1>2. CASE \E ask \in Asks : result = Route(ask, None)
  <2>1. PICK ask \in Asks : result = Route(ask, None)
    BY <1>2
  <2>2. result.request = ask /\ result.payload = None
    BY <2>1 DEF Route
  <2>3. IsFiniteSet(ask.required)
    BY MarketAssumption
  <2>. QED
    BY <2>1, <2>2, <2>3
<1>. QED
  BY <1>1, <1>2 DEF DecisionInv

(* In every reachable market, what must stay local stays local.            *)
LEMMA LocalOnlyHolds ==
  ASSUME RegistryInv, DecisionInv
  PROVE  LocalOnlyStaysLocal
<1>. SUFFICES ASSUME Decided
              PROVE  LocalOnlyStaysLocal
  BY DEF LocalOnlyStaysLocal
<1>1. /\ IsFiniteSet(result.request.required)
      /\ result = Route(result.request, result.payload)
      /\ result.payload # None => result.request = FromPayload(result.payload)
  BY Decision
<1>2. Ranked = Candidates(result.request)
  BY <1>1, RankedCandidates
<1>3. \A p \in Ranked :
        result.request.sensitivity \in LocalOnly \/ result.request.task = "tool-use"
          => nodes[p[1]].domain = "local"
  <2>. TAKE p \in Ranked
  <2>1. Allowed(result.request, nodes[p[1]], nodes[p[1]].models[p[2]])
    BY <1>2 DEF Candidates, IsCandidate
  <2>. QED
    BY <2>1, LocalOnlyIsLocal
<1>4. ASSUME result.payload # None, result.payload.tools, result.payload.task = None
      PROVE  result.request.task = "tool-use"
  <2>1. result.request = FromPayload(result.payload)
    BY <1>1, <1>4
  <2>2. FromPayload(result.payload).task = TaskClass(result.payload)
    BY DEF FromPayload
  <2>3. TaskClass(result.payload) = "tool-use"
    BY <1>4 DEF TaskClass
  <2>. QED
    BY <2>1, <2>2, <2>3
<1>. QED
  BY <1>3, <1>4 DEF LocalOnlyStaysLocal

(* In every reachable market, the named model wins.                        *)
LEMMA RequestedWins ==
  ASSUME RegistryInv, DecisionInv
  PROVE  RequestedModelWins
<1>. SUFFICES ASSUME Decided, NEW p \in Ranked, IsRequested(p),
                     Penalty(nodes[p[1]]) + 40 * Cardinality(result.request.required) < 590,
                     ~ IsRequested(result.candidates[1])
              PROVE  FALSE
  BY DEF RequestedModelWins
<1>. DEFINE request == result.request
            first == result.candidates[1]
            node(q) == nodes[q[1]]
            model(q) == nodes[q[1]].models[q[2]]
<1>1. /\ IsFiniteSet(request.required) /\ result = Route(request, result.payload)
  BY Decision
<1>2. /\ p \in Candidates(request) /\ first \in Candidates(request)
      /\ ScoreOf(request, nodes, first) >= ScoreOf(request, nodes, p)
  BY <1>1, RankedCandidates
<1>3. ASSUME NEW q \in Candidates(request)
      PROVE  /\ Scorable(node(q), model(q), ratings[Key(nodes, q)])
             /\ Allowed(request, node(q), model(q))
             /\ ScoreOf(request, nodes, q) =
                  Score(request, node(q), model(q), BackendOf(node(q), model(q)),
                        ratings[Key(nodes, q)])
             /\ ScoreOf(request, nodes, q) \in Int
  <2>1. q \in Pairs(nodes) /\ Allowed(request, node(q), model(q))
    BY DEF Candidates, Fresh, IsCandidate
  <2>2. Scorable(node(q), model(q), ratings[Key(nodes, q)])
    BY <2>1, PairScorable
  <2>3. ScoreOf(request, nodes, q) =
          Score(request, node(q), model(q), BackendOf(node(q), model(q)), ratings[Key(nodes, q)])
    BY DEF ScoreOf
  <2>4. ScoreOf(request, nodes, q) \in Int
    BY <1>1, <2>2, <2>3, ScoreIsNumber
  <2>. QED
    BY <2>1, <2>2, <2>3, <2>4
<1>4. request.model = model(p).id /\ request.model # model(first).id
  BY DEF IsRequested
<1>5. Penalty(node(p)) + 40 * Cardinality(request.required) < 590
  OBVIOUS
<1>6. ScoreOf(request, nodes, first) < ScoreOf(request, nodes, p)
  <2>1. /\ Scorable(node(p), model(p), ratings[Key(nodes, p)])
        /\ Allowed(request, node(p), model(p))
        /\ Scorable(node(first), model(first), ratings[Key(nodes, first)])
    BY <1>2, <1>3
  <2>. HIDE DEF request, first, node, model
  <2>2. Score(request, node(first), model(first), BackendOf(node(first), model(first)),
              ratings[Key(nodes, first)])
          < Score(request, node(p), model(p), BackendOf(node(p), model(p)),
                  ratings[Key(nodes, p)])
    BY <1>1, <1>4, <1>5, <2>1, RequestedModelOutranks
  <2>. QED
    BY <1>2, <1>3, <2>2
<1>. QED
  BY <1>2, <1>3, <1>6

------------------------------------------------------------------------------
(* The invariant.                                                          *)

(* The inductive invariant. *)
MarketInv == RegistryInv /\ DecisionInv

(* The configured registry satisfies the invariant.                        *)
LEMMA MarketInit == Init => MarketInv
<1>. SUFFICES ASSUME Init PROVE MarketInv
  OBVIOUS
<1>1. nodes \in [DOMAIN Inventories -> NodeInventories]
  BY MarketAssumption DEF Init
<1>2. \A i \in DOMAIN Inventories : SameModels(i)
  BY DEF Init, SameModels
<1>3. ratings \in [Rated -> -80 .. 80]
  BY DEF Init, Rated
<1>4. DecisionInv
  BY DEF Init, DecisionInv, Decided
<1>. QED
  BY <1>1, <1>2, <1>3, <1>4 DEF Init, MarketInv, RegistryInv

(* Whatever the backends list, a probe moves states and nothing else.      *)
LEMMA ProbedNode ==
  ASSUME NEW node \in NodeInventories, NEW listing
  PROVE  /\ RefreshModelStates(node, listing) \in NodeInventories
         /\ \A f \in DOMAIN node \ {"models"} : RefreshModelStates(node, listing)[f] = node[f]
         /\ DOMAIN RefreshModelStates(node, listing).models = DOMAIN node.models
         /\ \A j \in DOMAIN node.models :
              LET old == node.models[j]
                  new == RefreshModelStates(node, listing).models[j]
              IN  /\ \/ new = old
                     \/ \E listed \in BOOLEAN :
                          new = [old EXCEPT !.state = Refreshed(old.state, listed)]
                  /\ new \in ModelCapabilities
<1>. DEFINE probed(j) ==
              LET model == node.models[j] IN
              IF Backends(node, model) = {} \/ listing[model.backend] = None THEN model
              ELSE [model EXCEPT
                     !.state = Refreshed(model.state, model.id \in listing[model.backend])]
            models == [j \in DOMAIN node.models |-> probed(j)]
<1>1. node.models \in Seq(ModelCapabilities)
  BY DEF NodeInventories
<1>2. RefreshModelStates(node, listing) = [node EXCEPT !.models = models]
  BY DEF RefreshModelStates
<1>3. ASSUME NEW j \in DOMAIN node.models
      PROVE  /\ probed(j) \in ModelCapabilities
             /\ \/ probed(j) = node.models[j]
                \/ \E listed \in BOOLEAN :
                     probed(j) = [node.models[j] EXCEPT
                                   !.state = Refreshed(node.models[j].state, listed)]
  <2>. DEFINE model == node.models[j]
  <2>1. model \in ModelCapabilities
    BY <1>1
  <2>2. ASSUME NEW listed \in BOOLEAN
        PROVE  [model EXCEPT !.state = Refreshed(model.state, listed)] \in ModelCapabilities
    <3>1. model.state \in ModelStates
      BY <2>1 DEF ModelCapabilities
    <3>2. Refreshed(model.state, listed) \in ModelStates
      BY <3>1 DEF Refreshed, ModelStates
    <3>. QED
      BY <2>1, <3>2 DEF ModelCapabilities
  <2>3. CASE Backends(node, model) = {} \/ listing[model.backend] = None
    <3>1. probed(j) = model
      BY <2>3
    <3>. QED
      BY <2>1, <3>1
  <2>4. CASE ~ (Backends(node, model) = {} \/ listing[model.backend] = None)
    <3>. DEFINE listed == model.id \in listing[model.backend]
    <3>1. listed \in BOOLEAN
      OBVIOUS
    <3>2. probed(j) = [model EXCEPT !.state = Refreshed(model.state, listed)]
      BY <2>4
    <3>. HIDE DEF listed, probed, model
    <3>3. probed(j) \in ModelCapabilities
      BY <2>2, <3>1, <3>2
    <3>. QED
      BY <3>1, <3>2, <3>3 DEF model
  <2>. QED
    BY <2>3, <2>4
<1>. HIDE DEF probed
<1>4. models \in Seq(ModelCapabilities) /\ DOMAIN models = DOMAIN node.models
      /\ \A j \in DOMAIN node.models : models[j] = probed(j)
  <2>1. DOMAIN node.models = 1 .. Len(node.models) /\ Len(node.models) \in Nat
    BY <1>1
  <2>. QED
    BY <1>3, <2>1
<1>. HIDE DEF models
<1>5. /\ [node EXCEPT !.models = models] \in NodeInventories
      /\ [node EXCEPT !.models = models].models = models
      /\ \A f \in DOMAIN node \ {"models"} : [node EXCEPT !.models = models][f] = node[f]
  BY <1>4 DEF NodeInventories
<1>. QED
  BY <1>2, <1>3, <1>4, <1>5

(* Every step of the gateway keeps the invariant.                          *)
LEMMA MarketStep == MarketInv /\ [Next]_vars => MarketInv'
<1>. SUFFICES ASSUME MarketInv, [Next]_vars
              PROVE  MarketInv'
  OBVIOUS
<1>. USE DEF MarketInv
<1>0. Inventories \in Seq(NodeInventories) /\ DOMAIN nodes = DOMAIN Inventories
  BY MarketAssumption DEF RegistryInv
<1>1. ASSUME UNCHANGED <<now, nodes, ratings>>
      PROVE  RegistryInv'
  BY <1>1 DEF RegistryInv, SameModels
<1>2. ASSUME result' = None
      PROVE  DecisionInv'
  BY <1>2 DEF DecisionInv, Decided
<1>3. ASSUME NEW payload \in Payloads, Chat(payload)
      PROVE  MarketInv'
  <2>1. RegistryInv'
    BY <1>1, <1>3 DEF Chat
  <2>2. result' = Route(FromPayload(payload), payload)'
    BY <1>3 DEF Chat, Route, Candidates, Fresh, Stale, IsCandidate, ScoreOf, Rejection
  <2>. QED
    BY <2>1, <2>2 DEF DecisionInv
<1>4. ASSUME NEW ask \in Asks, DryRoute(ask)
      PROVE  MarketInv'
  <2>1. RegistryInv'
    BY <1>1, <1>4 DEF DryRoute
  <2>2. result' = Route(ask, None)'
    BY <1>4 DEF DryRoute, Route, Candidates, Fresh, Stale, IsCandidate, ScoreOf, Rejection
  <2>. QED
    BY <2>1, <2>2 DEF DecisionInv
<1>5. ASSUME NEW i \in DOMAIN nodes, NEW node \in NodeInventories,
             nodes' = [nodes EXCEPT ![i] = node], UNCHANGED <<now, ratings>>,
             node.id = nodes[i].id, DOMAIN node.models = DOMAIN nodes[i].models,
             \A j \in DOMAIN node.models : node.models[j].id = nodes[i].models[j].id
      PROVE  RegistryInv'
  <2>1. nodes' \in [DOMAIN Inventories -> NodeInventories]
    BY <1>0, <1>5 DEF RegistryInv
  <2>2. \A k \in DOMAIN Inventories : SameModels(k)'
    <3>. TAKE k \in DOMAIN Inventories
    <3>1. CASE k = i
      BY <1>0, <1>5, <3>1 DEF RegistryInv, SameModels
    <3>2. CASE k # i
      BY <1>0, <1>5, <3>2 DEF RegistryInv, SameModels
    <3>. QED
      BY <3>1, <3>2
  <2>. QED
    BY <1>5, <2>1, <2>2 DEF RegistryInv
<1>6. ASSUME NEW i \in DOMAIN nodes, NEW listing \in Listings(nodes[i]), Probe(i, listing)
      PROVE  MarketInv'
  <2>. DEFINE node == RefreshModelStates(nodes[i], listing)
  <2>1. nodes[i] \in NodeInventories
    BY DEF RegistryInv
  <2>2. /\ node \in NodeInventories
        /\ \A f \in DOMAIN nodes[i] \ {"models"} : node[f] = nodes[i][f]
        /\ DOMAIN node.models = DOMAIN nodes[i].models
    BY <2>1, ProbedNode
  <2>3. \A j \in DOMAIN node.models : node.models[j].id = nodes[i].models[j].id
    <3>. TAKE j \in DOMAIN node.models
    <3>1. \/ node.models[j] = nodes[i].models[j]
          \/ \E listed \in BOOLEAN :
               node.models[j] =
                 [nodes[i].models[j] EXCEPT !.state = Refreshed(nodes[i].models[j].state, listed)]
      BY <2>1, <2>2, ProbedNode
    <3>2. nodes[i].models[j] \in ModelCapabilities
      BY <2>1, <2>2, ModelPart
    <3>. QED
      BY <3>1, <3>2 DEF ModelCapabilities
  <2>4. node.id = nodes[i].id
    BY <2>1, <2>2 DEF NodeInventories
  <2>5. nodes' = [nodes EXCEPT ![i] = node] /\ UNCHANGED <<now, ratings>> /\ result' = None
    BY <1>6 DEF Probe
  <2>. HIDE DEF node
  <2>. QED
    BY <1>2, <1>5, <2>2, <2>3, <2>4, <2>5
<1>7. ASSUME NEW i \in DOMAIN nodes, NEW beat \in Beats, Heartbeat(i, beat)
      PROVE  MarketInv'
  <2>. DEFINE node == [nodes[i] EXCEPT !.status = beat.status, !.jobs = beat.jobs,
                                       !.queue = beat.queue, !.seen = now]
  <2>1. nodes[i] \in NodeInventories
    BY DEF RegistryInv
  <2>2. beat.status \in STRING /\ beat.jobs \in Nat /\ beat.queue \in Nat
    BY MarketAssumption
  <2>3. now \in Nat
    BY DEF RegistryInv
  <2>4. /\ node \in NodeInventories /\ node.id = nodes[i].id /\ node.models = nodes[i].models
    BY <2>1, <2>2, <2>3 DEF NodeInventories
  <2>5. nodes' = [nodes EXCEPT ![i] = node] /\ UNCHANGED <<now, ratings>> /\ result' = None
    BY <1>7 DEF Heartbeat
  <2>. HIDE DEF node
  <2>. QED
    BY <1>2, <1>5, <2>4, <2>5
<1>8. ASSUME NEW key \in DOMAIN ratings, NEW nudge \in Nudges, Feedback(key, nudge)
      PROVE  MarketInv'
  <2>1. nudge \in -80 .. 80
    BY MarketAssumption
  <2>2. ratings' \in [Rated -> -80 .. 80] /\ nodes' = nodes /\ now' = now
    BY <1>8, <2>1 DEF Feedback, RegistryInv
  <2>3. RegistryInv'
    BY <2>2 DEF RegistryInv, SameModels
  <2>. QED
    BY <1>2, <1>8, <2>3 DEF Feedback
<1>9. CASE Tick
  <2>1. RegistryInv'
    BY <1>9 DEF Tick, RegistryInv, SameModels
  <2>. QED
    BY <1>2, <1>9, <2>1 DEF Tick
<1>10. CASE UNCHANGED vars
  <2>1. RegistryInv'
    BY <1>1, <1>10 DEF vars
  <2>2. \A request, payload : Route(request, payload)' = Route(request, payload)
    BY <1>10 DEF vars, Route, Candidates, Fresh, Stale, IsCandidate, ScoreOf, Rejection
  <2>3. result' = result
    BY <1>10 DEF vars
  <2>4. DecisionInv'
    BY <2>2, <2>3 DEF DecisionInv, Decided
  <2>. QED
    BY <2>1, <2>4
<1>. QED
  BY <1>3, <1>4, <1>6, <1>7, <1>8, <1>9, <1>10 DEF Next

------------------------------------------------------------------------------
(* The theorems.                                                           *)

(* The registry keeps its shape, and a decision is the one that the        *)
(* registry as it stands gives its request: whatever moves the registry    *)
(* withdraws the decision.                                                 *)
THEOREM MarketInvariant == Spec => []MarketInv
<1>. QED
  BY MarketInit, MarketStep, PTL DEF Spec

(* Secrets, tool-local data and tool-use jobs, those of payloads with      *)
(* tools and no task class included, have local candidates only.           *)
THEOREM LocalOnlyNeverLeaves == Spec => []LocalOnlyStaysLocal
<1>1. MarketInv => LocalOnlyStaysLocal
  BY LocalOnlyHolds DEF MarketInv
<1>. QED
  BY <1>1, MarketInvariant, PTL

(* The model a client names is the first candidate whenever it is one and  *)
(* load and required tags weigh less than 295 points: benchmarks, ratings, *)
(* states and the local bonus together never outweigh the name.            *)
THEOREM NamedModelWins == Spec => []RequestedModelWins
<1>1. MarketInv => RequestedModelWins
  BY RequestedWins DEF MarketInv
<1>. QED
  BY <1>1, MarketInvariant, PTL

(* A model that gets warm scores no lower, all else equal.                 *)
LEMMA RisingState ==
  ASSUME NEW request, IsFiniteSet(request.required), NEW nudge,
         NEW old, NEW new, NEW m \in ModelCapabilities, NEW m2 \in ModelCapabilities,
         NEW backend, Scorable(old, m, nudge),
         new.id = old.id, new.queue = old.queue, new.jobs = old.jobs,
         m2 = [m EXCEPT !.state = "warm"], m.state \in {"cold", "absent", "loading"}
  PROVE  Score(request, new, m2, backend, nudge) >= Score(request, old, m, backend, nudge)
<1>1. /\ m2.id = m.id /\ m2.tasks = m.tasks /\ m2.tags = m.tags /\ m2.benchmark = m.benchmark
      /\ m2.state = "warm"
  BY DEF ModelCapabilities
<1>2. StatePoints(m2.state) = 150 /\ StatePoints(m.state) \in Int /\ StatePoints(m.state) <= 0
  BY <1>1 DEF StatePoints
<1>3. Penalty(new) = Penalty(old) /\ Throughput(request, m2) = Throughput(request, m)
  BY <1>1 DEF Penalty, Throughput
<1>. DEFINE a == Points(request.model = m.id, 2000)
            b == Points(request.task \in m.tasks, 240)
            c == Cardinality(request.required \cap m.tags)
            e == Points(old.id = LocalNodeId, 90)
            f == Points(backend.streaming /\ request.stream, 30)
            g == Points(backend.tools /\ request.task = "tool-use", 60)
            t == Throughput(request, m)
            p == Penalty(old)
            q == m.benchmark.confidence
<1>4. \A cond, n : n \in Int => Points(cond, n) \in Int
  BY DEF Points
<1>5. /\ a \in Int /\ b \in Int /\ c \in Int /\ e \in Int /\ f \in Int
      /\ g \in Int /\ t \in Int /\ p \in Int /\ q \in Int /\ nudge \in Int
  <2>1. a \in Int /\ b \in Int /\ e \in Int /\ f \in Int /\ g \in Int
    BY <1>4
  <2>2. c \in Int
    BY TagHits
  <2>3. t \in Int
    BY ThroughputBound
  <2>4. p \in Int /\ q \in Int /\ nudge \in Int
    BY DEF Scorable, Penalty
  <2>. HIDE DEF a, b, c, e, f, g, t, p, q
  <2>. QED
    BY <2>1, <2>2, <2>3, <2>4
<1>6. Score(request, old, m, backend, nudge)
        = a + b + 40 * c + StatePoints(m.state) + e - p + t + f + g + q + nudge
  BY DEF Score
<1>7. Score(request, new, m2, backend, nudge)
        = a + b + 40 * c + StatePoints(m2.state) + e - p + t + f + g + q + nudge
  BY <1>1, <1>3 DEF Score
<1>. HIDE DEF a, b, c, e, f, g, t, p, q
<1>. DEFINE before == StatePoints(m.state)
            after == StatePoints(m2.state)
<1>8. before \in Int /\ after \in Int /\ before <= after
  BY <1>2
<1>. HIDE DEF before, after
<1>9. a + b + 40 * c + after + e - p + t + f + g + q + nudge
        >= a + b + 40 * c + before + e - p + t + f + g + q + nudge
  BY <1>5, <1>8
<1>. QED
  BY <1>6, <1>7, <1>9 DEF before, after

(* No probe that finds a model listed lowers its score for any request.    *)
THEOREM ProbesRaiseListedModels == Spec => ListedModelsRise
<1>. DEFINE Rise == \A p \in Pairs(nodes), ask \in Asks :
              Moved(p) /\ StateOf(nodes', p) # "absent"
                => ScoreOf(ask, nodes', p) >= ScoreOf(ask, nodes, p)
<1>1. ASSUME MarketInv, [Next]_vars, NEW p \in Pairs(nodes), NEW ask \in Asks,
             Moved(p), StateOf(nodes', p) # "absent"
      PROVE  ScoreOf(ask, nodes', p) >= ScoreOf(ask, nodes, p)
  <2>. DEFINE node == nodes[p[1]]
              model == node.models[p[2]]
              after == nodes'[p[1]]
  <2>0. RegistryInv
    BY <1>1 DEF MarketInv
  <2>1. /\ p[1] \in DOMAIN Inventories /\ p[2] \in DOMAIN node.models
        /\ node \in NodeInventories /\ DOMAIN nodes = DOMAIN Inventories
    BY <2>0, PairsAre DEF RegistryInv
  <2>2. PICK listing : Probe(p[1], listing)
    <3>1. CASE UNCHANGED nodes
      BY <1>1, <3>1 DEF Moved, StateOf
    <3>2. ASSUME NEW i \in DOMAIN nodes, NEW beat \in Beats, Heartbeat(i, beat)
          PROVE  FALSE
      <4>1. nodes'[p[1]].models = nodes[p[1]].models
        <5>1. CASE p[1] = i
          BY <2>1, <3>2, <5>1 DEF Heartbeat, NodeInventories
        <5>2. CASE p[1] # i
          BY <2>1, <3>2, <5>2 DEF Heartbeat
        <5>. QED
          BY <5>1, <5>2
      <4>. QED
        BY <1>1, <4>1 DEF Moved, StateOf
    <3>3. ASSUME NEW i \in DOMAIN nodes, NEW listing \in Listings(nodes[i]), Probe(i, listing)
          PROVE  i = p[1]
      <4>. SUFFICES ASSUME i # p[1] PROVE FALSE
        OBVIOUS
      <4>1. nodes'[p[1]] = nodes[p[1]]
        BY <2>1, <3>3 DEF Probe
      <4>. QED
        BY <1>1, <4>1 DEF Moved, StateOf
    <3>. QED
      BY <1>1, <3>1, <3>2, <3>3 DEF Next, Chat, DryRoute, Feedback, Tick, vars
  <2>3. after = RefreshModelStates(node, listing)
    BY <2>1, <2>2 DEF Probe
  <2>4. /\ after \in NodeInventories
        /\ \A f \in DOMAIN node \ {"models"} : after[f] = node[f]
        /\ DOMAIN after.models = DOMAIN node.models
        /\ after.models[p[2]] \in ModelCapabilities
        /\ \/ after.models[p[2]] = model
           \/ \E listed \in BOOLEAN :
                after.models[p[2]] = [model EXCEPT !.state = Refreshed(model.state, listed)]
    BY <2>1, <2>3, ProbedNode
  <2>5. after.id = node.id /\ after.queue = node.queue /\ after.jobs = node.jobs
        /\ after.backends = node.backends
    BY <2>1, <2>4 DEF NodeInventories
  <2>6. model \in ModelCapabilities
        /\ Scorable(node, model, ratings[Key(nodes, p)])
    BY <2>0, PairScorable
  <2>7. after.models[p[2]].state # model.state /\ after.models[p[2]].state # "absent"
    BY <1>1 DEF Moved, StateOf
  <2>8. PICK listed \in BOOLEAN :
          after.models[p[2]] = [model EXCEPT !.state = Refreshed(model.state, listed)]
    BY <2>4, <2>7
  <2>9. after.models[p[2]].state = Refreshed(model.state, listed)
    BY <2>6, <2>8 DEF ModelCapabilities
  <2>10. model.state \in {"cold", "absent", "loading"} /\ Refreshed(model.state, listed) = "warm"
    BY <2>7, <2>9 DEF Refreshed
  <2>11. /\ BackendOf(after, after.models[p[2]]) = BackendOf(node, model)
         /\ Key(nodes', p) = Key(nodes, p)
    <3>1. after.models[p[2]].backend = model.backend /\ after.models[p[2]].id = model.id
      BY <2>6, <2>8 DEF ModelCapabilities
    <3>. QED
      BY <2>5, <3>1 DEF BackendOf, Backends, Key
  <2>12. IsFiniteSet(ask.required)
    BY MarketAssumption
  <2>13. after.models[p[2]] = [model EXCEPT !.state = "warm"]
    BY <2>8, <2>10
  <2>. HIDE DEF node, model, after
  <2>14. Score(ask, after, after.models[p[2]], BackendOf(node, model), ratings[Key(nodes, p)])
           >= Score(ask, node, model, BackendOf(node, model), ratings[Key(nodes, p)])
    BY <2>4, <2>5, <2>6, <2>10, <2>12, <2>13, RisingState
  <2>. QED
    BY <2>11, <2>14 DEF ScoreOf, node, model, after
<1>2. MarketInv /\ [Next]_vars => [Rise]_vars
  BY <1>1
<1>. QED
  BY <1>2, MarketInvariant, PTL DEF Spec, ListedModelsRise
==============================================================================
