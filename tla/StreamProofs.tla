------------------------------ MODULE StreamProofs ------------------------------
(***************************************************************************)
(* Proofs about Stream: for every stream of bytes, and wherever the        *)
(* network cuts it into chunks, the counter holds what a parser of the     *)
(* whole stream would count, and only what was delivered is billed.        *)
(*                                                                         *)
(* The loop of feed is a recursive function on buffers of any length.      *)
(* That it is defined, and what it returns, is by induction on the length  *)
(* of the buffer, stated with sets of naturals and their least elements.   *)
(***************************************************************************)
EXTENDS Stream, Integers, SequenceTheorems, FiniteSetTheorems, WellFoundedInduction, TLAPS

(***************************************************************************)
(* Induction over the naturals, in the form of sets.                       *)
(***************************************************************************)
Lower == {ss \in Nat \X Nat : ss[1] < ss[2]}

LEMMA LowerWellFounded == IsWellFoundedOn(Lower, Nat)
<1>. QED
  BY NatLessThanWellFounded DEF OpToRel, Lower

(* A set of naturals that is not empty has a least element.                *)
LEMMA LeastElement ==
  ASSUME NEW T \in SUBSET Nat, T # {}
  PROVE  \E x \in T : \A y \in T : x <= y
<1>1. PICK x \in T : \A y \in T : ~ (<<y, x>> \in Lower)
  BY WFMin, LowerWellFounded
<1>2. \A y \in T : ~ (y < x)
  BY <1>1 DEF Lower
<1>. QED
  BY <1>2
------------------------------------------------------------------------------
(* Where the first event of a buffer ends.                                 *)
LEMMA FirstEvent ==
  ASSUME NEW b \in Seq(Bytes), BlankLines(b) # {}
  PROVE  /\ End(b) \in 1 .. Len(b) - 1 /\ End(b) \in BlankLines(b)
         /\ b[End(b)] = "n" /\ b[End(b) + 1] = "n"
         /\ \A j \in BlankLines(b) : End(b) <= j
         /\ Event(b) \in Seq(Bytes) /\ Len(Event(b)) = End(b) - 1
         /\ \A i \in 1 .. End(b) - 1 : Event(b)[i] = b[i]
         /\ Rest(b) \in Seq(Bytes) /\ Len(Rest(b)) = Len(b) - End(b) - 1
         /\ \A i \in 1 .. Len(b) - End(b) - 1 : Rest(b)[i] = b[End(b) + 1 + i]
<1>1. Len(b) \in Nat /\ \A i \in 1 .. Len(b) : b[i] \in Bytes
  BY LenProperties, ElementOfSeq
<1>2. BlankLines(b) \in SUBSET Nat
  BY DEF BlankLines
<1>3. \E i \in BlankLines(b) : \A j \in BlankLines(b) : i <= j
  BY <1>2, LeastElement
<1>4. End(b) \in BlankLines(b) /\ \A j \in BlankLines(b) : End(b) <= j
  BY <1>3 DEF End
<1>5. End(b) \in 1 .. Len(b) - 1 /\ b[End(b)] = "n" /\ b[End(b) + 1] = "n"
  BY <1>4 DEF BlankLines
<1>. DEFINE e == End(b)
<1>6. e \in 1 .. Len(b) - 1
  BY <1>5
<1>. HIDE DEF e
<1>7. /\ SubSeq(b, 1, e - 1) \in Seq(Bytes) /\ Len(SubSeq(b, 1, e - 1)) = e - 1
      /\ \A i \in 1 .. e - 1 : SubSeq(b, 1, e - 1)[i] = b[i]
  <2>1. \A i \in 1 .. e - 1 : b[i] \in Bytes
    BY <1>1, <1>6
  <2>2. e - 1 \in Int /\ 1 \in Int /\ (e - 1) - 1 + 1 = e - 1
    BY <1>6
  <2>3. /\ SubSeq(b, 1, e - 1) \in Seq(Bytes)
        /\ Len(SubSeq(b, 1, e - 1)) = IF 1 <= e - 1 THEN (e - 1) - 1 + 1 ELSE 0
        /\ \A i \in 1 .. (e - 1) - 1 + 1 : SubSeq(b, 1, e - 1)[i] = b[1 + i - 1]
    BY <2>1, <2>2, SubSeqProperties
  <2>. QED
    BY <1>6, <2>3
<1>8. /\ SubSeq(b, e + 2, Len(b)) \in Seq(Bytes)
      /\ Len(SubSeq(b, e + 2, Len(b))) = Len(b) - e - 1
      /\ \A i \in 1 .. Len(b) - e - 1 : SubSeq(b, e + 2, Len(b))[i] = b[e + 1 + i]
  <2>1. \A i \in e + 2 .. Len(b) : b[i] \in Bytes
    BY <1>1, <1>6
  <2>2. e + 2 \in Int /\ Len(b) \in Int
    BY <1>1, <1>6
  <2>3. /\ SubSeq(b, e + 2, Len(b)) \in Seq(Bytes)
        /\ Len(SubSeq(b, e + 2, Len(b))) = IF e + 2 <= Len(b) THEN Len(b) - (e + 2) + 1 ELSE 0
        /\ \A i \in 1 .. Len(b) - (e + 2) + 1 : SubSeq(b, e + 2, Len(b))[i] = b[(e + 2) + i - 1]
    BY <2>1, <2>2, SubSeqProperties
  <2>. QED
    BY <1>1, <1>6, <2>3
<1>. QED
  BY <1>4, <1>5, <1>7, <1>8 DEF e, Event, Rest

(* One round of the loop, given what the rounds after it make of the rest. *)
Round(later, b) ==
  IF BlankLines(b) = {} THEN [adds |-> 0, keeps |-> b, raises |-> FALSE]
  ELSE IF Unreadable(Event(b)) = {}
  THEN [later[Rest(b)] EXCEPT !.adds = @ + Cardinality(Contents(Event(b)))]
  ELSE [adds |-> Cardinality({i \in Contents(Event(b)) : \A u \in Unreadable(Event(b)) : i < u}),
        keeps |-> Rest(b), raises |-> TRUE]

(* A function that runs the loop on the buffers shorter than n.            *)
RunsBelow(G, n) ==
  /\ G = [b \in {c \in Seq(Bytes) : Len(c) < n} |-> G[b]]
  /\ \A b \in Seq(Bytes) : Len(b) < n => G[b] = Round(G, b)

LEMMA RoundLocal ==
  ASSUME NEW F, NEW G, NEW b,
         BlankLines(b) # {} => F[Rest(b)] = G[Rest(b)]
  PROVE  Round(F, b) = Round(G, b)
<1>. QED
  BY DEF Round

(* Two such functions agree where both run it.                             *)
LEMMA RunsAgree ==
  ASSUME NEW F, NEW n \in Nat, RunsBelow(F, n), NEW G, NEW m \in Nat, RunsBelow(G, m),
         NEW b \in Seq(Bytes), Len(b) < n, Len(b) < m
  PROVE  F[b] = G[b]
<1>. DEFINE T == {k \in Nat : k < n /\ k < m /\ \E c \in Seq(Bytes) : Len(c) = k /\ F[c] # G[c]}
<1>1. SUFFICES ASSUME T # {} PROVE FALSE
  BY LenProperties
<1>2. PICK k \in T : \A j \in T : k <= j
  BY <1>1, LeastElement
<1>3. PICK c \in Seq(Bytes) : Len(c) = k /\ F[c] # G[c]
  BY <1>2
<1>4. F[c] = Round(F, c) /\ G[c] = Round(G, c)
  BY <1>2, <1>3 DEF RunsBelow
<1>5. BlankLines(c) # {} => F[Rest(c)] = G[Rest(c)]
  <2>. HAVE BlankLines(c) # {}
  <2>1. Rest(c) \in Seq(Bytes) /\ Len(Rest(c)) \in Nat /\ Len(Rest(c)) < Len(c)
    BY FirstEvent, LenProperties
  <2>2. Len(Rest(c)) \notin T
    BY <1>2, <1>3, <2>1
  <2>. QED
    BY <1>2, <1>3, <2>1, <2>2
<1>. QED
  BY <1>3, <1>4, <1>5, RoundLocal

(* There is one for every length.                                          *)
LEMMA RunsExist == \A n \in Nat : \E G : RunsBelow(G, n)
<1>. DEFINE T == {n \in Nat : ~ \E G : RunsBelow(G, n)}
<1>1. SUFFICES ASSUME T # {} PROVE FALSE
  OBVIOUS
<1>2. PICK n \in T : \A j \in T : n <= j
  BY <1>1, LeastElement
<1>3. n # 0
  <2>1. RunsBelow([b \in {c \in Seq(Bytes) : Len(c) < 0} |-> 0], 0)
    BY LenProperties DEF RunsBelow
  <2>. QED
    BY <1>2, <2>1
<1>4. n - 1 \in Nat /\ n - 1 \notin T
  BY <1>2, <1>3
<1>5. PICK G : RunsBelow(G, n - 1)
  BY <1>4
<1>. DEFINE H == [b \in {c \in Seq(Bytes) : Len(c) < n} |-> Round(G, b)]
<1>6. ASSUME NEW b \in Seq(Bytes), Len(b) < n
      PROVE  H[b] = Round(H, b)
  <2>1. H[b] = Round(G, b)
    BY <1>6
  <2>2. BlankLines(b) # {} => G[Rest(b)] = H[Rest(b)]
    <3>. HAVE BlankLines(b) # {}
    <3>1. Rest(b) \in Seq(Bytes) /\ Len(Rest(b)) \in Nat /\ Len(Rest(b)) < Len(b) /\ Len(b) \in Nat
      BY FirstEvent, LenProperties
    <3>2. Len(Rest(b)) < n - 1 /\ Len(Rest(b)) < n
      BY <1>4, <1>6, <3>1
    <3>3. G[Rest(b)] = Round(G, Rest(b))
      BY <1>5, <3>1, <3>2 DEF RunsBelow
    <3>4. H[Rest(b)] = Round(G, Rest(b))
      BY <3>1, <3>2
    <3>. QED
      BY <3>3, <3>4
  <2>. HIDE DEF H
  <2>. QED
    BY <2>1, <2>2, RoundLocal
<1>7. RunsBelow(H, n)
  BY <1>6 DEF RunsBelow
<1>. QED
  BY <1>2, <1>7

(* Events is the function it is written to be: the loop always ends.       *)
LEMMA EventsIsRound == \A b \in Seq(Bytes) : Events[b] = Round(Events, b)
<1>. DEFINE run(n) == CHOOSE G : RunsBelow(G, n)
            F == [b \in Seq(Bytes) |-> run(Len(b) + 1)[b]]
<1>1. \A n \in Nat : RunsBelow(run(n), n)
  BY RunsExist
<1>. HIDE DEF run
<1>2. ASSUME NEW b \in Seq(Bytes)
      PROVE  F[b] = Round(F, b)
  <2>1. Len(b) \in Nat /\ Len(b) + 1 \in Nat /\ Len(b) < Len(b) + 1
    BY LenProperties
  <2>2. F[b] = Round(run(Len(b) + 1), b)
    BY <1>1, <2>1 DEF RunsBelow
  <2>3. BlankLines(b) # {} => F[Rest(b)] = run(Len(b) + 1)[Rest(b)]
    <3>. HAVE BlankLines(b) # {}
    <3>. DEFINE r == Rest(b)
    <3>1. r \in Seq(Bytes) /\ Len(r) \in Nat /\ Len(r) < Len(b)
      BY FirstEvent, LenProperties
    <3>. HIDE DEF r
    <3>2. Len(r) + 1 \in Nat /\ Len(r) < Len(r) + 1 /\ Len(r) < Len(b) + 1
      BY <2>1, <3>1
    <3>3. run(Len(r) + 1)[r] = run(Len(b) + 1)[r]
      BY <1>1, <2>1, <3>1, <3>2, RunsAgree
    <3>. QED
      BY <3>1, <3>3 DEF r
  <2>. HIDE DEF F
  <2>. QED
    BY <2>2, <2>3, RoundLocal
<1>3. F = [b \in Seq(Bytes) |-> Round(F, b)]
  BY <1>2
<1>. HIDE DEF F
<1>4. Events = CHOOSE E : E = [b \in Seq(Bytes) |-> Round(E, b)]
  BY DEF Events, Round
<1>5. Events = [b \in Seq(Bytes) |-> Round(Events, b)]
  BY <1>3, <1>4
<1>. QED
  BY <1>5
------------------------------------------------------------------------------
(* What the counter is to hold of a prefix of the stream, and what it is   *)
(* to raise for.                                                           *)
Whole(b) == {i \in Contents(b) : InWholeEvent(b, i)}
Bad(b) == {i \in Unreadable(b) : InWholeEvent(b, i)}

(* A place where an event has just ended, or the beginning.                *)
Cut(b, k) == k = 0 \/ (k >= 2 /\ b[k - 1] = "n" /\ b[k] = "n")

Before(b, k) == SubSeq(b, 1, k)
After(b, k) == SubSeq(b, k + 1, Len(b))

Shifted(S, k) == {k + i : i \in S}

LEMMA Parts ==
  ASSUME NEW b \in Seq(Bytes), NEW k \in 0 .. Len(b)
  PROVE  /\ Before(b, k) \in Seq(Bytes) /\ Len(Before(b, k)) = k
         /\ \A i \in 1 .. k : Before(b, k)[i] = b[i]
         /\ After(b, k) \in Seq(Bytes) /\ Len(After(b, k)) = Len(b) - k
         /\ \A i \in 1 .. Len(b) - k : After(b, k)[i] = b[k + i]
<1>1. Len(b) \in Nat /\ \A i \in 1 .. Len(b) : b[i] \in Bytes
  BY LenProperties, ElementOfSeq
<1>2. /\ Before(b, k) \in Seq(Bytes) /\ Len(Before(b, k)) = k
      /\ \A i \in 1 .. k : Before(b, k)[i] = b[i]
  <2>1. \A i \in 1 .. k : b[i] \in Bytes
    BY <1>1
  <2>2. /\ SubSeq(b, 1, k) \in Seq(Bytes)
        /\ Len(SubSeq(b, 1, k)) = IF 1 <= k THEN k - 1 + 1 ELSE 0
        /\ \A i \in 1 .. k - 1 + 1 : SubSeq(b, 1, k)[i] = b[1 + i - 1]
    BY <2>1, SubSeqProperties
  <2>. QED
    BY <1>1, <2>2 DEF Before
<1>3. /\ After(b, k) \in Seq(Bytes) /\ Len(After(b, k)) = Len(b) - k
      /\ \A i \in 1 .. Len(b) - k : After(b, k)[i] = b[k + i]
  <2>1. \A i \in k + 1 .. Len(b) : b[i] \in Bytes
    BY <1>1
  <2>2. k + 1 \in Int /\ Len(b) \in Int
    BY <1>1
  <2>3. /\ SubSeq(b, k + 1, Len(b)) \in Seq(Bytes)
        /\ Len(SubSeq(b, k + 1, Len(b))) = IF k + 1 <= Len(b) THEN Len(b) - (k + 1) + 1 ELSE 0
        /\ \A i \in 1 .. Len(b) - (k + 1) + 1 : SubSeq(b, k + 1, Len(b))[i] = b[(k + 1) + i - 1]
    BY <2>1, <2>2, SubSeqProperties
  <2>. QED
    BY <1>1, <2>3 DEF After
<1>. QED
  BY <1>2, <1>3

(* What the three sets are made of, byte by byte.                          *)
LEMMA LinesAt ==
  ASSUME NEW b \in Seq(Bytes)
  PROVE  /\ Len(b) \in Nat
         /\ \A i : i \in Contents(b) <=>
              /\ i \in 1 .. Len(b) - 1 /\ b[i] = "<" /\ b[i + 1] = ">"
              /\ (i = 1 \/ b[i - 1] = "n")
              /\ (i + 1 = Len(b) \/ b[i + 2] = "n")
         /\ \A i : i \in Unreadable(b) <=>
              /\ i \in 1 .. Len(b) /\ b[i] = "!"
              /\ (i = 1 \/ b[i - 1] = "n")
              /\ (i = Len(b) \/ b[i + 1] = "n")
         /\ \A i : i \in BlankLines(b) <=> i \in 1 .. Len(b) - 1 /\ b[i] = "n" /\ b[i + 1] = "n"
<1>1. Len(b) \in Nat
  BY LenProperties
<1>2. \A i \in 1 .. Len(b) - 1 : (i + 1) + 1 = i + 2
  BY <1>1
<1>3. \A i : i \in Contents(b) <=>
              /\ i \in 1 .. Len(b) - 1 /\ b[i] = "<" /\ b[i + 1] = ">"
              /\ (i = 1 \/ b[i - 1] = "n")
              /\ (i + 1 = Len(b) \/ b[i + 2] = "n")
  BY <1>1, <1>2 DEF Contents, StartsLine, EndsLine
<1>4. \A i : i \in Unreadable(b) <=>
              /\ i \in 1 .. Len(b) /\ b[i] = "!"
              /\ (i = 1 \/ b[i - 1] = "n")
              /\ (i = Len(b) \/ b[i + 1] = "n")
  BY <1>1 DEF Unreadable, StartsLine, EndsLine
<1>5. \A i : i \in BlankLines(b) <=> i \in 1 .. Len(b) - 1 /\ b[i] = "n" /\ b[i + 1] = "n"
  BY <1>1 DEF BlankLines
<1>. QED
  BY <1>1, <1>3, <1>4, <1>5

(* A content, or a line that cannot be read, is on one side of a cut, and  *)
(* there it is what it is as a whole.                                      *)
LEMMA LinesBefore ==
  ASSUME NEW b \in Seq(Bytes), NEW k \in 0 .. Len(b), Cut(b, k)
  PROVE  /\ \A i : i \in Contents(Before(b, k)) <=> i \in Contents(b) /\ i < k
         /\ \A i : i \in Unreadable(Before(b, k)) <=> i \in Unreadable(b) /\ i < k
         /\ \A i : i \in Contents(b) /\ i < k => i < k - 1
         /\ \A i : i \in Unreadable(b) /\ i < k => i < k - 1
<1>. DEFINE p == Before(b, k)
            n == Len(b)
<1>1. n \in Nat /\ k \in Nat /\ k <= n
  BY LenProperties
<1>2. p \in Seq(Bytes) /\ Len(p) = k /\ \A i \in 1 .. k : p[i] = b[i]
  BY Parts
<1>3. k > 0 => k >= 2 /\ b[k - 1] = "n" /\ b[k] = "n"
  BY <1>1 DEF Cut
<1>. HIDE DEF p, n
<1>4. \A i : i \in Contents(p) <=>
              /\ i \in 1 .. k - 1 /\ p[i] = "<" /\ p[i + 1] = ">"
              /\ (i = 1 \/ p[i - 1] = "n")
              /\ (i + 1 = k \/ p[i + 2] = "n")
  <2>1. Len(p) = k
    BY <1>2
  <2>2. \A i : i \in Contents(p) <=>
                /\ i \in 1 .. Len(p) - 1 /\ p[i] = "<" /\ p[i + 1] = ">"
                /\ (i = 1 \/ p[i - 1] = "n")
                /\ (i + 1 = Len(p) \/ p[i + 2] = "n")
    BY <1>2, LinesAt, Zenon
  <2>. QED
    BY ONLY <2>1, <2>2, Zenon
<1>5. \A i : i \in Contents(b) <=>
              /\ i \in 1 .. n - 1 /\ b[i] = "<" /\ b[i + 1] = ">"
              /\ (i = 1 \/ b[i - 1] = "n")
              /\ (i + 1 = n \/ b[i + 2] = "n")
  BY LinesAt DEF n
<1>6. \A i : i \in Contents(p) <=> i \in Contents(b) /\ i < k
  <2>1. ASSUME NEW i, i \in Contents(p)
        PROVE  i \in Contents(b) /\ i < k
    <3>1. /\ i \in 1 .. k - 1 /\ i \in Nat /\ p[i] = "<" /\ p[i + 1] = ">"
          /\ (i = 1 \/ p[i - 1] = "n")
          /\ (i + 1 = k \/ p[i + 2] = "n")
      BY <1>1, <1>4, <2>1
    <3>2. p[i] = b[i] /\ p[i + 1] = b[i + 1]
      BY <1>1, <1>2, <3>1
    <3>3. i # 1 => p[i - 1] = b[i - 1]
      BY <1>1, <1>2, <3>1
    <3>4. i + 1 # k
      BY <1>1, <1>3, <3>1, <3>2
    <3>5. p[i + 2] = b[i + 2]
      BY <1>1, <1>2, <3>1, <3>4
    <3>6. i \in 1 .. n - 1 /\ i < k
      BY <1>1, <3>1
    <3>. QED
      BY <1>5, <3>1, <3>2, <3>3, <3>4, <3>5, <3>6
  <2>2. ASSUME NEW i, i \in Contents(b), i < k
        PROVE  i \in Contents(p)
    <3>1. /\ i \in 1 .. n - 1 /\ i \in Nat /\ b[i] = "<" /\ b[i + 1] = ">"
          /\ (i = 1 \/ b[i - 1] = "n")
          /\ (i + 1 = n \/ b[i + 2] = "n")
      BY <1>1, <1>5, <2>2
    <3>2. i \in 1 .. k - 1
      BY <1>1, <2>2, <3>1
    <3>3. i + 1 # k /\ i # k /\ i # k - 1
      BY <1>1, <1>3, <3>1, <3>2
    <3>4. p[i] = b[i] /\ p[i + 1] = b[i + 1] /\ p[i + 2] = b[i + 2] /\ (i # 1 => p[i - 1] = b[i - 1])
      BY <1>1, <1>2, <3>2, <3>3
    <3>5. i + 1 # n
      BY <1>1, <3>2, <3>3
    <3>. QED
      BY <1>4, <3>1, <3>2, <3>4, <3>5
  <2>. QED
    BY <2>1, <2>2
<1>7. \A i : i \in Unreadable(p) <=>
              /\ i \in 1 .. k /\ p[i] = "!"
              /\ (i = 1 \/ p[i - 1] = "n")
              /\ (i = k \/ p[i + 1] = "n")
  BY <1>2, LinesAt
<1>8. \A i : i \in Unreadable(b) <=>
              /\ i \in 1 .. n /\ b[i] = "!"
              /\ (i = 1 \/ b[i - 1] = "n")
              /\ (i = n \/ b[i + 1] = "n")
  BY LinesAt DEF n
<1>9. \A i : i \in Unreadable(p) <=> i \in Unreadable(b) /\ i < k
  <2>1. ASSUME NEW i, i \in Unreadable(p)
        PROVE  i \in Unreadable(b) /\ i < k
    <3>1. /\ i \in 1 .. k /\ i \in Nat /\ p[i] = "!"
          /\ (i = 1 \/ p[i - 1] = "n")
          /\ (i = k \/ p[i + 1] = "n")
      BY <1>1, <1>7, <2>1
    <3>2. p[i] = b[i]
      BY <1>1, <1>2, <3>1
    <3>3. i # k
      BY <1>1, <1>3, <3>1, <3>2
    <3>4. p[i + 1] = b[i + 1] /\ (i # 1 => p[i - 1] = b[i - 1])
      BY <1>1, <1>2, <3>1, <3>3
    <3>5. i \in 1 .. n /\ i < k
      BY <1>1, <3>1, <3>3
    <3>. QED
      BY <1>8, <3>1, <3>2, <3>3, <3>4, <3>5
  <2>2. ASSUME NEW i, i \in Unreadable(b), i < k
        PROVE  i \in Unreadable(p)
    <3>1. /\ i \in 1 .. n /\ i \in Nat /\ b[i] = "!"
          /\ (i = 1 \/ b[i - 1] = "n")
          /\ (i = n \/ b[i + 1] = "n")
      BY <1>1, <1>8, <2>2
    <3>2. i \in 1 .. k - 1 /\ i \in 1 .. k
      BY <1>1, <2>2, <3>1
    <3>3. i # n
      BY <1>1, <2>2, <3>1
    <3>4. p[i] = b[i] /\ p[i + 1] = b[i + 1] /\ (i # 1 => p[i - 1] = b[i - 1])
      BY <1>1, <1>2, <3>2
    <3>. QED
      BY <1>7, <3>1, <3>2, <3>3, <3>4
  <2>. QED
    BY <2>1, <2>2
<1>10. \A i : i \in Contents(b) /\ i < k => i < k - 1
  BY <1>1, <1>3, <1>5
<1>11. \A i : i \in Unreadable(b) /\ i < k => i < k - 1
  BY <1>1, <1>3, <1>8
<1>. QED
  BY <1>6, <1>9, <1>10, <1>11 DEF p

LEMMA LinesAfter ==
  ASSUME NEW b \in Seq(Bytes), NEW k \in 0 .. Len(b), Cut(b, k)
  PROVE  /\ \A i : i \in Contents(After(b, k)) <=> i \in Nat \ {0} /\ k + i \in Contents(b)
         /\ \A i : i \in Unreadable(After(b, k)) <=> i \in Nat \ {0} /\ k + i \in Unreadable(b)
         /\ \A i : i \in BlankLines(After(b, k)) <=> i \in Nat \ {0} /\ k + i \in BlankLines(b)
         /\ k \notin Contents(b) /\ k \notin Unreadable(b)
<1>. DEFINE s == After(b, k)
            n == Len(b)
<1>1. n \in Nat /\ k \in Nat /\ k <= n
  BY LenProperties
<1>2. s \in Seq(Bytes) /\ Len(s) = n - k /\ \A i \in 1 .. n - k : s[i] = b[k + i]
  BY Parts
<1>3. k > 0 => k >= 2 /\ b[k - 1] = "n" /\ b[k] = "n"
  BY <1>1 DEF Cut
<1>. HIDE DEF s, n
<1>. DEFINE m == Len(s)
<1>3a. /\ \A i : i \in Contents(s) <=>
              /\ i \in 1 .. m - 1 /\ s[i] = "<" /\ s[i + 1] = ">"
              /\ (i = 1 \/ s[i - 1] = "n")
              /\ (i + 1 = m \/ s[i + 2] = "n")
       /\ \A i : i \in Unreadable(s) <=>
              /\ i \in 1 .. m /\ s[i] = "!"
              /\ (i = 1 \/ s[i - 1] = "n")
              /\ (i = m \/ s[i + 1] = "n")
       /\ \A i : i \in BlankLines(s) <=> i \in 1 .. m - 1 /\ s[i] = "n" /\ s[i + 1] = "n"
  BY <1>2, LinesAt
<1>3b. m = n - k
  BY <1>2
<1>. HIDE DEF m
<1>4. \A i : i \in Contents(s) <=>
              /\ i \in 1 .. (n - k) - 1 /\ s[i] = "<" /\ s[i + 1] = ">"
              /\ (i = 1 \/ s[i - 1] = "n")
              /\ (i + 1 = n - k \/ s[i + 2] = "n")
  BY <1>3a, <1>3b
<1>5. \A i : i \in Contents(b) <=>
              /\ i \in 1 .. n - 1 /\ b[i] = "<" /\ b[i + 1] = ">"
              /\ (i = 1 \/ b[i - 1] = "n")
              /\ (i + 1 = n \/ b[i + 2] = "n")
  BY LinesAt DEF n
<1>6. \A i : i \in Unreadable(s) <=>
              /\ i \in 1 .. n - k /\ s[i] = "!"
              /\ (i = 1 \/ s[i - 1] = "n")
              /\ (i = n - k \/ s[i + 1] = "n")
  BY <1>3a, <1>3b
<1>7. \A i : i \in Unreadable(b) <=>
              /\ i \in 1 .. n /\ b[i] = "!"
              /\ (i = 1 \/ b[i - 1] = "n")
              /\ (i = n \/ b[i + 1] = "n")
  BY LinesAt DEF n
<1>8. \A i : i \in BlankLines(s) <=> i \in 1 .. (n - k) - 1 /\ s[i] = "n" /\ s[i + 1] = "n"
  BY <1>3a, <1>3b
<1>9. \A i : i \in BlankLines(b) <=> i \in 1 .. n - 1 /\ b[i] = "n" /\ b[i + 1] = "n"
  BY LinesAt DEF n
<1>10. ASSUME NEW i
       PROVE  /\ i \in Contents(s) <=> i \in Nat \ {0} /\ k + i \in Contents(b)
              /\ i \in Unreadable(s) <=> i \in Nat \ {0} /\ k + i \in Unreadable(b)
              /\ i \in BlankLines(s) <=> i \in Nat \ {0} /\ k + i \in BlankLines(b)
  <2>1. CASE i \notin Nat \ {0}
    BY <1>1, <1>4, <1>6, <1>8, <2>1
  <2>2. CASE i \in Nat \ {0}
    <3>1. i \in Nat /\ i >= 1 /\ k + i \in Nat
      BY <1>1, <2>2
    <3>2. /\ i \in 1 .. (n - k) - 1 <=> k + i \in 1 .. n - 1
          /\ i \in 1 .. (n - k) <=> k + i \in 1 .. n
          /\ i + 1 = n - k <=> (k + i) + 1 = n
          /\ i = n - k <=> k + i = n
          /\ k + (i + 1) = (k + i) + 1 /\ k + (i + 2) = (k + i) + 2 /\ k + (i - 1) = (k + i) - 1
      BY <1>1, <3>1
    <3>3. i \in 1 .. n - k => s[i] = b[k + i]
      BY <1>2
    <3>4. i \in 1 .. (n - k) - 1 => s[i + 1] = b[(k + i) + 1]
      <4>. HAVE i \in 1 .. (n - k) - 1
      <4>1. i + 1 \in 1 .. n - k
        BY <1>1, <3>1
      <4>2. s[i + 1] = b[k + (i + 1)]
        BY <1>2, <4>1
      <4>. QED
        BY <3>2, <4>2
    <3>5. i \in 1 .. (n - k) - 1 /\ i + 1 # n - k => s[i + 2] = b[(k + i) + 2]
      <4>. HAVE i \in 1 .. (n - k) - 1 /\ i + 1 # n - k
      <4>1. i + 2 \in 1 .. n - k
        BY <1>1, <3>1
      <4>2. s[i + 2] = b[k + (i + 2)]
        BY <1>2, <4>1
      <4>. QED
        BY <3>2, <4>2
    <3>6. i \in 1 .. n - k => (i = 1 \/ s[i - 1] = "n" <=> k + i = 1 \/ b[(k + i) - 1] = "n")
      <4>. HAVE i \in 1 .. n - k
      <4>1. CASE i = 1
        <5>1. k = 0 \/ b[(k + i) - 1] = "n"
          BY <1>1, <1>3, <4>1
        <5>. QED
          BY <4>1, <5>1
      <4>2. CASE i # 1
        <5>1. i - 1 \in 1 .. n - k
          BY <1>1, <3>1, <4>2
        <5>2. s[i - 1] = b[k + (i - 1)]
          BY <1>2, <5>1
        <5>3. k + i # 1
          BY <1>1, <3>1, <4>2
        <5>4. s[i - 1] = b[(k + i) - 1] /\ k + i # 1
          BY <3>2, <5>2, <5>3
        <5>. QED
          BY <4>2, <5>4
      <4>. QED
        BY <4>1, <4>2
    <3>7. i \in 1 .. (n - k) - 1 => i \in 1 .. n - k
      BY <1>1, <3>1
    <3>8. i \in 1 .. n - k /\ i # n - k => i \in 1 .. (n - k) - 1
      BY <1>1, <3>1
    <3>9. i \in Contents(s) <=> k + i \in Contents(b)
      <4>1. CASE i \notin 1 .. (n - k) - 1
        BY <1>4, <1>5, <3>2, <4>1
      <4>2. CASE i \in 1 .. (n - k) - 1
        <5>1. s[i] = b[k + i] /\ s[i + 1] = b[(k + i) + 1]
          BY <3>3, <3>4, <3>7, <4>2
        <5>2. i + 1 = n - k \/ s[i + 2] = "n" <=> (k + i) + 1 = n \/ b[(k + i) + 2] = "n"
          BY <3>2, <3>5, <4>2
        <5>3. i = 1 \/ s[i - 1] = "n" <=> k + i = 1 \/ b[(k + i) - 1] = "n"
          BY <3>6, <3>7, <4>2
        <5>4. i \in Contents(s) <=>
                /\ s[i] = "<" /\ s[i + 1] = ">"
                /\ (i = 1 \/ s[i - 1] = "n")
                /\ (i + 1 = n - k \/ s[i + 2] = "n")
          BY ONLY <1>4, <4>2, Zenon
        <5>5. k + i \in Contents(b) <=>
                /\ b[k + i] = "<" /\ b[(k + i) + 1] = ">"
                /\ (k + i = 1 \/ b[(k + i) - 1] = "n")
                /\ ((k + i) + 1 = n \/ b[(k + i) + 2] = "n")
          BY ONLY <1>5, <3>2, <4>2, Zenon
        <5>. QED
          BY ONLY <5>1, <5>2, <5>3, <5>4, <5>5, Zenon
      <4>. QED
        BY <4>1, <4>2
    <3>10. i \in Unreadable(s) <=> k + i \in Unreadable(b)
      <4>1. i \in Unreadable(s) <=>
              /\ i \in 1 .. n - k /\ s[i] = "!"
              /\ (i = 1 \/ s[i - 1] = "n")
              /\ (i = n - k \/ s[i + 1] = "n")
        BY ONLY <1>6, Zenon
      <4>2. k + i \in Unreadable(b) <=>
              /\ k + i \in 1 .. n /\ b[k + i] = "!"
              /\ (k + i = 1 \/ b[(k + i) - 1] = "n")
              /\ (k + i = n \/ b[(k + i) + 1] = "n")
        BY ONLY <1>7, Zenon
      <4>. QED
        BY <3>2, <3>3, <3>4, <3>6, <3>8, <4>1, <4>2
    <3>11. i \in BlankLines(s) <=> k + i \in BlankLines(b)
      BY <1>8, <1>9, <3>2, <3>3, <3>4, <3>7
    <3>. QED
      BY <2>2, <3>9, <3>10, <3>11
  <2>. QED
    BY <2>1, <2>2
<1>11. k \notin Contents(b) /\ k \notin Unreadable(b)
  BY <1>1, <1>3, <1>5, <1>7
<1>. QED
  BY <1>10, <1>11 DEF s
------------------------------------------------------------------------------
(* Counting on both sides of a cut.                                        *)
LEMMA MovedSet ==
  ASSUME NEW S \in SUBSET Nat, IsFiniteSet(S), NEW k \in Nat
  PROVE  IsFiniteSet(Shifted(S, k)) /\ Cardinality(Shifted(S, k)) = Cardinality(S)
<1>. DEFINE f == [i \in S |-> k + i]
<1>1. f \in Bijection(S, Shifted(S, k))
  <2>1. \A i, j \in S : k + i = k + j => i = j
    OBVIOUS
  <2>2. f \in [S -> Shifted(S, k)]
    BY DEF Shifted
  <2>3. \A i, j \in S : f[i] = f[j] => i = j
    BY <2>1
  <2>4. \A x \in Shifted(S, k) : \E i \in S : f[i] = x
    BY DEF Shifted
  <2>. HIDE DEF f
  <2>5. f \in Injection(S, Shifted(S, k))
    BY <2>2, <2>3 DEF Injection, IsInjective
  <2>6. f \in Surjection(S, Shifted(S, k))
    BY <2>2, <2>4 DEF Surjection
  <2>. QED
    BY <2>5, <2>6 DEF Bijection
<1>2. ExistsBijection(S, Shifted(S, k))
  BY <1>1 DEF ExistsBijection
<1>. QED
  BY <1>2, FS_Bijection

LEMMA DisjointSets ==
  ASSUME NEW S, IsFiniteSet(S), NEW T, IsFiniteSet(T), S \cap T = {}
  PROVE  IsFiniteSet(S \cup T) /\ Cardinality(S \cup T) = Cardinality(S) + Cardinality(T)
<1>1. Cardinality(S) \in Nat /\ Cardinality(T) \in Nat /\ Cardinality(S \cap T) = 0
  BY FS_CardinalityType, FS_EmptySet
<1>2. /\ IsFiniteSet(S \cup T)
      /\ Cardinality(S \cup T) = Cardinality(S) + Cardinality(T) - Cardinality(S \cap T)
  BY FS_Union
<1>. QED
  BY <1>1, <1>2

LEMMA LinesFinite ==
  ASSUME NEW b \in Seq(Bytes)
  PROVE  /\ Contents(b) \in SUBSET Nat /\ IsFiniteSet(Contents(b))
         /\ Whole(b) \in SUBSET Nat /\ IsFiniteSet(Whole(b))
<1>1. Len(b) \in Nat
  BY LenProperties
<1>2. Contents(b) \in SUBSET Nat /\ \A i \in Contents(b) : i <= Len(b)
  BY <1>1, LinesAt
<1>3. IsFiniteSet(Contents(b))
  BY <1>1, <1>2, FS_BoundedSetOfNaturals
<1>4. Whole(b) \in SUBSET Contents(b)
  BY DEF Whole
<1>5. IsFiniteSet(Whole(b))
  BY <1>3, <1>4, FS_Subset
<1>. QED
  BY <1>2, <1>3, <1>4, <1>5

(* What is before a cut counts as a whole; what is after it counts as if   *)
(* the stream began there.                                                 *)
LEMMA WholeSplit ==
  ASSUME NEW b \in Seq(Bytes), NEW k \in 0 .. Len(b), Cut(b, k)
  PROVE  /\ Whole(b) = Contents(Before(b, k)) \cup Shifted(Whole(After(b, k)), k)
         /\ Cardinality(Whole(b))
              = Cardinality(Contents(Before(b, k))) + Cardinality(Whole(After(b, k)))
         /\ Bad(b) = {} <=> Unreadable(Before(b, k)) = {} /\ Bad(After(b, k)) = {}
<1>. DEFINE p == Before(b, k)
            s == After(b, k)
<1>1. Len(b) \in Nat /\ k \in Nat /\ p \in Seq(Bytes) /\ s \in Seq(Bytes)
  BY LenProperties, Parts
<1>2. /\ \A i : i \in Contents(p) <=> i \in Contents(b) /\ i < k
      /\ \A i : i \in Unreadable(p) <=> i \in Unreadable(b) /\ i < k
      /\ \A i : i \in Contents(b) /\ i < k => i < k - 1
      /\ \A i : i \in Unreadable(b) /\ i < k => i < k - 1
  BY LinesBefore
<1>3. /\ \A i : i \in Contents(s) <=> i \in Nat \ {0} /\ k + i \in Contents(b)
      /\ \A i : i \in Unreadable(s) <=> i \in Nat \ {0} /\ k + i \in Unreadable(b)
      /\ \A i : i \in BlankLines(s) <=> i \in Nat \ {0} /\ k + i \in BlankLines(b)
      /\ k \notin Contents(b) /\ k \notin Unreadable(b)
  BY LinesAfter
<1>4. /\ \A i \in Contents(b) : i \in Nat
      /\ \A i \in Unreadable(b) : i \in Nat
      /\ \A i \in BlankLines(b) : i \in Nat
  BY <1>1, LinesAt
<1>. HIDE DEF p, s
<1>5. ASSUME NEW i \in Nat, i < k - 1
      PROVE  InWholeEvent(b, i)
  <2>1. k - 1 \in BlankLines(b)
    <3>1. k >= 2 /\ b[k - 1] = "n" /\ b[k] = "n"
      BY <1>1, <1>5 DEF Cut
    <3>2. k - 1 \in 1 .. Len(b) - 1 /\ (k - 1) + 1 = k
      BY <1>1, <3>1
    <3>. QED
      BY <3>1, <3>2, LinesAt
  <2>. QED
    BY <1>5, <2>1 DEF InWholeEvent
<1>6. ASSUME NEW i \in Nat \ {0}
      PROVE  InWholeEvent(s, i) <=> InWholeEvent(b, k + i)
  <2>1. ASSUME NEW j \in BlankLines(s), i < j
        PROVE  \E l \in BlankLines(b) : k + i < l
    <3>1. j \in Nat /\ k + j \in BlankLines(b)
      BY <1>3
    <3>2. k + i < k + j
      BY <1>1, <2>1, <3>1
    <3>. QED
      BY <3>1, <3>2
  <2>2. ASSUME NEW l \in BlankLines(b), k + i < l
        PROVE  \E j \in BlankLines(s) : i < j
    <3>1. l \in Nat
      BY <1>4
    <3>2. l - k \in Nat \ {0} /\ k + (l - k) = l /\ i < l - k
      BY <1>1, <2>2, <3>1
    <3>3. l - k \in BlankLines(s)
      BY <1>3, <3>2
    <3>. QED
      BY <3>2, <3>3
  <2>. QED
    BY <2>1, <2>2 DEF InWholeEvent
<1>7. ASSUME NEW i
      PROVE  i \in Whole(b) <=> i \in Contents(p) \/ i \in Shifted(Whole(s), k)
  <2>1. CASE i \notin Contents(b)
    <3>1. i \notin Whole(b) /\ i \notin Contents(p)
      BY <1>2, <2>1 DEF Whole
    <3>2. \A j \in Whole(s) : k + j # i
      BY <1>3, <2>1 DEF Whole
    <3>. QED
      BY <3>1, <3>2 DEF Shifted
  <2>2. CASE i \in Contents(b) /\ i < k
    <3>1. i \in Contents(p) /\ i \in Nat /\ i < k - 1
      BY <1>2, <1>4, <2>2
    <3>2. i \in Whole(b)
      BY <1>5, <2>2, <3>1 DEF Whole
    <3>. QED
      BY <3>1, <3>2
  <2>3. CASE i \in Contents(b) /\ ~ (i < k)
    <3>1. i \in Nat /\ i # k /\ i \notin Contents(p)
      BY <1>2, <1>3, <1>4, <2>3
    <3>2. i - k \in Nat \ {0} /\ k + (i - k) = i
      BY <1>1, <2>3, <3>1
    <3>3. i - k \in Contents(s) /\ (InWholeEvent(s, i - k) <=> InWholeEvent(b, i))
      BY <1>3, <1>6, <2>3, <3>2
    <3>4. i - k \in Whole(s) <=> i \in Whole(b)
      BY <2>3, <3>3 DEF Whole
    <3>5. \A j \in Whole(s) : j \in Nat /\ (k + j = i => j = i - k)
      <4>1. \A j \in Whole(s) : j \in Nat
        BY <1>3 DEF Whole
      <4>. QED
        BY <1>1, <3>1, <4>1
    <3>. QED
      BY <3>1, <3>2, <3>4, <3>5 DEF Shifted
  <2>. QED
    BY <2>1, <2>2, <2>3
<1>8. Whole(b) = Contents(p) \cup Shifted(Whole(s), k)
  BY <1>7
<1>9. Contents(p) \cap Shifted(Whole(s), k) = {}
  <2>1. ASSUME NEW j \in Whole(s), k + j \in Contents(p)
        PROVE  FALSE
    <3>1. j \in Nat /\ k + j < k
      BY <1>2, <1>3, <2>1 DEF Whole
    <3>. QED
      BY <1>1, <3>1
  <2>. QED
    BY <2>1 DEF Shifted
<1>10. Cardinality(Whole(b)) = Cardinality(Contents(p)) + Cardinality(Whole(s))
  <2>1. IsFiniteSet(Contents(p)) /\ Whole(s) \in SUBSET Nat /\ IsFiniteSet(Whole(s))
    BY <1>1, LinesFinite
  <2>2. IsFiniteSet(Shifted(Whole(s), k)) /\ Cardinality(Shifted(Whole(s), k)) = Cardinality(Whole(s))
    BY <1>1, <2>1, MovedSet
  <2>. QED
    BY <1>8, <1>9, <2>1, <2>2, DisjointSets
<1>11. ASSUME NEW i
       PROVE  i \in Bad(b) <=> i \in Unreadable(p) \/ i \in Shifted(Bad(s), k)
  <2>1. CASE i \notin Unreadable(b)
    <3>1. i \notin Bad(b) /\ i \notin Unreadable(p)
      BY <1>2, <2>1 DEF Bad
    <3>2. \A j \in Bad(s) : k + j # i
      BY <1>3, <2>1 DEF Bad
    <3>. QED
      BY <3>1, <3>2 DEF Shifted
  <2>2. CASE i \in Unreadable(b) /\ i < k
    <3>1. i \in Unreadable(p) /\ i \in Nat /\ i < k - 1
      BY <1>2, <1>4, <2>2
    <3>2. i \in Bad(b)
      BY <1>5, <2>2, <3>1 DEF Bad
    <3>. QED
      BY <3>1, <3>2
  <2>3. CASE i \in Unreadable(b) /\ ~ (i < k)
    <3>1. i \in Nat /\ i # k /\ i \notin Unreadable(p)
      BY <1>2, <1>3, <1>4, <2>3
    <3>2. i - k \in Nat \ {0} /\ k + (i - k) = i
      BY <1>1, <2>3, <3>1
    <3>3. i - k \in Unreadable(s) /\ (InWholeEvent(s, i - k) <=> InWholeEvent(b, i))
      BY <1>3, <1>6, <2>3, <3>2
    <3>4. i - k \in Bad(s) <=> i \in Bad(b)
      BY <2>3, <3>3 DEF Bad
    <3>5. \A j \in Bad(s) : j \in Nat /\ (k + j = i => j = i - k)
      <4>1. \A j \in Bad(s) : j \in Nat
        BY <1>3 DEF Bad
      <4>. QED
        BY <1>1, <3>1, <4>1
    <3>. QED
      BY <3>1, <3>2, <3>4, <3>5 DEF Shifted
  <2>. QED
    BY <2>1, <2>2, <2>3
<1>12. Bad(b) = {} <=> Unreadable(p) = {} /\ Bad(s) = {}
  <2>1. Bad(b) = Unreadable(p) \cup Shifted(Bad(s), k)
    BY <1>11
  <2>2. Shifted(Bad(s), k) = {} <=> Bad(s) = {}
    BY DEF Shifted
  <2>. QED
    BY <2>1, <2>2
<1>. QED
  BY <1>8, <1>10, <1>12 DEF p, s
------------------------------------------------------------------------------
(* The first event of a buffer ends at a cut.                              *)
LEMMA EventIsCut ==
  ASSUME NEW b \in Seq(Bytes), BlankLines(b) # {}
  PROVE  /\ End(b) + 1 \in 2 .. Len(b) /\ Cut(b, End(b) + 1)
         /\ Rest(b) = After(b, End(b) + 1)
         /\ Contents(Event(b)) = Contents(Before(b, End(b) + 1))
         /\ Unreadable(Event(b)) = Unreadable(Before(b, End(b) + 1))
<1>. DEFINE e == End(b)
            v == Event(b)
            p == Before(b, e + 1)
<1>1. /\ e \in 1 .. Len(b) - 1 /\ b[e] = "n" /\ b[e + 1] = "n"
      /\ v \in Seq(Bytes) /\ Len(v) = e - 1 /\ \A i \in 1 .. e - 1 : v[i] = b[i]
  BY FirstEvent
<1>2. Len(b) \in Nat
  BY LenProperties
<1>. HIDE DEF e
<1>3. e \in Nat \ {0} /\ e + 1 \in 2 .. Len(b) /\ e + 1 \in 0 .. Len(b) /\ (e + 1) - 1 = e
  BY <1>1, <1>2
<1>4. Cut(b, e + 1)
  BY <1>1, <1>3 DEF Cut
<1>5. Rest(b) = After(b, e + 1)
  <2>1. (e + 1) + 1 = e + 2
    BY <1>3
  <2>2. Rest(b) = SubSeq(b, e + 2, Len(b))
    BY ONLY Zenon DEF Rest, e
  <2>. QED
    BY ONLY <2>1, <2>2, Zenon DEF After
<1>6. p \in Seq(Bytes) /\ Len(p) = e + 1 /\ \A i \in 1 .. e + 1 : p[i] = b[i]
  BY <1>3, Parts
<1>. HIDE DEF v, p
<1>7. p[e] = "n" /\ p[e + 1] = "n" /\ \A i \in 1 .. e - 1 : v[i] = p[i]
  BY <1>1, <1>3, <1>6
<1>. DEFINE m == Len(v)
            n == Len(p)
<1>8. /\ \A i : i \in Contents(v) <=>
              /\ i \in 1 .. m - 1 /\ v[i] = "<" /\ v[i + 1] = ">"
              /\ (i = 1 \/ v[i - 1] = "n")
              /\ (i + 1 = m \/ v[i + 2] = "n")
      /\ \A i : i \in Unreadable(v) <=>
              /\ i \in 1 .. m /\ v[i] = "!"
              /\ (i = 1 \/ v[i - 1] = "n")
              /\ (i = m \/ v[i + 1] = "n")
  BY <1>1, LinesAt
<1>9. /\ \A i : i \in Contents(p) <=>
              /\ i \in 1 .. n - 1 /\ p[i] = "<" /\ p[i + 1] = ">"
              /\ (i = 1 \/ p[i - 1] = "n")
              /\ (i + 1 = n \/ p[i + 2] = "n")
      /\ \A i : i \in Unreadable(p) <=>
              /\ i \in 1 .. n /\ p[i] = "!"
              /\ (i = 1 \/ p[i - 1] = "n")
              /\ (i = n \/ p[i + 1] = "n")
  BY <1>6, LinesAt
<1>10. m = e - 1 /\ n = e + 1
  BY <1>1, <1>6
<1>. HIDE DEF m, n
<1>11. ASSUME NEW i
       PROVE  i \in Contents(v) <=> i \in Contents(p)
  <2>1. CASE i \notin 1 .. e
    <3>1. i \notin 1 .. m - 1 /\ i \notin 1 .. n - 1
      BY <1>3, <1>10, <2>1
    <3>. QED
      BY <1>8, <1>9, <3>1
  <2>2. CASE i = e \/ i = e - 1
    <3>1. i \notin 1 .. m - 1
      BY <1>3, <1>10, <2>2
    <3>2. i = e - 1 => i + 1 = e
      BY <1>3
    <3>3. ~ (p[i] = "<" /\ p[i + 1] = ">")
      BY <1>7, <2>2, <3>2
    <3>. QED
      BY <1>8, <1>9, <3>1, <3>3
  <2>3. CASE i \in 1 .. e - 2
    <3>1. /\ i \in Nat /\ i \in 1 .. m - 1 /\ i \in 1 .. n - 1 /\ i \in 1 .. e - 1 /\ i + 1 \in 1 .. e - 1
          /\ i # 1 => i - 1 \in 1 .. e - 1
      BY <1>3, <1>10, <2>3
    <3>2. v[i] = p[i] /\ v[i + 1] = p[i + 1] /\ (i # 1 => v[i - 1] = p[i - 1])
      BY <1>7, <3>1
    <3>3. CASE i + 1 = m
      <4>1. i + 1 # n /\ i + 2 = e
        BY <1>3, <1>10, <3>1, <3>3
      <4>2. p[i + 2] = "n"
        BY <1>7, <4>1
      <4>3. i \in Contents(v) <=> v[i] = "<" /\ v[i + 1] = ">" /\ (i = 1 \/ v[i - 1] = "n")
        BY <1>8, <3>1, <3>3
      <4>4. i \in Contents(p) <=> p[i] = "<" /\ p[i + 1] = ">" /\ (i = 1 \/ p[i - 1] = "n")
        BY <1>9, <3>1, <4>2
      <4>. QED
        BY <3>2, <4>3, <4>4
    <3>4. CASE i + 1 # m
      <4>1. i + 1 # n /\ i + 2 \in 1 .. e - 1
        BY <1>3, <1>10, <3>1, <3>4
      <4>2. v[i + 2] = p[i + 2]
        BY <1>7, <4>1
      <4>. QED
        BY <1>8, <1>9, <3>1, <3>2, <3>4, <4>1, <4>2
    <3>. QED
      BY <3>3, <3>4
  <2>4. i \in 1 .. e => i = e \/ i = e - 1 \/ i \in 1 .. e - 2
    BY <1>3
  <2>. QED
    BY <2>1, <2>2, <2>3, <2>4
<1>12. ASSUME NEW i
       PROVE  i \in Unreadable(v) <=> i \in Unreadable(p)
  <2>1. CASE i \notin 1 .. e + 1
    <3>1. i \notin 1 .. m /\ i \notin 1 .. n
      BY <1>3, <1>10, <2>1
    <3>. QED
      BY <1>8, <1>9, <3>1
  <2>2. CASE i = e \/ i = e + 1
    <3>1. i \notin 1 .. m
      BY <1>3, <1>10, <2>2
    <3>. QED
      BY <1>7, <1>8, <1>9, <2>2, <3>1
  <2>3. CASE i \in 1 .. e - 1
    <3>1. i \in Nat /\ i \in 1 .. m /\ i \in 1 .. n /\ i # n /\ (i # 1 => i - 1 \in 1 .. e - 1)
      BY <1>3, <1>10, <2>3
    <3>2. v[i] = p[i] /\ (i # 1 => v[i - 1] = p[i - 1])
      BY <1>7, <2>3, <3>1
    <3>3. CASE i = m
      <4>1. i + 1 = e
        BY <1>3, <1>10, <3>3
      <4>. QED
        BY <1>7, <1>8, <1>9, <3>1, <3>2, <3>3, <4>1
    <3>4. CASE i # m
      <4>1. i + 1 \in 1 .. e - 1
        BY <1>3, <1>10, <3>1, <3>4
      <4>2. v[i + 1] = p[i + 1]
        BY <1>7, <4>1
      <4>. QED
        BY <1>8, <1>9, <3>1, <3>2, <3>4, <4>2
    <3>. QED
      BY <3>3, <3>4
  <2>4. i \in 1 .. e + 1 => i = e \/ i = e + 1 \/ i \in 1 .. e - 1
    BY <1>3
  <2>. QED
    BY <2>1, <2>2, <2>3, <2>4
<1>13. Contents(v) = Contents(p) /\ Unreadable(v) = Unreadable(p)
  BY <1>11, <1>12
<1>. QED
  BY <1>3, <1>4, <1>5, <1>13 DEF e, v, p

(* What feed is to make of a buffer.                                       *)
CountsWhole(b, e) ==
  /\ e \in [adds : Nat, keeps : Seq(Bytes), raises : BOOLEAN]
  /\ e.raises <=> Bad(b) # {}
  /\ ~ e.raises =>
       /\ e.adds = Cardinality(Whole(b))
       /\ BlankLines(e.keeps) = {}
       /\ \E k \in 0 .. Len(b) : Cut(b, k) /\ e.keeps = After(b, k)

LEMMA NoEventNoContent ==
  ASSUME NEW b \in Seq(Bytes), BlankLines(b) = {}
  PROVE  Whole(b) = {} /\ Bad(b) = {}
<1>. QED
  BY DEF Whole, Bad, InWholeEvent

(* A cut of what is after a cut is a cut.                                  *)
LEMMA CutAfterCut ==
  ASSUME NEW b \in Seq(Bytes), NEW k \in 0 .. Len(b), Cut(b, k),
         NEW l \in 0 .. Len(b) - k, Cut(After(b, k), l)
  PROVE  k + l \in 0 .. Len(b) /\ Cut(b, k + l) /\ After(After(b, k), l) = After(b, k + l)
<1>. DEFINE s == After(b, k)
            t == After(s, l)
            u == After(b, k + l)
<1>1. /\ Len(b) \in Nat /\ k \in Nat /\ l \in Nat /\ k + l \in Nat /\ k + l \in 0 .. Len(b)
      /\ Len(b) - k \in Nat
  BY LenProperties
<1>2. s \in Seq(Bytes) /\ Len(s) = Len(b) - k /\ \A i \in 1 .. Len(b) - k : s[i] = b[k + i]
  BY Parts
<1>3. /\ t \in Seq(Bytes) /\ Len(t) = Len(s) - l
      /\ \A i \in 1 .. Len(s) - l : t[i] = s[l + i]
  <2>1. l \in 0 .. Len(s)
    BY <1>2
  <2>. HIDE DEF s
  <2>. QED
    BY <1>2, <2>1, Parts
<1>4. u \in Seq(Bytes) /\ Len(u) = Len(b) - (k + l) /\ \A i \in 1 .. Len(b) - (k + l) : u[i] = b[(k + l) + i]
  BY <1>1, Parts
<1>. HIDE DEF s, t, u
<1>5. Len(t) = Len(u)
  BY <1>1, <1>2, <1>3, <1>4
<1>6. ASSUME NEW i \in 1 .. Len(t)
      PROVE  t[i] = u[i]
  <2>1. Len(t) = (Len(b) - k) - l /\ Len(t) = Len(b) - (k + l)
    BY <1>2, <1>3, <1>4, <1>5
  <2>2. i \in Nat /\ i \in 1 .. Len(s) - l /\ l + i \in 1 .. Len(b) - k /\ i \in 1 .. Len(b) - (k + l)
    BY <1>1, <1>2, <2>1
  <2>3. t[i] = s[l + i] /\ s[l + i] = b[k + (l + i)] /\ u[i] = b[(k + l) + i]
    BY <1>2, <1>3, <1>4, <2>2
  <2>4. k + (l + i) = (k + l) + i
    BY <1>1, <2>2
  <2>. QED
    BY <2>3, <2>4
<1>7. t = u
  BY <1>3, <1>4, <1>5, <1>6, SeqEqual
<1>8. Cut(b, k + l)
  <2>1. CASE l = 0
    BY <1>1, <2>1
  <2>2. CASE l # 0
    <3>1. l >= 2 /\ s[l - 1] = "n" /\ s[l] = "n"
      BY <2>2 DEF Cut, s
    <3>2. l - 1 \in 1 .. Len(b) - k /\ l \in 1 .. Len(b) - k /\ k + (l - 1) = (k + l) - 1
      BY <1>1, <3>1
    <3>3. b[(k + l) - 1] = "n" /\ b[k + l] = "n"
      BY <1>2, <3>1, <3>2
    <3>. QED
      BY <1>1, <3>1, <3>3 DEF Cut
  <2>. QED
    BY <2>1, <2>2
<1>. QED
  BY <1>1, <1>7, <1>8 DEF s, t, u

(* The loop of feed counts the contents of the complete events, and raises *)
(* if and only if one of them cannot be read.                              *)
LEMMA EventsCount == \A b \in Seq(Bytes) : CountsWhole(b, Events[b])
<1>. DEFINE T == {n \in Nat : \E b \in Seq(Bytes) : Len(b) = n /\ ~ CountsWhole(b, Events[b])}
<1>1. SUFFICES ASSUME T # {} PROVE FALSE
  BY LenProperties
<1>2. PICK n \in T : \A j \in T : n <= j
  BY <1>1, LeastElement
<1>3. PICK b \in Seq(Bytes) : Len(b) = n /\ ~ CountsWhole(b, Events[b])
  BY <1>2
<1>4. Events[b] = Round(Events, b)
  BY EventsIsRound
<1>5. Len(b) \in Nat
  BY LenProperties
<1>6. ASSUME NEW c \in Seq(Bytes), Len(c) < Len(b)
      PROVE  CountsWhole(c, Events[c])
  <2>1. Len(c) \in Nat /\ Len(c) \notin T
    BY <1>2, <1>3, <1>5, <1>6, LenProperties
  <2>. QED
    BY <2>1
<1>. HIDE DEF T
<1>7. CASE BlankLines(b) = {}
  <2>1. Events[b] = [adds |-> 0, keeps |-> b, raises |-> FALSE]
    BY <1>4, <1>7 DEF Round
  <2>2. Whole(b) = {} /\ Bad(b) = {}
    BY <1>7, NoEventNoContent
  <2>3. Cardinality(Whole(b)) = 0
    BY <2>2, FS_EmptySet
  <2>4. Cut(b, 0) /\ 0 \in 0 .. Len(b)
    BY <1>5 DEF Cut
  <2>5. After(b, 0) = b
    <3>1. /\ After(b, 0) \in Seq(Bytes) /\ Len(After(b, 0)) = Len(b) - 0
          /\ \A i \in 1 .. Len(b) - 0 : After(b, 0)[i] = b[0 + i]
      BY <2>4, Parts
    <3>2. Len(b) - 0 = Len(b) /\ \A i \in 1 .. Len(b) : 0 + i = i
      BY <1>5
    <3>3. Len(After(b, 0)) = Len(b) /\ \A i \in 1 .. Len(After(b, 0)) : After(b, 0)[i] = b[i]
      BY <3>1, <3>2
    <3>. QED
      BY <3>1, <3>3, SeqEqual
  <2>. QED
    BY <1>3, <1>7, <2>1, <2>2, <2>3, <2>4, <2>5 DEF CountsWhole
<1>8. CASE BlankLines(b) # {}
  <2>. DEFINE k == End(b) + 1
              r == Rest(b)
              g == Cardinality(Contents(Event(b)))
  <2>1. k \in 2 .. Len(b) /\ Cut(b, k) /\ r = After(b, k)
        /\ Contents(Event(b)) = Contents(Before(b, k))
        /\ Unreadable(Event(b)) = Unreadable(Before(b, k))
    BY <1>8, EventIsCut
  <2>2. Event(b) \in Seq(Bytes) /\ r \in Seq(Bytes) /\ Len(r) \in Nat /\ Len(r) < Len(b)
    BY <1>8, FirstEvent, LenProperties
  <2>3. k \in 0 .. Len(b)
    BY <1>5, <2>1
  <2>4. /\ Cardinality(Whole(b)) = g + Cardinality(Whole(r))
        /\ Bad(b) = {} <=> Unreadable(Event(b)) = {} /\ Bad(r) = {}
    BY <2>1, <2>3, WholeSplit
  <2>5. CASE Unreadable(Event(b)) = {}
    <3>1. Events[b] = [Events[r] EXCEPT !.adds = @ + g]
      BY <1>4, <1>8, <2>5 DEF Round
    <3>2. CountsWhole(r, Events[r])
      BY <1>6, <2>2
    <3>3. g \in Nat
      BY <2>2, LinesFinite, FS_CardinalityType
    <3>. DEFINE e == Events[r]
                f == Events[b]
    <3>4. e \in [adds : Nat, keeps : Seq(Bytes), raises : BOOLEAN] /\ f = [e EXCEPT !.adds = @ + g]
      BY <3>1, <3>2 DEF CountsWhole
    <3>. HIDE DEF e, f, g
    <3>5. /\ f \in [adds : Nat, keeps : Seq(Bytes), raises : BOOLEAN]
          /\ f.adds = e.adds + g /\ f.keeps = e.keeps /\ f.raises = e.raises
      BY <3>3, <3>4
    <3>6. f.raises <=> Bad(b) # {}
      BY <2>4, <2>5, <3>2, <3>5 DEF CountsWhole, e
    <3>7. ASSUME ~ f.raises
          PROVE  /\ f.adds = Cardinality(Whole(b))
                 /\ BlankLines(f.keeps) = {}
                 /\ \E l \in 0 .. Len(b) : Cut(b, l) /\ f.keeps = After(b, l)
      <4>1. e.adds = Cardinality(Whole(r)) /\ e.adds \in Nat /\ BlankLines(e.keeps) = {}
        BY <3>2, <3>4, <3>5, <3>7 DEF CountsWhole, e
      <4>2. PICK l \in 0 .. Len(r) : Cut(r, l) /\ e.keeps = After(r, l)
        BY <3>2, <3>5, <3>7 DEF CountsWhole, e
      <4>3. Len(r) = Len(b) - k
        BY <2>1, <2>3, Parts
      <4>4. l \in 0 .. Len(b) - k /\ Cut(After(b, k), l)
        BY <2>1, <4>2, <4>3
      <4>5. k + l \in 0 .. Len(b) /\ Cut(b, k + l) /\ After(After(b, k), l) = After(b, k + l)
        BY <2>1, <2>3, <4>4, CutAfterCut
      <4>6. f.keeps = After(b, k + l)
        BY <2>1, <3>5, <4>2, <4>5
      <4>7. f.adds = Cardinality(Whole(b))
        BY <2>4, <3>3, <3>5, <4>1
      <4>. QED
        BY <3>5, <4>1, <4>5, <4>6, <4>7
    <3>8. CountsWhole(b, f)
      BY <3>5, <3>6, <3>7 DEF CountsWhole
    <3>. QED
      BY <1>3, <3>8 DEF f
  <2>6. CASE Unreadable(Event(b)) # {}
    <3>. DEFINE C == {i \in Contents(Event(b)) : \A u \in Unreadable(Event(b)) : i < u}
    <3>1. Events[b] = [adds |-> Cardinality(C), keeps |-> r, raises |-> TRUE]
      BY <1>4, <1>8, <2>6 DEF Round
    <3>2. Cardinality(C) \in Nat
      <4>1. IsFiniteSet(Contents(Event(b))) /\ C \in SUBSET Contents(Event(b))
        BY <2>2, LinesFinite
      <4>2. IsFiniteSet(C)
        BY <4>1, FS_Subset
      <4>. QED
        BY <4>2, FS_CardinalityType
    <3>3. Bad(b) # {}
      BY <2>4, <2>6
    <3>. HIDE DEF C
    <3>. QED
      BY <1>3, <2>2, <3>1, <3>2, <3>3 DEF CountsWhole
  <2>. QED
    BY <2>5, <2>6
<1>. QED
  BY <1>7, <1>8
------------------------------------------------------------------------------
(***************************************************************************)
(* The inductive invariant.  Unless a line has made it raise, the counter  *)
(* has parsed what was received up to some cut, and keeps the bytes after  *)
(* it, among which no event is complete.                                   *)
(***************************************************************************)
Parsed ==
  IF Bad(Received) # {} THEN pc \in {"adrift", "ended"}
  ELSE /\ texts = Cardinality(Whole(Received))
       /\ \E k \in 0 .. received : Cut(Received, k) /\ buffer = After(Received, k)
       /\ BlankLines(buffer) = {}

(* The client was sent what was received, but for the chunk on its way.    *)
Sent ==
  /\ pc \in {"connecting", "waiting", "closing"} => delivered = received
  /\ pc = "closing" => received = Len(stream)

(* The bill is the last thing of a stream that was read and sent as a whole. *)
Billed ==
  ledger # None =>
    /\ pc = "ended" /\ job = "completed"
    /\ received = Len(stream) /\ delivered = Len(stream)
    /\ Bad(Received) = {} /\ ledger = texts

StreamInv ==
  /\ stream \in Seq(Bytes) /\ received \in 0 .. Len(stream) /\ delivered \in Nat
  /\ Parsed /\ Sent /\ Billed
------------------------------------------------------------------------------
(* What the buffer holds when a chunk is appended to it.                   *)
LEMMA ChunkAppended ==
  ASSUME NEW b \in Seq(Bytes), NEW m \in 0 .. Len(b), NEW r \in 0 .. m,
         NEW k \in 0 .. r, Cut(Before(b, r), k)
  PROVE  /\ k \in 0 .. Len(Before(b, m)) /\ Cut(Before(b, m), k)
         /\ After(Before(b, r), k) \o SubSeq(b, r + 1, m) = After(Before(b, m), k)
         /\ Before(Before(b, m), k) = Before(Before(b, r), k)
<1>. DEFINE p == Before(b, r)
            q == Before(b, m)
            c == SubSeq(b, r + 1, m)
            s == After(p, k)
            t == After(q, k)
            u == Before(p, k)
            v == Before(q, k)
<1>1. Len(b) \in Nat /\ m \in Nat /\ r \in Nat /\ k \in Nat /\ k <= r /\ r <= m /\ m <= Len(b)
  BY LenProperties
<1>2. p \in Seq(Bytes) /\ Len(p) = r /\ \A i \in 1 .. r : p[i] = b[i]
  <2>1. r \in 0 .. Len(b)
    BY <1>1
  <2>. QED
    BY <2>1, Parts
<1>3. q \in Seq(Bytes) /\ Len(q) = m /\ \A i \in 1 .. m : q[i] = b[i]
  BY <1>1, Parts
<1>4. c \in Seq(Bytes) /\ Len(c) = m - r /\ \A i \in 1 .. m - r : c[i] = b[r + i]
  <2>1. \A i \in r + 1 .. m : b[i] \in Bytes
    BY <1>1, ElementOfSeq
  <2>2. r + 1 \in Int /\ m \in Int
    BY <1>1
  <2>3. /\ SubSeq(b, r + 1, m) \in Seq(Bytes)
        /\ Len(SubSeq(b, r + 1, m)) = IF r + 1 <= m THEN m - (r + 1) + 1 ELSE 0
        /\ \A i \in 1 .. m - (r + 1) + 1 : SubSeq(b, r + 1, m)[i] = b[(r + 1) + i - 1]
    BY <2>1, <2>2, SubSeqProperties
  <2>. QED
    BY <1>1, <2>3
<1>. HIDE DEF p, q, c
<1>5. s \in Seq(Bytes) /\ Len(s) = r - k /\ \A i \in 1 .. r - k : s[i] = p[k + i]
  <2>1. k \in 0 .. Len(p)
    BY <1>1, <1>2
  <2>. QED
    BY <1>2, <2>1, Parts
<1>6. u \in Seq(Bytes) /\ Len(u) = k /\ \A i \in 1 .. k : u[i] = p[i]
  <2>1. k \in 0 .. Len(p)
    BY <1>1, <1>2
  <2>. QED
    BY <1>2, <2>1, Parts
<1>7. /\ t \in Seq(Bytes) /\ Len(t) = m - k /\ \A i \in 1 .. m - k : t[i] = q[k + i]
      /\ v \in Seq(Bytes) /\ Len(v) = k /\ \A i \in 1 .. k : v[i] = q[i]
  <2>1. k \in 0 .. Len(q)
    BY <1>1, <1>3
  <2>. QED
    BY <1>3, <2>1, Parts
<1>. HIDE DEF s, t, u, v
<1>8. u = v
  <2>1. \A i \in 1 .. k : u[i] = v[i]
    <3>1. \A i \in 1 .. k : i \in 1 .. r /\ i \in 1 .. m
      BY <1>1
    <3>. QED
      BY <1>2, <1>3, <1>6, <1>7, <3>1
  <2>. QED
    BY <1>6, <1>7, <2>1, SeqEqual
<1>9. s \o c = t
  <2>. DEFINE w == s \o c
  <2>1. /\ w \in Seq(Bytes) /\ Len(w) = Len(s) + Len(c)
        /\ \A i \in 1 .. Len(s) + Len(c) : w[i] = IF i <= Len(s) THEN s[i] ELSE c[i - Len(s)]
    BY <1>4, <1>5, ConcatProperties
  <2>. HIDE DEF w
  <2>2. Len(w) = m - k
    BY <1>1, <1>4, <1>5, <2>1
  <2>3. ASSUME NEW i \in 1 .. m - k
        PROVE  w[i] = t[i]
    <3>1. w[i] = IF i <= r - k THEN s[i] ELSE c[i - (r - k)]
      BY <1>1, <1>4, <1>5, <2>1
    <3>2. i \in Nat /\ k + i \in 1 .. m /\ t[i] = b[k + i]
      BY <1>1, <1>3, <1>7
    <3>3. CASE i <= r - k
      <4>1. i \in 1 .. r - k /\ k + i \in 1 .. r
        BY <1>1, <3>2, <3>3
      <4>2. s[i] = b[k + i]
        BY <1>2, <1>5, <4>1
      <4>. QED
        BY <3>1, <3>2, <3>3, <4>2
    <3>4. CASE ~ (i <= r - k)
      <4>1. i - (r - k) \in 1 .. m - r /\ r + (i - (r - k)) = k + i
        BY <1>1, <3>2, <3>4
      <4>2. c[i - (r - k)] = b[k + i]
        BY <1>4, <4>1
      <4>. QED
        BY <3>1, <3>2, <3>4, <4>2
    <3>. QED
      BY <3>3, <3>4
  <2>4. w = t
    BY <1>7, <2>1, <2>2, <2>3, SeqEqual
  <2>. QED
    BY <2>4 DEF w
<1>10. Cut(q, k)
  <2>1. CASE k = 0
    BY <2>1 DEF Cut
  <2>2. CASE k # 0
    <3>1. k >= 2 /\ p[k - 1] = "n" /\ p[k] = "n"
      BY <2>2 DEF Cut, p
    <3>2. k - 1 \in 1 .. r /\ k \in 1 .. r /\ k - 1 \in 1 .. m /\ k \in 1 .. m
      BY <1>1, <3>1
    <3>3. q[k - 1] = "n" /\ q[k] = "n"
      BY <1>2, <1>3, <3>1, <3>2
    <3>. QED
      BY <3>1, <3>3 DEF Cut
  <2>. QED
    BY <2>1, <2>2
<1>11. k \in 0 .. Len(q)
  BY <1>1, <1>3
<1>. QED
  BY <1>8, <1>9, <1>10, <1>11 DEF p, q, c, s, t, u, v

(* What feed is to add to what was counted when p was received, so that    *)
(* it is what is to be counted of q.                                       *)
CountsOn(p, q, e) ==
  /\ e.raises <=> Bad(q) # {}
  /\ ~ e.raises =>
       /\ Cardinality(Whole(q)) = Cardinality(Whole(p)) + e.adds
       /\ \E l \in 0 .. Len(q) : Cut(q, l) /\ e.keeps = After(q, l)
       /\ BlankLines(e.keeps) = {}

(* A chunk of any length takes the counter from what it is to hold before  *)
(* to what it is to hold after.                                            *)
LEMMA ChunkCounted ==
  ASSUME NEW b \in Seq(Bytes), NEW m \in 0 .. Len(b), NEW r \in 0 .. m,
         NEW k \in 0 .. r, Cut(Before(b, r), k),
         BlankLines(After(Before(b, r), k)) = {}, Bad(Before(b, r)) = {}
  PROVE  CountsOn(Before(b, r), Before(b, m),
                  Events[After(Before(b, r), k) \o SubSeq(b, r + 1, m)])
<1>. DEFINE p == Before(b, r)
            q == Before(b, m)
            e == Events[After(p, k) \o SubSeq(b, r + 1, m)]
<1>1. Len(b) \in Nat /\ m \in Nat /\ r \in Nat /\ k \in Nat /\ r \in 0 .. Len(b)
  BY LenProperties
<1>2. p \in Seq(Bytes) /\ Len(p) = r /\ q \in Seq(Bytes) /\ Len(q) = m
  BY <1>1, Parts
<1>3. /\ k \in 0 .. Len(q) /\ Cut(q, k) /\ Before(q, k) = Before(p, k)
      /\ After(p, k) \o SubSeq(b, r + 1, m) = After(q, k)
  BY ChunkAppended
<1>4. k \in 0 .. Len(p) /\ Cut(p, k) /\ BlankLines(After(p, k)) = {} /\ Bad(p) = {}
  BY <1>2
<1>4a. e = Events[After(q, k)]
  BY <1>3
<1>. HIDE DEF p, q, e
<1>5. After(p, k) \in Seq(Bytes) /\ After(q, k) \in Seq(Bytes) /\ Before(q, k) \in Seq(Bytes)
  BY <1>2, <1>3, <1>4, Parts
<1>6. Whole(After(p, k)) = {} /\ Bad(After(p, k)) = {} /\ Cardinality(Whole(After(p, k))) = 0
  BY <1>4, <1>5, NoEventNoContent, FS_EmptySet
<1>7. /\ Cardinality(Whole(p)) = Cardinality(Contents(Before(p, k))) + Cardinality(Whole(After(p, k)))
      /\ Bad(p) = {} <=> Unreadable(Before(p, k)) = {} /\ Bad(After(p, k)) = {}
  BY <1>2, <1>4, WholeSplit
<1>8. /\ Cardinality(Whole(q)) = Cardinality(Contents(Before(q, k))) + Cardinality(Whole(After(q, k)))
      /\ Bad(q) = {} <=> Unreadable(Before(q, k)) = {} /\ Bad(After(q, k)) = {}
  BY <1>2, <1>3, WholeSplit
<1>9. Cardinality(Contents(Before(q, k))) \in Nat /\ Cardinality(Whole(After(q, k))) \in Nat
  BY <1>5, LinesFinite, FS_CardinalityType
<1>11. CountsWhole(After(q, k), e)
  BY <1>5, <1>4a, EventsCount
<1>12. e.raises <=> Bad(q) # {}
  BY <1>3, <1>4, <1>6, <1>7, <1>8, <1>11 DEF CountsWhole
<1>13. ASSUME ~ e.raises
       PROVE  /\ Cardinality(Whole(q)) = Cardinality(Whole(p)) + e.adds
              /\ \E l \in 0 .. Len(q) : Cut(q, l) /\ e.keeps = After(q, l)
              /\ BlankLines(e.keeps) = {}
  <2>1. e.adds = Cardinality(Whole(After(q, k))) /\ BlankLines(e.keeps) = {}
    BY <1>11, <1>13 DEF CountsWhole
  <2>2. PICK l \in 0 .. Len(After(q, k)) : Cut(After(q, k), l) /\ e.keeps = After(After(q, k), l)
    BY <1>11, <1>13 DEF CountsWhole
  <2>3. Len(After(q, k)) = Len(q) - k
    BY <1>2, <1>3, Parts
  <2>4. k + l \in 0 .. Len(q) /\ Cut(q, k + l) /\ After(After(q, k), l) = After(q, k + l)
    BY <1>2, <1>3, <2>2, <2>3, CutAfterCut
  <2>5. Cardinality(Whole(q)) = Cardinality(Whole(p)) + e.adds
    BY <1>3, <1>6, <1>7, <1>8, <1>9, <2>1
  <2>. QED
    BY <1>2, <2>1, <2>2, <2>4, <2>5
<1>. QED
  BY <1>12, <1>13 DEF CountsOn, p, q, e
------------------------------------------------------------------------------
LEMMA ReceivedIsBefore ==
  ASSUME stream \in Seq(Bytes), received \in 0 .. Len(stream)
  PROVE  /\ Received = Before(stream, received)
         /\ Received \in Seq(Bytes) /\ Len(Received) = received
         /\ received = Len(stream) => Received = stream
<1>1. Received = Before(stream, received)
  BY DEF Received, Before
<1>2. /\ Received \in Seq(Bytes) /\ Len(Received) = received
      /\ \A i \in 1 .. received : Received[i] = stream[i]
  BY <1>1, Parts
<1>3. received = Len(stream) => Received = stream
  BY <1>2, SeqEqual
<1>. QED
  BY <1>1, <1>2, <1>3

LEMMA StreamInit == Init => StreamInv
<1>. SUFFICES ASSUME Init PROVE StreamInv
  OBVIOUS
<1>1. stream \in Seq(Bytes) /\ Len(stream) \in Nat
  BY StreamAssumption, LenProperties DEF Init
<1>2. received = 0 /\ received \in 0 .. Len(stream) /\ delivered = 0
  BY <1>1 DEF Init
<1>3. Received \in Seq(Bytes) /\ Len(Received) = 0
  BY <1>1, <1>2, ReceivedIsBefore
<1>4. Received = <<>>
  BY <1>3, EmptySeq
<1>5. BlankLines(<<>>) = {} /\ BlankLines(Received) = {}
  BY <1>3, <1>4 DEF BlankLines
<1>6. Bad(Received) = {} /\ Whole(Received) = {} /\ Cardinality(Whole(Received)) = 0
  BY <1>3, <1>5, NoEventNoContent, FS_EmptySet
<1>7. Cut(Received, 0) /\ After(Received, 0) = <<>>
  <2>1. 0 \in 0 .. Len(Received) /\ Len(Received) - 0 = 0
    BY <1>3
  <2>2. /\ After(Received, 0) \in Seq(Bytes) /\ Len(After(Received, 0)) = Len(Received) - 0
    BY <1>3, <2>1, Parts
  <2>. QED
    BY <2>1, <2>2, EmptySeq DEF Cut
<1>8. Parsed
  BY <1>2, <1>5, <1>6, <1>7 DEF Parsed, Init
<1>9. Sent /\ Billed
  BY DEF Init, Sent, Billed
<1>. QED
  BY <1>1, <1>2, <1>8, <1>9 DEF StreamInv

(* A chunk is the only thing that changes what was received.               *)
LEMMA ReceiveStep ==
  ASSUME StreamInv, NEW n \in 1 .. Len(stream), Receive(n)
  PROVE  StreamInv'
<1>. DEFINE m == received + n
            r == received
            b == stream
<1>1. /\ b \in Seq(Bytes) /\ Len(b) \in Nat /\ r \in 0 .. Len(b) /\ r \in Nat /\ n \in Nat
      /\ pc = "waiting" /\ m \in 0 .. Len(b) /\ r \in 0 .. m /\ received' = m /\ stream' = b
  BY LenProperties DEF StreamInv, Receive
<1>2. Received = Before(b, r)
  BY <1>1, ReceivedIsBefore
<1>3. Received' = Before(b, m)
  BY <1>1 DEF Received, Before
<1>4. /\ Bad(Before(b, r)) = {} /\ texts = Cardinality(Whole(Before(b, r)))
      /\ BlankLines(buffer) = {}
  BY <1>1, <1>2 DEF StreamInv, Parsed
<1>5. PICK k \in 0 .. r : Cut(Before(b, r), k) /\ buffer = After(Before(b, r), k)
  BY <1>1, <1>2 DEF StreamInv, Parsed
<1>. DEFINE e == Events[buffer \o SubSeq(b, r + 1, m)]
<1>6. /\ texts' = texts + e.adds /\ buffer' = e.keeps
      /\ IF e.raises THEN pc' = "adrift" ELSE pc' = "yielding"
      /\ delivered' = delivered /\ ledger' = ledger
  BY DEF Receive, Feed
<1>7. CountsOn(Before(b, r), Before(b, m), e)
  <2>. HIDE DEF m, r, b
  <2>1. e = Events[After(Before(b, r), k) \o SubSeq(b, r + 1, m)]
    BY <1>5
  <2>2. BlankLines(After(Before(b, r), k)) = {}
    BY <1>4, <1>5
  <2>3. /\ b \in Seq(Bytes) /\ m \in 0 .. Len(b) /\ r \in 0 .. m /\ k \in 0 .. r
        /\ Cut(Before(b, r), k) /\ Bad(Before(b, r)) = {}
    BY <1>1, <1>4, <1>5
  <2>4. CountsOn(Before(b, r), Before(b, m), Events[After(Before(b, r), k) \o SubSeq(b, r + 1, m)])
    BY <2>2, <2>3, ChunkCounted
  <2>. QED
    BY <2>1, <2>4
<1>. HIDE DEF e, m
<1>8. Parsed'
  <2>1. Parsed' = IF Bad(Received') # {} THEN pc' \in {"adrift", "ended"}
                  ELSE /\ texts' = Cardinality(Whole(Received'))
                       /\ \E l \in 0 .. received' : Cut(Received', l) /\ buffer' = After(Received', l)
                       /\ BlankLines(buffer') = {}
    BY DEF Parsed, Bad, Whole, Cut, After, Received
  <2>2. Len(Before(b, m)) = m
    BY <1>1, Parts
  <2>. QED
    BY <1>1, <1>3, <1>4, <1>6, <1>7, <2>1, <2>2 DEF CountsOn
<1>9. Sent'
  BY <1>6 DEF Sent
<1>10. Billed'
  BY <1>1, <1>6 DEF Billed, StreamInv
<1>11. stream' \in Seq(Bytes) /\ received' \in 0 .. Len(stream') /\ delivered' \in Nat
  BY <1>1, <1>6 DEF StreamInv
<1>. QED
  BY <1>8, <1>9, <1>10, <1>11 DEF StreamInv

(* Every other step leaves the counter alone.                              *)
LEMMA ParsedKept ==
  ASSUME StreamInv, UNCHANGED <<stream, received, texts, buffer>>,
         pc \in {"adrift", "ended"} => pc' \in {"adrift", "ended"}
  PROVE  Parsed'
<1>1. Received' = Received
  BY DEF Received
<1>2. Parsed' = IF Bad(Received') # {} THEN pc' \in {"adrift", "ended"}
                ELSE /\ texts' = Cardinality(Whole(Received'))
                     /\ \E l \in 0 .. received' : Cut(Received', l) /\ buffer' = After(Received', l)
                     /\ BlankLines(buffer') = {}
  BY DEF Parsed, Bad, Whole, Cut, After, Received
<1>. QED
  BY <1>1, <1>2 DEF StreamInv, Parsed

(* Of those, all but the end of a complete stream leave the bill alone.    *)
LEMMA BilledKept ==
  ASSUME StreamInv, UNCHANGED <<stream, received, texts>>, UNCHANGED ledger,
         pc # "ended"
  PROVE  Billed'
<1>. QED
  BY DEF StreamInv, Billed

LEMMA StreamStep == StreamInv /\ [Next]_vars => StreamInv'
<1>. SUFFICES ASSUME StreamInv, [Next]_vars PROVE StreamInv'
  OBVIOUS
<1>1. stream \in Seq(Bytes) /\ received \in 0 .. Len(stream) /\ delivered \in Nat /\ received \in Nat
  BY LenProperties DEF StreamInv
<1>2. CASE \E n \in 1 .. Len(stream) : Receive(n)
  BY <1>2, ReceiveStep
<1>3. CASE Connect
  <2>1. Parsed'
    BY <1>3, ParsedKept DEF Connect
  <2>2. Billed'
    BY <1>3, BilledKept DEF Connect
  <2>. QED
    BY <1>1, <1>3, <2>1, <2>2 DEF StreamInv, Sent, Connect
<1>4. CASE Exhausted
  <2>1. Parsed'
    BY <1>4, ParsedKept DEF Exhausted
  <2>2. Billed'
    BY <1>4, BilledKept DEF Exhausted
  <2>. QED
    BY <1>1, <1>4, <2>1, <2>2 DEF StreamInv, Sent, Exhausted
<1>5. CASE Break
  <2>1. Parsed'
    BY <1>5, ParsedKept DEF Break, Ended
  <2>2. Billed'
    BY <1>5, BilledKept DEF Break, Ended
  <2>. QED
    BY <1>1, <1>5, <2>1, <2>2 DEF StreamInv, Sent, Break, Ended
<1>6. CASE Deliver
  <2>1. Parsed'
    BY <1>6, ParsedKept DEF Deliver
  <2>2. Billed'
    BY <1>6, BilledKept DEF Deliver
  <2>. QED
    BY <1>1, <1>6, <2>1, <2>2 DEF StreamInv, Sent, Deliver
<1>7. CASE Abandon
  <2>1. Parsed'
    BY <1>7, ParsedKept DEF Abandon
  <2>2. Billed'
    BY <1>7, BilledKept DEF Abandon
  <2>. QED
    BY <1>1, <1>7, <2>1, <2>2 DEF StreamInv, Sent, Abandon
<1>8. CASE Settle
  <2>1. Parsed'
    BY <1>8, ParsedKept DEF Settle, Ended
  <2>2. /\ Bad(Received) = {} /\ received = Len(stream) /\ delivered = received
    BY <1>8 DEF StreamInv, Parsed, Sent, Settle
  <2>3. Received' = Received /\ Bad(Received') = Bad(Received)
    BY <1>8 DEF Received, Settle
  <2>4. pc' = "ended" /\ (ledger' = ledger \/ (job' = "completed" /\ ledger' = texts))
    BY <1>8 DEF Settle, Ended
  <2>5. ledger = None
    BY <1>8 DEF StreamInv, Billed, Settle
  <2>6. Billed'
    <3>1. Billed' = (ledger' # None =>
                       /\ pc' = "ended" /\ job' = "completed"
                       /\ received' = Len(stream') /\ delivered' = Len(stream')
                       /\ Bad(Received') = {} /\ ledger' = texts')
      BY DEF Billed, Bad, Received
    <3>. QED
      BY <1>8, <2>2, <2>3, <2>4, <2>5, <3>1 DEF Settle
  <2>. QED
    BY <1>1, <1>8, <2>1, <2>4, <2>6 DEF StreamInv, Sent, Settle
<1>9. CASE Collect
  <2>1. Parsed'
    BY <1>9, ParsedKept DEF Collect
  <2>2. Billed'
    BY <1>9, BilledKept DEF Collect
  <2>. QED
    BY <1>1, <1>9, <2>1, <2>2 DEF StreamInv, Sent, Collect
<1>10. CASE CollectReader
  <2>1. Parsed'
    BY <1>10, ParsedKept DEF CollectReader
  <2>2. Billed'
    BY <1>10, BilledKept DEF CollectReader
  <2>. QED
    BY <1>1, <1>10, <2>1, <2>2 DEF StreamInv, Sent, CollectReader
<1>11. CASE Cancel
  <2>1. Parsed'
    BY <1>11, ParsedKept DEF Cancel
  <2>2. Billed'
    BY <1>11, BilledKept DEF Cancel
  <2>. QED
    BY <1>1, <1>11, <2>1, <2>2 DEF StreamInv, Sent, Cancel
<1>12. CASE UNCHANGED vars
  <2>1. Parsed'
    BY <1>12, ParsedKept DEF vars
  <2>2. Billed'
    BY <1>12 DEF StreamInv, Billed, Bad, Received, vars
  <2>. QED
    BY <1>1, <1>12, <2>1, <2>2 DEF StreamInv, Sent, vars
<1>. QED
  BY <1>2, <1>3, <1>4, <1>5, <1>6, <1>7, <1>8, <1>9, <1>10, <1>11, <1>12
  DEF Next, Backend, Client, Loop

(***************************************************************************)
(* The counter always stands at a cut of what was received: the buffer     *)
(* holds the bytes after it, and what was counted is what is before it.    *)
(***************************************************************************)
THEOREM StreamInvariant == Spec => []StreamInv
<1>. QED
  BY StreamInit, StreamStep, PTL DEF Spec

(***************************************************************************)
(* For every stream, however the network cuts it: _StreamCounter holds the *)
(* contents of the data lines received so far that a blank line follows,   *)
(* and it raises only for a line that cannot be read.                      *)
(***************************************************************************)
THEOREM CutsDoNotMatter == Spec => []CountedAsReceived
<1>1. StreamInv => CountedAsReceived
  BY DEF StreamInv, Parsed, CountedAsReceived, Bad, Whole
<1>. QED
  BY <1>1, StreamInvariant, PTL

(***************************************************************************)
(* For every stream: only one that was read to its end and delivered to    *)
(* its client is billed, and for the contents that are in it.              *)
(***************************************************************************)
THEOREM OnlyDeliveredIsBilled == Spec => []BilledIsDelivered
<1>1. ASSUME StreamInv
      PROVE  BilledIsDelivered
  <2>. SUFFICES ASSUME ledger # None
                PROVE  /\ job = "completed" /\ delivered = Len(stream)
                       /\ ledger = Cardinality(Whole(stream))
    BY DEF BilledIsDelivered, Whole
  <2>1. /\ job = "completed" /\ received = Len(stream) /\ delivered = Len(stream)
        /\ Bad(Received) = {} /\ ledger = texts
    BY <1>1 DEF StreamInv, Billed
  <2>2. Received = stream
    BY <1>1, <2>1, ReceivedIsBefore DEF StreamInv
  <2>3. texts = Cardinality(Whole(stream))
    BY <1>1, <2>1, <2>2 DEF StreamInv, Parsed
  <2>. QED
    BY <2>1, <2>3
<1>. QED
  BY <1>1, StreamInvariant, PTL
==============================================================================
