---------------------------- MODULE VamanaProofs ----------------------------
(***************************************************************************)
(* Proofs about the construction of the graph (RobustPrune, VamanaBuild)   *)
(* and the scratch that its searches use (VisitedTags).  They hold for     *)
(* every number of nodes, degree, pool, batch, number of passes, sequence  *)
(* of alpha levels and table of distances, also where an estimate is       *)
(* negative.                                                               *)
(*                                                                         *)
(* Pruning keeps what it promises; a search stays in a set of nodes that   *)
(* no list leaves; so the lists of a batch are those that the graph before *)
(* it gives, whichever thread makes them and when, and so is the graph     *)
(* with the backedges in it.                                               *)
(***************************************************************************)
EXTENDS VamanaBuild, VisitedTags, FiniteSetTheorems, SequenceTheorems, WellFoundedInduction, TLAPS

-----------------------------------------------------------------------------
(* Numbers and iterations *)

\* A set of numbers has a least one.
LEMMA LeastNumber ==
  ASSUME NEW T, T \subseteq Nat, T # {}
  PROVE  \E i \in T : \A j \in T : ~(j < i)
<1>1. \E i \in T : \A j \in T : ~(<<j, i>> \in OpToRel(<, Nat))
  BY NatLessThanWellFounded, WFMin
<1> QED  BY <1>1 DEF OpToRel

\* What holds of 0, and of a number when it holds of the one before, holds of all.
LEMMA UpTo ==
  ASSUME NEW n \in Nat, NEW S, 0 \in S, \A k \in 0 .. n : k # 0 /\ k - 1 \in S => k \in S
  PROVE  0 .. n \subseteq S
<1> DEFINE T == (0 .. n) \ S
<1> SUFFICES ASSUME T # {} PROVE FALSE
  OBVIOUS
<1>0. T \subseteq Nat
  OBVIOUS
<1>1. PICK k \in T : \A j \in T : ~(j < k)
  BY <1>0, LeastNumber, Zenon
<1>2. k \in 0 .. n /\ k # 0
  BY <1>1
<1>3. k - 1 \in 0 .. n /\ k - 1 < k
  BY <1>2
<1>4. k - 1 \in S
  BY <1>1, <1>3
<1> QED  BY <1>1, <1>2, <1>4

\* f is what n turns make of base.
IsIteration(n, base, turn, f) ==
  f = [i \in 0 .. n |-> IF i = 0 THEN base ELSE turn[<<i, f[i - 1]>>]]

\* A function that is defined by what it does with the value before.
LEMMA IterationExists ==
  ASSUME NEW n \in Nat, NEW V, NEW base \in V, NEW turn \in [(1 .. n) \X V -> V]
  PROVE  \E f \in [0 .. n -> V] : IsIteration(n, base, turn, f)
<1> DEFINE T == {k \in 0 .. n : ~\E f \in [0 .. k -> V] : IsIteration(k, base, turn, f)}
<1> SUFFICES ASSUME T # {} PROVE FALSE
  OBVIOUS
<1>0. T \subseteq Nat
  OBVIOUS
<1>1. PICK k \in T : \A j \in T : ~(j < k)
  BY <1>0, LeastNumber, Zenon
<1>2. k \in 0 .. n
  BY <1>1
<1>3. CASE k = 0
  <2> DEFINE f == [i \in 0 .. 0 |-> base]
  <2>1. f \in [0 .. 0 -> V]
    OBVIOUS
  <2>2. f = [i \in 0 .. 0 |-> IF i = 0 THEN base ELSE turn[<<i, f[i - 1]>>]]
    OBVIOUS
  <2>3. f \in [0 .. k -> V] /\ IsIteration(k, base, turn, f)
    BY <1>3, <2>1, <2>2 DEF IsIteration
  <2> QED  BY <1>1, <2>3
<1>4. CASE k # 0
  <2>1. k - 1 \in 0 .. n /\ k - 1 < k /\ k \in 1 .. n /\ k - 1 \in 0 .. k - 1
    BY <1>2, <1>4
  <2>2. PICK g \in [0 .. k - 1 -> V] : IsIteration(k - 1, base, turn, g)
    BY <1>1, <2>1
  <2>3. \A i \in 0 .. k - 1 : g[i] = IF i = 0 THEN base ELSE turn[<<i, g[i - 1]>>]
    BY <2>2, Zenon DEF IsIteration
  <2> DEFINE last == turn[<<k, g[k - 1]>>]
             f == [i \in 0 .. k |-> IF i = k THEN last ELSE g[i]]
  <2>4. last \in V
    <3>1. g[k - 1] \in V
      BY <2>1, <2>2
    <3>2. <<k, g[k - 1]>> \in (1 .. n) \X V
      BY <2>1, <3>1
    <3> QED  BY <3>2
  <2>5. \A i \in 0 .. k : f[i] = IF i = 0 THEN base ELSE turn[<<i, f[i - 1]>>]
    <3> TAKE i \in 0 .. k
    <3>1. CASE i = k
      <4>1. f[k] = last /\ f[k - 1] = g[k - 1] /\ k # 0
        BY <1>4, <2>1
      <4> QED  BY <3>1, <4>1
    <3>2. CASE i # k /\ i # 0
      <4>1. i \in 0 .. k - 1 /\ i - 1 \in 0 .. k /\ i - 1 # k
        BY <2>1, <3>2
      <4>2. f[i] = g[i] /\ f[i - 1] = g[i - 1]
        BY <3>2, <4>1
      <4> QED  BY <2>3, <3>2, <4>1, <4>2
    <3>3. CASE i = 0 /\ i # k
      <4>1. i \in 0 .. k - 1 /\ f[i] = g[i]
        BY <2>1, <3>3
      <4> QED  BY <2>3, <3>3, <4>1
    <3> QED  BY <3>1, <3>2, <3>3
  <2>6. f \in [0 .. k -> V]
    <3>1. \A i \in 0 .. k : f[i] \in V
      <4> TAKE i \in 0 .. k
      <4>1. CASE i = k  BY <2>4, <4>1
      <4>2. CASE i # k
        <5>1. i \in 0 .. k - 1
          BY <2>1, <4>2
        <5> QED  BY <2>2, <4>2, <5>1
      <4> QED  BY <4>1, <4>2
    <3> QED  BY <3>1
  <2>7. f = [i \in 0 .. k |-> f[i]]
    OBVIOUS
  <2> HIDE DEF f, last
  <2>8. f = [i \in 0 .. k |-> IF i = 0 THEN base ELSE turn[<<i, f[i - 1]>>]]
    BY <2>5, <2>7
  <2>9. IsIteration(k, base, turn, f)
    BY <2>8, Zenon DEF IsIteration
  <2> QED  BY <1>1, <2>6, <2>9
<1> QED  BY <1>3, <1>4

-----------------------------------------------------------------------------
(* Sets put in order *)

\* A strict total order on S, as a set of pairs.
IsOrder(S, order) ==
  /\ \A a, b \in S : <<a, b>> \in order => <<b, a>> \notin order
  /\ \A a, b, c \in S : <<a, b>> \in order /\ <<b, c>> \in order => <<a, c>> \in order
  /\ \A a, b \in S : a # b => <<a, b>> \in order \/ <<b, a>> \in order

\* The elements below c.
Below(S, order, c) == {b \in S : <<b, c>> \in order}

\* No two elements have the same number of elements below them.
LEMMA BelowTells ==
  ASSUME NEW S, IsFiniteSet(S), NEW order, IsOrder(S, order), NEW a \in S, NEW b \in S
  PROVE  /\ Cardinality(Below(S, order, a)) \in 0 .. Cardinality(S) - 1
         /\ <<a, b>> \in order =>
              Cardinality(Below(S, order, a)) < Cardinality(Below(S, order, b))
<1> DEFINE A == Below(S, order, a)
           B == Below(S, order, b)
<1>1. A \subseteq S /\ B \subseteq S
  BY DEF Below
<1>2. IsFiniteSet(A) /\ IsFiniteSet(B)
  BY <1>1, FS_Subset
<1>3. a \notin A
  BY DEF Below, IsOrder
<1>4. /\ Cardinality(S) \in Nat /\ Cardinality(A) \in Nat /\ Cardinality(B) \in Nat
      /\ Cardinality(A) <= Cardinality(S) /\ (Cardinality(A) = Cardinality(S) => A = S)
  BY <1>1, <1>2, FS_Subset, FS_CardinalityType
<1>5. Cardinality(A) \in 0 .. Cardinality(S) - 1
  BY <1>3, <1>4
<1>6. ASSUME <<a, b>> \in order PROVE Cardinality(A) < Cardinality(B)
  <2>1. A \subseteq B
    BY <1>6 DEF Below, IsOrder
  <2>2. a \in B
    BY <1>6 DEF Below
  <2>3. Cardinality(A) <= Cardinality(B) /\ (Cardinality(A) = Cardinality(B) => A = B)
    BY <1>2, <2>1, FS_Subset
  <2> QED  BY <1>3, <1>4, <2>2, <2>3
<1> QED  BY <1>5, <1>6

\* Sorted lists every element once, the lower one first.
LEMMA SortedIs ==
  ASSUME NEW S, IsFiniteSet(S), NEW order, IsOrder(S, order)
  PROVE  /\ Sorted(S, order) \in Seq(S) /\ Len(Sorted(S, order)) = Cardinality(S)
         /\ Cardinality(S) \in Nat
         /\ \A c \in S : \E i \in 1 .. Cardinality(S) : Sorted(S, order)[i] = c
         /\ \A i, j \in 1 .. Cardinality(S) :
              i < j => <<Sorted(S, order)[i], Sorted(S, order)[j]>> \in order
<1> DEFINE n == Cardinality(S)
           rank == [c \in S |-> Cardinality(Below(S, order, c))]
           s == Sorted(S, order)
<1>1. n \in Nat
  BY FS_CardinalityType
<1>2. rank \in [S -> 0 .. n - 1]
  BY BelowTells
<1>3. \A a, b \in S : rank[a] = rank[b] => a = b
  <2> SUFFICES ASSUME NEW a \in S, NEW b \in S, rank[a] = rank[b], a # b PROVE FALSE
    OBVIOUS
  <2>1. <<a, b>> \in order \/ <<b, a>> \in order
    BY DEF IsOrder
  <2>2. rank[a] \in 0 .. n - 1 /\ rank[b] \in 0 .. n - 1
    BY <1>2
  <2>3. rank[a] < rank[b] \/ rank[b] < rank[a]
    BY <2>1, BelowTells
  <2> QED  BY <2>2, <2>3
<1>4. IsFiniteSet(0 .. n - 1) /\ Cardinality(0 .. n - 1) = n
  BY <1>1, FS_Interval
<1>5. \A k \in 0 .. n - 1 : \E c \in S : rank[c] = k
  <2>1. rank \in Injection(S, 0 .. n - 1)
    BY <1>2, <1>3 DEF Injection, IsInjective
  <2>2. rank \in Surjection(S, 0 .. n - 1)
    BY <1>4, <2>1, FS_Injection
  <2> QED  BY <2>2 DEF Surjection
<1>6. s = [i \in 1 .. n |-> CHOOSE c \in S : Cardinality(Below(S, order, c)) = i - 1]
  BY Zenon DEF Sorted, Below
<1> HIDE DEF s
<1>7. \A i \in 1 .. n : s[i] \in S /\ rank[s[i]] = i - 1
  <2> TAKE i \in 1 .. n
  <2>1. i - 1 \in 0 .. n - 1
    BY <1>1
  <2>2. \E c \in S : Cardinality(Below(S, order, c)) = i - 1
    BY <1>5, <2>1
  <2>3. s[i] = CHOOSE c \in S : Cardinality(Below(S, order, c)) = i - 1
    BY <1>6
  <2> QED  BY <2>2, <2>3
<1> HIDE DEF rank
<1>8. s \in Seq(S) /\ Len(s) = n
  <2>1. s \in [1 .. n -> S]
    BY <1>6, <1>7
  <2> QED  BY <1>1, <2>1, LenProperties
<1>9. \A c \in S : \E i \in 1 .. n : s[i] = c
  <2> TAKE c \in S
  <2>1. rank[c] \in 0 .. n - 1
    BY <1>2
  <2>2. rank[c] + 1 \in 1 .. n /\ (rank[c] + 1) - 1 = rank[c]
    BY <1>1, <2>1
  <2>3. s[rank[c] + 1] = c
    BY <1>3, <1>7, <2>2
  <2> QED  BY <2>2, <2>3
<1>10. ASSUME NEW i \in 1 .. n, NEW j \in 1 .. n, i < j
       PROVE  <<s[i], s[j]>> \in order
  <2>1. s[i] \in S /\ s[j] \in S /\ rank[s[i]] = i - 1 /\ rank[s[j]] = j - 1
    BY <1>7
  <2>2. s[i] # s[j] /\ ~(rank[s[j]] < rank[s[i]])
    BY <1>1, <1>10, <2>1
  <2>3. <<s[i], s[j]>> \in order \/ <<s[j], s[i]>> \in order
    BY <2>1, <2>2 DEF IsOrder
  <2>4. <<s[j], s[i]>> \in order => rank[s[j]] < rank[s[i]]
    BY <2>1, BelowTells DEF rank
  <2> QED  BY <2>2, <2>3, <2>4
<1> QED  BY <1>1, <1>8, <1>9, <1>10 DEF s

-----------------------------------------------------------------------------
(* Nodes in order *)

Table == [Nodes -> [Nodes -> Int]]

\* The nodes.
LEMMA NodesAre ==
  /\ Nodes \subseteq Nat /\ IsFiniteSet(Nodes)
  /\ Cardinality(Nodes) = NodeCount /\ NodeCount \in Nat
<1>1. NodeCount \in Nat /\ NodeCount # 0
  BY SizesAssumption
<1>2. IsFiniteSet(0 .. NodeCount - 1) /\ Cardinality(0 .. NodeCount - 1) = NodeCount
  BY <1>1, FS_Interval
<1> QED  BY <1>1, <1>2 DEF Nodes

\* The distances.
LEMMA TablesAre == Tables \subseteq Table
BY TablesAssumption DEF Table, Nodes

\* prune_candidate_less is a strict total order on the nodes.
LEMMA LessIsOrder ==
  ASSUME NEW d \in Table, NEW id \in Nodes, NEW S, S \subseteq Nodes
  PROVE  /\ IsOrder(S, Nearness(d, id, S))
         /\ \A a, b \in S : <<a, b>> \in Nearness(d, id, S) <=> Less(d, id, a, b)
<1>1. \A a, b \in S : <<a, b>> \in Nearness(d, id, S) <=> Less(d, id, a, b)
  BY DEF Nearness
<1>2. \A a \in S : d[id][a] \in Int /\ a \in Nat
  BY NodesAre DEF Table
<1>3. \A a, b \in S : Less(d, id, a, b) => ~Less(d, id, b, a)
  BY <1>2 DEF Less
<1>4. \A a, b, c \in S : Less(d, id, a, b) /\ Less(d, id, b, c) => Less(d, id, a, c)
  BY <1>2 DEF Less
<1>5. \A a, b \in S : a # b => Less(d, id, a, b) \/ Less(d, id, b, a)
  BY <1>2 DEF Less
<1> QED  BY <1>1, <1>3, <1>4, <1>5 DEF IsOrder

\* The order of the sequence, and that it repeats nothing.
LEMMA UniqueIs ==
  ASSUME NEW d \in Table, NEW id \in Nodes, NEW C, C \subseteq Nodes
  PROVE  /\ Unique(d, id, C) \in Seq(C \ {id})
         /\ \A c \in C \ {id} : \E i \in 1 .. Len(Unique(d, id, C)) : Unique(d, id, C)[i] = c
         /\ \A i, j \in 1 .. Len(Unique(d, id, C)) :
              i < j => Less(d, id, Unique(d, id, C)[i], Unique(d, id, C)[j])
<1> DEFINE S == C \ {id}
           s == Unique(d, id, C)
<1>1. S \subseteq Nodes /\ IsFiniteSet(S)
  BY NodesAre, FS_Subset
<1>2. s = Sorted(S, Nearness(d, id, S))
  BY DEF Unique
<1> HIDE DEF S, s
<1>3. IsOrder(S, Nearness(d, id, S))
  BY <1>1, LessIsOrder
<1>4. /\ s \in Seq(S) /\ Len(s) = Cardinality(S) /\ Cardinality(S) \in Nat
      /\ \A c \in S : \E i \in 1 .. Cardinality(S) : s[i] = c
      /\ \A i, j \in 1 .. Cardinality(S) : i < j => <<s[i], s[j]>> \in Nearness(d, id, S)
  BY <1>1, <1>2, <1>3, SortedIs
<1>5. ASSUME NEW i \in 1 .. Len(s), NEW j \in 1 .. Len(s), i < j
      PROVE  Less(d, id, s[i], s[j])
  <2>1. s[i] \in S /\ s[j] \in S
    BY <1>4
  <2> QED  BY <1>1, <1>4, <1>5, <2>1, LessIsOrder
<1> QED  BY <1>4, <1>5 DEF S, s

\* The targets are added once each.
LEMMA AscendingIs ==
  ASSUME NEW S, S \subseteq Nodes
  PROVE  /\ Ascending(S) \in Seq(S) /\ Len(Ascending(S)) \in Nat
         /\ \A i, j \in 1 .. Len(Ascending(S)) : Ascending(S)[i] = Ascending(S)[j] => i = j
<1> DEFINE order == {x \in S \X S : x[1] < x[2]}
           s == Ascending(S)
<1>1. IsFiniteSet(S) /\ S \subseteq Nat
  BY NodesAre, FS_Subset
<1>2. s = Sorted(S, order)
  BY DEF Ascending
<1>3. \A a, b \in S : <<a, b>> \in order <=> a < b
  OBVIOUS
<1> HIDE DEF order, s
<1>4. IsOrder(S, order)
  BY <1>1, <1>3 DEF IsOrder
<1>5. /\ s \in Seq(S) /\ Len(s) = Cardinality(S) /\ Cardinality(S) \in Nat
      /\ \A i, j \in 1 .. Cardinality(S) : i < j => <<s[i], s[j]>> \in order
  BY <1>1, <1>2, <1>4, SortedIs
<1>6. ASSUME NEW i \in 1 .. Len(s), NEW j \in 1 .. Len(s), s[i] = s[j], i # j
      PROVE  FALSE
  <2>1. i < j \/ j < i
    BY <1>5, <1>6
  <2>2. s[i] \in S /\ s[j] \in S
    BY <1>5
  <2>3. s[i] < s[j] \/ s[j] < s[i]
    BY <1>3, <1>5, <2>1, <2>2
  <2>4. s[i] \in Nat
    BY <1>1, <2>2
  <2> QED  BY <1>6, <2>3, <2>4
<1> QED  BY <1>5, <1>6 DEF s

\* The last level of alpha is the largest.
LEMMA AlphasGrow ==
  /\ Len(AlphaLevels) \in Nat \ {0} /\ LastAlpha \in Nat
  /\ \A l \in 1 .. Len(AlphaLevels) : AlphaLevels[l] \in Nat /\ AlphaLevels[l] <= LastAlpha
<1> DEFINE n == Len(AlphaLevels)
           T == {k \in 0 .. n - 1 : AlphaLevels[n - k] <= AlphaLevels[n]}
<1>1. n \in Nat \ {0} /\ \A l \in 1 .. n : AlphaLevels[l] \in Nat
  BY AlphaAssumption
<1>2. \A l \in 2 .. n : AlphaLevels[l - 1] < AlphaLevels[l]
  BY AlphaAssumption
<1>3. 0 \in T
  <2>1. n - 0 = n /\ 0 \in 0 .. n - 1 /\ n \in 1 .. n
    BY <1>1
  <2>2. AlphaLevels[n] <= AlphaLevels[n]
    BY <1>1, <2>1
  <2> QED  BY <2>1, <2>2
<1>4. ASSUME NEW k \in 0 .. n - 1, k # 0, k - 1 \in T
      PROVE  k \in T
  <2>1. n - (k - 1) \in 2 .. n /\ n - (k - 1) - 1 = n - k /\ n - k \in 1 .. n /\ n - (k - 1) \in 1 .. n
        /\ n \in 1 .. n
    BY <1>1, <1>4
  <2>2. AlphaLevels[n - k] < AlphaLevels[n - (k - 1)] /\ AlphaLevels[n - (k - 1)] <= AlphaLevels[n]
    BY <1>2, <1>4, <2>1
  <2>3. AlphaLevels[n - k] <= AlphaLevels[n]
    BY <1>1, <2>1, <2>2
  <2> QED  BY <1>4, <2>3
<1>5. n - 1 \in Nat
  BY <1>1
<1> HIDE DEF T
<1>6. 0 .. n - 1 \subseteq T
  BY <1>3, <1>4, <1>5, UpTo
<1>7. ASSUME NEW l \in 1 .. n PROVE AlphaLevels[l] <= AlphaLevels[n]
  <2>1. n - l \in 0 .. n - 1 /\ n - (n - l) = l
    BY <1>1
  <2>2. n - l \in T
    BY <1>6, <2>1
  <2> QED  BY <2>1, <2>2 DEF T
<1>8. n \in 1 .. n
  BY <1>1
<1> QED  BY <1>1, <1>7, <1>8 DEF LastAlpha

-----------------------------------------------------------------------------
(* Pruning *)

\* s stands for c, as StandsFor says of the distances of the run.
Stands(d, id, s, c) == LastAlpha * d[c][s] <= AlphaLevels[1] * d[id][c]

\* What holds of the kept neighbours at any time: they fit, are candidates, the
\* closest is among them and none stands for a later one.
Sound(d, id, u, s) ==
  /\ s \in Seq(Nodes) /\ Len(s) <= R
  /\ \A i \in 1 .. Len(s) : \E k \in 1 .. Len(u) : s[i] = u[k]
  /\ \A i, j \in 1 .. Len(s) : s[i] = s[j] => i = j
  /\ s # <<>> => s[1] = u[1]
  /\ \A i, j \in 1 .. Len(s) : i < j /\ d[s[j]][s[i]] >= 0 => ~Stands(d, id, s[i], s[j])

\* What lies behind a candidate: it is kept, or occluded.
Settled(d, id, alpha, s, c) == Contains(s, c) \/ Occluded(d, id, alpha, s, c)

\* A larger alpha occludes no more, for distances that are not negative.
LEMMA LargerAlpha ==
  ASSUME NEW a \in Nat, NEW b \in Nat, a <= b, NEW x \in Nat, NEW y \in Int, ~(a * x <= y)
  PROVE  ~(b * x <= y)
<1>1. a * x \in Nat /\ b * x \in Nat /\ (b - a) * x \in Nat /\ b * x = a * x + (b - a) * x
  OBVIOUS
<1> QED  BY <1>1

\* A candidate is kept, or settled, and nothing that was settled is lost.
LEMMA OfferKeeps ==
  ASSUME NEW d \in Table, NEW id \in Nodes, NEW alpha \in Nat, alpha <= LastAlpha,
         NEW u \in Seq(Nodes), NEW k \in 1 .. Len(u),
         NEW s, Sound(d, id, u, s), s = <<>> => k = 1,
         NEW t, t = Offer(d, id, alpha, s, u[k])
  PROVE  /\ Sound(d, id, u, t) /\ t # <<>>
         /\ \A c : Settled(d, id, alpha, s, c) => Settled(d, id, alpha, t, c)
         /\ Len(t) < R => Len(s) < R /\ Settled(d, id, alpha, t, u[k])
<1>1. s \in Seq(Nodes) /\ Len(s) \in Nat /\ Len(s) <= R /\ R \in Nat /\ R # 0 /\ u[k] \in Nodes
  BY RAssumption DEF Sound
<1>2. CASE t = s
  <2>1. Len(s) = R \/ Settled(d, id, alpha, s, u[k])
    <3>1. SUFFICES ASSUME ~(Len(s) = R), ~Settled(d, id, alpha, s, u[k]) PROVE FALSE
      OBVIOUS
    <3>2. t = Append(s, u[k])
      BY <3>1 DEF Offer, Settled
    <3>3. Len(t) = Len(s) + 1
      BY <1>1, <3>2
    <3> QED  BY <1>1, <1>2, <3>3
  <2>2. s # <<>>
    <3>1. SUFFICES ASSUME s = <<>> PROVE FALSE
      OBVIOUS
    <3>2. Len(s) = 0 /\ DOMAIN s = {}
      BY <3>1
    <3> QED  BY <1>1, <2>1, <3>2 DEF Settled, Contains, Occluded
  <2> QED  BY <1>1, <1>2, <2>1, <2>2
<1>3. CASE t # s
  <2>1. t = Append(s, u[k]) /\ ~(Len(s) = R) /\ ~Contains(s, u[k]) /\ ~Occluded(d, id, alpha, s, u[k])
    BY <1>3 DEF Offer
  <2> DEFINE n == Len(s)
  <2>2. /\ t \in Seq(Nodes) /\ Len(t) = n + 1 /\ t[n + 1] = u[k] /\ \A i \in 1 .. n : t[i] = s[i]
        /\ n < R /\ n + 1 <= R /\ n \in Nat
    BY <1>1, <2>1
  <2>3. t # <<>>
    BY <2>2
  <2>4. \A i \in 1 .. n : s[i] # u[k]
    BY <2>1 DEF Contains
  <2>5. \A i \in 1 .. n + 1 : i = n + 1 \/ i \in 1 .. n
    BY <2>2
  <2>6. \A i \in 1 .. n + 1 : \E m \in 1 .. Len(u) : t[i] = u[m]
    BY <2>2, <2>5 DEF Sound
  <2>7. \A i, j \in 1 .. n + 1 : t[i] = t[j] => i = j
    <3>1. \A i, j \in 1 .. n : s[i] = s[j] => i = j
      BY Zenon DEF Sound
    <3>2. \A i \in 1 .. n : t[i] # t[n + 1]
      BY <2>2, <2>4
    <3> QED  BY <2>2, <2>5, <3>1, <3>2
  <2>8. t[1] = u[1]
    <3>1. CASE s = <<>>
      <4>1. n = 0 /\ k = 1
        BY <3>1
      <4> QED  BY <2>2, <4>1
    <3>2. CASE s # <<>>
      <4>1. 1 \in 1 .. n
        BY <1>1, <3>2
      <4> QED  BY <2>2, <3>2, <4>1 DEF Sound
    <3> QED  BY <3>1, <3>2
  <2>9. ASSUME NEW i \in 1 .. n, d[u[k]][s[i]] >= 0 PROVE ~Stands(d, id, s[i], u[k])
    <3>1. ~(alpha * d[u[k]][s[i]] <= AlphaLevels[1] * d[id][u[k]])
      <4>1. i \in DOMAIN s
        BY <1>1, <2>9
      <4> QED  BY <2>1, <4>1 DEF Occluded
    <3>2. d[u[k]][s[i]] \in Nat /\ d[id][u[k]] \in Int
      <4>1. s[i] \in Nodes /\ u[k] \in Nodes
        BY <1>1
      <4>2. d[u[k]][s[i]] \in Int /\ d[id][u[k]] \in Int
        BY <4>1 DEF Table
      <4> QED  BY <2>9, <4>2
    <3>3. AlphaLevels[1] \in Nat /\ LastAlpha \in Nat
      <4>1. 1 \in 1 .. Len(AlphaLevels)
        BY AlphasGrow
      <4> QED  BY <4>1, AlphasGrow
    <3>4. AlphaLevels[1] * d[id][u[k]] \in Int
      BY <3>2, <3>3
    <3> QED  BY <3>1, <3>2, <3>3, <3>4, LargerAlpha DEF Stands
  <2>10. ASSUME NEW i \in 1 .. n + 1, NEW j \in 1 .. n + 1, i < j, d[t[j]][t[i]] >= 0
         PROVE  ~Stands(d, id, t[i], t[j])
    <3>1. i \in 1 .. n /\ t[i] = s[i]
      BY <2>2, <2>10
    <3>2. CASE j = n + 1
      <4>1. d[u[k]][s[i]] >= 0
        BY <2>2, <2>10, <3>1, <3>2
      <4> QED  BY <2>2, <2>9, <3>1, <3>2, <4>1
    <3>3. CASE j \in 1 .. n
      <4>1. t[j] = s[j] /\ d[s[j]][s[i]] >= 0
        BY <2>2, <2>10, <3>1, <3>3
      <4>2. ~Stands(d, id, s[i], s[j])
        BY <2>10, <3>1, <3>3, <4>1, Zenon DEF Sound
      <4> QED  BY <3>1, <4>1, <4>2
    <3> QED  BY <2>5, <3>2, <3>3
  <2>11. Sound(d, id, u, t)
    BY <2>2, <2>6, <2>7, <2>8, <2>10 DEF Sound
  <2>12. ASSUME NEW c, Settled(d, id, alpha, s, c) PROVE Settled(d, id, alpha, t, c)
    <3>1. \A i \in 1 .. n : i \in 1 .. Len(t) /\ i \in DOMAIN t
      BY <2>2
    <3>2. DOMAIN s = 1 .. n
      BY <1>1
    <3>3. CASE Contains(s, c)
      BY <2>2, <3>1, <3>3 DEF Settled, Contains
    <3>4. CASE Occluded(d, id, alpha, s, c)
      BY <2>2, <3>1, <3>2, <3>4 DEF Settled, Occluded
    <3> QED  BY <2>12, <3>3, <3>4 DEF Settled
  <2>13. Settled(d, id, alpha, t, u[k])
    <3>1. n + 1 \in 1 .. Len(t)
      BY <2>2
    <3> QED  BY <2>2, <3>1 DEF Settled, Contains
  <2> QED  BY <2>2, <2>3, <2>11, <2>12, <2>13
<1> QED  BY <1>2, <1>3

\* A pass keeps what is sound, and leaves nothing unsettled while there is room.
LEMMA PassIs ==
  ASSUME NEW d \in Table, NEW id \in Nodes, NEW alpha \in Nat, alpha <= LastAlpha,
         NEW u \in Seq(Nodes), NEW s, Sound(d, id, u, s),
         NEW t, t = Pass(d, id, alpha, u, s)
  PROVE  /\ Sound(d, id, u, t)
         /\ u # <<>> => t # <<>>
         /\ Len(t) < R => \A k \in 1 .. Len(u) : Settled(d, id, alpha, t, u[k])
<1> DEFINE n == Len(u)
           V == Seq(Nodes)
           turn == [x \in (1 .. n) \X V |-> Offer(d, id, alpha, x[2], u[x[1]])]
           IsKept(f) == f = [i \in 0 .. n |-> IF i = 0 THEN s ELSE Offer(d, id, alpha, f[i - 1], u[i])]
           kept == CHOOSE f : IsKept(f)
<1>1. n \in Nat /\ s \in V /\ \A k \in 1 .. n : u[k] \in Nodes
  BY DEF Sound
<1>2. turn \in [(1 .. n) \X V -> V]
  <2>1. ASSUME NEW x \in (1 .. n) \X V PROVE Offer(d, id, alpha, x[2], u[x[1]]) \in V
    <3>1. x[2] \in Seq(Nodes) /\ u[x[1]] \in Nodes
      BY <1>1
    <3> QED  BY <3>1 DEF Offer
  <2> QED  BY <2>1
<1>3. PICK f \in [0 .. n -> V] : IsIteration(n, s, turn, f)
  <2> HIDE DEF n, V, turn
  <2> QED  BY <1>1, <1>2, IterationExists
<1>4. IsKept(f)
  <2>1. \A i \in 0 .. n : i # 0 => turn[<<i, f[i - 1]>>] = Offer(d, id, alpha, f[i - 1], u[i])
    <3> TAKE i \in 0 .. n
    <3> SUFFICES ASSUME i # 0 PROVE turn[<<i, f[i - 1]>>] = Offer(d, id, alpha, f[i - 1], u[i])
      OBVIOUS
    <3>1. i \in 1 .. n /\ i - 1 \in 0 .. n
      BY <1>1
    <3>2. f[i - 1] \in V
      BY <1>3, <3>1
    <3>3. <<i, f[i - 1]>> \in (1 .. n) \X V
      BY <3>1, <3>2
    <3> QED  BY <3>3
  <2>2. f = [i \in 0 .. n |-> IF i = 0 THEN s ELSE turn[<<i, f[i - 1]>>]]
    BY <1>3 DEF IsIteration
  <2> HIDE DEF turn
  <2> QED  BY <2>1, <2>2
<1>5. IsKept(kept)
  BY <1>4
<1>6. t = kept[n]
  BY DEF Pass
<1> HIDE DEF kept
<1>7. /\ kept[0] = s
      /\ \A i \in 1 .. n : kept[i] = Offer(d, id, alpha, kept[i - 1], u[i])
  <2>1. \A i \in 0 .. n : kept[i] = IF i = 0 THEN s ELSE Offer(d, id, alpha, kept[i - 1], u[i])
    BY <1>5, Zenon
  <2>2. 0 \in 0 .. n /\ \A i \in 1 .. n : i \in 0 .. n /\ i # 0
    BY <1>1
  <2> QED  BY <2>1, <2>2
<1> DEFINE Holds(i) ==
             /\ Sound(d, id, u, kept[i])
             /\ i # 0 => kept[i] # <<>>
             /\ Len(kept[i]) < R => \A k \in 1 .. i : Settled(d, id, alpha, kept[i], u[k])
           S == {i \in 0 .. n : Holds(i)}
<1>8. 0 \in S
  BY <1>1, <1>7
<1>9. ASSUME NEW i \in 0 .. n, i # 0, i - 1 \in S
      PROVE  i \in S
  <2>1. Holds(i - 1) /\ i \in 1 .. n /\ kept[i] = Offer(d, id, alpha, kept[i - 1], u[i])
    BY <1>1, <1>7, <1>9
  <2>2. kept[i - 1] = <<>> => i = 1
    BY <1>1, <2>1
  <2>3. Sound(d, id, u, kept[i - 1])
    BY <2>1
  <2>4. /\ Sound(d, id, u, kept[i]) /\ kept[i] # <<>>
        /\ \A c : Settled(d, id, alpha, kept[i - 1], c) => Settled(d, id, alpha, kept[i], c)
        /\ Len(kept[i]) < R => Len(kept[i - 1]) < R /\ Settled(d, id, alpha, kept[i], u[i])
    BY <2>1, <2>2, <2>3, OfferKeeps
  <2>5. \A k \in 1 .. i : k = i \/ k \in 1 .. i - 1
    BY <2>1
  <2>6. Len(kept[i]) < R => \A k \in 1 .. i : Settled(d, id, alpha, kept[i], u[k])
    BY <2>1, <2>4, <2>5
  <2>7. Holds(i)
    BY <2>4, <2>6
  <2> QED  BY <1>9, <2>7
<1> HIDE DEF S
<1>10. 0 .. n \subseteq S
  BY <1>1, <1>8, <1>9, UpTo
<1>11. Holds(n)
  <2>1. n \in S
    BY <1>1, <1>10
  <2> QED  BY <2>1 DEF S
<1>12. u # <<>> => n # 0
  BY <1>1
<1> QED  BY <1>6, <1>11, <1>12

\* The passes for all levels: nothing is left unsettled under the last one.
LEMMA LevelsAre ==
  ASSUME NEW d \in Table, NEW id \in Nodes, NEW C, C \subseteq Nodes,
         NEW u, u = Unique(d, id, C), NEW t, t = Pruned(d, id, C)
  PROVE  /\ Sound(d, id, u, t)
         /\ u # <<>> => t # <<>>
         /\ Len(t) < R => \A k \in 1 .. Len(u) : Settled(d, id, LastAlpha, t, u[k])
<1> DEFINE n == Len(AlphaLevels)
           V == {s \in Seq(Nodes) : Sound(d, id, u, s)}
           turn == [x \in (1 .. n) \X V |-> Pass(d, id, AlphaLevels[x[1]], u, x[2])]
           IsKept(f) ==
             f = [i \in 0 .. n |-> IF i = 0 THEN <<>> ELSE Pass(d, id, AlphaLevels[i], u, f[i - 1])]
           kept == CHOOSE f : IsKept(f)
<1>1. /\ n \in Nat \ {0} /\ n \in 1 .. n
      /\ \A l \in 1 .. n : AlphaLevels[l] \in Nat /\ AlphaLevels[l] <= LastAlpha
  BY AlphasGrow
<1>2. u \in Seq(Nodes)
  <2>1. u \in Seq(C \ {id}) /\ C \ {id} \subseteq Nodes
    BY UniqueIs
  <2> QED  BY <2>1
<1>3. \A l \in 1 .. n : \A s \in V :
        LET p == Pass(d, id, AlphaLevels[l], u, s)
        IN  /\ p \in V /\ (u # <<>> => p # <<>>)
            /\ Len(p) < R => \A k \in 1 .. Len(u) : Settled(d, id, AlphaLevels[l], p, u[k])
  <2> TAKE l \in 1 .. n
  <2> TAKE s \in V
  <2> DEFINE p == Pass(d, id, AlphaLevels[l], u, s)
  <2>1. Sound(d, id, u, s) /\ AlphaLevels[l] \in Nat /\ AlphaLevels[l] <= LastAlpha
    BY <1>1
  <2>2. p = Pass(d, id, AlphaLevels[l], u, s)
    OBVIOUS
  <2> HIDE DEF p
  <2>3. /\ Sound(d, id, u, p) /\ (u # <<>> => p # <<>>)
        /\ Len(p) < R => \A k \in 1 .. Len(u) : Settled(d, id, AlphaLevels[l], p, u[k])
    BY <1>2, <2>1, <2>2, PassIs
  <2>4. p \in V
    BY <2>3 DEF Sound
  <2> QED  BY <2>3, <2>4 DEF p
<1>4. <<>> \in V
  <2>1. R \in Nat /\ <<>> \in Seq(Nodes) /\ Len(<<>>) = 0
    BY RAssumption
  <2>2. \A i \in 1 .. 0 : FALSE
    OBVIOUS
  <2> QED  BY <2>1, <2>2 DEF Sound
<1>5. turn \in [(1 .. n) \X V -> V]
  <2>1. ASSUME NEW x \in (1 .. n) \X V PROVE Pass(d, id, AlphaLevels[x[1]], u, x[2]) \in V
    <3>1. x[1] \in 1 .. n /\ x[2] \in V
      OBVIOUS
    <3> HIDE DEF V, n
    <3> QED  BY <1>3, <3>1
  <2> HIDE DEF V, n
  <2> QED  BY <2>1
<1> HIDE DEF V
<1>6. PICK f \in [0 .. n -> V] : IsIteration(n, <<>>, turn, f)
  <2>1. n \in Nat
    BY <1>1
  <2> HIDE DEF n, turn
  <2> QED  BY <1>4, <1>5, <2>1, IterationExists
<1>7. IsKept(f)
  <2>1. \A i \in 0 .. n : i # 0 => turn[<<i, f[i - 1]>>] = Pass(d, id, AlphaLevels[i], u, f[i - 1])
    <3> TAKE i \in 0 .. n
    <3> SUFFICES ASSUME i # 0
                 PROVE  turn[<<i, f[i - 1]>>] = Pass(d, id, AlphaLevels[i], u, f[i - 1])
      OBVIOUS
    <3>1. i \in 1 .. n /\ i - 1 \in 0 .. n
      BY <1>1
    <3>2. f[i - 1] \in V
      BY <1>6, <3>1
    <3>3. <<i, f[i - 1]>> \in (1 .. n) \X V
      BY <3>1, <3>2
    <3> QED  BY <3>3
  <2>2. f = [i \in 0 .. n |-> IF i = 0 THEN <<>> ELSE turn[<<i, f[i - 1]>>]]
    BY <1>6 DEF IsIteration
  <2> HIDE DEF turn
  <2> QED  BY <2>1, <2>2
<1>8. IsKept(kept)
  BY <1>7
<1>9. t = kept[n]
  BY Zenon DEF Pruned
<1> HIDE DEF kept
<1>10. /\ kept[0] = <<>>
       /\ \A i \in 1 .. n : kept[i] = Pass(d, id, AlphaLevels[i], u, kept[i - 1])
  <2>1. \A i \in 0 .. n : kept[i] = IF i = 0 THEN <<>> ELSE Pass(d, id, AlphaLevels[i], u, kept[i - 1])
    BY <1>8, Zenon
  <2>2. 0 \in 0 .. n /\ \A i \in 1 .. n : i \in 0 .. n /\ i # 0
    BY <1>1
  <2> QED  BY <2>1, <2>2
<1> DEFINE S == {i \in 0 .. n : kept[i] \in V}
<1>11. 0 \in S
  BY <1>1, <1>4, <1>10
<1>12. ASSUME NEW i \in 0 .. n, i # 0, i - 1 \in S
       PROVE  i \in S
  <2>1. i \in 1 .. n /\ kept[i - 1] \in V
    BY <1>1, <1>12
  <2>2. kept[i] \in V
    BY <1>3, <1>10, <2>1
  <2> QED  BY <1>12, <2>2
<1> HIDE DEF S
<1>13. 0 .. n \subseteq S
  BY <1>1, <1>11, <1>12, UpTo
<1>14. n - 1 \in 0 .. n /\ AlphaLevels[n] = LastAlpha
  BY <1>1 DEF LastAlpha
<1>15. kept[n - 1] \in V
  BY <1>13, <1>14 DEF S
<1>16. /\ t \in V /\ (u # <<>> => t # <<>>)
       /\ Len(t) < R => \A k \in 1 .. Len(u) : Settled(d, id, LastAlpha, t, u[k])
  BY <1>1, <1>3, <1>9, <1>10, <1>14, <1>15
<1> QED  BY <1>16 DEF V

\* The neighbours of a node, pruned from the candidates C.
WellPruned(d, id, C, t) ==
  /\ t \in Seq(Nodes) /\ Len(t) <= R
  /\ IsInjective(t) /\ Elements(t) \subseteq C \ {id}
  /\ \A c \in C \ {id} : c = t[1] \/ Less(d, id, t[1], c)
  /\ Len(t) < R => \A c \in (C \ {id}) \ Elements(t) : \E s \in Elements(t) : Stands(d, id, s, c)
  /\ \A i, j \in DOMAIN t : i < j /\ d[t[j]][t[i]] >= 0 => ~Stands(d, id, t[i], t[j])

\* What robust_prune_4bit returns, for any candidates.
LEMMA PrunedIs ==
  ASSUME NEW d \in Table, NEW id \in Nodes, NEW C, C \subseteq Nodes
  PROVE  WellPruned(d, id, C, Pruned(d, id, C))
<1> DEFINE t == Pruned(d, id, C)
           u == Unique(d, id, C)
<1>1. /\ Sound(d, id, u, t) /\ (u # <<>> => t # <<>>)
      /\ Len(t) < R => \A k \in 1 .. Len(u) : Settled(d, id, LastAlpha, t, u[k])
  BY LevelsAre
<1>2. /\ u \in Seq(C \ {id}) /\ \A c \in C \ {id} : \E i \in 1 .. Len(u) : u[i] = c
      /\ \A i, j \in 1 .. Len(u) : i < j => Less(d, id, u[i], u[j])
  BY UniqueIs
<1> HIDE DEF t, u
<1>3. t \in Seq(Nodes) /\ Len(t) <= R /\ Len(t) \in Nat /\ DOMAIN t = 1 .. Len(t) /\ Len(u) \in Nat
  BY <1>1, <1>2 DEF Sound
<1>4. IsInjective(t)
  BY <1>1, <1>3 DEF Sound, IsInjective
<1>5. Elements(t) \subseteq C \ {id}
  <2>1. \A i \in 1 .. Len(t) : \E k \in 1 .. Len(u) : t[i] = u[k]
    BY <1>1 DEF Sound
  <2>2. \A k \in 1 .. Len(u) : u[k] \in C \ {id}
    BY <1>2
  <2> QED  BY <1>3, <2>1, <2>2 DEF Elements
<1>6. ASSUME NEW c \in C \ {id} PROVE c = t[1] \/ Less(d, id, t[1], c)
  <2>1. PICK i \in 1 .. Len(u) : u[i] = c
    BY <1>2
  <2>2. u # <<>>
    BY <1>3, <2>1
  <2>3. t[1] = u[1]
    BY <1>1, <2>2 DEF Sound
  <2>4. i = 1 \/ (1 \in 1 .. Len(u) /\ 1 < i)
    BY <1>3, <2>1
  <2> QED  BY <1>2, <2>1, <2>3, <2>4
<1>7. ASSUME Len(t) < R, NEW c \in (C \ {id}) \ Elements(t)
      PROVE  \E s \in Elements(t) : Stands(d, id, s, c)
  <2>1. PICK k \in 1 .. Len(u) : u[k] = c
    BY <1>2
  <2>2. Settled(d, id, LastAlpha, t, c)
    BY <1>1, <1>7, <2>1
  <2>3. ~Contains(t, c)
    BY <1>3, <1>7 DEF Contains, Elements
  <2>4. PICK i \in DOMAIN t : LastAlpha * d[c][t[i]] <= AlphaLevels[1] * d[id][c]
    BY <2>2, <2>3 DEF Settled, Occluded
  <2> QED  BY <2>4 DEF Elements, Stands
<1>8. \A i, j \in DOMAIN t : i < j /\ d[t[j]][t[i]] >= 0 => ~Stands(d, id, t[i], t[j])
  BY <1>1, <1>3 DEF Sound
<1> QED  BY <1>3, <1>4, <1>5, <1>6, <1>7, <1>8 DEF WellPruned, t

-----------------------------------------------------------------------------
(* Searching *)

\* The states of a search that stays in N.
Inside(N) == [pool : SUBSET N, expanded : SUBSET N, marked : SUBSET N, stall : Nat]

\* A round of a search stays where the lists do.
LEMMA RoundInside ==
  ASSUME NEW N, NEW d, NEW g, NEW id, \A n \in N : Elements(g[n]) \subseteq N,
         NEW s \in Inside(N)
  PROVE  Round(d, g, id, s) \in Inside(N)
<1> DEFINE frontier == Closest(d, id, BeamWidth, s.pool \ s.expanded)
           fresh    == UNION {Elements(g[n]) : n \in frontier} \ s.marked
           pool     == Closest(d, id, L, s.pool \cup fresh)
           stalls   == Worst(d, id, pool) >= Worst(d, id, s.pool)
           stall    == IF Cardinality(pool) < L THEN s.stall ELSE IF stalls THEN s.stall + 1 ELSE 0
           stops    == frontier = {} \/ (EarlyStopHops # 0 /\ s.stall >= EarlyStopHops)
           t        == [pool |-> pool, expanded |-> s.expanded \cup frontier,
                        marked |-> s.marked \cup fresh, stall |-> stall]
<1>1. s.pool \subseteq N /\ s.expanded \subseteq N /\ s.marked \subseteq N /\ s.stall \in Nat
  BY DEF Inside
<1>2. frontier \subseteq N
  BY <1>1 DEF Closest
<1>3. fresh \subseteq N
  <2> HIDE DEF frontier
  <2> QED  BY <1>2
<1>4. pool \subseteq N
  <2> HIDE DEF fresh
  <2> QED  BY <1>1, <1>3 DEF Closest
<1>5. stall \in Nat
  <2> HIDE DEF pool, stalls
  <2> QED  BY <1>1
<1>6. Round(d, g, id, s) = IF stops THEN s ELSE t
  BY Zenon DEF Round
<1>7. t \in Inside(N)
  <2> HIDE DEF frontier, fresh, pool, stall
  <2> QED  BY <1>1, <1>2, <1>3, <1>4, <1>5 DEF Inside
<1> HIDE DEF t, stops
<1> QED  BY <1>6, <1>7

\* A search finds nothing outside a set of nodes that it starts in and no list leaves.
LEMMA FoundInside ==
  ASSUME NEW N, 0 \in N, NEW d, NEW g, NEW id, \A n \in N : Elements(g[n]) \subseteq N
  PROVE  Found(d, g, id) \subseteq N
<1> DEFINE n == NodeCount
           V == Inside(N)
           first == [pool |-> {0}, expanded |-> {}, marked |-> {0}, stall |-> 0]
           turn == [x \in (1 .. n) \X V |-> Round(d, g, id, x[2])]
           IsSearch(f) == f = [i \in 0 .. n |-> IF i = 0 THEN first ELSE Round(d, g, id, f[i - 1])]
           after == CHOOSE f : IsSearch(f)
<1>1. n \in Nat
  BY SizesAssumption
<1>2. first \in V
  BY DEF Inside
<1>3. \A s \in V : Round(d, g, id, s) \in V
  BY RoundInside
<1> HIDE DEF V, n, first
<1>4. turn \in [(1 .. n) \X V -> V]
  <2>1. ASSUME NEW x \in (1 .. n) \X V PROVE Round(d, g, id, x[2]) \in V
    <3>1. x[2] \in V
      OBVIOUS
    <3> QED  BY <1>3, <3>1
  <2> QED  BY <2>1
<1>5. PICK f \in [0 .. n -> V] : IsIteration(n, first, turn, f)
  <2> HIDE DEF turn
  <2> QED  BY <1>1, <1>2, <1>4, IterationExists
<1>6. IsSearch(f)
  <2>1. \A i \in 0 .. n : i # 0 => turn[<<i, f[i - 1]>>] = Round(d, g, id, f[i - 1])
    <3> TAKE i \in 0 .. n
    <3> SUFFICES ASSUME i # 0 PROVE turn[<<i, f[i - 1]>>] = Round(d, g, id, f[i - 1])
      OBVIOUS
    <3>1. i \in 1 .. n /\ i - 1 \in 0 .. n
      BY <1>1
    <3>2. f[i - 1] \in V
      BY <1>5, <3>1
    <3>3. <<i, f[i - 1]>> \in (1 .. n) \X V
      BY <3>1, <3>2
    <3> QED  BY <3>3
  <2>2. f = [i \in 0 .. n |-> IF i = 0 THEN first ELSE turn[<<i, f[i - 1]>>]]
    BY <1>5 DEF IsIteration
  <2> HIDE DEF turn
  <2> QED  BY <2>1, <2>2
<1>7. IsSearch(after)
  BY <1>6
<1>8. Found(d, g, id) = after[n].pool
  BY Zenon DEF Found, first, n
<1> HIDE DEF after
<1>9. /\ after[0] = first
      /\ \A i \in 1 .. n : after[i] = Round(d, g, id, after[i - 1])
  <2>1. \A i \in 0 .. n : after[i] = IF i = 0 THEN first ELSE Round(d, g, id, after[i - 1])
    BY <1>7, Zenon
  <2>2. 0 \in 0 .. n /\ \A i \in 1 .. n : i \in 0 .. n /\ i # 0
    BY <1>1
  <2> QED  BY <2>1, <2>2
<1> DEFINE S == {i \in 0 .. n : after[i] \in V}
<1>10. 0 \in S
  BY <1>1, <1>2, <1>9
<1>11. ASSUME NEW i \in 0 .. n, i # 0, i - 1 \in S
       PROVE  i \in S
  <2>1. i \in 1 .. n /\ after[i - 1] \in V
    BY <1>1, <1>11
  <2> QED  BY <1>3, <1>9, <1>11, <2>1
<1> HIDE DEF S
<1>12. 0 .. n \subseteq S
  BY <1>1, <1>10, <1>11, UpTo
<1>13. after[n] \in V
  <2>1. n \in S
    BY <1>1, <1>12
  <2> QED  BY <2>1 DEF S
<1> QED  BY <1>8, <1>13 DEF V, Inside

\* So does what a list is pruned from.
LEMMA PoolInside ==
  ASSUME NEW N, 0 \in N, NEW d, NEW g, NEW id, \A n \in N : Elements(g[n]) \subseteq N,
         NEW kept, kept \subseteq N
  PROVE  PrunePool(d, g, id, kept) \subseteq N
<1>1. Found(d, g, id) \subseteq N
  BY FoundInside
<1> QED  BY <1>1 DEF PrunePool, Capped, Closest

-----------------------------------------------------------------------------
(* Lists *)

\* A list that the caller can copy into the slots of node n.
Fits(n, list) == Len(list) <= R /\ IsInjective(list) /\ ~Contains(list, n)

\* A pruned list fits.
LEMMA PrunedFits ==
  ASSUME NEW d \in Table, NEW n \in Nodes, NEW C, C \subseteq Nodes
  PROVE  /\ Pruned(d, n, C) \in Seq(Nodes) /\ Fits(n, Pruned(d, n, C))
         /\ Elements(Pruned(d, n, C)) \subseteq C \ {n}
<1> DEFINE t == Pruned(d, n, C)
<1>1. t \in Seq(Nodes) /\ Len(t) <= R /\ IsInjective(t) /\ Elements(t) \subseteq C \ {n}
  BY PrunedIs DEF WellPruned
<1> HIDE DEF t
<1>2. ~Contains(t, n)
  <2>1. DOMAIN t = 1 .. Len(t)
    BY <1>1
  <2> QED  BY <1>1, <2>1 DEF Contains, Elements
<1> QED  BY <1>1, <1>2 DEF Fits, t

\* The list of a source after the new targets were added fits, and holds nothing else.
LEMMA LinkedFits ==
  ASSUME NEW d \in Table, NEW n \in Nodes, NEW list \in Seq(Nodes), Fits(n, list),
         NEW targets, targets \subseteq Nodes
  PROVE  /\ Linked(d, n, list, targets) \in Seq(Nodes)
         /\ Fits(n, Linked(d, n, list, targets))
         /\ Elements(Linked(d, n, list, targets)) \subseteq Elements(list) \cup targets
<1> DEFINE S == targets \ (Elements(list) \cup {n})
           more == Ascending(S)
           longer == list \o more
           k == Len(list)
<1>1. /\ k \in Nat /\ DOMAIN list = 1 .. k /\ S \subseteq Nodes
      /\ \A i \in 1 .. k : list[i] \in Nodes
  OBVIOUS
<1>2. /\ more \in Seq(S) /\ Len(more) \in Nat
      /\ \A i, j \in 1 .. Len(more) : more[i] = more[j] => i = j
  BY <1>1, AscendingIs
<1>3. Linked(d, n, list, targets)
        = IF longer = list \/ Len(longer) <= R THEN longer ELSE Pruned(d, n, Elements(longer))
  BY Zenon DEF Linked
<1>4. \A i \in 1 .. Len(more) : more[i] \in Nodes /\ more[i] # n /\ more[i] \in targets
                                /\ \A j \in 1 .. k : list[j] # more[i]
  <2> TAKE i \in 1 .. Len(more)
  <2>1. more[i] \in S
    BY <1>2
  <2> QED  BY <1>1, <2>1 DEF Elements
<1> HIDE DEF more
<1>5. /\ longer \in Seq(Nodes) /\ Len(longer) = k + Len(more) /\ DOMAIN longer = 1 .. k + Len(more)
      /\ \A i \in 1 .. k + Len(more) :
           longer[i] = IF i <= k THEN list[i] ELSE more[i - k]
  <2>1. more \in Seq(Nodes)
    BY <1>1, <1>2
  <2> QED  BY <1>1, <1>2, <2>1
<1>6. \A i \in 1 .. k + Len(more) : \/ i \in 1 .. k /\ longer[i] = list[i]
                                    \/ /\ i - k \in 1 .. Len(more) /\ i \notin 1 .. k
                                       /\ longer[i] = more[i - k]
  BY <1>1, <1>2, <1>5
<1> HIDE DEF longer
<1>7. Elements(longer) \subseteq Elements(list) \cup targets
  <2> SUFFICES ASSUME NEW i \in DOMAIN longer
               PROVE  longer[i] \in Elements(list) \cup targets
    BY DEF Elements
  <2>1. CASE i \in 1 .. k /\ longer[i] = list[i]
    BY <1>1, <2>1 DEF Elements
  <2>2. CASE i - k \in 1 .. Len(more) /\ longer[i] = more[i - k]
    BY <1>4, <2>2
  <2> QED  BY <1>5, <1>6, <2>1, <2>2
<1>8. ASSUME Len(longer) <= R PROVE Fits(n, longer)
  <2>1. IsInjective(list) /\ ~Contains(list, n)
    BY DEF Fits
  <2>2. \A i, j \in 1 .. k : list[i] = list[j] => i = j
    BY <1>1, <2>1 DEF IsInjective
  <2>3. \A i \in 1 .. k : list[i] # n
    BY <1>1, <2>1 DEF Contains
  <2>4. ASSUME NEW i \in 1 .. k + Len(more), NEW j \in 1 .. k + Len(more), longer[i] = longer[j]
        PROVE  i = j
    <3>1. CASE i \in 1 .. k /\ longer[i] = list[i]
      <4>1. j \in 1 .. k /\ longer[j] = list[j]
        BY <1>4, <1>6, <2>4, <3>1
      <4> QED  BY <2>2, <2>4, <3>1, <4>1
    <3>2. CASE i - k \in 1 .. Len(more) /\ longer[i] = more[i - k]
      <4>1. j - k \in 1 .. Len(more) /\ longer[j] = more[j - k]
        BY <1>4, <1>6, <2>4, <3>2
      <4>2. i - k = j - k
        BY <1>2, <2>4, <3>2, <4>1
      <4> QED  BY <1>1, <1>2, <4>2
    <3> QED  BY <1>6, <3>1, <3>2
  <2>5. IsInjective(longer)
    BY <1>5, <2>4 DEF IsInjective
  <2>6. \A i \in 1 .. k + Len(more) : longer[i] # n
    BY <1>4, <1>6, <2>3
  <2>7. ~Contains(longer, n)
    BY <1>5, <2>6 DEF Contains
  <2> QED  BY <1>8, <2>5, <2>7 DEF Fits
<1>9. CASE longer = list \/ Len(longer) <= R
  BY <1>3, <1>5, <1>7, <1>8, <1>9
<1>10. CASE ~(longer = list \/ Len(longer) <= R)
  <2>1. Elements(longer) \subseteq Nodes
    BY <1>5 DEF Elements
  <2>2. Linked(d, n, list, targets) = Pruned(d, n, Elements(longer))
    BY <1>3, <1>10
  <2> QED  BY <1>7, <2>1, <2>2, PrunedFits
<1> QED  BY <1>9, <1>10

-----------------------------------------------------------------------------
(* A batch or a pass, from the graph b before it *)

\* The graphs.
Graphs == [Nodes -> Seq(Nodes)]
AllFit(g) == \A n \in Nodes : Fits(n, g[n])

\* No list leaves the nodes before k, and only these have one.
ClosedBelow(g, k) ==
  \A n \in Nodes : g[n] = <<>> \/ (n < k /\ \A m \in Elements(g[n]) : m < k)

NewOf(st, bg) == IF st = "build" THEN Batch(bg) ELSE Nodes
KeptOf(st, b, n) == IF st = "build" THEN {} ELSE Elements(b[n])
FirstList(d, b, st, n) == Pruned(d, n, PrunePool(d, b, n, KeptOf(st, b, n)))
FirstGraph(d, b, st, bg) ==
  [n \in Nodes |-> IF n \in NewOf(st, bg) THEN FirstList(d, b, st, n) ELSE b[n]]

\* The groups, and the graph when those of td are still to be linked.
GroupsOf(f, new) == [s \in UNION {Elements(f[n]) : n \in new} |-> {n \in new : Contains(f[n], s)}]
LinkedGraph(d, f, gr, td) ==
  [n \in Nodes |-> IF n \in DOMAIN gr \ td THEN Linked(d, n, f[n], gr[n]) ELSE f[n]]

\* What the graph before a batch or a pass promises to it.
Base(b, st, bg) ==
  /\ b \in Graphs /\ AllFit(b)
  /\ st = "build" => bg \in 1 .. NodeCount /\ ClosedBelow(b, bg)

\* The nodes of a batch.
LEMMA BatchIs ==
  ASSUME NEW bg \in 0 .. NodeCount
  PROVE  /\ Batch(bg) \subseteq Nodes
         /\ \A n \in Batch(bg) : n < Lower(NodeCount, bg + BatchSize)
         /\ bg <= Lower(NodeCount, bg + BatchSize) /\ Lower(NodeCount, bg + BatchSize) <= NodeCount
         /\ Lower(NodeCount, bg + BatchSize) \in Nat
<1>1. NodeCount \in Nat /\ BatchSize \in Nat /\ BatchSize # 0 /\ bg \in Nat /\ bg <= NodeCount
  BY SizesAssumption
<1>2. Lower(NodeCount, bg + BatchSize) \in Nat /\ Lower(NodeCount, bg + BatchSize) <= NodeCount
      /\ bg <= Lower(NodeCount, bg + BatchSize)
  BY <1>1 DEF Lower
<1> HIDE DEF Lower
<1> QED  BY <1>1, <1>2 DEF Batch, Nodes

\* Node 0, where every search starts.
LEMMA ZeroIsNode == 0 \in Nodes
BY SizesAssumption DEF Nodes

\* The list that the search loop gives a node fits; while nodes are inserted, it names
\* nodes before the batch only.
LEMMA FirstListIs ==
  ASSUME NEW d \in Table, NEW b, NEW st, NEW bg, Base(b, st, bg), NEW n \in Nodes
  PROVE  /\ PrunePool(d, b, n, KeptOf(st, b, n)) \subseteq Nodes
         /\ FirstList(d, b, st, n) \in Seq(Nodes) /\ Fits(n, FirstList(d, b, st, n))
         /\ st = "build" => \A m \in Elements(FirstList(d, b, st, n)) : m < bg
<1> DEFINE C == PrunePool(d, b, n, KeptOf(st, b, n))
<1>1. \A m \in Nodes : Elements(b[m]) \subseteq Nodes
  BY DEF Base, Graphs, Elements
<1>2. KeptOf(st, b, n) \subseteq Nodes
  BY <1>1 DEF KeptOf
<1>3. C \subseteq Nodes
  BY <1>1, <1>2, ZeroIsNode, PoolInside
<1>4. ASSUME st = "build" PROVE \A m \in C : m < bg
  <2> DEFINE N == {m \in Nodes : m < bg}
  <2>1. bg \in Nat /\ 0 < bg /\ ClosedBelow(b, bg)
    BY <1>4, SizesAssumption DEF Base
  <2>2. 0 \in N
    BY <2>1, ZeroIsNode
  <2>3. ASSUME NEW m \in N PROVE Elements(b[m]) \subseteq N
    <3>1. m \in Nodes /\ Elements(b[m]) \subseteq Nodes
      BY <1>1
    <3>2. CASE b[m] = <<>>
      BY <3>2 DEF Elements
    <3>3. CASE b[m] # <<>>
      BY <2>1, <3>1, <3>3 DEF ClosedBelow
    <3> QED  BY <3>2, <3>3
  <2>4. KeptOf(st, b, n) \subseteq N
    BY <1>4 DEF KeptOf
  <2> HIDE DEF N
  <2>5. C \subseteq N
    BY <2>2, <2>3, <2>4, PoolInside
  <2> QED  BY <2>5 DEF N
<1>5. FirstList(d, b, st, n) = Pruned(d, n, C)
  BY DEF FirstList
<1> HIDE DEF C
<1>6. /\ Pruned(d, n, C) \in Seq(Nodes) /\ Fits(n, Pruned(d, n, C))
      /\ Elements(Pruned(d, n, C)) \subseteq C \ {n}
  BY <1>3, PrunedFits
<1> QED  BY <1>3, <1>4, <1>5, <1>6 DEF C

\* The graph with the lists of the search loop in it.
LEMMA FirstGraphIs ==
  ASSUME NEW d \in Table, NEW b, NEW st, NEW bg \in 0 .. NodeCount, Base(b, st, bg),
         NEW f, f = FirstGraph(d, b, st, bg)
  PROVE  /\ f \in Graphs /\ AllFit(f)
         /\ st = "build" => /\ ClosedBelow(f, Lower(NodeCount, bg + BatchSize))
                            /\ \A n \in Batch(bg) : \A m \in Elements(f[n]) : m < bg
<1>1. \A n \in Nodes : f[n] = IF n \in NewOf(st, bg) THEN FirstList(d, b, st, n) ELSE b[n]
  BY DEF FirstGraph
<1>2. \A n \in Nodes : /\ FirstList(d, b, st, n) \in Seq(Nodes) /\ Fits(n, FirstList(d, b, st, n))
                       /\ st = "build" => \A m \in Elements(FirstList(d, b, st, n)) : m < bg
  BY FirstListIs
<1>3. b \in Graphs /\ AllFit(b)
  BY DEF Base
<1>4. f \in Graphs
  <2>1. \A n \in Nodes : f[n] \in Seq(Nodes)
    BY <1>1, <1>2, <1>3 DEF Graphs
  <2>2. f = [n \in Nodes |-> f[n]]
    BY DEF FirstGraph
  <2> QED  BY <2>1, <2>2 DEF Graphs
<1>5. AllFit(f)
  BY <1>1, <1>2, <1>3 DEF AllFit
<1>6. ASSUME st = "build"
      PROVE  /\ ClosedBelow(f, Lower(NodeCount, bg + BatchSize))
             /\ \A n \in Batch(bg) : \A m \in Elements(f[n]) : m < bg
  <2> DEFINE top == Lower(NodeCount, bg + BatchSize)
  <2>1. Batch(bg) \subseteq Nodes /\ (\A n \in Batch(bg) : n < top) /\ bg <= top /\ top \in Nat
        /\ bg \in Nat
    BY BatchIs
  <2>2. NewOf(st, bg) = Batch(bg) /\ ClosedBelow(b, bg)
    BY <1>6 DEF NewOf, Base
  <2> HIDE DEF top
  <2>3. \A n \in Batch(bg) : \A m \in Elements(f[n]) : m < bg
    BY <1>1, <1>2, <1>6, <2>1, <2>2
  <2>4. ASSUME NEW n \in Nodes, f[n] # <<>>
        PROVE  n < top /\ \A m \in Elements(f[n]) : m < top
    <3>1. Elements(f[n]) \subseteq Nat /\ n \in Nat
      BY <1>4, NodesAre DEF Graphs, Elements
    <3>2. CASE n \in Batch(bg)
      BY <2>1, <2>3, <3>1, <3>2
    <3>3. CASE n \notin Batch(bg)
      <4>1. f[n] = b[n]
        BY <1>1, <2>2, <3>3
      <4>2. n < bg /\ \A m \in Elements(f[n]) : m < bg
        BY <2>2, <2>4, <4>1 DEF ClosedBelow
      <4> QED  BY <2>1, <3>1, <4>2
    <3> QED  BY <3>2, <3>3
  <2>5. ClosedBelow(f, top)
    BY <2>4 DEF ClosedBelow
  <2> QED  BY <2>3, <2>5 DEF top
<1> QED  BY <1>4, <1>5, <1>6

\* Linking keeps all of that, in whatever order the groups are taken.
LEMMA LinkedGraphIs ==
  ASSUME NEW d \in Table, NEW b, NEW st, NEW bg \in 0 .. NodeCount, Base(b, st, bg),
         NEW f, f = FirstGraph(d, b, st, bg),
         NEW gr, gr = GroupsOf(f, NewOf(st, bg)),
         NEW td, NEW g, g = LinkedGraph(d, f, gr, td)
  PROVE  /\ g \in Graphs /\ AllFit(g) /\ DOMAIN gr \subseteq Nodes
         /\ st = "build" => ClosedBelow(g, Lower(NodeCount, bg + BatchSize))
<1>1. /\ f \in Graphs /\ AllFit(f)
      /\ st = "build" => /\ ClosedBelow(f, Lower(NodeCount, bg + BatchSize))
                         /\ \A n \in Batch(bg) : \A m \in Elements(f[n]) : m < bg
  BY FirstGraphIs
<1>2. NewOf(st, bg) \subseteq Nodes
  BY BatchIs DEF NewOf
<1>3. \A n \in Nodes : Elements(f[n]) \subseteq Nodes /\ f[n] \in Seq(Nodes)
  BY <1>1 DEF Graphs, Elements
<1>4. DOMAIN gr = UNION {Elements(f[n]) : n \in NewOf(st, bg)}
      /\ \A s \in DOMAIN gr : gr[s] \subseteq NewOf(st, bg)
  BY DEF GroupsOf
<1>5. DOMAIN gr \subseteq Nodes
  BY <1>2, <1>3, <1>4
<1>6. \A n \in DOMAIN gr : /\ Linked(d, n, f[n], gr[n]) \in Seq(Nodes)
                           /\ Fits(n, Linked(d, n, f[n], gr[n]))
                           /\ Elements(Linked(d, n, f[n], gr[n])) \subseteq Elements(f[n]) \cup gr[n]
  <2> TAKE n \in DOMAIN gr
  <2>1. n \in Nodes /\ f[n] \in Seq(Nodes) /\ Fits(n, f[n]) /\ gr[n] \subseteq Nodes
    BY <1>1, <1>2, <1>3, <1>4, <1>5 DEF AllFit
  <2> QED  BY <2>1, LinkedFits
<1>7. \A n \in Nodes : g[n] = IF n \in DOMAIN gr \ td THEN Linked(d, n, f[n], gr[n]) ELSE f[n]
  BY DEF LinkedGraph
<1>8. g \in Graphs
  <2>1. \A n \in Nodes : g[n] \in Seq(Nodes)
    BY <1>3, <1>6, <1>7
  <2>2. g = [n \in Nodes |-> g[n]]
    BY DEF LinkedGraph
  <2> QED  BY <2>1, <2>2 DEF Graphs
<1>9. AllFit(g)
  BY <1>1, <1>6, <1>7 DEF AllFit
<1>10. ASSUME st = "build" PROVE ClosedBelow(g, Lower(NodeCount, bg + BatchSize))
  <2> DEFINE top == Lower(NodeCount, bg + BatchSize)
  <2>1. Batch(bg) \subseteq Nodes /\ (\A n \in Batch(bg) : n < top) /\ bg <= top /\ top \in Nat
        /\ bg \in Nat /\ NewOf(st, bg) = Batch(bg)
    BY <1>10, BatchIs DEF NewOf
  <2> HIDE DEF top
  <2>2. ClosedBelow(f, top)
    BY <1>1, <1>10 DEF top
  <2>3. \A n \in Batch(bg) : \A m \in Elements(f[n]) : m < bg
    BY <1>1, <1>10
  <2>4. ASSUME NEW n \in Nodes, g[n] # <<>>
        PROVE  n < top /\ \A m \in Elements(g[n]) : m < top
    <3>1. CASE n \in DOMAIN gr \ td
      <4>1. PICK m \in Batch(bg) : n \in Elements(f[m])
        BY <1>4, <2>1, <3>1
      <4>2. n < bg /\ n \in Nat
        BY <2>3, <4>1, NodesAre
      <4>3. gr[n] \subseteq Batch(bg)
        BY <1>4, <2>1, <3>1
      <4>4. Elements(g[n]) \subseteq Elements(f[n]) \cup gr[n]
        BY <1>6, <1>7, <3>1
      <4>5. \A x \in Elements(f[n]) : x < top
        <5>1. CASE f[n] = <<>>
          BY <5>1 DEF Elements
        <5>2. CASE f[n] # <<>>
          BY <2>2, <5>2 DEF ClosedBelow
        <5> QED  BY <5>1, <5>2
      <4> QED  BY <2>1, <4>2, <4>3, <4>4, <4>5
    <3>2. CASE n \notin DOMAIN gr \ td
      BY <1>7, <2>2, <2>4, <3>2 DEF ClosedBelow
    <3> QED  BY <3>1, <3>2
  <2>5. ClosedBelow(g, top)
    BY <2>4 DEF ClosedBelow
  <2> QED  BY <2>5 DEF top
<1> QED  BY <1>5, <1>8, <1>9, <1>10

-----------------------------------------------------------------------------
(* The invariant of the construction *)

Counters(st, sp, bg, ps) ==
  /\ st \in {"build", "refine", "done"} /\ sp \in {"search", "link"}
  /\ bg \in 0 .. NodeCount /\ ps \in 0 .. Passes
  /\ st = "refine" => ps < Passes

\* The nodes that the search loop has had in its batches.
SoFar(st, bg) ==
  IF st = "build" THEN Batch(bg)
  ELSE IF st = "refine" THEN 0 .. Lower(NodeCount, bg + BatchSize) - 1 ELSE {}

\* The search loop: the graph is as before it, and each list made is the one that
\* this graph gives, whichever thread made it and when.
Searching(d, g, b, st, bg, ls, td, gr) ==
  /\ g = b /\ gr = NoGroups
  /\ ls = [n \in DOMAIN ls |-> ls[n]] /\ DOMAIN ls \cup td = SoFar(st, bg)
  /\ \A n \in DOMAIN ls : ls[n] = FirstList(d, b, st, n)

\* The link loop: the sources that are done have what their groups give them.
Linking(d, g, b, st, bg, ls, td, gr) ==
  /\ st # "done" /\ ls = NoLists
  /\ gr = GroupsOf(FirstGraph(d, b, st, bg), NewOf(st, bg)) /\ td \subseteq DOMAIN gr
  /\ g = LinkedGraph(d, FirstGraph(d, b, st, bg), gr, td)

Phase(d, g, b, st, sp, bg, ls, td, gr) ==
  /\ sp = "search" => Searching(d, g, b, st, bg, ls, td, gr)
  /\ sp = "link" => Linking(d, g, b, st, bg, ls, td, gr)

BuildInv ==
  /\ dist \in Tables
  /\ Counters(stage, step, begin, pass)
  /\ Base(before, stage, begin)
  /\ Phase(dist, graph, before, stage, step, begin, lists, todo, groups)

\* The next node is added to the lists.
LEMMA SearchOne ==
  ASSUME NEW d, NEW g, NEW b, NEW st, NEW bg, NEW ls, NEW td, NEW gr,
         Searching(d, g, b, st, bg, ls, td, gr), NEW n \in td
  PROVE  Searching(d, g, b, st, bg, Put(ls, n, FirstList(d, b, st, n)), td \ {n}, gr)
<1> DEFINE list == FirstList(d, b, st, n)
           new == Put(ls, n, list)
<1>1. /\ DOMAIN new = DOMAIN ls \cup {n} /\ new = [m \in DOMAIN new |-> new[m]]
      /\ \A m \in DOMAIN new : new[m] = IF m = n THEN list ELSE ls[m]
  <2> HIDE DEF list
  <2> QED  BY DEF Put
<1> HIDE DEF new
<1>2. \A m \in DOMAIN new : new[m] = FirstList(d, b, st, m)
  BY <1>1 DEF Searching
<1>3. DOMAIN new \cup (td \ {n}) = SoFar(st, bg)
  BY <1>1 DEF Searching
<1>4. g = b /\ gr = NoGroups
  BY DEF Searching
<1>5. Searching(d, g, b, st, bg, new, td \ {n}, gr)
  BY <1>1, <1>2, <1>3, <1>4 DEF Searching
<1> QED  BY <1>5 DEF new

\* The lists go into the graph.
LEMMA StartsLinking ==
  ASSUME NEW d, NEW b, NEW st, NEW bg, st # "done",
         NEW f, f = FirstGraph(d, b, st, bg)
  PROVE  LET gr == GroupsOf(f, NewOf(st, bg))
         IN  Linking(d, f, b, st, bg, NoLists, DOMAIN gr, gr)
<1> DEFINE gr == GroupsOf(f, NewOf(st, bg))
<1> HIDE DEF gr
<1>1. f = [n \in Nodes |-> f[n]]
  BY DEF FirstGraph
<1>2. f = LinkedGraph(d, f, gr, DOMAIN gr)
  BY <1>1 DEF LinkedGraph
<1>3. gr = GroupsOf(f, NewOf(st, bg))
  BY DEF gr
<1>4. Linking(d, f, b, st, bg, NoLists, DOMAIN gr, gr)
  BY <1>2, <1>3 DEF Linking
<1> QED  BY <1>4 DEF gr

\* The next source is linked.
LinkStep(d, g, gr, s) == [g EXCEPT ![s] = Linked(d, s, g[s], gr[s])]

LEMMA LinkOne ==
  ASSUME NEW d, NEW f, NEW gr, NEW td, td \subseteq DOMAIN gr, NEW s \in td,
         NEW g, g = LinkedGraph(d, f, gr, td), DOMAIN gr \subseteq Nodes
  PROVE  LinkStep(d, g, gr, s) = LinkedGraph(d, f, gr, td \ {s})
<1> DEFINE h == [g EXCEPT ![s] = Linked(d, s, g[s], gr[s])]
<1>1. DOMAIN g = Nodes /\ s \in Nodes
      /\ \A n \in Nodes : g[n] = IF n \in DOMAIN gr \ td THEN Linked(d, n, f[n], gr[n]) ELSE f[n]
  BY DEF LinkedGraph
<1>2. g[s] = f[s]
  BY <1>1
<1>3. DOMAIN h = Nodes /\ h = [n \in Nodes |-> h[n]]
      /\ \A n \in Nodes : h[n] = IF n = s THEN Linked(d, s, f[s], gr[s]) ELSE g[n]
  BY <1>1, <1>2
<1> HIDE DEF h
<1>4. \A n \in Nodes : h[n] = IF n \in DOMAIN gr \ (td \ {s})
                              THEN Linked(d, n, f[n], gr[n]) ELSE f[n]
  BY <1>1, <1>3
<1>5. h = [n \in Nodes |-> IF n \in DOMAIN gr \ (td \ {s})
                           THEN Linked(d, n, f[n], gr[n]) ELSE f[n]]
  BY <1>3, <1>4
<1>6. h = LinkedGraph(d, f, gr, td \ {s})
  BY <1>5, Zenon DEF LinkedGraph
<1> QED  BY <1>6 DEF LinkStep, h

\* The graph with the lists in it.
Assigned(ls, g) == [n \in Nodes |-> IF n \in DOMAIN ls THEN ls[n] ELSE g[n]]

\* The lists that the search loop made are those of the new nodes.
LEMMA SearchDone ==
  ASSUME NEW d, NEW g, NEW b, NEW st \in {"build", "refine"}, NEW bg \in 0 .. NodeCount,
         NEW ls, NEW gr, Searching(d, g, b, st, bg, ls, {}, gr),
         st = "refine" => ~(bg + BatchSize < NodeCount)
  PROVE  /\ DOMAIN ls = NewOf(st, bg) /\ Assigned(ls, g) = FirstGraph(d, b, st, bg)
         /\ st = "refine" => ls = FirstGraph(d, b, st, bg)
<1>1. DOMAIN ls = NewOf(st, bg)
  <2>1. DOMAIN ls = SoFar(st, bg)
    BY DEF Searching
  <2>2. CASE st = "build"
    BY <2>1, <2>2 DEF SoFar, NewOf
  <2>3. CASE st = "refine"
    <3>1. Lower(NodeCount, bg + BatchSize) = NodeCount
      BY <2>3, SizesAssumption DEF Lower
    <3>2. SoFar(st, bg) = 0 .. Lower(NodeCount, bg + BatchSize) - 1 /\ NewOf(st, bg) = Nodes
      BY <2>3 DEF SoFar, NewOf
    <3> QED  BY <2>1, <3>1, <3>2 DEF Nodes
  <2> QED  BY <2>2, <2>3
<1>2. \A n \in DOMAIN ls : ls[n] = FirstList(d, b, st, n)
  BY DEF Searching
<1>3. g = b /\ ls = [n \in DOMAIN ls |-> ls[n]]
  BY DEF Searching
<1>4. Assigned(ls, g) = FirstGraph(d, b, st, bg)
  BY <1>1, <1>2, <1>3 DEF FirstGraph, Assigned
<1>5. ASSUME st = "refine" PROVE ls = FirstGraph(d, b, st, bg)
  <2>1. DOMAIN ls = Nodes /\ NewOf(st, bg) = Nodes
    BY <1>1, <1>5 DEF NewOf
  <2>2. ls = [n \in Nodes |-> ls[n]]
    BY <1>3, <2>1
  <2>3. FirstGraph(d, b, st, bg) = [n \in Nodes |-> FirstList(d, b, st, n)]
    BY <2>1 DEF FirstGraph
  <2> QED  BY <1>2, <2>1, <2>2, <2>3
<1> QED  BY <1>1, <1>4, <1>5

\* The graph at first.
LEMMA EmptyGraph == Base([n \in Nodes |-> <<>>], "build", 1)
<1> DEFINE g == [n \in Nodes |-> <<>>]
<1>1. g \in Graphs /\ \A n \in Nodes : g[n] = <<>>
  BY DEF Graphs
<1> HIDE DEF g
<1>2. \A n \in Nodes : Fits(n, <<>>)
  <2>1. Len(<<>>) = 0 /\ DOMAIN <<>> = {} /\ 0 <= R
    BY RAssumption
  <2> QED  BY <2>1 DEF Fits, IsInjective, Contains
<1>3. AllFit(g)
  BY <1>1, <1>2 DEF AllFit
<1>4. ClosedBelow(g, 1) /\ 1 \in 1 .. NodeCount
  BY <1>1, SizesAssumption DEF ClosedBelow
<1>5. Base(g, "build", 1)
  BY <1>1, <1>3, <1>4 DEF Base
<1> QED  BY <1>5 DEF g

\* The invariant holds at first.
LEMMA BuildInit == Init => BuildInv
<1> SUFFICES ASSUME Init PROVE BuildInv
  OBVIOUS
<1>1. /\ dist \in Tables /\ graph = [n \in Nodes |-> <<>>] /\ before = graph
      /\ begin = 1 /\ pass = 0 /\ step = "search" /\ lists = NoLists /\ groups = NoGroups
      /\ stage \in {"build", "done"} /\ todo = IF stage = "build" THEN Batch(1) ELSE {}
  BY DEF Init
<1>2. Counters(stage, step, begin, pass)
  BY <1>1, SizesAssumption DEF Counters
<1>3. Base(before, stage, begin)
  BY <1>1, EmptyGraph DEF Base
<1>4. Searching(dist, graph, before, stage, begin, lists, todo, groups)
  <2>1. DOMAIN lists = {} /\ lists = [n \in DOMAIN lists |-> lists[n]]
    BY <1>1 DEF NoLists
  <2>2. todo = SoFar(stage, begin)
    BY <1>1 DEF SoFar
  <2> QED  BY <1>1, <2>1, <2>2 DEF Searching
<1> QED  BY <1>1, <1>2, <1>3, <1>4 DEF BuildInv, Phase

\* Every step keeps it.
LEMMA BuildNext == BuildInv /\ [Next]_buildVars => BuildInv'
<1> SUFFICES ASSUME BuildInv, [Next]_buildVars PROVE BuildInv'
  OBVIOUS
<1> USE DEF BuildInv
<1>0. /\ dist \in Tables /\ Counters(stage, step, begin, pass) /\ Base(before, stage, begin)
      /\ Phase(dist, graph, before, stage, step, begin, lists, todo, groups)
      /\ dist \in Table /\ begin \in 0 .. NodeCount /\ pass \in 0 .. Passes
      /\ stage = "refine" => pass < Passes
      /\ NodeCount \in Nat /\ BatchSize \in Nat \ {0} /\ Passes \in Nat
  BY TablesAre, SizesAssumption DEF Counters
<1> HIDE DEF BuildInv
<1>1. ASSUME NEW n \in Nodes, InsertNode(n) \/ RefineNode(n) PROVE BuildInv'
  <2>1. /\ step = "search" /\ n \in todo /\ stage \in {"build", "refine"}
        /\ lists' = Put(lists, n, Pruned(dist, n, PrunePool(dist, graph, n, KeptOf(stage, graph, n))))
        /\ todo' = todo \ {n}
        /\ UNCHANGED <<dist, graph, stage, step, begin, pass, groups, before>>
    BY <1>1 DEF InsertNode, RefineNode, KeptOf
  <2>2. Searching(dist, graph, before, stage, begin, lists, todo, groups)
    BY <1>0, <2>1 DEF Phase
  <2>3. lists' = Put(lists, n, FirstList(dist, before, stage, n))
    BY <2>1, <2>2 DEF FirstList, Searching
  <2>4. Searching(dist, graph, before, stage, begin, lists', todo', groups)
    BY <2>1, <2>2, <2>3, SearchOne
  <2> QED  BY <1>0, <2>1, <2>4 DEF BuildInv, Phase
<1>2. ASSUME NEW n \in Nodes, LinkSource(n) PROVE BuildInv'
  <2>1. /\ step = "link" /\ n \in todo
        /\ graph' = [graph EXCEPT ![n] = Linked(dist, n, graph[n], groups[n])]
        /\ todo' = todo \ {n}
        /\ UNCHANGED <<dist, stage, step, begin, pass, lists, groups, before>>
    BY <1>2 DEF LinkSource
  <2> DEFINE f == FirstGraph(dist, before, stage, begin)
  <2>2. /\ stage # "done" /\ lists = NoLists
        /\ groups = GroupsOf(f, NewOf(stage, begin)) /\ todo \subseteq DOMAIN groups
        /\ graph = LinkedGraph(dist, f, groups, todo)
    BY <1>0, <2>1 DEF Phase, Linking
  <2> HIDE DEF f
  <2>3. f = FirstGraph(dist, before, stage, begin)
    BY DEF f
  <2>4. DOMAIN groups \subseteq Nodes
    BY <1>0, <2>2, <2>3, LinkedGraphIs
  <2>5. graph' = LinkedGraph(dist, f, groups, todo \ {n})
    <3>1. graph' = LinkStep(dist, graph, groups, n)
      BY <2>1 DEF LinkStep
    <3>2. LinkStep(dist, graph, groups, n) = LinkedGraph(dist, f, groups, todo \ {n})
      BY <2>1, <2>2, <2>4, LinkOne
    <3> QED  BY <3>1, <3>2
  <2>6. Linking(dist, graph', before, stage, begin, lists, todo', groups)
    BY <2>1, <2>2, <2>5 DEF Linking, f
  <2> QED  BY <1>0, <2>1, <2>6 DEF BuildInv, Phase
<1>3. CASE AssignBatch
  <2>1. /\ stage = "build" /\ step = "search" /\ todo = {}
        /\ graph' = [n \in Nodes |-> IF n \in DOMAIN lists THEN lists[n] ELSE graph[n]]
        /\ groups' = GroupsOf(graph', DOMAIN lists)
        /\ step' = "link" /\ todo' = DOMAIN groups' /\ lists' = NoLists
        /\ UNCHANGED <<dist, stage, begin, pass, before>>
    BY <1>3, Zenon DEF AssignBatch, StartLinking, Backedges, GroupsOf
  <2>2. Searching(dist, graph, before, stage, begin, lists, {}, groups)
    BY <1>0, <2>1 DEF Phase
  <2>3. DOMAIN lists = NewOf(stage, begin) /\ graph' = FirstGraph(dist, before, stage, begin)
    <3>1. stage \in {"build", "refine"} /\ stage # "refine"
      BY <2>1
    <3>2. /\ DOMAIN lists = NewOf(stage, begin)
          /\ Assigned(lists, graph) = FirstGraph(dist, before, stage, begin)
      BY <1>0, <2>2, <3>1, SearchDone
    <3>3. graph' = Assigned(lists, graph)
      BY <2>1 DEF Assigned
    <3> QED  BY <3>2, <3>3
  <2>4. Linking(dist, graph', before, stage, begin, lists', todo', groups')
    BY <2>1, <2>3, StartsLinking
  <2>5. Counters(stage, step', begin, pass)
    BY <1>0, <2>1 DEF Counters
  <2> QED  BY <1>0, <2>1, <2>4, <2>5 DEF BuildInv, Phase
<1>4. CASE SwapGraph
  <2>1. /\ stage = "refine" /\ step = "search" /\ todo = {} /\ ~MoreBatches
        /\ graph' = lists /\ groups' = GroupsOf(graph', Nodes)
        /\ step' = "link" /\ todo' = DOMAIN groups' /\ lists' = NoLists
        /\ UNCHANGED <<dist, stage, begin, pass, before>>
    BY <1>4, Zenon DEF SwapGraph, StartLinking, Backedges, GroupsOf
  <2>2. Searching(dist, graph, before, stage, begin, lists, {}, groups)
    BY <1>0, <2>1 DEF Phase
  <2>3. graph' = FirstGraph(dist, before, stage, begin) /\ Nodes = NewOf(stage, begin)
    <3>1. /\ stage \in {"build", "refine"} /\ ~(begin + BatchSize < NodeCount)
          /\ NewOf(stage, begin) = Nodes
      BY <2>1 DEF MoreBatches, NewOf
    <3>2. lists = FirstGraph(dist, before, stage, begin)
      BY <1>0, <2>1, <2>2, <3>1, SearchDone
    <3> QED  BY <2>1, <3>1, <3>2
  <2>4. Linking(dist, graph', before, stage, begin, lists', todo', groups')
    BY <2>1, <2>3, StartsLinking
  <2>5. Counters(stage, step', begin, pass)
    BY <1>0, <2>1 DEF Counters
  <2> QED  BY <1>0, <2>1, <2>4, <2>5 DEF BuildInv, Phase
<1>5. CASE NextRefineBatch
  <2>1. /\ stage = "refine" /\ step = "search" /\ todo = {} /\ begin + BatchSize < NodeCount
        /\ begin' = begin + BatchSize /\ todo' = Batch(begin + BatchSize)
        /\ UNCHANGED <<dist, graph, stage, step, pass, lists, groups, before>>
    BY <1>5 DEF NextRefineBatch, MoreBatches
  <2>2. Searching(dist, graph, before, stage, begin, lists, {}, groups)
    BY <1>0, <2>1 DEF Phase
  <2>3. Lower(NodeCount, begin + BatchSize) = begin + BatchSize
    BY <1>0, <2>1 DEF Lower
  <2>4. begin' \in 0 .. NodeCount
    BY <1>0, <2>1
  <2>5. begin' <= Lower(NodeCount, begin' + BatchSize) /\ Lower(NodeCount, begin' + BatchSize) \in Nat
    BY <2>4, BatchIs
  <2>6. DOMAIN lists \cup todo' = SoFar(stage, begin')
    <3>1. DOMAIN lists = 0 .. begin' - 1
      BY <2>1, <2>2, <2>3 DEF Searching, SoFar
    <3>2. SoFar(stage, begin') = 0 .. Lower(NodeCount, begin' + BatchSize) - 1
      BY <2>1 DEF SoFar
    <3>3. todo' = begin' .. Lower(NodeCount, begin' + BatchSize) - 1
      BY <2>1 DEF Batch
    <3> QED  BY <2>4, <2>5, <3>1, <3>2, <3>3
  <2>7. Searching(dist, graph, before, stage, begin', lists, todo', groups)
    BY <2>2, <2>6 DEF Searching
  <2>8. Counters(stage, step, begin', pass) /\ Base(before, stage, begin')
    BY <1>0, <2>1, <2>4 DEF Counters, Base
  <2> QED  BY <1>0, <2>1, <2>7, <2>8 DEF BuildInv, Phase
<1>6. CASE NextBatch
  <2>1. /\ step = "link" /\ todo = {} /\ groups' = NoGroups /\ before' = graph /\ step' = "search"
        /\ pass' = IF stage = "refine" THEN pass + 1 ELSE pass
        /\ UNCHANGED <<dist, graph, lists>>
    BY <1>6 DEF NextBatch
  <2>2. \/ /\ stage = "build" /\ begin + BatchSize < NodeCount
           /\ stage' = "build" /\ begin' = begin + BatchSize /\ todo' = Batch(begin')
        \/ pass' < Passes /\ stage' = "refine" /\ begin' = 0 /\ todo' = Batch(0)
        \/ stage' = "done" /\ begin' = begin /\ todo' = {}
    BY <1>6 DEF NextBatch, MoreBatches
  <2> DEFINE f == FirstGraph(dist, before, stage, begin)
  <2>3. /\ lists = NoLists /\ groups = GroupsOf(f, NewOf(stage, begin))
        /\ graph = LinkedGraph(dist, f, groups, todo)
    BY <1>0, <2>1 DEF Phase, Linking
  <2> HIDE DEF f
  <2>4. f = FirstGraph(dist, before, stage, begin)
    BY DEF f
  <2>5. /\ graph \in Graphs /\ AllFit(graph)
        /\ stage = "build" => ClosedBelow(graph, Lower(NodeCount, begin + BatchSize))
    BY <1>0, <2>3, <2>4, LinkedGraphIs
  <2>6. pass' \in 0 .. Passes
    BY <1>0, <2>1
  <2>7. DOMAIN lists' = {} /\ lists' = [n \in DOMAIN lists' |-> lists'[n]]
    BY <2>1, <2>3 DEF NoLists
  <2>8. Counters(stage', step', begin', pass')
    BY <1>0, <2>1, <2>2, <2>6 DEF Counters
  <2>9. Base(before', stage', begin')
    <3>1. CASE stage' # "build"
      BY <2>1, <2>5, <3>1 DEF Base
    <3>2. CASE stage' = "build"
      <4>1. stage = "build" /\ begin + BatchSize < NodeCount /\ begin' = begin + BatchSize
        BY <2>2, <3>2
      <4>2. Lower(NodeCount, begin + BatchSize) = begin' /\ begin' \in 1 .. NodeCount
        BY <1>0, <4>1 DEF Lower
      <4> QED  BY <2>1, <2>5, <4>1, <4>2 DEF Base
    <3> QED  BY <3>1, <3>2
  <2>10. todo' = SoFar(stage', begin')
    BY <2>2 DEF SoFar, Batch
  <2>11. Searching(dist, graph', before', stage', begin', lists', todo', groups')
    BY <2>1, <2>7, <2>10 DEF Searching
  <2> QED  BY <1>0, <2>1, <2>8, <2>9, <2>11 DEF BuildInv, Phase
<1>7. CASE UNCHANGED buildVars
  BY <1>0, <1>7 DEF buildVars, BuildInv
<1> QED  BY <1>1, <1>2, <1>3, <1>4, <1>5, <1>6, <1>7 DEF Next

\* The inductive invariant holds.
THEOREM BuildInvariant == Spec => []BuildInv
BY BuildInit, BuildNext, PTL DEF Spec

-----------------------------------------------------------------------------
(* What follows from it *)

\* The nodes the search loop has had are nodes.
LEMMA SoFarIs ==
  ASSUME NEW st, NEW bg \in 0 .. NodeCount
  PROVE  SoFar(st, bg) \subseteq Nodes
<1>1. Batch(bg) \subseteq Nodes /\ NodeCount \in Nat
      /\ Lower(NodeCount, bg + BatchSize) <= NodeCount /\ Lower(NodeCount, bg + BatchSize) \in Nat
  BY BatchIs, SizesAssumption
<1> QED  BY <1>1 DEF SoFar, Nodes

\* What the invariant says of the graph in both loops.
LEMMA BuildStateIs ==
  ASSUME BuildInv
  PROVE  /\ graph \in Graphs /\ AllFit(graph)
         /\ todo \subseteq Nodes /\ DOMAIN lists \subseteq Nodes /\ DOMAIN groups \subseteq Nodes
<1>1. /\ dist \in Table /\ step \in {"search", "link"} /\ begin \in 0 .. NodeCount
      /\ Base(before, stage, begin)
      /\ Phase(dist, graph, before, stage, step, begin, lists, todo, groups)
  BY TablesAre DEF BuildInv, Counters
<1>2. CASE step = "search"
  <2>1. graph = before /\ groups = NoGroups /\ DOMAIN lists \cup todo = SoFar(stage, begin)
    BY <1>1, <1>2 DEF Phase, Searching
  <2>2. SoFar(stage, begin) \subseteq Nodes
    BY <1>1, SoFarIs
  <2> QED  BY <1>1, <2>1, <2>2 DEF Base, NoGroups
<1>3. CASE step = "link"
  <2> DEFINE f == FirstGraph(dist, before, stage, begin)
  <2>1. /\ lists = NoLists /\ groups = GroupsOf(f, NewOf(stage, begin)) /\ todo \subseteq DOMAIN groups
        /\ graph = LinkedGraph(dist, f, groups, todo)
    BY <1>1, <1>3 DEF Phase, Linking
  <2>2. f = FirstGraph(dist, before, stage, begin)
    OBVIOUS
  <2> HIDE DEF f
  <2>3. graph \in Graphs /\ AllFit(graph) /\ DOMAIN groups \subseteq Nodes
    BY <1>1, <2>1, <2>2, LinkedGraphIs
  <2> QED  BY <2>1, <2>3 DEF NoLists
<1> QED  BY <1>1, <1>2, <1>3

\* The state stays well formed: every list names nodes, batches and passes are counted.
THEOREM BuildTypes == Spec => []TypeOK
<1>1. BuildInv => TypeOK
  <2> SUFFICES ASSUME BuildInv PROVE TypeOK
    OBVIOUS
  <2>1. /\ dist \in Tables /\ Counters(stage, step, begin, pass) /\ before \in Graphs
    BY DEF BuildInv, Base
  <2>2. /\ graph \in Graphs /\ todo \subseteq Nodes
        /\ DOMAIN lists \subseteq Nodes /\ DOMAIN groups \subseteq Nodes
    BY BuildStateIs
  <2> QED  BY <2>1, <2>2 DEF TypeOK, Counters, Graphs
<1> QED  BY <1>1, BuildInvariant, PTL

\* No list of the graph is ever longer than R, names its own node or a node twice.
THEOREM ListsAlwaysFit == Spec => []ListsFit
<1>1. BuildInv => ListsFit
  <2> SUFFICES ASSUME BuildInv PROVE ListsFit
    OBVIOUS
  <2>1. AllFit(graph)
    BY BuildStateIs
  <2> QED  BY <2>1 DEF AllFit, Fits, ListsFit
<1> QED  BY <1>1, BuildInvariant, PTL

\* The searches of a batch see the nodes before it and nothing else.
THEOREM PrefixIsClosed == Spec => []SearchedPrefixIsClosed
<1>1. BuildInv => SearchedPrefixIsClosed
  <2> SUFFICES ASSUME BuildInv, stage = "build", step = "search"
               PROVE  ClosedBelow(graph, begin)
    BY DEF SearchedPrefixIsClosed, ClosedBelow
  <2>1. graph = before /\ Base(before, stage, begin)
    BY DEF BuildInv, Phase, Searching
  <2> QED  BY <2>1 DEF Base
<1> QED  BY <1>1, BuildInvariant, PTL

\* Whatever the order in which threads take nodes and groups, the graph after a batch
\* or a pass is the one that the graph before it gives.
THEOREM AnyOrderSameGraph == Spec => []OrderDoesNotMatter
<1>1. BuildInv => OrderDoesNotMatter
  <2> SUFFICES ASSUME BuildInv, step = "link", todo = {} PROVE graph = Outcome
    BY DEF OrderDoesNotMatter
  <2> DEFINE new == NewOf(stage, begin)
             f == FirstGraph(dist, before, stage, begin)
             back(n) == {m \in new : Contains(f[m], n)}
  <2>1. groups = GroupsOf(f, new) /\ graph = LinkedGraph(dist, f, groups, {})
        /\ stage # "done"
    BY DEF BuildInv, Phase, Linking
  <2>2. Outcome = [n \in Nodes |-> IF back(n) = {} THEN f[n] ELSE Linked(dist, n, f[n], back(n))]
    BY Zenon DEF Outcome, NewOf, FirstGraph, FirstList, KeptOf
  <2>3. \A m \in new : f[m] \in Seq(Nodes)
    <3>1. dist \in Table /\ begin \in 0 .. NodeCount /\ Base(before, stage, begin)
      BY TablesAre DEF BuildInv, Counters
    <3>2. new \subseteq Nodes
      BY <3>1, BatchIs DEF NewOf
    <3>3. f = FirstGraph(dist, before, stage, begin)
      OBVIOUS
    <3> HIDE DEF f, new
    <3>4. f \in Graphs
      BY <3>1, <3>3, FirstGraphIs
    <3> QED  BY <3>2, <3>4 DEF Graphs
  <2> HIDE DEF f, new
  <2>4. ASSUME NEW n \in Nodes
        PROVE  (n \in DOMAIN groups <=> back(n) # {}) /\ (n \in DOMAIN groups => groups[n] = back(n))
    <3>1. \A m \in new : n \in Elements(f[m]) <=> Contains(f[m], n)
      BY <2>3 DEF Elements, Contains
    <3>2. DOMAIN groups = UNION {Elements(f[m]) : m \in new}
          /\ \A s \in DOMAIN groups : groups[s] = back(s)
      BY <2>1 DEF GroupsOf
    <3> QED  BY <3>1, <3>2
  <2>5. \A n \in Nodes : (IF n \in DOMAIN groups \ {} THEN Linked(dist, n, f[n], groups[n]) ELSE f[n])
                          = IF back(n) = {} THEN f[n] ELSE Linked(dist, n, f[n], back(n))
    <3> HIDE DEF back
    <3> QED  BY <2>4
  <2>6. graph = [n \in Nodes |-> IF n \in DOMAIN groups \ {}
                                 THEN Linked(dist, n, f[n], groups[n]) ELSE f[n]]
    BY <2>1 DEF LinkedGraph
  <2> HIDE DEF back
  <2> QED  BY <2>2, <2>5, <2>6
<1> QED  BY <1>1, BuildInvariant, PTL

\* Every list of the search loop has the closest candidate first, drops one while there
\* is room only if a kept one stands for it, and keeps none that an earlier one stands for.
THEOREM PruningKeepsItsPromise == Spec => []ListsArePruned
<1>1. BuildInv => ListsArePruned
  <2> SUFFICES ASSUME BuildInv PROVE ListsArePruned
    OBVIOUS
  <2>1. ASSUME step = "search", NEW id \in DOMAIN lists
        PROVE  \E C : WellPruned(dist, id, C, lists[id]) /\ C \ {id} = CandidatesOf(id)
    <3> DEFINE C == PrunePool(dist, before, id, KeptOf(stage, before, id))
    <3>1. /\ dist \in Table /\ begin \in 0 .. NodeCount /\ Base(before, stage, begin)
          /\ stage \in {"build", "refine", "done"}
          /\ Searching(dist, graph, before, stage, begin, lists, todo, groups)
      BY <2>1, TablesAre DEF BuildInv, Counters, Phase
    <3>2. id \in Nodes
      BY BuildStateIs
    <3>3. lists[id] = Pruned(dist, id, C) /\ graph = before /\ stage # "done"
      BY <3>1 DEF Searching, FirstList, SoFar
    <3>4. C \subseteq Nodes
      BY <3>1, <3>2, FirstListIs
    <3>5. CandidatesOf(id) = C \ {id}
      BY <3>1, <3>3 DEF CandidatesOf, KeptOf
    <3> HIDE DEF C
    <3>6. WellPruned(dist, id, C, lists[id])
      BY <3>1, <3>2, <3>3, <3>4, PrunedIs
    <3> QED  BY <3>5, <3>6
  <2>2. KeepsNearest
    BY <2>1 DEF KeepsNearest, WellPruned
  <2>3. DropsOnlyOccluded
    BY <2>1 DEF DropsOnlyOccluded, WellPruned, Stands, StandsFor
  <2>4. KeptAreDiverse
    BY <2>1 DEF KeptAreDiverse, WellPruned, Stands, StandsFor
  <2> QED  BY <2>2, <2>3, <2>4 DEF ListsArePruned
<1> QED  BY <1>1, BuildInvariant, PTL

-----------------------------------------------------------------------------
(* The visited tags, for every width of a tag and every size of the array *)

USE MaxTagAssumption, MaxNodesAssumption

\* After the first reset the current tag is at least 1, so that 0, the tag
\* of a place never marked, is not the current one.
TagInv ==
  /\ TagsTypeOK
  /\ NoTagAhead
  /\ size > 0 => current >= 1

\* The new tag is above every tag of the array it is used with.
LEMMA NextTagIsNew ==
  ASSUME TagsTypeOK, NoTagAhead, NEW n \in 0 .. MaxNodes, Reset(n)
  PROVE  /\ size' \in 0 .. MaxNodes /\ nodes' \in 0 .. size'
         /\ tags' \in [0 .. size' - 1 -> 0 .. MaxTag]
         /\ current' \in 1 .. MaxTag
         /\ \A i \in 0 .. size' - 1 : tags'[i] < current'
<1> DEFINE grown == [i \in 0 .. size' - 1 |-> IF i < size THEN tags[i] ELSE 0]
<1>1. size' \in 0 .. MaxNodes /\ size <= size' /\ nodes' \in 0 .. size'
  BY DEF Reset, TagsTypeOK
<1>2. grown \in [0 .. size' - 1 -> 0 .. MaxTag] /\ \A i \in 0 .. size' - 1 : grown[i] <= current
  <2>1. \A i \in 0 .. size' - 1 : grown[i] \in 0 .. MaxTag /\ grown[i] <= current
    <3> TAKE i \in 0 .. size' - 1
    <3>1. CASE i < size
      <4>1. i \in 0 .. size - 1  BY <1>1, <3>1 DEF TagsTypeOK
      <4>2. tags[i] \in 0 .. MaxTag /\ tags[i] <= current
        BY <4>1 DEF TagsTypeOK, NoTagAhead
      <4> QED  BY <3>1, <4>2
    <3>2. CASE ~(i < size)
      <4>1. grown[i] = 0  BY <3>2
      <4> QED  BY <4>1 DEF TagsTypeOK
    <3> QED  BY <3>1, <3>2
  <2> QED  BY <2>1
<1>3. PICK g \in [0 .. size' - 1 -> 0 .. MaxTag] :
        /\ \A i \in 0 .. size' - 1 : g[i] <= current
        /\ current = MaxTag => tags' = [i \in DOMAIN g |-> 0] /\ current' = 1
        /\ current # MaxTag => tags' = g /\ current' = current + 1
  <2>1. /\ current = MaxTag => tags' = [i \in DOMAIN grown |-> 0] /\ current' = 1
        /\ current # MaxTag => tags' = grown /\ current' = current + 1
    BY DEF Reset, NextTag
  <2> QED  BY <1>2, <2>1
<1>4. CASE current = MaxTag
  <2>1. DOMAIN g = 0 .. size' - 1
    BY <1>3
  <2>2. tags' = [i \in 0 .. size' - 1 |-> 0] /\ current' = 1
    BY <1>3, <1>4, <2>1
  <2>3. current' \in 1 .. MaxTag /\ \A i \in 0 .. size' - 1 : tags'[i] = 0
    BY <2>2
  <2>4. tags' \in [0 .. size' - 1 -> 0 .. MaxTag]
    BY <2>2
  <2>5. \A i \in 0 .. size' - 1 : tags'[i] < current'
    BY <2>2, <2>3
  <2> QED  BY <1>1, <2>3, <2>4, <2>5
<1>5. CASE current # MaxTag
  <2>1. current \in Nat /\ current < MaxTag
    BY <1>5 DEF TagsTypeOK
  <2>2. current' \in 1 .. MaxTag /\ tags' = g /\ current' = current + 1
    BY <1>3, <1>5, <2>1
  <2>3. \A i \in 0 .. size' - 1 : tags'[i] < current'
    <3> TAKE i \in 0 .. size' - 1
    <3>1. g[i] \in 0 .. MaxTag /\ g[i] <= current
      BY <1>3
    <3> QED  BY <2>1, <2>2, <3>1
  <2> QED  BY <1>1, <2>2, <2>3
<1> QED  BY <1>4, <1>5

\* A node of the index in hand has a place in the array.
LEMMA MarkedInRange ==
  ASSUME TagsTypeOK, NEW id \in Ids, id < nodes
  PROVE  id \in 0 .. size - 1
BY DEF TagsTypeOK, Ids

\* The invariant holds from the first search on.
THEOREM TagInvariance == TagsSpec => []TagInv
<1>1. TagsInit => TagInv
  BY DEF TagsInit, TagInv, TagsTypeOK, NoTagAhead
<1>2. TagInv /\ [TagsNext]_tagVars => TagInv'
  <2> SUFFICES ASSUME TagInv, [TagsNext]_tagVars PROVE TagInv'
    OBVIOUS
  <2>1. ASSUME NEW n \in 0 .. MaxNodes, Reset(n) PROVE TagInv'
    <3>1. answer' = "none"  BY <2>1 DEF Reset
    <3> QED  BY <2>1, <3>1, NextTagIsNew DEF TagInv, TagsTypeOK, NoTagAhead
  <2>2. ASSUME NEW id \in Ids, TryMark(id) PROVE TagInv'
    <3>1. id \in 0 .. size - 1
      BY <2>2, MarkedInRange DEF TagInv, TryMark
    <3> QED  BY <2>2, <3>1 DEF TryMark, TagInv, TagsTypeOK, NoTagAhead
  <2>3. CASE UNCHANGED tagVars
    BY <2>3 DEF tagVars, TagInv, TagsTypeOK, NoTagAhead
  <2> QED  BY <2>1, <2>2, <2>3 DEF TagsNext
<1> QED  BY <1>1, <1>2, PTL DEF TagsSpec

\* The tags stay within their width and the array within the largest index.
THEOREM TagTypeCorrect == TagsSpec => []TagsTypeOK
<1>1. TagInv => TagsTypeOK  BY DEF TagInv
<1> QED  BY <1>1, TagInvariance, PTL

\* No tag of an earlier search can be taken for a mark of a later one.
THEOREM TagsStayBehind == TagsSpec => []NoTagAhead
<1>1. TagInv => NoTagAhead  BY DEF TagInv
<1> QED  BY <1>1, TagInvariance, PTL

\* The tagged scratch implements a set of marks, for every tag width.
THEOREM ImplementsMarkSet == TagsSpec => MarksSpec
<1> DEFINE Marked == {i \in 0 .. size - 1 : tags[i] = current}
<1>1. TagsInit => Marks!Init
  BY DEF TagsInit, Marks!Init
<1>2. TagInv /\ [TagsNext]_tagVars => [Marks!Next]_Marks!markVars
  <2> SUFFICES ASSUME TagInv, [TagsNext]_tagVars PROVE [Marks!Next]_Marks!markVars
    OBVIOUS
  <2>1. ASSUME NEW n \in 0 .. MaxNodes, Reset(n) PROVE Marks!Next
    <3>1. \A i \in 0 .. size' - 1 : tags'[i] < current' /\ tags'[i] \in 0 .. MaxTag
      BY <2>1, NextTagIsNew DEF TagInv
    <3>2. current' \in 1 .. MaxTag
      BY <2>1, NextTagIsNew DEF TagInv
    <3>3. \A i \in 0 .. size' - 1 : tags'[i] # current'
      BY <3>1, <3>2
    <3>4. Marked' = {}
      BY <3>3
    <3>5. answer' = "none"
      BY <2>1 DEF Reset
    <3> QED  BY <3>4, <3>5 DEF Marks!Next, Marks!Reset
  <2>2. ASSUME NEW id \in Ids, TryMark(id) PROVE Marks!Next
    <3>1. id \in 0 .. size - 1 /\ size' = size /\ current' = current
      BY <2>2, MarkedInRange DEF TryMark, TagInv
    <3>2. tags' = [tags EXCEPT ![id] = current] /\ tags \in [0 .. size - 1 -> 0 .. MaxTag]
      BY <2>2 DEF TryMark, TagInv, TagsTypeOK
    <3>3. Marked' = Marked \cup {id}
      BY <3>1, <3>2
    <3>4. answer' = IF id \in Marked THEN "seen" ELSE "first"
      BY <2>2, <3>1 DEF TryMark
    <3> QED  BY <3>3, <3>4 DEF Marks!Next, Marks!TryMark
  <2>3. CASE UNCHANGED tagVars
    BY <2>3 DEF tagVars, Marks!markVars
  <2> QED  BY <2>1, <2>2, <2>3 DEF TagsNext
<1> QED  BY <1>1, <1>2, TagInvariance, PTL DEF TagsSpec, MarksSpec, Marks!Spec
=============================================================================
