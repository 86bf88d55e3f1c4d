---------------------------- MODULE SearchProofs ----------------------------
(***************************************************************************)
(* Proofs about the searches in memory: BeamSearch, GatedSearch and        *)
(* BatchedSearch.  They hold for every graph, every distance function,     *)
(* every estimate and every size of pool, beam and batch.                  *)
(*                                                                         *)
(* BeamSearch: the pool stays sorted, no node is offered twice, no rank of *)
(* the answer gets worse, and a search without the early stop ends closed. *)
(* GatedSearch: with estimates that are lower bounds the gate changes      *)
(* neither the pool nor the course of the search.  BatchedSearch: it is    *)
(* the gated search run late, with the same pool and the same counters.    *)
(***************************************************************************)
EXTENDS BatchedSearch, FiniteSetTheorems, SequenceTheorems, WellFoundedInduction, TLAPS

USE NodeCountAssumption, LAssumption, BeamWidthAssumption, HopsAssumption,
    StartAssumption, DistancesAssumption, GraphsAssumption

-----------------------------------------------------------------------------
(* The order of the pool *)

DistType == dist \in [Nodes -> Nat]

\* candidate_less is a strict total order on the nodes.
LEMMA LessIsOrder ==
  ASSUME DistType, NEW a \in Nodes, NEW b \in Nodes, NEW c \in Nodes
  PROVE  /\ ~Less(a, a)
         /\ Less(a, b) => ~Less(b, a)
         /\ Less(a, b) /\ Less(b, c) => Less(a, c)
         /\ a # b => Less(a, b) \/ Less(b, a)
         /\ ~Less(a, b) /\ ~Less(b, c) => ~Less(a, c)
<1>1. dist[a] \in Nat /\ dist[b] \in Nat /\ dist[c] \in Nat /\ a \in Int /\ b \in Int /\ c \in Int
  BY DEF DistType, Nodes
<1> QED  BY <1>1 DEF Less

\* A nonempty set of numbers has a least one.
LEMMA LeastNumber ==
  ASSUME NEW T, T \subseteq Nat, T # {}
  PROVE  \E i \in T : \A j \in T : ~(j < i)
<1>1. \E i \in T : \A j \in T : ~(<<j, i>> \in OpToRel(<, Nat))
  BY NatLessThanWellFounded, WFMin
<1> QED  BY <1>1 DEF OpToRel

\* The entries of a pool name nodes.
LEMMA EntriesTyped ==
  ASSUME NEW p \in Seq(Entry)
  PROVE  \A i \in 1 .. Len(p) : p[i] \in Entry /\ p[i].id \in Nodes
<1>1. \A i \in 1 .. Len(p) : p[i] \in Entry
  OBVIOUS
<1>2. \A e \in Entry : e.id \in Nodes
  BY DEF Entry
<1> QED  BY <1>1, <1>2

\* A pool in strictly increasing order.
Ordered(p) == \A i, j \in 1 .. Len(p) : i < j => Less(p[i].id, p[j].id)

\* lower_bound finds a place in a sorted pool, or the one behind it.
LEMMA PositionExists ==
  ASSUME DistType, NEW p \in Seq(Entry), NEW node \in Nodes
  PROVE  /\ Position(p, node) \in 1 .. Len(p) + 1
         /\ \A j \in 1 .. Position(p, node) - 1 : Less(p[j].id, node)
         /\ Position(p, node) <= Len(p) => ~Less(p[Position(p, node)].id, node)
<1> DEFINE n == Len(p)
           T == {i \in 1 .. n + 1 : i <= n => ~Less(p[i].id, node)}
<1>1. n \in Nat
  OBVIOUS
<1>2. n + 1 \in T /\ T \subseteq Nat
  BY <1>1
<1>3. PICK i \in T : \A j \in T : ~(j < i)
  BY <1>2, LeastNumber
<1>4. \A j \in 1 .. i - 1 : Less(p[j].id, node)
  <2> TAKE j \in 1 .. i - 1
  <2>1. j \in 1 .. n + 1 /\ j < i
    BY <1>1
  <2>2. j \notin T
    BY <1>3, <2>1
  <2> QED  BY <2>1, <2>2
<1>5. \E k \in 1 .. Len(p) + 1 :
        /\ \A j \in 1 .. k - 1 : Less(p[j].id, node)
        /\ k <= Len(p) => ~Less(p[k].id, node)
  BY <1>3, <1>4
<1> QED  BY <1>5 DEF Position

-----------------------------------------------------------------------------
(* insert_candidate_sorted *)

Ids(p) == {p[i].id : i \in 1 .. Len(p)}

\* The conditions under which a node is offered to a pool.
Offerable(p, node) ==
  /\ p \in Seq(Entry) /\ Len(p) \in 1 .. L /\ Ordered(p)
  /\ node \in Nodes /\ node \notin Ids(p)

\* A node that enters the pool stands at its place: the better nodes before it,
\* the others moved back by one, and the last one gone if the pool was full.
LEMMA InsertShape ==
  ASSUME DistType, NEW p, NEW node, Offerable(p, node),
         ~(Full(p) /\ ~Less(node, Back(p)))
  PROVE  LET q == Insert(p, node)
         IN  /\ q \in Seq(Entry)
             /\ Len(q) = IF Full(p) THEN L ELSE Len(p) + 1
             /\ \E i \in 1 .. Len(q) :
                  /\ q[i] = NewEntry(node)
                  /\ \A j \in 1 .. Len(q) :
                       /\ j < i => j \in 1 .. Len(p) /\ q[j] = p[j] /\ Less(p[j].id, node)
                       /\ j > i => j - 1 \in 1 .. Len(p) /\ q[j] = p[j - 1]
                  /\ \A j \in 1 .. Len(p) : j >= i => Less(node, p[j].id)
<1> DEFINE n    == Len(p)
           i    == Position(p, node)
           size == IF Full(p) THEN L ELSE n + 1
           q    == [j \in 1 .. size |->
                      IF j < i THEN p[j] ELSE IF j = i THEN NewEntry(node) ELSE p[j - 1]]
<1>1. /\ n \in Nat /\ n \in 1 .. L /\ \A j \in 1 .. n : p[j] \in Entry /\ p[j].id \in Nodes
      /\ Ordered(p) /\ node \in Nodes /\ p \in Seq(Entry)
  <2>1. n \in Nat /\ n \in 1 .. L /\ Ordered(p) /\ node \in Nodes /\ p \in Seq(Entry)
    BY DEF Offerable
  <2> QED  BY <2>1, EntriesTyped
<1>2. /\ i \in 1 .. n + 1
      /\ \A j \in 1 .. i - 1 : Less(p[j].id, node)
      /\ i <= n => ~Less(p[i].id, node)
  BY <1>1, PositionExists
<1>3. Insert(p, node) = q
  BY DEF Insert, Place
<1> HIDE DEF i
<1>4. i \in 1 .. size
  <2>1. CASE Full(p)
    <3>1. n = L /\ size = n /\ Less(node, p[n].id) /\ n \in 1 .. n
      BY <1>1, <2>1 DEF Full, Back
    <3>2. ~Less(p[n].id, node)
      BY <1>1, <3>1, LessIsOrder
    <3>3. i # n + 1
      BY <1>1, <1>2, <3>1, <3>2
    <3> QED  BY <1>1, <1>2, <3>1, <3>3
  <2>2. CASE ~Full(p)
    BY <1>2, <2>2
  <2> QED  BY <2>1, <2>2
<1>5. size \in Nat /\ size <= n + 1 /\ size = IF Full(p) THEN L ELSE n + 1
  BY <1>1 DEF Full
<1> HIDE DEF size
<1>6. \A j \in 1 .. size :
        /\ j < i => j \in 1 .. n /\ q[j] = p[j] /\ Less(p[j].id, node)
        /\ j = i => q[j] = NewEntry(node)
        /\ j > i => j - 1 \in 1 .. n /\ q[j] = p[j - 1]
  <2> TAKE j \in 1 .. size
  <2>1. {i, j, n, size} \subseteq Int /\ 1 <= j /\ j <= size /\ 1 <= i /\ i <= n + 1 /\ size <= n + 1
    BY <1>1, <1>2, <1>5
  <2>2. j < i => j \in 1 .. n /\ j \in 1 .. i - 1
    BY <2>1
  <2>3. j > i => j - 1 \in 1 .. n
    BY <2>1
  <2> QED  BY <1>2, <2>1, <2>2, <2>3
<1>7. \A j \in 1 .. size : q[j] \in Entry
  <2> TAKE j \in 1 .. size
  <2>1. j < i \/ j = i \/ j > i
    BY <1>4
  <2>2. NewEntry(node) \in Entry
    BY <1>1 DEF NewEntry, Entry
  <2> QED  BY <1>1, <1>6, <2>1, <2>2
<1>8. q \in Seq(Entry) /\ Len(q) = size
  <2>1. size \in Nat
    BY <1>5
  <2>2. q \in [1 .. size -> Entry]
    BY <1>7
  <2> QED  BY <2>1, <2>2
\* What stands behind the place of the node is above it.
<1>9. \A j \in 1 .. n : j >= i => Less(node, p[j].id)
  <2> TAKE j \in 1 .. n
  <2> HAVE j >= i
  <2>1. i \in 1 .. n /\ p[i].id \in Nodes /\ p[j].id \in Nodes
    BY <1>1, <1>2
  <2>2. p[i].id # node
    BY <2>1 DEF Ids, Offerable
  <2>3. Less(node, p[i].id)
    BY <1>1, <1>2, <2>1, <2>2, LessIsOrder
  <2>4. CASE j = i
    BY <2>3, <2>4
  <2>5. CASE j # i
    <3>1. Less(p[i].id, p[j].id)
      BY <1>1, <1>2, <2>1, <2>5 DEF Ordered
    <3> QED  BY <1>1, <2>1, <2>3, <3>1, LessIsOrder
  <2> QED  BY <2>4, <2>5
<1> HIDE DEF q
<1>10. \A j \in 1 .. size :
         /\ j < i => j \in 1 .. Len(p) /\ q[j] = p[j] /\ Less(p[j].id, node)
         /\ j > i => j - 1 \in 1 .. Len(p) /\ q[j] = p[j - 1]
  BY <1>6
<1>11. q[i] = NewEntry(node)
  BY <1>4, <1>6
<1>12. \A j \in 1 .. Len(p) : j >= i => Less(node, p[j].id)
  BY <1>9
<1> QED  BY <1>3, <1>4, <1>5, <1>8, <1>10, <1>11, <1>12

\* A node that is not in a sorted pool goes in without disturbing the order;
\* the pool loses no rank, none of its ranks gets a worse node, and nothing
\* but the node enters.
LEMMA InsertKeepsPool ==
  ASSUME DistType, NEW p, NEW node, Offerable(p, node)
  PROVE  /\ Insert(p, node) \in Seq(Entry)
         /\ Len(Insert(p, node)) \in Len(p) .. L
         /\ Ordered(Insert(p, node))
         /\ Ids(Insert(p, node)) \subseteq Ids(p) \cup {node}
         /\ \A i \in 1 .. Len(p) : ~Less(p[i].id, Insert(p, node)[i].id)
<1> DEFINE n == Len(p)
           q == Insert(p, node)
<1>1. /\ n \in Nat /\ n \in 1 .. L /\ \A j \in 1 .. n : p[j] \in Entry /\ p[j].id \in Nodes
      /\ Ordered(p) /\ node \in Nodes /\ p \in Seq(Entry)
  <2>1. n \in Nat /\ n \in 1 .. L /\ Ordered(p) /\ node \in Nodes /\ p \in Seq(Entry)
    BY DEF Offerable
  <2> QED  BY <2>1, EntriesTyped
<1>2. CASE Full(p) /\ ~Less(node, Back(p))
  <2>1. q = p
    BY <1>2 DEF Insert
  <2>2. \A j \in 1 .. n : ~Less(p[j].id, p[j].id)
    BY <1>1, LessIsOrder
  <2>3. Len(p) \in Len(p) .. L /\ Ids(p) \subseteq Ids(p) \cup {node}
    BY <1>1
  <2> QED  BY <1>1, <2>1, <2>2, <2>3
<1>3. CASE ~(Full(p) /\ ~Less(node, Back(p)))
  <2>1. /\ q \in Seq(Entry) /\ Len(q) = IF Full(p) THEN L ELSE n + 1
        /\ \E i \in 1 .. Len(q) :
             /\ q[i] = NewEntry(node)
             /\ \A j \in 1 .. Len(q) :
                  /\ j < i => j \in 1 .. n /\ q[j] = p[j] /\ Less(p[j].id, node)
                  /\ j > i => j - 1 \in 1 .. n /\ q[j] = p[j - 1]
             /\ \A j \in 1 .. n : j >= i => Less(node, p[j].id)
    BY <1>3, InsertShape
  <2>2. PICK i \in 1 .. Len(q) :
             /\ q[i] = NewEntry(node)
             /\ \A j \in 1 .. Len(q) :
                  /\ j < i => j \in 1 .. n /\ q[j] = p[j] /\ Less(p[j].id, node)
                  /\ j > i => j - 1 \in 1 .. n /\ q[j] = p[j - 1]
             /\ \A j \in 1 .. n : j >= i => Less(node, p[j].id)
    BY <2>1
  <2> HIDE DEF q
  <2>3. q[i].id = node
    BY <2>2 DEF NewEntry
  <2>4. Len(q) \in n .. L
    BY <1>1, <2>1 DEF Full
  <2>5. Ids(q) \subseteq Ids(p) \cup {node}
    <3> SUFFICES ASSUME NEW j \in 1 .. Len(q) PROVE q[j].id \in Ids(p) \cup {node}
      BY DEF Ids
    <3>1. j < i \/ j = i \/ j > i
      BY <2>2
    <3> QED  BY <2>2, <2>3, <3>1 DEF Ids
  <2>6. Ordered(q)
    <3> SUFFICES ASSUME NEW j \in 1 .. Len(q), NEW k \in 1 .. Len(q), j < k
                 PROVE  Less(q[j].id, q[k].id)
      BY DEF Ordered
    <3>1. CASE k < i
      BY <1>1, <2>2, <3>1 DEF Ordered
    <3>2. CASE k = i
      BY <2>2, <2>3, <3>2
    <3>3. CASE k > i /\ j < i
      <4>1. q[j] = p[j] /\ q[k] = p[k - 1] /\ j \in 1 .. n /\ k - 1 \in 1 .. n /\ j < k - 1
        BY <2>2, <3>3
      <4> QED  BY <1>1, <4>1 DEF Ordered
    <3>4. CASE k > i /\ j = i
      <4>1. q[k] = p[k - 1] /\ k - 1 \in 1 .. n /\ k - 1 >= i
        BY <2>2, <3>4
      <4> QED  BY <2>2, <2>3, <3>4, <4>1
    <3>5. CASE k > i /\ j > i
      <4>1. q[j] = p[j - 1] /\ q[k] = p[k - 1] /\ j - 1 \in 1 .. n /\ k - 1 \in 1 .. n /\ j - 1 < k - 1
        BY <2>2, <3>5
      <4> QED  BY <1>1, <4>1 DEF Ordered
    <3> QED  BY <3>1, <3>2, <3>3, <3>4, <3>5
  <2>7. \A j \in 1 .. n : ~Less(p[j].id, q[j].id)
    <3> TAKE j \in 1 .. n
    <3>1. j \in 1 .. Len(q) /\ p[j].id \in Nodes
      BY <1>1, <2>4
    <3>2. CASE j < i
      BY <2>2, <3>1, <3>2, LessIsOrder
    <3>3. CASE j = i
      <4>1. Less(node, p[j].id)
        BY <2>2, <3>3
      <4> QED  BY <1>1, <2>3, <3>1, <3>3, <4>1, LessIsOrder
    <3>4. CASE j > i
      <4>1. q[j] = p[j - 1] /\ j - 1 \in 1 .. n
        BY <2>2, <3>1, <3>4
      <4>2. j - 1 < j /\ p[j - 1].id \in Nodes
        BY <1>1, <4>1
      <4>3. Less(p[j - 1].id, p[j].id)
        BY <1>1, <4>1, <4>2 DEF Ordered
      <4> QED  BY <3>1, <4>1, <4>2, <4>3, LessIsOrder
    <3> QED  BY <3>2, <3>3, <3>4
  <2> QED  BY <2>1, <2>4, <2>5, <2>6, <2>7 DEF q
<1> QED  BY <1>2, <1>3

\* The pool is full of better nodes.
RuledOut(p, x) == Full(p) /\ ~Less(x, Back(p))

\* Nothing leaves the pool, and nothing fails to enter it, but what is no better
\* than the last of a full pool; and what is ruled out once is ruled out for good.
LEMMA InsertForgetsNothing ==
  ASSUME DistType, NEW p, NEW node, Offerable(p, node)
  PROVE  LET q == Insert(p, node)
         IN  /\ \A j \in 1 .. Len(q) :
                  q[j] = NewEntry(node) \/ \E k \in 1 .. Len(p) : q[j] = p[k]
             /\ \A x \in Ids(p) \cup {node} : x \in Ids(q) \/ RuledOut(q, x)
             /\ \A x \in Nodes : RuledOut(p, x) => RuledOut(q, x)
<1> DEFINE n == Len(p)
           q == Insert(p, node)
<1>1. /\ n \in Nat /\ n \in 1 .. L /\ \A j \in 1 .. n : p[j] \in Entry /\ p[j].id \in Nodes
      /\ Ordered(p) /\ node \in Nodes /\ p \in Seq(Entry)
  <2>1. n \in Nat /\ n \in 1 .. L /\ Ordered(p) /\ node \in Nodes /\ p \in Seq(Entry)
    BY DEF Offerable
  <2> QED  BY <2>1, EntriesTyped
<1>2. CASE Full(p) /\ ~Less(node, Back(p))
  <2>1. q = p
    BY <1>2 DEF Insert
  <2> QED  BY <1>2, <2>1 DEF RuledOut
<1>3. CASE ~(Full(p) /\ ~Less(node, Back(p)))
  <2>1. /\ q \in Seq(Entry) /\ Len(q) = IF Full(p) THEN L ELSE n + 1
        /\ \E i \in 1 .. Len(q) :
             /\ q[i] = NewEntry(node)
             /\ \A j \in 1 .. Len(q) :
                  /\ j < i => j \in 1 .. n /\ q[j] = p[j] /\ Less(p[j].id, node)
                  /\ j > i => j - 1 \in 1 .. n /\ q[j] = p[j - 1]
             /\ \A j \in 1 .. n : j >= i => Less(node, p[j].id)
    BY <1>3, InsertShape
  <2>2. PICK i \in 1 .. Len(q) :
             /\ q[i] = NewEntry(node)
             /\ \A j \in 1 .. Len(q) :
                  /\ j < i => j \in 1 .. n /\ q[j] = p[j] /\ Less(p[j].id, node)
                  /\ j > i => j - 1 \in 1 .. n /\ q[j] = p[j - 1]
             /\ \A j \in 1 .. n : j >= i => Less(node, p[j].id)
    BY <2>1
  <2>3. /\ Len(q) \in n .. L /\ \A j \in 1 .. n : ~Less(p[j].id, q[j].id)
        /\ \A j \in 1 .. Len(q) : q[j].id \in Nodes
    BY <2>1, InsertKeepsPool, EntriesTyped
  <2> HIDE DEF q
  <2>4. q[i].id = node
    BY <2>2 DEF NewEntry
  <2>5. \A j \in 1 .. Len(q) : q[j] = NewEntry(node) \/ \E k \in 1 .. n : q[j] = p[k]
    <3> TAKE j \in 1 .. Len(q)
    <3>1. j < i \/ j = i \/ j > i
      BY <2>2
    <3> QED  BY <2>2, <3>1
  <2>6. ASSUME NEW k \in 1 .. n
        PROVE  p[k].id \in Ids(q) \/ RuledOut(q, p[k].id)
    <3>1. CASE k < i
      <4>1. k \in 1 .. Len(q) /\ q[k] = p[k]
        BY <2>2, <3>1
      <4> QED  BY <4>1 DEF Ids
    <3>2. CASE k >= i /\ k < Len(q)
      <4>1. k + 1 \in 1 .. Len(q) /\ k + 1 > i /\ q[k + 1] = p[(k + 1) - 1]
        BY <2>2, <3>2
      <4>2. q[k + 1] = p[k]
        BY <4>1
      <4> QED  BY <4>1, <4>2 DEF Ids
    <3>3. CASE k >= Len(q)
      <4>1. k = n /\ Len(q) = n /\ Len(q) = L
        BY <1>1, <2>1, <2>3, <3>3 DEF Full
      <4>2. ~Less(p[k].id, q[k].id)
        <5>1. p[k].id \in Nodes /\ q[k].id \in Nodes
          BY <1>1, <2>3, <4>1
        <5>2. CASE i = k
          <6>1. Less(node, p[k].id)
            BY <2>2, <5>2
          <6> QED  BY <1>1, <2>4, <5>1, <5>2, <6>1, LessIsOrder
        <5>3. CASE i < k
          <6>1. q[k] = p[k - 1] /\ k - 1 \in 1 .. n /\ k - 1 < k
            BY <2>2, <4>1, <5>3
          <6>2. Less(p[k - 1].id, p[k].id)
            BY <1>1, <6>1 DEF Ordered
          <6> QED  BY <5>1, <6>1, <6>2, LessIsOrder
        <5> QED  BY <2>2, <4>1, <5>2, <5>3
      <4> QED  BY <4>1, <4>2 DEF RuledOut, Full, Back
    <3> QED  BY <1>1, <2>2, <2>3, <3>1, <3>2, <3>3
  <2>7. \A x \in Ids(p) \cup {node} : x \in Ids(q) \/ RuledOut(q, x)
    <3>1. node \in Ids(q)
      BY <2>2, <2>4 DEF Ids
    <3> QED  BY <2>6, <3>1 DEF Ids
  <2>8. ASSUME NEW x \in Nodes, RuledOut(p, x)
        PROVE  RuledOut(q, x)
    <3>1. n = L /\ Len(q) = n /\ ~Less(x, p[n].id) /\ n \in 1 .. n
      BY <1>1, <2>1, <2>8 DEF RuledOut, Full, Back
    <3>2. ~Less(p[n].id, q[n].id) /\ p[n].id \in Nodes /\ q[n].id \in Nodes
      BY <1>1, <2>3, <3>1
    <3>3. ~Less(x, q[n].id)
      BY <3>1, <3>2, LessIsOrder
    <3> QED  BY <3>1, <3>3 DEF RuledOut, Full, Back
  <2> QED  BY <2>5, <2>7, <2>8 DEF q
<1> QED  BY <1>2, <1>3

-----------------------------------------------------------------------------
(* The inductive invariant *)

\* The pool and the nodes still to be scored are marked, and have no node in
\* common, nor has fresh one twice.
OfferedOnce ==
  /\ Ids(pool) \subseteq marked
  /\ \A i \in 1 .. Len(fresh) : fresh[i] \in marked /\ fresh[i] \notin Ids(pool)
  /\ \A i, j \in 1 .. Len(fresh) : fresh[i] = fresh[j] => i = j

\* The nodes counted and those about to be are the marked ones.
Counted ==
  /\ pc \in {"select", "visit", "score", "done"} => visited = Cardinality(marked)
  /\ pc = "mark" => visited + Len(fresh) = Cardinality(marked)

Inv == TypeOK /\ PoolSorted /\ OfferedOnce /\ Counted

LEMMA TypesOfInv ==
  ASSUME TypeOK, PoolSorted
  PROVE  /\ DistType /\ pool \in Seq(Entry) /\ Ordered(pool)
         /\ Len(pool) \in 1 .. L /\ Back(pool) \in Nodes /\ dist[Back(pool)] \in Nat
<1>1. DistType /\ pool \in Seq(Entry)
  BY DEF TypeOK, DistType
<1>2. Ordered(pool) /\ Len(pool) \in 1 .. L
  BY DEF PoolSorted, Ordered
<1>3. pool[Len(pool)] \in Entry
  BY <1>1, <1>2
<1> QED  BY <1>1, <1>2, <1>3 DEF Back, Entry, DistType

\* A step that leaves the pool and the marks alone.
LEMMA QuietStep ==
  ASSUME Inv, UNCHANGED <<input, pool, marked>>, TypeOK',
         fresh' = fresh \/ fresh' = <<>>, Counted'
  PROVE  Inv'
<1>1. graph' = graph /\ dist' = dist /\ pool' = pool /\ marked' = marked
  BY DEF input
<1>2. PoolSorted'
  BY <1>1 DEF Inv, PoolSorted, Less
<1>3. OfferedOnce'
  BY <1>1 DEF Inv, OfferedOnce, Ids
<1> QED  BY <1>2, <1>3 DEF Inv

LEMMA InitHolds == Init => Inv
<1> SUFFICES ASSUME Init PROVE Inv
  OBVIOUS
<1>1. Start \in Nodes /\ NewEntry(Start) \in Entry /\ NewEntry(Start).id = Start
  BY DEF Nodes, NewEntry, Entry
<1>2. pool = <<NewEntry(Start)>> /\ pool \in Seq(Entry) /\ Len(pool) = 1 /\ pool[1] = NewEntry(Start)
  BY <1>1 DEF Init
<1>3. TypeOK
  BY <1>1, <1>2 DEF Init, TypeOK, PcValues
<1>4. PoolSorted
  BY <1>2 DEF PoolSorted
<1>5. OfferedOnce
  BY <1>1, <1>2 DEF Init, OfferedOnce, Ids
<1>6. Counted
  BY FS_Singleton DEF Init, Counted
<1> QED  BY <1>3, <1>4, <1>5, <1>6 DEF Inv

LEMMA SelectStep ==
  ASSUME Inv, SelectFrontier
  PROVE  /\ Inv'
         /\ Len(pool') = Len(pool)
         /\ \A i \in 1 .. Len(pool) : pool'[i].id = pool[i].id
<1> DEFINE beam == {i \in 1 .. Len(pool) : InBeam(i)}
<1>1. /\ pool \in Seq(Entry) /\ Len(pool) \in 1 .. L /\ dist[Back(pool)] \in Nat
      /\ \A i \in 1 .. Len(pool) : pool[i] \in Entry
  BY TypesOfInv DEF Inv
<1>2. /\ backBefore' = dist[Back(pool)]
      /\ pool' = [i \in 1 .. Len(pool) |-> [pool[i] EXCEPT !.expanded = @ \/ i \in beam]]
      /\ pc' \in {"done", "visit"} /\ pc = "select"
      /\ UNCHANGED <<input, marked, links, fresh, stall, visited>>
  BY DEF SelectFrontier
<1>3. \A i \in 1 .. Len(pool) : pool'[i] \in Entry /\ pool'[i].id = pool[i].id
  BY <1>1, <1>2 DEF Entry
<1>4. pool' \in Seq(Entry) /\ Len(pool') = Len(pool)
  <2>1. pool' = [i \in 1 .. Len(pool) |-> pool'[i]]
    BY <1>2, Zenon
  <2>2. pool' \in [1 .. Len(pool) -> Entry] /\ Len(pool) \in Nat
    BY <1>1, <1>3, <2>1
  <2> QED  BY <2>2
<1>5. PICK f \in [1 .. Cardinality(beam) -> beam] : TakeInOrder(f)
  BY DEF SelectFrontier
<1>6. frontier' \in Seq(Nodes)
  <2>1. Cardinality(beam) \in Nat
    <3>1. IsFiniteSet(1 .. Len(pool))
      BY <1>1, FS_Interval
    <3> QED  BY <3>1, FS_Subset, FS_CardinalityType
  <2>2. frontier' = [k \in 1 .. Cardinality(beam) |-> pool[f[k]].id]
    BY <1>5 DEF TakeInOrder
  <2>3. \A k \in 1 .. Cardinality(beam) : pool[f[k]].id \in Nodes
    BY <1>1, <1>5 DEF Entry
  <2> QED  BY <2>1, <2>2, <2>3
<1>7. TypeOK'
  BY <1>1, <1>2, <1>4, <1>6 DEF Inv, TypeOK, PcValues, input
<1>8. PoolSorted'
  BY <1>2, <1>3, <1>4 DEF Inv, PoolSorted, Less, input
<1>9. Ids(pool') = Ids(pool)
  BY <1>3, <1>4 DEF Ids
<1>10. OfferedOnce' /\ Counted'
  BY <1>2, <1>9 DEF Inv, OfferedOnce, Counted
<1> QED  BY <1>3, <1>4, <1>7, <1>8, <1>10 DEF Inv

LEMMA VisitStep ==
  ASSUME Inv, VisitNode
  PROVE  Inv'
<1>1. /\ frontier \in Seq(Nodes) /\ frontier # <<>>
      /\ graph \in [Nodes -> Seq(Nat)]
  BY DEF VisitNode, Inv, TypeOK
<1>2. Head(frontier) \in Nodes /\ Tail(frontier) \in Seq(Nodes)
  BY <1>1
<1>3. TypeOK'
  BY <1>1, <1>2 DEF VisitNode, Inv, TypeOK, PcValues, input, stopVars
<1>4. Counted'
  BY DEF VisitNode, Inv, TypeOK, Counted
<1> QED  BY <1>3, <1>4, QuietStep DEF VisitNode

LEMMA MarkStep ==
  ASSUME Inv, MarkNeighbor
  PROVE  Inv'
<1> DEFINE n == Head(links)
<1>1. /\ links \in Seq(Nat) /\ links # <<>> /\ n < NodeCount /\ pc = "mark"
      /\ fresh' = IF n \in marked THEN fresh ELSE Append(fresh, n)
      /\ marked' = marked \cup {n} /\ links' = Tail(links)
      /\ UNCHANGED <<input, pc, pool, frontier, stopVars, visited>>
  BY DEF MarkNeighbor, Inv, TypeOK
<1>2. n \in Nodes /\ Tail(links) \in Seq(Nat)
  <2>1. n \in Nat /\ Tail(links) \in Seq(Nat)
    BY <1>1
  <2> QED  BY <1>1, <2>1 DEF Nodes
<1>3. fresh \in Seq(Nodes) /\ Len(fresh) \in Nat /\ marked \in SUBSET Nodes /\ IsFiniteSet(marked)
  <2>1. fresh \in Seq(Nodes) /\ marked \in SUBSET Nodes
    BY DEF Inv, TypeOK
  <2>2. IsFiniteSet(Nodes)
    BY FS_Interval DEF Nodes
  <2> QED  BY <2>1, <2>2, FS_Subset
<1> HIDE DEF n
<1>4. TypeOK'
  <2>1. fresh' \in Seq(Nodes) /\ marked' \in SUBSET Nodes
    BY <1>1, <1>2, <1>3
  <2> QED  BY <1>1, <1>2, <2>1 DEF Inv, TypeOK, input, stopVars
<1>5. PoolSorted'
  BY <1>1 DEF Inv, PoolSorted, Less, input
<1>6. CASE n \in marked
  <2>1. fresh' = fresh /\ marked' = marked
    BY <1>1, <1>6
  <2>2. OfferedOnce'
    BY <1>1, <2>1 DEF Inv, OfferedOnce, Ids
  <2>3. Counted'
    BY <1>1, <2>1 DEF Inv, Counted
  <2> QED  BY <1>4, <1>5, <2>2, <2>3 DEF Inv
<1>7. CASE n \notin marked
  <2>1. /\ fresh' = Append(fresh, n) /\ Len(fresh') = Len(fresh) + 1
        /\ \A i \in 1 .. Len(fresh) : fresh'[i] = fresh[i]
        /\ fresh'[Len(fresh) + 1] = n
    BY <1>1, <1>2, <1>3, <1>7
  <2>2. n \notin Ids(pool) /\ \A i \in 1 .. Len(fresh) : fresh[i] # n
    BY <1>7 DEF Inv, OfferedOnce
  <2>3. Ids(pool') = Ids(pool)
    BY <1>1 DEF Ids
  <2>4. \A i \in 1 .. Len(fresh') : i \in 1 .. Len(fresh) \/ i = Len(fresh) + 1
    BY <1>3, <2>1
  <2>5. OfferedOnce'
    BY <1>1, <2>1, <2>2, <2>3, <2>4 DEF Inv, OfferedOnce
  <2>6. Cardinality(marked') = Cardinality(marked) + 1
    BY <1>1, <1>3, <1>7, FS_AddElement
  <2>7. visited \in Nat /\ visited' = visited /\ pc' = "mark"
    BY <1>1 DEF Inv, TypeOK
  <2>8. Counted'
    BY <1>1, <1>3, <2>1, <2>6, <2>7 DEF Inv, Counted
  <2> QED  BY <1>4, <1>5, <2>5, <2>8 DEF Inv
<1> QED  BY <1>6, <1>7

LEMMA ScoreStep ==
  ASSUME Inv, ScoreFresh
  PROVE  /\ Inv'
         /\ Len(pool') >= Len(pool)
         /\ \A i \in 1 .. Len(pool) : ~Less(pool[i].id, pool'[i].id)
<1> DEFINE n == Head(fresh)
<1>1. /\ fresh \in Seq(Nodes) /\ fresh # <<>> /\ pool' = Insert(pool, n)
      /\ fresh' = Tail(fresh) /\ pc = "score" /\ pc' \in {"visit", "score"}
      /\ UNCHANGED <<input, marked, frontier, links, stopVars, visited>>
  BY DEF ScoreFresh, NextFresh, Inv, TypeOK
<1>2. /\ n \in Nodes /\ n = fresh[1] /\ Len(fresh) \in Nat /\ Len(fresh) >= 1
      /\ Tail(fresh) \in Seq(Nodes) /\ Len(Tail(fresh)) = Len(fresh) - 1
      /\ \A i \in 1 .. Len(fresh) - 1 : Tail(fresh)[i] = fresh[i + 1]
  BY <1>1
<1>3. n \notin Ids(pool) /\ n \in marked
  BY <1>2 DEF Inv, OfferedOnce
<1>4. DistType /\ pool \in Seq(Entry) /\ Len(pool) \in 1 .. L /\ Ordered(pool)
  BY TypesOfInv DEF Inv
<1>5. /\ pool' \in Seq(Entry) /\ Len(pool') \in Len(pool) .. L /\ Ordered(pool')
      /\ Ids(pool') \subseteq Ids(pool) \cup {n}
      /\ \A i \in 1 .. Len(pool) : ~Less(pool[i].id, pool'[i].id)
  <2>1. Offerable(pool, n)
    BY <1>2, <1>3, <1>4 DEF Offerable
  <2> QED  BY <1>1, <1>4, <2>1, InsertKeepsPool
<1> HIDE DEF n
<1>6. TypeOK'
  BY <1>1, <1>2, <1>5 DEF Inv, TypeOK, PcValues, input, stopVars
<1>7. PoolSorted'
  BY <1>1, <1>4, <1>5 DEF PoolSorted, Ordered, Less, input
<1>8. OfferedOnce'
  <2>1. \A i \in 1 .. Len(fresh') : i + 1 \in 1 .. Len(fresh) /\ fresh'[i] = fresh[i + 1]
    BY <1>1, <1>2
  <2>2. \A i \in 1 .. Len(fresh') : fresh'[i] # n
    <3> TAKE i \in 1 .. Len(fresh')
    <3>1. i + 1 \in 1 .. Len(fresh) /\ 1 \in 1 .. Len(fresh) /\ i + 1 # 1 /\ fresh'[i] = fresh[i + 1]
      BY <1>2, <2>1
    <3> QED  BY <1>2, <3>1 DEF Inv, OfferedOnce
  <2>3. \A i \in 1 .. Len(fresh') : fresh'[i] \in marked' /\ fresh'[i] \notin Ids(pool')
    BY <1>1, <1>5, <2>1, <2>2 DEF Inv, OfferedOnce
  <2>4. \A i, j \in 1 .. Len(fresh') : fresh'[i] = fresh'[j] => i = j
    <3> TAKE i, j \in 1 .. Len(fresh')
    <3>1. fresh[i + 1] = fresh[j + 1] => i + 1 = j + 1
      BY <2>1 DEF Inv, OfferedOnce
    <3>2. i \in Int /\ j \in Int
      OBVIOUS
    <3> QED  BY <2>1, <3>1, <3>2
  <2>5. Ids(pool') \subseteq marked'
    BY <1>1, <1>3, <1>5 DEF Inv, OfferedOnce
  <2> QED  BY <2>3, <2>4, <2>5 DEF OfferedOnce
<1>9. Counted'
  BY <1>1 DEF Inv, Counted
<1>10. Len(pool') >= Len(pool)
  BY <1>4, <1>5
<1> QED  BY <1>5, <1>6, <1>7, <1>8, <1>9, <1>10 DEF Inv

\* The remaining steps of the loops.
LEMMA LoopStep ==
  ASSUME Inv, OutOfRange \/ MarkDone \/ FinishRound \/ UNCHANGED vars
  PROVE  Inv' /\ pool' = pool
<1>1. CASE OutOfRange
  <2>1. TypeOK' /\ Counted'
    BY <1>1 DEF OutOfRange, Inv, TypeOK, Counted, PcValues, input, stopVars
  <2> QED  BY <1>1, <2>1, QuietStep DEF OutOfRange
<1>2. CASE MarkDone
  <2>1. Len(fresh) \in Nat /\ visited \in Nat
    BY DEF Inv, TypeOK
  <2>2. /\ pc' \in {"visit", "score"} /\ visited' = visited + Len(fresh) /\ pc = "mark"
        /\ UNCHANGED <<input, pool, marked, frontier, links, fresh, stopVars>>
    BY <1>2 DEF MarkDone
  <2>3. TypeOK' /\ Counted'
    BY <2>1, <2>2 DEF Inv, TypeOK, Counted, PcValues, input, stopVars
  <2> QED  BY <2>2, <2>3, QuietStep
<1>3. CASE FinishRound
  <2>1. /\ pc = "visit" /\ pc' \in {"done", "select"}
        /\ UNCHANGED <<input, pool, marked, frontier, links, fresh, backBefore, visited>>
    BY <1>3 DEF FinishRound
  <2>2. stall' \in Nat
    <3>1. stall \in Nat
      BY DEF Inv, TypeOK
    <3>2. stall' \in {stall, stall + 1, 0}
      BY <1>3 DEF FinishRound
    <3> QED  BY <3>1, <3>2
  <2>3. TypeOK' /\ Counted'
    BY <2>1, <2>2 DEF Inv, TypeOK, Counted, PcValues, input
  <2> QED  BY <2>1, <2>3, QuietStep
<1>4. CASE UNCHANGED vars
  <2>1. UNCHANGED <<input, pc, pool, marked, frontier, links, fresh, stopVars, visited>>
    BY <1>4 DEF vars
  <2>2. TypeOK' /\ Counted'
    BY <2>1 DEF Inv, TypeOK, Counted, input, stopVars
  <2> QED  BY <2>1, <2>2, QuietStep
<1> QED  BY <1>1, <1>2, <1>3, <1>4

LEMMA StepKeepsInv ==
  ASSUME Inv, [Next]_vars
  PROVE  Inv'
<1>1. CASE SelectFrontier
  BY <1>1, SelectStep
<1>2. CASE VisitNode
  BY <1>2, VisitStep
<1>3. CASE MarkNeighbor
  BY <1>3, MarkStep
<1>4. CASE ScoreFresh
  BY <1>4, ScoreStep
<1>5. CASE OutOfRange \/ MarkDone \/ FinishRound \/ UNCHANGED vars
  BY <1>5, LoopStep
<1> QED  BY <1>1, <1>2, <1>3, <1>4, <1>5 DEF Next, Traverse

THEOREM SearchInvariance == Spec => []Inv
BY InitHolds, StepKeepsInv, PTL DEF Spec

-----------------------------------------------------------------------------
(* The theorems *)

\* The variables of the search keep their types, on every graph.
THEOREM TypeCorrect == Spec => []TypeOK
<1>1. Inv => TypeOK  BY DEF Inv
<1> QED  BY <1>1, SearchInvariance, PTL

\* The pool is sorted, has no node twice and never more than L entries.
THEOREM PoolStaysSorted == Spec => []PoolSorted
<1>1. Inv => PoolSorted  BY DEF Inv
<1> QED  BY <1>1, SearchInvariance, PTL

\* No node is offered to the pool twice, and the visited nodes are counted
\* as often as they are marked: once.
THEOREM NodesOfferedOnce == Spec => []EachNodeOnce
<1>1. Inv => EachNodeOnce
  <2> SUFFICES ASSUME Inv PROVE EachNodeOnce
    OBVIOUS
  <2>1. DOMAIN pool = 1 .. Len(pool) /\ DOMAIN fresh = 1 .. Len(fresh)
    BY DEF Inv, TypeOK
  <2> QED  BY <2>1 DEF Inv, OfferedOnce, Counted, EachNodeOnce, Ids
<1> QED  BY <1>1, SearchInvariance, PTL

\* A step never takes a rank of the pool away or gives it to a worse node.
THEOREM PoolOnlyImproves == Spec => RanksNeverWorsen
<1> DEFINE Better == /\ Len(pool') >= Len(pool)
                     /\ \A i \in 1 .. Len(pool) : ~Less(pool[i].id, pool'[i].id)
<1>1. Inv /\ [Next]_vars => [Better]_vars
  <2> SUFFICES ASSUME Inv, Next PROVE Better
    OBVIOUS
  <2>1. Len(pool) \in Nat /\ \A i \in 1 .. Len(pool) : ~Less(pool[i].id, pool[i].id)
    <3>1. DistType /\ pool \in Seq(Entry)
      BY TypesOfInv DEF Inv
    <3>2. \A i \in 1 .. Len(pool) : pool[i].id \in Nodes
      BY <3>1, EntriesTyped
    <3> QED  BY <3>1, <3>2, LessIsOrder
  <2>2. CASE SelectFrontier
    BY <2>1, <2>2, SelectStep
  <2>3. CASE ScoreFresh
    BY <2>3, ScoreStep
  <2>4. CASE VisitNode \/ MarkNeighbor \/ OutOfRange \/ MarkDone \/ FinishRound
    <3>1. pool' = pool
      BY <2>4 DEF VisitNode, MarkNeighbor, OutOfRange, MarkDone, FinishRound
    <3> QED  BY <2>1, <3>1
  <2> QED  BY <2>2, <2>3, <2>4 DEF Next, Traverse
<1> QED  BY <1>1, SearchInvariance, PTL DEF Spec, RanksNeverWorsen

-----------------------------------------------------------------------------
(* Closed *)

Members(s) == {s[i] : i \in 1 .. Len(s)}

\* What is left of a loop when another one is running: nothing.
Phases ==
  /\ pc \notin {"mark", "error"} => links = <<>>
  /\ pc \in {"select", "visit", "done"} => fresh = <<>>
  /\ pc \in {"select", "done"} => frontier = <<>>

\* A node that was met is in the pool, waits for its score, or is ruled out.
MarkedPlaced == \A n \in marked : n \in Ids(pool) \cup Members(fresh) \/ RuledOut(pool, n)

\* The neighbours of an entry that was expanded, and whose turn in the round
\* has come, were met or are about to be.
ExpandedSeen ==
  \A i \in 1 .. Len(pool) :
    pool[i].expanded /\ pool[i].id \notin Members(frontier) =>
      Members(graph[pool[i].id]) \subseteq marked \cup Members(links)

\* Without the early stop the search ends only when all entries are expanded.
AllExpanded ==
  pc = "done" /\ EarlyStopHops = 0 => \A i \in 1 .. Len(pool) : pool[i].expanded

ClosedInv == Inv /\ Phases /\ MarkedPlaced /\ ExpandedSeen /\ AllExpanded

LEMMA TailMembers ==
  ASSUME NEW S, NEW s \in Seq(S), s # <<>>
  PROVE  /\ Tail(s) \in Seq(S) /\ Head(s) \in S
         /\ Members(s) = Members(Tail(s)) \cup {Head(s)}
         /\ Len(s) = 1 <=> Tail(s) = <<>>
<1>1. /\ Tail(s) \in Seq(S) /\ Head(s) \in S /\ Head(s) = s[1] /\ Len(s) \in Nat /\ Len(s) >= 1
      /\ Len(Tail(s)) = Len(s) - 1
      /\ \A i \in 1 .. Len(s) - 1 : Tail(s)[i] = s[i + 1]
  OBVIOUS
<1>2. Members(Tail(s)) \cup {Head(s)} \subseteq Members(s)
  BY <1>1 DEF Members
<1>3. ASSUME NEW i \in 1 .. Len(s)
      PROVE  s[i] \in Members(Tail(s)) \cup {Head(s)}
  <2>1. CASE i = 1
    BY <1>1, <2>1
  <2>2. CASE i # 1
    <3>1. i - 1 \in 1 .. Len(s) - 1 /\ Tail(s)[i - 1] = s[(i - 1) + 1] /\ (i - 1) + 1 = i
      BY <1>1, <2>2
    <3> QED  BY <1>1, <3>1 DEF Members
  <2> QED  BY <2>1, <2>2
<1>4. Len(s) = 1 <=> Tail(s) = <<>>
  <2>1. Tail(s) # <<>> => Len(Tail(s)) \in Nat \ {0}
    BY <1>1, EmptySeq
  <2>2. Tail(s) = <<>> => Len(Tail(s)) = 0
    BY EmptySeq
  <2> QED  BY <1>1, <2>1, <2>2
<1> QED  BY <1>1, <1>2, <1>3, <1>4 DEF Members

LEMMA InitClosed == Init => ClosedInv
<1> SUFFICES ASSUME Init PROVE ClosedInv
  OBVIOUS
<1>1. Inv
  BY InitHolds
<1>2. pool = <<NewEntry(Start)>> /\ Len(pool) = 1 /\ pool[1].id = Start /\ ~pool[1].expanded
      /\ marked = {Start}
  BY DEF Init, NewEntry
<1>3. MarkedPlaced
  BY <1>2 DEF MarkedPlaced, Ids
<1>4. ExpandedSeen
  BY <1>2 DEF ExpandedSeen
<1>5. Phases /\ AllExpanded
  BY DEF Init, Phases, AllExpanded
<1> QED  BY <1>1, <1>3, <1>4, <1>5 DEF ClosedInv

\* A beam that is empty leaves nothing to expand.
LEMMA BeamEmpty ==
  ASSUME Inv, \A i \in 1 .. Len(pool) : ~InBeam(i)
  PROVE  \A i \in 1 .. Len(pool) : pool[i].expanded
<1> DEFINE T == {i \in 1 .. Len(pool) : ~pool[i].expanded}
<1>1. SUFFICES ASSUME T # {} PROVE FALSE
  OBVIOUS
<1>2. T \subseteq Nat
  OBVIOUS
<1>3. PICK i \in T : \A j \in T : ~(j < i)
  BY <1>1, <1>2, LeastNumber
<1>4. {j \in 1 .. i : ~pool[j].expanded} = {i}
  <2>1. Len(pool) \in Nat
    BY DEF Inv, TypeOK
  <2>2. \A j \in 1 .. i : j \in 1 .. Len(pool) /\ (j < i \/ j = i)
    BY <2>1
  <2> QED  BY <1>3, <2>2
<1>5. Cardinality({i}) = 1
  BY FS_Singleton
<1> QED  BY <1>3, <1>4, <1>5 DEF InBeam

\* The frontier is the beam: every entry that is marked expanded in this round
\* gets its turn in it.
LEMMA FrontierIsBeam ==
  ASSUME Inv, SelectFrontier
  PROVE  \A i \in 1 .. Len(pool) : InBeam(i) => pool[i].id \in Members(frontier')
<1> DEFINE beam == {i \in 1 .. Len(pool) : InBeam(i)}
           c    == Cardinality(beam)
<1>1. PICK f \in [1 .. c -> beam] : TakeInOrder(f)
  BY DEF SelectFrontier
<1>2. IsFiniteSet(beam) /\ c \in Nat
  <2>1. IsFiniteSet(1 .. Len(pool))
    BY FS_Interval DEF Inv, TypeOK
  <2> QED  BY <2>1, FS_Subset, FS_CardinalityType
<1>3. \A j, k \in 1 .. c : f[j] = f[k] => j = k
  <2> TAKE j, k \in 1 .. c
  <2>1. j < k => f[j] < f[k]
    BY <1>1 DEF TakeInOrder
  <2>2. k < j => f[k] < f[j]
    BY <1>1 DEF TakeInOrder
  <2>3. f[j] \in Int /\ f[k] \in Int
    BY <1>1
  <2> QED  BY <1>2, <2>1, <2>2, <2>3
<1>4. f \in Injection(1 .. c, beam)
  BY <1>1, <1>3, Zenon DEF Injection, IsInjective
<1>5. IsFiniteSet(1 .. c) /\ Cardinality(1 .. c) = c
  BY <1>2, FS_Interval
<1>6. f \in Surjection(1 .. c, beam)
  BY <1>2, <1>4, <1>5, FS_Injection
<1>7. frontier' = [k \in 1 .. c |-> pool[f[k]].id]
  BY <1>1 DEF TakeInOrder
<1>8. Len(frontier') = c
  BY <1>2, <1>7
<1> SUFFICES ASSUME NEW i \in 1 .. Len(pool), InBeam(i)
             PROVE  pool[i].id \in Members(frontier')
  OBVIOUS
<1>9. PICK k \in 1 .. c : f[k] = i
  BY <1>6 DEF Surjection
<1>10. frontier'[k] = pool[i].id
  BY <1>7, <1>9
<1> QED  BY <1>8, <1>10 DEF Members

LEMMA SelectClosed ==
  ASSUME ClosedInv, SelectFrontier
  PROVE  ClosedInv'
<1> DEFINE beam == {i \in 1 .. Len(pool) : InBeam(i)}
<1>1. /\ Inv /\ Inv' /\ Len(pool') = Len(pool) /\ Len(pool) \in 1 .. L
      /\ \A i \in 1 .. Len(pool) : pool'[i].id = pool[i].id /\ pool[i] \in Entry
  <2>1. Inv
    BY DEF ClosedInv
  <2>2. pool \in Seq(Entry) /\ Len(pool) \in 1 .. L
    BY <2>1, TypesOfInv DEF Inv
  <2> QED  BY <2>1, <2>2, SelectStep, EntriesTyped
<1>2. /\ pool' = [i \in 1 .. Len(pool) |-> [pool[i] EXCEPT !.expanded = @ \/ i \in beam]]
      /\ pc = "select" /\ pc' = (IF beam = {} THEN "done" ELSE "visit")
      /\ UNCHANGED <<input, marked, links, fresh, stall, visited>>
  BY DEF SelectFrontier
<1>3. \A i \in 1 .. Len(pool) : pool'[i].expanded <=> pool[i].expanded \/ i \in beam
  BY <1>1, <1>2 DEF Entry
<1>4. links = <<>> /\ fresh = <<>> /\ frontier = <<>>
  BY <1>2 DEF ClosedInv, Phases
<1>5. Phases'
  <2>1. beam = {} => frontier' = <<>>
    <3> HAVE beam = {}
    <3>1. Cardinality(beam) = 0
      BY FS_EmptySet
    <3>2. PICK f \in [1 .. Cardinality(beam) -> beam] : TakeInOrder(f)
      BY DEF SelectFrontier
    <3>3. frontier' = [k \in 1 .. 0 |-> pool[f[k]].id]
      BY <3>1, <3>2 DEF TakeInOrder
    <3> QED  BY <3>3
  <2> QED  BY <1>2, <1>4, <2>1 DEF Phases
<1>6. Ids(pool') = Ids(pool) /\ Back(pool') = Back(pool)
  <2>1. Len(pool) \in 1 .. Len(pool)
    BY <1>1
  <2> QED  BY <1>1, <2>1 DEF Ids, Back
<1>7. MarkedPlaced'
  <2>1. \A n : RuledOut(pool, n) => RuledOut(pool, n)'
    BY <1>1, <1>2, <1>6 DEF RuledOut, Full, Less, input
  <2> QED  BY <1>2, <1>6, <2>1 DEF ClosedInv, MarkedPlaced
<1>8. ExpandedSeen'
  <2> SUFFICES ASSUME NEW i \in 1 .. Len(pool),
                      pool'[i].expanded, pool'[i].id \notin Members(frontier')
               PROVE  Members(graph[pool[i].id]) \subseteq marked \cup Members(links)
    BY <1>1, <1>2 DEF ExpandedSeen, input
  <2>1. i \notin beam
    BY <1>1, FrontierIsBeam
  <2>2. pool[i].expanded /\ Members(frontier) = {}
    BY <1>3, <1>4, <2>1 DEF Members
  <2> QED  BY <2>2 DEF ClosedInv, ExpandedSeen
<1>9. AllExpanded'
  <2> SUFFICES ASSUME pc' = "done" PROVE \A i \in 1 .. Len(pool) : pool'[i].expanded
    BY <1>1 DEF AllExpanded
  <2>1. \A i \in 1 .. Len(pool) : ~InBeam(i)
    BY <1>2
  <2> QED  BY <1>1, <1>3, <2>1, BeamEmpty
<1> QED  BY <1>1, <1>5, <1>7, <1>8, <1>9 DEF ClosedInv

LEMMA VisitClosed ==
  ASSUME ClosedInv, VisitNode
  PROVE  ClosedInv'
<1>1. /\ Inv /\ Inv' /\ pc = "visit" /\ pc' = "mark" /\ fresh' = <<>>
      /\ frontier # <<>> /\ frontier \in Seq(Nodes)
      /\ links' = graph[Head(frontier)] /\ frontier' = Tail(frontier)
      /\ UNCHANGED <<input, pool, marked, stopVars, visited>>
  BY VisitStep DEF ClosedInv, VisitNode, Inv, TypeOK
<1>2. fresh = <<>> /\ links = <<>>
  BY <1>1 DEF ClosedInv, Phases
<1>3. Phases' /\ AllExpanded'
  BY <1>1 DEF Phases, AllExpanded
<1>4. MarkedPlaced'
  BY <1>1, <1>2 DEF ClosedInv, MarkedPlaced, RuledOut, Less, input
<1>5. Members(frontier) = Members(frontier') \cup {Head(frontier)}
  BY <1>1, TailMembers
<1>6. ExpandedSeen'
  <2> SUFFICES ASSUME NEW i \in 1 .. Len(pool), pool[i].expanded,
                      pool[i].id \notin Members(frontier')
               PROVE  Members(graph[pool[i].id]) \subseteq marked \cup Members(links')
    BY <1>1 DEF ExpandedSeen, input
  <2>1. CASE pool[i].id = Head(frontier)
    BY <1>1, <2>1
  <2>2. CASE pool[i].id # Head(frontier)
    <3>1. pool[i].id \notin Members(frontier)
      BY <1>5, <2>2
    <3>2. Members(links) = {}
      BY <1>2 DEF Members
    <3> QED  BY <3>1, <3>2 DEF ClosedInv, ExpandedSeen
  <2> QED  BY <2>1, <2>2
<1> QED  BY <1>1, <1>3, <1>4, <1>6 DEF ClosedInv

LEMMA MarkClosed ==
  ASSUME ClosedInv, MarkNeighbor
  PROVE  ClosedInv'
<1> DEFINE n == Head(links)
<1>1. /\ Inv /\ Inv' /\ pc = "mark" /\ pc' = "mark"
      /\ links # <<>> /\ links \in Seq(Nat) /\ links' = Tail(links)
      /\ fresh' = IF n \in marked THEN fresh ELSE Append(fresh, n)
      /\ marked' = marked \cup {n} /\ fresh \in Seq(Nodes) /\ n < NodeCount
      /\ UNCHANGED <<input, pool, frontier>>
  BY MarkStep DEF ClosedInv, MarkNeighbor, Inv, TypeOK
<1>2. Members(links) = Members(links') \cup {n} /\ n \in Nat
  BY <1>1, TailMembers
<1>3. Phases' /\ AllExpanded'
  BY <1>1 DEF Phases, AllExpanded
<1>4. ExpandedSeen'
  BY <1>1, <1>2 DEF ClosedInv, ExpandedSeen, input
<1>5. Members(fresh) \subseteq Members(fresh') /\ (n \in marked \/ n \in Members(fresh'))
  <2>1. n \in Nodes /\ Len(fresh) \in Nat
    BY <1>1, <1>2 DEF Nodes
  <2>2. CASE n \in marked
    BY <1>1, <2>2
  <2>3. CASE n \notin marked
    <3>1. fresh' = Append(fresh, n) /\ Len(fresh') = Len(fresh) + 1 /\ fresh'[Len(fresh) + 1] = n
          /\ \A i \in 1 .. Len(fresh) : fresh'[i] = fresh[i] /\ i \in 1 .. Len(fresh')
      BY <1>1, <2>1, <2>3
    <3>2. Len(fresh) + 1 \in 1 .. Len(fresh')
      BY <2>1, <3>1
    <3> QED  BY <3>1, <3>2 DEF Members
  <2> QED  BY <2>2, <2>3
<1>6. MarkedPlaced'
  <2> SUFFICES ASSUME NEW m \in marked \cup {n}
               PROVE  m \in Ids(pool) \cup Members(fresh') \/ RuledOut(pool, m)
    BY <1>1 DEF MarkedPlaced, RuledOut, Less, input
  <2> QED  BY <1>5 DEF ClosedInv, MarkedPlaced
<1> QED  BY <1>1, <1>3, <1>4, <1>6 DEF ClosedInv

LEMMA ScoreClosed ==
  ASSUME ClosedInv, ScoreFresh
  PROVE  ClosedInv'
<1> DEFINE n == Head(fresh)
<1>1. /\ Inv /\ Inv' /\ pc = "score" /\ pc' = (IF Len(fresh) = 1 THEN "visit" ELSE "score")
      /\ fresh # <<>> /\ fresh \in Seq(Nodes) /\ fresh' = Tail(fresh)
      /\ pool' = Insert(pool, n)
      /\ UNCHANGED <<input, marked, frontier, links>>
  BY ScoreStep DEF ClosedInv, ScoreFresh, NextFresh, Inv, TypeOK
<1>2. Members(fresh) = Members(fresh') \cup {n} /\ n \in Nodes /\ (Len(fresh) = 1 => fresh' = <<>>)
  BY <1>1, TailMembers
<1>3. DistType /\ pool \in Seq(Entry) /\ Len(pool) \in 1 .. L /\ Ordered(pool) /\ marked \subseteq Nodes
  BY <1>1, TypesOfInv DEF Inv, TypeOK
<1>4. Offerable(pool, n)
  <2>1. n \in Members(fresh)
    BY <1>2
  <2>2. n \notin Ids(pool)
    BY <1>1, <2>1 DEF Inv, OfferedOnce, Members
  <2> QED  BY <1>2, <1>3, <2>2 DEF Offerable
<1>5. /\ \A j \in 1 .. Len(pool') :
           pool'[j] = NewEntry(n) \/ \E k \in 1 .. Len(pool) : pool'[j] = pool[k]
      /\ \A x \in Ids(pool) \cup {n} : x \in Ids(pool') \/ RuledOut(pool', x)
      /\ \A x \in Nodes : RuledOut(pool, x) => RuledOut(pool', x)
  BY <1>1, <1>3, <1>4, InsertForgetsNothing
<1>6. Phases' /\ AllExpanded'
  BY <1>1, <1>2 DEF ClosedInv, Phases, AllExpanded
<1>7. MarkedPlaced'
  <2> SUFFICES ASSUME NEW m \in marked
               PROVE  m \in Ids(pool') \cup Members(fresh') \/ RuledOut(pool', m)
    BY <1>1 DEF MarkedPlaced, RuledOut, Less, input
  <2>1. m \in Ids(pool) \cup Members(fresh) \/ RuledOut(pool, m)
    BY DEF ClosedInv, MarkedPlaced
  <2>2. m \in Nodes
    BY <1>3
  <2> QED  BY <1>2, <1>5, <2>1, <2>2
<1>8. ExpandedSeen'
  <2> SUFFICES ASSUME NEW j \in 1 .. Len(pool'), pool'[j].expanded,
                      pool'[j].id \notin Members(frontier)
               PROVE  Members(graph[pool'[j].id]) \subseteq marked \cup Members(links)
    BY <1>1 DEF ExpandedSeen, input
  <2>1. pool'[j] # NewEntry(n)
    BY DEF NewEntry
  <2>2. PICK k \in 1 .. Len(pool) : pool'[j] = pool[k]
    BY <1>5, <2>1
  <2> QED  BY <2>2 DEF ClosedInv, ExpandedSeen
<1> QED  BY <1>1, <1>6, <1>7, <1>8 DEF ClosedInv

LEMMA LoopClosed ==
  ASSUME ClosedInv, OutOfRange \/ MarkDone \/ FinishRound \/ UNCHANGED vars
  PROVE  ClosedInv'
<1>1. /\ Inv /\ Inv' /\ UNCHANGED <<input, pool, marked, frontier, links, fresh>>
  BY LoopStep DEF ClosedInv, OutOfRange, MarkDone, FinishRound, vars
<1>2. Phases'
  BY DEF ClosedInv, Phases, OutOfRange, MarkDone, FinishRound, vars
<1>3. MarkedPlaced'
  BY <1>1 DEF ClosedInv, MarkedPlaced, RuledOut, Less, input
<1>4. ExpandedSeen'
  BY <1>1 DEF ClosedInv, ExpandedSeen, input
<1>5. AllExpanded'
  BY <1>1 DEF ClosedInv, AllExpanded, OutOfRange, MarkDone, FinishRound, Stalled, vars
<1> QED  BY <1>1, <1>2, <1>3, <1>4, <1>5 DEF ClosedInv

LEMMA StepKeepsClosed ==
  ASSUME ClosedInv, [Next]_vars
  PROVE  ClosedInv'
BY SelectClosed, VisitClosed, MarkClosed, ScoreClosed, LoopClosed DEF Next, Traverse

\* The search is over only when nothing the pool can see would improve it.
LEMMA ClosedFollows == ClosedInv => Closed
<1> SUFFICES ASSUME ClosedInv, pc = "done", EarlyStopHops = 0, NEW i \in DOMAIN pool
             PROVE  /\ pool[i].expanded
                    /\ \A k \in DOMAIN graph[pool[i].id] :
                         /\ graph[pool[i].id][k] \in Nodes
                         /\ \/ \E j \in DOMAIN pool : pool[j].id = graph[pool[i].id][k]
                            \/ Full(pool) /\ ~Less(graph[pool[i].id][k], Back(pool))
  BY DEF Closed
<1>1. /\ pool \in Seq(Entry) /\ DOMAIN pool = 1 .. Len(pool) /\ marked \subseteq Nodes
      /\ graph \in [Nodes -> Seq(Nat)]
  BY DEF ClosedInv, Inv, TypeOK
<1>2. pool[i].expanded /\ pool[i].id \in Nodes
  BY <1>1, EntriesTyped DEF ClosedInv, AllExpanded
<1>3. frontier = <<>> /\ links = <<>> /\ fresh = <<>>
  BY DEF ClosedInv, Phases
<1>4. Members(graph[pool[i].id]) \subseteq marked
  <2>1. Members(<<>>) = {}
    BY DEF Members
  <2> QED  BY <1>1, <1>2, <1>3, <2>1 DEF ClosedInv, ExpandedSeen
<1> SUFFICES ASSUME NEW k \in DOMAIN graph[pool[i].id]
             PROVE  /\ graph[pool[i].id][k] \in Nodes
                    /\ \/ \E j \in DOMAIN pool : pool[j].id = graph[pool[i].id][k]
                       \/ Full(pool) /\ ~Less(graph[pool[i].id][k], Back(pool))
  BY <1>2
<1>5. graph[pool[i].id][k] \in marked
  <2>1. graph[pool[i].id] \in Seq(Nat)
    BY <1>1, <1>2
  <2>2. k \in 1 .. Len(graph[pool[i].id])
    BY <2>1
  <2> QED  BY <1>4, <2>2 DEF Members
<1>6. graph[pool[i].id][k] \in Ids(pool) \/ RuledOut(pool, graph[pool[i].id][k])
  BY <1>3, <1>5 DEF ClosedInv, MarkedPlaced, Members
<1> QED  BY <1>1, <1>5, <1>6 DEF Ids, RuledOut

\* A search that ran without the early stop has expanded its whole pool and
\* met every neighbour of it: none that is missing would be in the pool of
\* the L best.
THEOREM SearchEndsClosed == Spec => []Closed
BY InitClosed, StepKeepsClosed, ClosedFollows, PTL DEF Spec

-----------------------------------------------------------------------------
(* GatedSearch *)

USE BoundsAssumption

\* A search whose estimates are lower bounds.
SoundInv ==
  /\ Inv
  /\ bound \in [Nodes -> Bounds]
  /\ Sound

\* A node ruled out by the gate would not have entered the pool.
LEMMA GateMeansNoInsert ==
  ASSUME SoundInv, pc = "score", fresh # <<>>, Gate(pool, Head(fresh))
  PROVE  Insert(pool, Head(fresh)) = pool
<1> DEFINE n == Head(fresh)
<1>1. n \in Nodes
  BY DEF SoundInv, Inv, TypeOK
<1>2. Back(pool) \in Nodes /\ dist[Back(pool)] \in Nat /\ dist[n] \in Nat
  BY <1>1, TypesOfInv DEF SoundInv, Inv, DistType
<1>3. bound[n] \in Int /\ bound[n] # Invalid /\ bound[n] > dist[Back(pool)] /\ Full(pool)
  <2>1. bound[n] \in Nat \cup {-1}
    BY <1>1 DEF SoundInv, Invalid
  <2> QED  BY <2>1 DEF Gate
<1>4. bound[n] <= dist[n]
  BY <1>1, <1>3 DEF SoundInv, Sound
<1>5. dist[n] > dist[Back(pool)]
  BY <1>2, <1>3, <1>4
<1>6. ~Less(n, Back(pool))
  BY <1>2, <1>5 DEF Less
<1> QED  BY <1>3, <1>6 DEF Insert

\* Every step of the gated search is one of the plain search.
LEMMA GatedStepIsPlain ==
  ASSUME SoundInv, [GNext]_gatedVars
  PROVE  [Next]_vars
<1>1. CASE Traverse
  BY <1>1 DEF Next
<1>2. CASE SkipFresh
  <2>1. pool' = Insert(pool, Head(fresh))
    BY <1>2, GateMeansNoInsert DEF SkipFresh
  <2>2. ScoreFresh
    BY <1>2, <2>1 DEF SkipFresh, ScoreFresh
  <2> QED  BY <2>2 DEF Next
<1>3. CASE ScoreSurvivor
  BY <1>3 DEF ScoreSurvivor, Next
<1>4. CASE UNCHANGED gatedVars
  BY <1>4 DEF gatedVars
<1> QED  BY <1>1, <1>2, <1>3, <1>4 DEF GNext

\* The estimates and the distances do not change, so they stay sound.
LEMMA SoundStep ==
  ASSUME SoundInv, [GNext]_gatedVars
  PROVE  SoundInv'
<1>1. Inv'
  BY GatedStepIsPlain, StepKeepsInv DEF SoundInv
<1>2. bound' = bound
  BY DEF GNext, gatedVars
<1>3. dist' = dist
  BY GatedStepIsPlain DEF Next, Traverse, SelectFrontier, VisitNode, MarkNeighbor, OutOfRange,
     MarkDone, FinishRound, ScoreFresh, NextFresh, input, vars
<1> QED  BY <1>1, <1>2, <1>3 DEF SoundInv, Sound

\* The invariant of the plain search holds for the gated one.
THEOREM SoundInvariance == SoundSpec => []SoundInv
<1>1. GInit /\ Sound => SoundInv
  BY InitHolds DEF GInit, SoundInv
<1> QED  BY <1>1, SoundStep, PTL DEF SoundSpec, SoundInit

\* With sound bounds the gated search is the plain search, step by step and
\* with the same pool, whatever the graph, the estimates and the early stop.
THEOREM GateChangesNothing == SoundSpec => SameAsPlainSearch
<1>1. GInit => Init
  BY DEF GInit
<1> QED  BY <1>1, GatedStepIsPlain, SoundInvariance, PTL DEF SoundSpec, SoundInit, SameAsPlainSearch, Spec

\* The pool of the gated search is sorted and has no node twice.
THEOREM GatedPoolSorted == SoundSpec => []PoolSorted
<1>1. SoundInv => PoolSorted  BY DEF SoundInv, Inv
<1> QED  BY <1>1, SoundInvariance, PTL

\* Its answer is closed, with the neighbours the gate has ruled out as well:
\* no record the search did not read would have been in the pool.
THEOREM GatedSearchEndsClosed == SoundSpec => []Closed
BY GateChangesNothing, SearchEndsClosed, PTL DEF SameAsPlainSearch

-----------------------------------------------------------------------------
(* flush_distance_batch *)

USE BatchSizeAssumption

BoundType == bound \in [Nodes -> Nat \cup {Invalid}]

\* A pool that gets better never lets through what it would have stopped: the
\* second gate stops every node the first one would.
LEMMA GateStaysShut ==
  ASSUME DistType, BoundType, NEW p, NEW node, Offerable(p, node), NEW x \in Nodes, Gate(p, x)
  PROVE  Gate(Insert(p, node), x)
<1> DEFINE q == Insert(p, node)
<1>1. /\ p \in Seq(Entry) /\ Len(p) \in 1 .. L /\ Len(p) >= L
      /\ q \in Seq(Entry) /\ Len(q) \in Len(p) .. L
      /\ \A i \in 1 .. Len(p) : ~Less(p[i].id, q[i].id)
  BY InsertKeepsPool DEF Offerable, Gate, Full
<1> HIDE DEF q
<1>2. Len(q) = L /\ Len(p) = L /\ L \in 1 .. Len(p) /\ L \in 1 .. Len(q)
  BY <1>1
<1>3. p[L].id \in Nodes /\ q[L].id \in Nodes /\ ~Less(p[L].id, q[L].id)
  BY <1>1, <1>2, EntriesTyped
<1>4. dist[q[L].id] <= dist[p[L].id]
  <2>1. dist[q[L].id] \in Nat /\ dist[p[L].id] \in Nat
    BY <1>3 DEF DistType
  <2> QED  BY <1>3, <2>1 DEF Less
<1>5. bound[x] \in Int /\ bound[x] # Invalid /\ bound[x] > dist[p[L].id]
  <2>1. bound[x] \in Nat \cup {-1}
    BY DEF BoundType, Invalid
  <2> QED  BY <1>2, <2>1 DEF Gate, Back
<1>6. dist[q[L].id] \in Nat /\ dist[p[L].id] \in Nat
  BY <1>3 DEF DistType
<1>7. bound[x] > dist[q[L].id]
  BY <1>4, <1>5, <1>6
<1> QED  BY <1>2, <1>5, <1>7 DEF Gate, Full, Back, q

\* The state of the turns before the first one.
Unoffered == [pool |-> pool, scored |-> scored, skipped |-> skipped]

IsChain(n, f) ==
  f = [i \in 0 .. n |-> IF i = 0 THEN Unoffered ELSE Offer(f[i - 1], batch[i])]

LEMMA ChainExists ==
  ASSUME NEW n \in Nat
  PROVE  \E f : IsChain(n, f)
<1> DEFINE T == {k \in Nat : ~\E f : IsChain(k, f)}
<1> SUFFICES ASSUME T # {} PROVE FALSE
  OBVIOUS
<1>1. PICK k \in T : \A j \in T : ~(j < k)
  BY LeastNumber
<1>2. CASE k = 0
  <2> DEFINE f == [i \in 0 .. 0 |-> Unoffered]
  <2>1. f = [i \in 0 .. 0 |-> IF i = 0 THEN Unoffered ELSE Offer(f[i - 1], batch[i])]
    OBVIOUS
  <2>2. IsChain(k, f)
    BY <1>2, <2>1 DEF IsChain
  <2> QED  BY <1>1, <2>2
<1>3. CASE k # 0
  <2>1. k \in Nat /\ k - 1 \in Nat /\ k - 1 < k
    BY <1>1, <1>3
  <2>2. PICK g : IsChain(k - 1, g)
    BY <1>1, <2>1
  <2>3. /\ DOMAIN g = 0 .. k - 1
        /\ \A i \in 0 .. k - 1 : g[i] = IF i = 0 THEN Unoffered ELSE Offer(g[i - 1], batch[i])
    BY <2>2, Zenon DEF IsChain
  <2> DEFINE f == [i \in 0 .. k |-> IF i = k THEN Offer(g[k - 1], batch[k]) ELSE g[i]]
  <2>4. \A i \in 0 .. k : f[i] = IF i = 0 THEN Unoffered ELSE Offer(f[i - 1], batch[i])
    <3> TAKE i \in 0 .. k
    <3>1. CASE i = k
      <4>1. f[k] = Offer(g[k - 1], batch[k]) /\ f[k - 1] = g[k - 1] /\ k # 0
        BY <2>1
      <4> QED  BY <3>1, <4>1
    <3>2. CASE i # k /\ i # 0
      <4>1. i \in 0 .. k - 1 /\ i - 1 \in 0 .. k /\ i - 1 # k
        BY <2>1, <3>2
      <4>2. f[i] = g[i] /\ f[i - 1] = g[i - 1]
        BY <3>2, <4>1
      <4> QED  BY <2>3, <3>2, <4>1, <4>2
    <3>3. CASE i = 0 /\ i # k
      <4>1. i \in 0 .. k - 1 /\ f[i] = g[i]
        BY <2>1, <3>3
      <4> QED  BY <2>3, <3>3, <4>1
    <3> QED  BY <3>1, <3>2, <3>3
  <2>5. DOMAIN f = 0 .. k /\ f = [i \in 0 .. k |-> f[i]]
    OBVIOUS
  <2> HIDE DEF f
  <2>6. f = [i \in 0 .. k |-> IF i = 0 THEN Unoffered ELSE Offer(f[i - 1], batch[i])]
    BY <2>4, <2>5
  <2>7. IsChain(k, f)
    BY <2>6, Zenon DEF IsChain
  <2> QED  BY <1>1, <2>7
<1> QED  BY <1>2, <1>3

\* Offered does what its recursion says.
LEMMA OfferedSteps ==
  /\ Offered(0) = Unoffered
  /\ \A n \in Nat : \A s, x :
       Offered(n) = s /\ batch[n + 1] = x => Offered(n + 1) = Offer(s, x)
<1> DEFINE Chain(n) == CHOOSE f : IsChain(n, f)
<1>1. \A n \in Nat : IsChain(n, Chain(n))
  BY ChainExists
<1>2. \A n \in Nat : Offered(n) = Chain(n)[n]
  BY DEF Offered, IsChain, Unoffered
<1> HIDE DEF Chain
<1>3. ASSUME NEW n \in Nat
      PROVE  \A i \in 0 .. n :
               Chain(n)[i] = IF i = 0 THEN Unoffered ELSE Offer(Chain(n)[i - 1], batch[i])
  BY <1>1, Zenon DEF IsChain
<1>4. Offered(0) = Unoffered
  BY <1>2, <1>3
<1>5. ASSUME NEW n \in Nat
      PROVE  \A i \in 0 .. n : Chain(n)[i] = Chain(n + 1)[i]
  <2> DEFINE T == {i \in 0 .. n : Chain(n)[i] # Chain(n + 1)[i]}
  <2> SUFFICES ASSUME T # {} PROVE FALSE
    OBVIOUS
  <2>1. T \subseteq Nat
    OBVIOUS
  <2>2. PICK i \in T : \A j \in T : ~(j < i)
    BY <2>1, LeastNumber
  <2>3. i \in 0 .. n /\ i \in 0 .. n + 1 /\ n + 1 \in Nat
    BY <2>2
  <2>4. CASE i = 0
    BY <1>3, <2>2, <2>3, <2>4
  <2>5. CASE i # 0
    <3>1. i - 1 \in 0 .. n /\ i - 1 < i
      BY <2>3, <2>5
    <3>2. Chain(n)[i - 1] = Chain(n + 1)[i - 1]
      BY <2>2, <3>1
    <3> QED  BY <1>3, <2>2, <2>3, <2>5, <3>2
  <2> QED  BY <2>4, <2>5
<1>6. ASSUME NEW n \in Nat
      PROVE  Offered(n + 1) = Offer(Offered(n), batch[n + 1])
  <2>1. n + 1 \in Nat /\ n + 1 # 0 /\ n + 1 \in 0 .. n + 1 /\ n \in 0 .. n /\ (n + 1) - 1 = n
    OBVIOUS
  <2>2. Chain(n + 1)[n + 1] = Offer(Chain(n + 1)[n], batch[n + 1])
    BY <1>3, <2>1
  <2> QED  BY <1>2, <1>5, <2>1, <2>2
<1> QED  BY <1>4, <1>6

PositionUnder(d, p, node) ==
  CHOOSE i \in 1 .. Len(p) + 1 :
    /\ \A j \in 1 .. i - 1 :
         IF d[p[j].id] # d[node] THEN d[p[j].id] < d[node] ELSE p[j].id < node
    /\ i <= Len(p) =>
         ~(IF d[p[i].id] # d[node] THEN d[p[i].id] < d[node] ELSE p[i].id < node)

\* The distances do not change, so neither does what is done with them.
LEMMA OfferFixed ==
  ASSUME dist' = dist, bound' = bound
  PROVE  \A s, x : Offer(s, x)' = Offer(s, x)
<1>1. \A a, b : Less(a, b)' <=> Less(a, b)
  BY DEF Less
<1>2. \A p, x : Position(p, x) = PositionUnder(dist, p, x)
  BY DEF Position, PositionUnder, Less
<1>3. \A p, x : Position(p, x)' = PositionUnder(dist', p, x)
  BY DEF Position, PositionUnder, Less
<1>4. \A p, x : Position(p, x)' = Position(p, x)
  BY <1>2, <1>3
<1>5. \A p, x : Insert(p, x)' = Insert(p, x)
  BY <1>1, <1>4 DEF Insert, Place, Full, Back, NewEntry
<1>6. \A p, x : Gate(p, x)' <=> Gate(p, x)
  BY DEF Gate, Full, Back
<1> QED  BY <1>5, <1>6 DEF Offer

-----------------------------------------------------------------------------
(* The inductive invariant of the batched search *)

\* The nodes that wait are marked, are not in the pool or still to be looked at,
\* and wait once.
Waiting ==
  /\ pc \notin {"score", "flush"} => batch = <<>>
  /\ pc = "score" => Len(batch) < BatchSize
  /\ \A i \in 1 .. Len(batch) :
       batch[i] \in marked /\ batch[i] \notin Ids(pool) /\ batch[i] \notin Members(fresh)
  /\ \A i, j \in 1 .. Len(batch) : batch[i] = batch[j] => i = j

BCounted == Counted /\ (pc = "flush" => visited = Cardinality(marked))

BInv == BTypeOK /\ PoolSorted /\ OfferedOnce /\ BCounted /\ Waiting

LEMMA TypesOfBInv ==
  ASSUME BTypeOK, PoolSorted
  PROVE  /\ DistType /\ BoundType /\ pool \in Seq(Entry) /\ Ordered(pool)
         /\ Len(pool) \in 1 .. L /\ scored \in Nat /\ skipped \in Nat
         /\ batch \in Seq(Nodes) /\ Len(batch) \in Nat
<1>1. /\ pool \in Seq(Entry) /\ DistType /\ BoundType /\ scored \in Nat /\ skipped \in Nat
      /\ batch \in Seq(Nodes)
  BY DEF BTypeOK, DistType, BoundType
<1>2. Ordered(pool) /\ Len(pool) \in 1 .. L
  BY DEF PoolSorted, Ordered
<1> QED  BY <1>1, <1>2

\* A pool that the nodes of the batch, as far as they have been offered, may have
\* entered: sorted, and no wider open than before.
OfferedOk(n, s) ==
  /\ s = [pool |-> s.pool, scored |-> s.scored, skipped |-> s.skipped]
  /\ s.pool \in Seq(Entry) /\ Len(s.pool) \in 1 .. L /\ Ordered(s.pool)
  /\ s.scored \in Nat /\ s.skipped \in Nat
  /\ Ids(s.pool) \subseteq Ids(pool) \cup {batch[i] : i \in 1 .. n}
  /\ \A x \in Nodes : Gate(pool, x) => Gate(s.pool, x)

LEMMA OfferIsOk ==
  ASSUME DistType, BoundType, Waiting, batch \in Seq(Nodes),
         NEW n \in Nat, n + 1 <= Len(batch), NEW s, OfferedOk(n, s)
  PROVE  OfferedOk(n + 1, Offer(s, batch[n + 1]))
<1> DEFINE x == batch[n + 1]
           t == Offer(s, x)
<1>1. n + 1 \in 1 .. Len(batch) /\ \A i \in 1 .. n : i \in 1 .. Len(batch) /\ i # n + 1
  OBVIOUS
<1>2. x \in Nodes /\ x \notin Ids(pool) /\ \A i \in 1 .. n : batch[i] # x
  BY <1>1 DEF Waiting
<1>3. {batch[i] : i \in 1 .. n + 1} = {batch[i] : i \in 1 .. n} \cup {x}
  <2>1. \A i \in 1 .. n + 1 : i \in 1 .. n \/ i = n + 1
    OBVIOUS
  <2> QED  BY <1>1, <2>1
<1>4. Offerable(s.pool, x)
  BY <1>2 DEF OfferedOk, Offerable
<1> HIDE DEF x
<1>5. CASE Gate(s.pool, x)
  <2>1. t = [pool |-> s.pool, scored |-> s.scored, skipped |-> s.skipped + 1]
    <3>1. t = [s EXCEPT !.skipped = @ + 1]
      BY <1>5 DEF Offer
    <3>2. s = [pool |-> s.pool, scored |-> s.scored, skipped |-> s.skipped]
      BY DEF OfferedOk
    <3> QED  BY <3>1, <3>2
  <2>2. t.pool = s.pool /\ t.scored = s.scored /\ t.skipped = s.skipped + 1
    BY <2>1
  <2> HIDE DEF t
  <2>3. t.skipped \in Nat /\ t = [pool |-> t.pool, scored |-> t.scored, skipped |-> t.skipped]
    BY <2>1, <2>2 DEF OfferedOk
  <2> QED  BY <1>3, <2>2, <2>3 DEF OfferedOk, t, x
<1>6. CASE ~Gate(s.pool, x)
  <2>1. t = [pool |-> Insert(s.pool, x), scored |-> s.scored + 1, skipped |-> s.skipped]
    BY <1>6 DEF Offer
  <2>2. t.pool = Insert(s.pool, x) /\ t.scored = s.scored + 1 /\ t.skipped = s.skipped
    BY <2>1
  <2> HIDE DEF t
  <2>3. t.scored \in Nat /\ t = [pool |-> t.pool, scored |-> t.scored, skipped |-> t.skipped]
    BY <2>1, <2>2 DEF OfferedOk
  <2>4. /\ t.pool \in Seq(Entry) /\ Len(t.pool) \in Len(s.pool) .. L /\ Ordered(t.pool)
        /\ Ids(t.pool) \subseteq Ids(s.pool) \cup {x}
    BY <1>4, <2>2, InsertKeepsPool
  <2>5. \A y \in Nodes : Gate(s.pool, y) => Gate(t.pool, y)
    BY <1>4, <2>2, GateStaysShut
  <2>6. Len(t.pool) \in 1 .. L
    BY <2>4 DEF OfferedOk
  <2> QED  BY <1>3, <2>2, <2>3, <2>4, <2>5, <2>6 DEF OfferedOk, t, x
<1> QED  BY <1>5, <1>6

LEMMA OfferedIsOk ==
  ASSUME BInv
  PROVE  \A n \in 0 .. Len(batch) : OfferedOk(n, Offered(n))
<1> DEFINE T == {n \in 0 .. Len(batch) : ~OfferedOk(n, Offered(n))}
<1> SUFFICES ASSUME T # {} PROVE FALSE
  OBVIOUS
<1>1. /\ DistType /\ BoundType /\ pool \in Seq(Entry) /\ Ordered(pool) /\ Len(pool) \in 1 .. L
      /\ scored \in Nat /\ skipped \in Nat /\ batch \in Seq(Nodes) /\ Len(batch) \in Nat /\ Waiting
  BY TypesOfBInv DEF BInv
<1>2. T \subseteq Nat
  OBVIOUS
<1>3. PICK n \in T : \A j \in T : ~(j < n)
  BY <1>2, LeastNumber
<1>4. CASE n = 0
  <2>1. Offered(0) = [pool |-> pool, scored |-> scored, skipped |-> skipped]
    BY OfferedSteps DEF Unoffered
  <2>2. Offered(0).pool = pool /\ Offered(0).scored = scored /\ Offered(0).skipped = skipped
    BY <2>1
  <2>3. OfferedOk(0, Offered(0))
    BY <1>1, <2>1, <2>2 DEF OfferedOk
  <2> QED  BY <1>3, <1>4, <2>3
<1>5. CASE n # 0
  <2>1. n - 1 \in 0 .. Len(batch) /\ n - 1 < n /\ (n - 1) + 1 = n /\ n - 1 \in Nat /\ n <= Len(batch)
    BY <1>1, <1>3, <1>5
  <2>2. OfferedOk(n - 1, Offered(n - 1))
    BY <1>3, <2>1
  <2>3. Offered(n) = Offer(Offered(n - 1), batch[n])
    BY <2>1, OfferedSteps
  <2>4. OfferedOk((n - 1) + 1, Offer(Offered(n - 1), batch[(n - 1) + 1]))
    BY <1>1, <2>1, <2>2, OfferIsOk
  <2> QED  BY <1>3, <2>1, <2>3, <2>4
<1> QED  BY <1>4, <1>5

LEMMA BInitHolds == BInit => BInv
<1> SUFFICES ASSUME BInit PROVE BInv
  OBVIOUS
<1>1. Inv /\ pc = "select" /\ batch = <<>> /\ bound \in [Nodes -> Bounds] /\ scored = 1 /\ skipped = 0
  BY InitHolds DEF BInit, GInit, Init
<1>2. BTypeOK
  BY <1>1 DEF Inv, TypeOK, BTypeOK, BPcValues
<1>3. Waiting
  BY <1>1 DEF Waiting
<1> QED  BY <1>1, <1>2, <1>3 DEF Inv, BInv, BCounted

\* The loops over the graph find the batch empty, and run as they do in BeamSearch.
LEMMA TraverseStep ==
  ASSUME BInv, Traverse, UNCHANGED <<bound, stats, batch>>
  PROVE  BInv' /\ batch = <<>> /\ pc # "flush" /\ pc' # "flush"
<1>1. /\ pc \in {"select", "visit", "mark"}
      /\ pc' \in PcValues
  BY DEF Traverse, SelectFrontier, VisitNode, MarkNeighbor, OutOfRange, MarkDone, FinishRound, PcValues
<1>2. batch = <<>> /\ batch' = <<>>
  BY <1>1 DEF BInv, Waiting
<1>3. TypeOK
  BY <1>1 DEF BInv, BTypeOK, TypeOK, PcValues
<1>4. Inv
  BY <1>3 DEF BInv, BCounted, Inv
<1>5. Inv'
  BY <1>4, StepKeepsInv DEF Next
<1>6. BTypeOK'
  <2>1. bound' = bound /\ scored' = scored /\ skipped' = skipped
    BY DEF stats
  <2> QED  BY <1>2, <1>5, <2>1 DEF BInv, Inv, TypeOK, BTypeOK, BPcValues
<1>7. pc' # "flush"
  BY <1>1 DEF PcValues
<1>8. Waiting'
  BY <1>2 DEF Waiting
<1> QED  BY <1>1, <1>2, <1>5, <1>6, <1>7, <1>8 DEF BInv, BCounted, Inv

\* The head of fresh leaves it.
LEMMA FreshTail ==
  ASSUME BInv, fresh # <<>>, fresh' = Tail(fresh), UNCHANGED <<pool, marked>>
  PROVE  /\ Head(fresh) \in Nodes /\ Head(fresh) \in marked /\ Head(fresh) \notin Ids(pool)
         /\ fresh' \in Seq(Nodes) /\ Head(fresh) \notin Members(fresh')
         /\ Members(fresh) = Members(fresh') \cup {Head(fresh)}
         /\ OfferedOnce'
<1>1. fresh \in Seq(Nodes)
  BY DEF BInv, BTypeOK
<1>2. /\ Members(fresh) = Members(fresh') \cup {Head(fresh)} /\ Head(fresh) \in Nodes
      /\ fresh' \in Seq(Nodes)
  BY <1>1, TailMembers
<1>3. /\ Len(fresh) \in Nat /\ 1 \in 1 .. Len(fresh) /\ Head(fresh) = fresh[1]
      /\ \A i \in 1 .. Len(fresh') : i + 1 \in 1 .. Len(fresh) /\ i + 1 # 1 /\ fresh'[i] = fresh[i + 1]
  BY <1>1
<1>4. Head(fresh) \in marked /\ Head(fresh) \notin Ids(pool)
  BY <1>3 DEF BInv, OfferedOnce
<1>5. Head(fresh) \notin Members(fresh')
  <2> SUFFICES ASSUME NEW i \in 1 .. Len(fresh'), fresh'[i] = Head(fresh) PROVE FALSE
    BY DEF Members
  <2>1. i + 1 = 1
    BY <1>3 DEF BInv, OfferedOnce
  <2> QED  BY <1>3, <2>1
<1>6. OfferedOnce'
  <2>1. \A i \in 1 .. Len(fresh') : fresh'[i] \in marked' /\ fresh'[i] \notin Ids(pool)'
    BY <1>3 DEF BInv, OfferedOnce, Ids
  <2>2. \A i, j \in 1 .. Len(fresh') : fresh'[i] = fresh'[j] => i = j
    <3> TAKE i, j \in 1 .. Len(fresh')
    <3>1. fresh[i + 1] = fresh[j + 1] => i + 1 = j + 1
      BY <1>3 DEF BInv, OfferedOnce
    <3>2. i \in Int /\ j \in Int
      OBVIOUS
    <3> QED  BY <1>3, <3>1, <3>2
  <2>3. (Ids(pool) \subseteq marked)'
    BY DEF BInv, OfferedOnce, Ids
  <2> QED  BY <2>1, <2>2, <2>3 DEF OfferedOnce
<1> QED  BY <1>2, <1>4, <1>5, <1>6

\* A turn over the neighbours of the node in hand.
LEMMA SlotStep ==
  ASSUME BInv, SkipSlot \/ CollectSlot
  PROVE  BInv'
<1> DEFINE x == Head(fresh)
<1>1. /\ pc = "score" /\ fresh # <<>> /\ fresh' = Tail(fresh) /\ pc' \in {"flush", "score"}
      /\ (pc' = "score" => ~(Len(batch') >= BatchSize))
      /\ batch' \in {batch, Append(batch, x)} /\ skipped' \in {skipped, skipped + 1}
      /\ UNCHANGED <<input, bound, pool, marked, frontier, links, stopVars, visited, scored>>
  BY DEF SkipSlot, CollectSlot, NextSlot
<1>2. /\ x \in Nodes /\ x \in marked /\ x \notin Ids(pool)
      /\ fresh' \in Seq(Nodes) /\ x \notin Members(fresh')
      /\ Members(fresh) = Members(fresh') \cup {x}
      /\ OfferedOnce'
  BY <1>1, FreshTail
<1>3. Len(batch) \in Nat /\ Len(batch) < BatchSize /\ batch \in Seq(Nodes) /\ skipped \in Nat
  BY <1>1, TypesOfBInv DEF BInv, Waiting
<1>4. \A i \in 1 .. Len(batch) :
        batch[i] \in marked /\ batch[i] \notin Ids(pool) /\ batch[i] \notin Members(fresh)
  BY DEF BInv, Waiting
<1> HIDE DEF x
<1>5. /\ batch' \in Seq(Nodes) /\ Len(batch') \in Nat /\ Len(batch') <= BatchSize
      /\ \A i \in 1 .. Len(batch') :
           batch'[i] \in marked /\ batch'[i] \notin Ids(pool) /\ batch'[i] \notin Members(fresh')
      /\ \A i, j \in 1 .. Len(batch') : batch'[i] = batch'[j] => i = j
  <2>1. CASE batch' = batch
    BY <1>2, <1>3, <1>4, <2>1 DEF BInv, Waiting
  <2>2. CASE batch' = Append(batch, x)
    <3>1. /\ batch' \in Seq(Nodes) /\ Len(batch') = Len(batch) + 1 /\ batch'[Len(batch) + 1] = x
          /\ \A i \in 1 .. Len(batch) : batch'[i] = batch[i]
      BY <1>2, <1>3, <2>2
    <3>2. \A i \in 1 .. Len(batch') : i \in 1 .. Len(batch) \/ i = Len(batch) + 1
      BY <1>3, <3>1
    <3>3. \A i \in 1 .. Len(batch) : batch[i] # x
      BY <1>2, <1>4
    <3>4. \A i, j \in 1 .. Len(batch) : batch[i] = batch[j] => i = j
      BY DEF BInv, Waiting
    <3>5. \A i, j \in 1 .. Len(batch') : batch'[i] = batch'[j] => i = j
      BY <3>1, <3>2, <3>3, <3>4
    <3>6. \A i \in 1 .. Len(batch') :
           batch'[i] \in marked /\ batch'[i] \notin Ids(pool) /\ batch'[i] \notin Members(fresh')
      BY <1>2, <1>4, <3>1, <3>2
    <3>7. BatchSize \in Nat /\ Len(batch') \in Nat /\ Len(batch') <= BatchSize
      BY <1>3, <3>1
    <3> QED  BY <3>1, <3>5, <3>6, <3>7
  <2> QED  BY <1>1, <2>1, <2>2
<1>6. Ids(pool') = Ids(pool) /\ Members(fresh)' = Members(fresh')
  BY <1>1 DEF Ids, Members
<1>7. BTypeOK'
  <2>1. skipped' \in Nat
    BY <1>1, <1>3
  <2> QED  BY <1>1, <1>2, <1>5, <2>1 DEF BInv, BTypeOK, BPcValues, PcValues, input, stopVars
<1>8. Waiting'
  <2>1. pc' = "score" => Len(batch') < BatchSize
    BY <1>1, <1>5
  <2> QED  BY <1>1, <1>5, <1>6, <2>1 DEF Waiting
<1>9. PoolSorted'
  BY <1>1 DEF BInv, PoolSorted, Less, input
<1>10. BCounted'
  BY <1>1 DEF BInv, BCounted, Counted
<1> QED  BY <1>2, <1>7, <1>8, <1>9, <1>10 DEF BInv

LEMMA FlushStep ==
  ASSUME BInv, FlushDistanceBatch
  PROVE  BInv'
<1> DEFINE end == Offered(Len(batch))
<1>1. /\ pc = "flush" /\ pool' = end.pool /\ scored' = end.scored /\ skipped' = end.skipped
      /\ batch' = <<>> /\ pc' \in {"visit", "score"}
      /\ UNCHANGED <<input, bound, marked, frontier, links, fresh, stopVars, visited>>
  BY DEF FlushDistanceBatch
<1>2. Len(batch) \in 0 .. Len(batch)
  BY TypesOfBInv DEF BInv
<1>3. OfferedOk(Len(batch), end)
  BY <1>2, OfferedIsOk
<1> HIDE DEF end
<1>4. /\ pool' \in Seq(Entry) /\ Len(pool') \in 1 .. L /\ Ordered(pool') /\ scored' \in Nat
      /\ skipped' \in Nat /\ Ids(pool') \subseteq Ids(pool) \cup {batch[i] : i \in 1 .. Len(batch)}
  BY <1>1, <1>3 DEF OfferedOk
<1>5. BTypeOK'
  BY <1>1, <1>4 DEF BInv, BTypeOK, BPcValues, PcValues, input, stopVars
<1>6. PoolSorted'
  BY <1>1, <1>4 DEF PoolSorted, Ordered, Less, input
<1>7. OfferedOnce'
  <2>1. \A y \in Ids(pool') : y \in marked /\ \A i \in 1 .. Len(fresh) : fresh[i] # y
    <3> TAKE y \in Ids(pool')
    <3>1. CASE y \in Ids(pool)
      BY <3>1 DEF BInv, OfferedOnce
    <3>2. CASE y \notin Ids(pool)
      <4>1. PICK k \in 1 .. Len(batch) : batch[k] = y
        BY <1>4, <3>2
      <4> QED  BY <4>1 DEF BInv, Waiting, Members
    <3> QED  BY <3>1, <3>2
  <2>2. Ids(pool)' = Ids(pool')
    BY DEF Ids
  <2> QED  BY <1>1, <2>1, <2>2 DEF BInv, OfferedOnce
<1>8. BCounted'
  BY <1>1 DEF BInv, BCounted, Counted
<1>9. Waiting'
  BY <1>1 DEF Waiting
<1> QED  BY <1>5, <1>6, <1>7, <1>8, <1>9 DEF BInv

LEMMA BatchedStepKeepsInv ==
  ASSUME BInv, [BNext]_batchedVars
  PROVE  BInv'
<1>1. CASE UNCHANGED batchedVars
  <2>1. /\ UNCHANGED <<graph, dist, pc, pool, marked, frontier, links, fresh, backBefore, stall, visited>>
        /\ UNCHANGED <<bound, scored, skipped, batch>>
    BY <1>1 DEF batchedVars, gatedVars, vars, input, stopVars, stats
  <2>2. BTypeOK' /\ PoolSorted' /\ OfferedOnce' /\ BCounted' /\ Waiting'
    BY <2>1 DEF BInv, BTypeOK, PoolSorted, OfferedOnce, BCounted, Counted, Waiting, Less, Ids, Members
  <2> QED  BY <2>2 DEF BInv
<1> QED  BY <1>1, TraverseStep, SlotStep, FlushStep DEF BNext

THEOREM BatchedInvariance == BSpec => []BInv
BY BInitHolds, BatchedStepKeepsInv, PTL DEF BSpec

-----------------------------------------------------------------------------
(* The batched search is the one-at-a-time search *)

\* The operators on pools are the same in both: the distances and the estimates
\* are not mapped.
LEMMA LegacyOperators ==
  /\ \A p, x : Legacy!Insert(p, x) = Insert(p, x)
  /\ \A p, x : Legacy!Gate(p, x) <=> Gate(p, x)
  /\ \A p : Legacy!Full(p) <=> Full(p)
  /\ \A p : Legacy!Back(p) = Back(p)
  /\ \A S : Legacy!Cardinality(S) = Cardinality(S)
<1>0. \A S : Legacy!Cardinality(S) = Cardinality(S)
  BY DEF Legacy!Cardinality, Cardinality
<1>1. \A p, x : Legacy!Position(p, x) = PositionUnder(dist, p, x)
  BY DEF Legacy!Position, PositionUnder, Legacy!Less
<1>2. \A p, x : Position(p, x) = PositionUnder(dist, p, x)
  BY DEF Position, PositionUnder, Less
<1>3. \A p, x : Legacy!Place(p, x) = Place(p, x)
  BY <1>1, <1>2 DEF Legacy!Place, Place, Legacy!Full, Full, Legacy!NewEntry, NewEntry
<1>4. \A p, x : Legacy!Insert(p, x) = Insert(p, x)
  BY <1>3 DEF Legacy!Insert, Insert, Legacy!Full, Full, Legacy!Less, Less, Legacy!Back, Back
<1>5. \A p, x : Legacy!Gate(p, x) <=> Gate(p, x)
  BY DEF Legacy!Gate, Gate, Legacy!Full, Full, Legacy!Back, Back, Legacy!Invalid, Invalid
<1> QED  BY <1>0, <1>4, <1>5 DEF Legacy!Full, Full, Legacy!Back, Back

\* The state of the one-at-a-time search: that of the batched one, with the
\* batch offered.
Late == Offered(Len(batch))

LEMMA OfferedStepsLater ==
  /\ Offered(0)' = Unoffered'
  /\ \A k \in Nat : \A s, x :
       Offered(k)' = s /\ batch'[k + 1] = x => Offered(k + 1)' = Offer(s, x)'
<1>1. (/\ Offered(0) = Unoffered
       /\ \A n \in Nat : \A s, x :
            Offered(n) = s /\ batch[n + 1] = x => Offered(n + 1) = Offer(s, x))'
  BY OfferedSteps, PTL
<1> QED  BY <1>1

\* What is offered depends on the nodes offered and on nothing after them.
LEMMA OfferedPrefix ==
  ASSUME UNCHANGED <<dist, bound, pool, scored, skipped>>, NEW m \in Nat,
         \A i \in 1 .. m : batch'[i] = batch[i]
  PROVE  \A n \in 0 .. m : Offered(n)' = Offered(n)
<1> DEFINE T == {n \in 0 .. m : Offered(n)' # Offered(n)}
<1> SUFFICES ASSUME T # {} PROVE FALSE
  OBVIOUS
<1>1. T \subseteq Nat
  OBVIOUS
<1>2. PICK n \in T : \A j \in T : ~(j < n)
  BY <1>1, LeastNumber
<1>3. /\ Offered(0)' = Unoffered'
      /\ \A k \in Nat : \A s, x :
           Offered(k)' = s /\ batch'[k + 1] = x => Offered(k + 1)' = Offer(s, x)'
  BY OfferedStepsLater
<1>4. CASE n = 0
  <2>1. Unoffered' = Unoffered
    BY DEF Unoffered
  <2> QED  BY <1>2, <1>3, <1>4, <2>1, OfferedSteps
<1>5. CASE n # 0
  <2>1. n - 1 \in 0 .. m /\ n - 1 < n /\ (n - 1) + 1 = n /\ n - 1 \in Nat /\ n \in 1 .. m
    BY <1>2, <1>5
  <2>2. Offered(n - 1)' = Offered(n - 1)
    BY <1>2, <2>1
  <2>3. PICK s, x : s = Offered(n - 1) /\ x = batch[n]
    OBVIOUS
  <2>4. Offered(n) = Offer(s, x)
    BY <2>1, <2>3, OfferedSteps
  <2>5. Offered(n)' = Offer(s, x)'
    BY <1>3, <2>1, <2>2, <2>3
  <2>6. Offer(s, x)' = Offer(s, x)
    BY OfferFixed
  <2> QED  BY <1>2, <2>4, <2>5, <2>6
<1> QED  BY <1>4, <1>5

OneMoreSkipped(s) == [pool |-> s.pool, scored |-> s.scored, skipped |-> s.skipped + 1]

\* A node that is skipped before the batch is offered could as well be skipped after.
LEMMA OfferedSkips ==
  ASSUME BInv, UNCHANGED <<dist, bound, pool, scored, batch>>, skipped' = skipped + 1
  PROVE  \A n \in 0 .. Len(batch) : Offered(n)' = OneMoreSkipped(Offered(n))
<1> DEFINE T == {n \in 0 .. Len(batch) : Offered(n)' # OneMoreSkipped(Offered(n))}
<1> SUFFICES ASSUME T # {} PROVE FALSE
  OBVIOUS
<1>1. T \subseteq Nat /\ Len(batch) \in Nat
  BY TypesOfBInv DEF BInv
<1>2. PICK n \in T : \A j \in T : ~(j < n)
  BY <1>1, LeastNumber
<1>3. /\ Offered(0)' = Unoffered'
      /\ \A k \in Nat : \A s, x :
           Offered(k)' = s /\ batch'[k + 1] = x => Offered(k + 1)' = Offer(s, x)'
  BY OfferedStepsLater
<1>4. CASE n = 0
  <2>1. Unoffered' = OneMoreSkipped(Unoffered)
    BY DEF Unoffered, OneMoreSkipped
  <2> QED  BY <1>2, <1>3, <1>4, <2>1, OfferedSteps
<1>5. CASE n # 0
  <2>1. /\ n - 1 \in 0 .. Len(batch) /\ n - 1 < n /\ (n - 1) + 1 = n /\ n - 1 \in Nat
        /\ n \in 0 .. Len(batch)
    BY <1>1, <1>2, <1>5
  <2>2. Offered(n - 1)' = OneMoreSkipped(Offered(n - 1)) /\ OfferedOk(n - 1, Offered(n - 1))
    BY <1>2, <2>1, OfferedIsOk
  <2>3. PICK s, t, x : s = Offered(n - 1) /\ t = OneMoreSkipped(s) /\ x = batch[n]
    OBVIOUS
  <2>4. Offered(n) = Offer(s, x)
    BY <2>1, <2>3, OfferedSteps
  <2>5. Offered(n)' = Offer(t, x)'
    BY <1>3, <2>1, <2>2, <2>3
  <2>6. Offer(t, x)' = Offer(t, x)
    BY OfferFixed
  <2>7. Offer(t, x) = OneMoreSkipped(Offer(s, x))
    <3>1. /\ t = [pool |-> s.pool, scored |-> s.scored, skipped |-> s.skipped + 1]
          /\ s = [pool |-> s.pool, scored |-> s.scored, skipped |-> s.skipped]
      BY <2>2, <2>3 DEF OneMoreSkipped, OfferedOk
    <3>2. t.pool = s.pool /\ t.scored = s.scored /\ t.skipped = s.skipped + 1
      BY <3>1
    <3>3. CASE Gate(s.pool, x)
      <4>1. Offer(t, x) = [t EXCEPT !.skipped = @ + 1] /\ Offer(s, x) = [s EXCEPT !.skipped = @ + 1]
        BY <3>2, <3>3 DEF Offer
      <4>2. Offer(t, x) = [pool |-> s.pool, scored |-> s.scored, skipped |-> s.skipped + 1 + 1]
        BY <3>1, <4>1
      <4>3. Offer(s, x) = [pool |-> s.pool, scored |-> s.scored, skipped |-> s.skipped + 1]
        BY <3>1, <4>1
      <4> QED  BY <4>2, <4>3 DEF OneMoreSkipped
    <3>4. CASE ~Gate(s.pool, x)
      BY <3>2, <3>4 DEF Offer, OneMoreSkipped
    <3> QED  BY <3>3, <3>4
  <2> QED  BY <1>2, <2>3, <2>4, <2>5, <2>6, <2>7
<1> QED  BY <1>4, <1>5

\* Nothing waits: the two searches are in the same state.
LEMMA NothingLate ==
  batch = <<>> => Late.pool = pool /\ Late.scored = scored /\ Late.skipped = skipped
<1> SUFFICES ASSUME batch = <<>>
             PROVE  Late.pool = pool /\ Late.scored = scored /\ Late.skipped = skipped
  OBVIOUS
<1>1. Late = [pool |-> pool, scored |-> scored, skipped |-> skipped]
  BY OfferedSteps DEF Late, Unoffered
<1> QED  BY <1>1

LEMMA LegacyTraverses ==
  ASSUME BInv, Traverse, UNCHANGED <<bound, stats, batch>>
  PROVE  Legacy!GNext
<1>1. BInv' /\ batch = <<>> /\ batch' = <<>> /\ pc # "flush" /\ pc' # "flush"
  BY TraverseStep
<1>2. Late.pool = pool /\ Late.scored = scored /\ Late.skipped = skipped
  BY <1>1, NothingLate
<1>3. Late.pool' = pool' /\ Late.scored' = scored' /\ Late.skipped' = skipped'
  <2>1. (batch = <<>> => Late.pool = pool /\ Late.scored = scored /\ Late.skipped = skipped)'
    BY NothingLate, PTL
  <2> QED  BY <1>1, <2>1
<1>4. UNCHANGED <<bound, Late.scored, Late.skipped>>
  BY <1>2, <1>3 DEF stats
<1>5. CASE SelectFrontier
  <2>1. \A i : Legacy!InBeam(i) <=> InBeam(i)
    <3> TAKE i
    <3>1. {j \in 1 .. i : ~Late.pool[j].expanded} = {j \in 1 .. i : ~pool[j].expanded}
      BY <1>2
    <3> QED  BY <1>2, <3>1, LegacyOperators DEF Legacy!InBeam, InBeam, Late
  <2> DEFINE beam == {i \in 1 .. Len(pool) : InBeam(i)}
             late == {i \in 1 .. Len(Late.pool) : Legacy!InBeam(i)}
  <2>2. late = beam
    BY <1>2, <2>1
  <2>3. /\ pc = "select" /\ backBefore' = dist[Back(pool)]
        /\ pool' = [i \in 1 .. Len(pool) |-> [pool[i] EXCEPT !.expanded = @ \/ i \in beam]]
        /\ \E f \in [1 .. Cardinality(beam) -> beam] : TakeInOrder(f)
        /\ pc' = (IF beam = {} THEN "done" ELSE "visit")
        /\ UNCHANGED <<input, marked, links, fresh, stall, visited>>
    BY <1>5 DEF SelectFrontier
  <2>4. \A f : TakeInOrder(f) => Legacy!TakeInOrder(f)
    BY <1>2 DEF TakeInOrder, Legacy!TakeInOrder, Late
  <2> HIDE DEF beam
  <2>5. /\ Late.pool' = [i \in 1 .. Len(Late.pool) |->
                           [Late.pool[i] EXCEPT !.expanded = @ \/ i \in late]]
        /\ backBefore' = dist[Legacy!Back(Late.pool)]
        /\ \E f \in [1 .. Legacy!Cardinality(late) -> late] : Legacy!TakeInOrder(f)
        /\ pc' = (IF late = {} THEN "done" ELSE "visit")
    <3> HIDE DEF late
    <3>1. Legacy!Cardinality(late) = Cardinality(beam) /\ Legacy!Back(Late.pool) = Back(pool)
      BY <1>2, <2>2, LegacyOperators
    <3> QED  BY <1>2, <1>3, <2>2, <2>3, <2>4, <3>1
  <2>6. Legacy!SelectFrontier
    BY <1>1, <2>3, <2>5 DEF Legacy!SelectFrontier, Legacy!input, input, Late
  <2> QED  BY <1>4, <2>6 DEF Legacy!GNext, Legacy!Traverse, Legacy!stats, Late
<1>6. CASE VisitNode
  BY <1>1, <1>2, <1>3, <1>4, <1>6
  DEF VisitNode, Legacy!VisitNode, input, stopVars, Legacy!input, Legacy!stopVars,
      Legacy!GNext, Legacy!Traverse, Legacy!stats, Late
<1>7. CASE MarkNeighbor
  BY <1>1, <1>2, <1>3, <1>4, <1>7
  DEF MarkNeighbor, Legacy!MarkNeighbor, input, stopVars, Legacy!input, Legacy!stopVars,
      Legacy!GNext, Legacy!Traverse, Legacy!stats, Late
<1>8. CASE OutOfRange
  BY <1>1, <1>2, <1>3, <1>4, <1>8
  DEF OutOfRange, Legacy!OutOfRange, input, stopVars, Legacy!input, Legacy!stopVars,
      Legacy!GNext, Legacy!Traverse, Legacy!stats, Late
<1>9. CASE MarkDone
  BY <1>1, <1>2, <1>3, <1>4, <1>9
  DEF MarkDone, Legacy!MarkDone, input, stopVars, Legacy!input, Legacy!stopVars,
      Legacy!GNext, Legacy!Traverse, Legacy!stats, Late
<1>10. CASE FinishRound
  BY <1>1, <1>2, <1>3, <1>4, <1>10, LegacyOperators
  DEF FinishRound, Legacy!FinishRound, Stalled, Legacy!Stalled, Full, Legacy!Full, input, stopVars,
      Legacy!input, Legacy!stopVars, Legacy!GNext, Legacy!Traverse, Legacy!stats, Late
<1> QED  BY <1>5, <1>6, <1>7, <1>8, <1>9, <1>10 DEF Traverse

LEMMA LateIs == \A n : n = Len(batch) => Late = Offered(n)
BY DEF Late

LEMMA LateIsLater == \A n : n = Len(batch') => Late' = Offered(n)'
<1>1. (\A n : n = Len(batch) => Late = Offered(n))'
  BY LateIs, PTL
<1> QED  BY <1>1

\* A node that does not pass the first gate would not pass the second either.
LEMMA LegacySkips ==
  ASSUME BInv, SkipSlot
  PROVE  Legacy!GNext
<1> DEFINE x == Head(fresh)
<1>1. /\ pc = "score" /\ fresh # <<>> /\ fresh \in Seq(Nodes) /\ Gate(pool, x)
      /\ skipped' = skipped + 1 /\ batch' = batch /\ fresh' = Tail(fresh)
      /\ pc' = (IF Len(batch') >= BatchSize \/ Len(fresh) = 1 THEN "flush" ELSE "score")
      /\ UNCHANGED <<graph, dist, bound, pool, marked, frontier, links, backBefore, stall,
                     visited, scored>>
  BY DEF SkipSlot, NextSlot, input, stopVars, BInv, BTypeOK
<1>2. Len(batch) \in 0 .. Len(batch)
  BY TypesOfBInv DEF BInv
<1>3. Late' = OneMoreSkipped(Late) /\ OfferedOk(Len(batch), Late)
  <2>1. \A n \in 0 .. Len(batch) : Offered(n)' = OneMoreSkipped(Offered(n))
    BY <1>1, OfferedSkips
  <2>2. PICK n : n = Len(batch)
    OBVIOUS
  <2>3. Offered(n)' = OneMoreSkipped(Offered(n)) /\ Len(batch') = n
    BY <1>1, <1>2, <2>1, <2>2
  <2>4. Late' = Offered(n)' /\ Late = Offered(n)
    BY <2>2, <2>3, LateIs, LateIsLater
  <2> QED  BY <1>2, <2>2, <2>3, <2>4, OfferedIsOk
<1>4. Late.pool' = Late.pool /\ Late.scored' = Late.scored /\ Late.skipped' = Late.skipped + 1
  BY <1>3 DEF OneMoreSkipped
<1>5. Gate(Late.pool, x)
  <2>1. x \in Nodes
    BY <1>1
  <2> QED  BY <1>1, <1>3, <2>1 DEF OfferedOk
<1>6. Len(fresh) = 1 <=> Tail(fresh) = <<>>
  BY <1>1, TailMembers
<1>7. Legacy!SkipFresh
  BY <1>1, <1>4, <1>5, <1>6, LegacyOperators
  DEF Legacy!SkipFresh, Legacy!NextFresh, Legacy!input, Legacy!stopVars, Late
<1> QED  BY <1>1, <1>7 DEF Legacy!GNext

\* A node that joins the batch is offered by the other search at once.
LEMMA LegacyOffers ==
  ASSUME BInv, CollectSlot
  PROVE  Legacy!GNext
<1> DEFINE x == Head(fresh)
<1>1. /\ pc = "score" /\ fresh # <<>> /\ fresh \in Seq(Nodes)
      /\ skipped' = skipped /\ batch' = Append(batch, x) /\ fresh' = Tail(fresh)
      /\ pc' = (IF Len(batch') >= BatchSize \/ Len(fresh) = 1 THEN "flush" ELSE "score")
      /\ UNCHANGED <<graph, dist, bound, pool, marked, frontier, links, backBefore, stall,
                     visited, scored>>
  BY DEF CollectSlot, NextSlot, input, stopVars, BInv, BTypeOK
<1>2. /\ Len(batch) \in Nat /\ x \in Nodes /\ batch \in Seq(Nodes) /\ Len(batch') = Len(batch) + 1
      /\ batch'[Len(batch) + 1] = x /\ \A i \in 1 .. Len(batch) : batch'[i] = batch[i]
  <2>1. Len(batch) \in Nat /\ x \in Nodes /\ batch \in Seq(Nodes)
    BY <1>1, TypesOfBInv DEF BInv
  <2> QED  BY <1>1, <2>1
<1>3. Late' = Offer(Late, x)
  <2>1. PICK n, s, y : n = Len(batch) /\ s = Late /\ y = x
    OBVIOUS
  <2>2. \A i \in 1 .. n : batch'[i] = batch[i]
    BY <1>2, <2>1
  <2>3. n \in Nat /\ n \in 0 .. n /\ n = Len(batch) /\ Len(batch') = n + 1 /\ batch'[n + 1] = y
    BY <1>2, <2>1
  <2>4. Offered(n)' = Offered(n)
    BY <1>1, <2>2, <2>3, OfferedPrefix
  <2>5. Offered(n + 1)' = Offer(s, y)'
    BY <2>1, <2>3, <2>4, OfferedStepsLater DEF Late
  <2>6. Offer(s, y)' = Offer(s, y)
    BY <1>1, OfferFixed
  <2>7. Late' = Offered(n + 1)'
    BY <2>3, LateIsLater
  <2> QED  BY <2>1, <2>5, <2>6, <2>7
<1>4. OfferedOk(Len(batch), Late)
  BY <1>2, OfferedIsOk DEF Late
<1>5. Len(fresh) = 1 <=> Tail(fresh) = <<>>
  BY <1>1, TailMembers
<1>6. CASE Gate(Late.pool, x)
  <2>1. Late' = [Late EXCEPT !.skipped = @ + 1]
    BY <1>3, <1>6 DEF Offer
  <2>2. Late.pool' = Late.pool /\ Late.scored' = Late.scored /\ Late.skipped' = Late.skipped + 1
    BY <1>4, <2>1 DEF OfferedOk
  <2>3. Legacy!SkipFresh
    BY <1>1, <1>5, <1>6, <2>2, LegacyOperators
    DEF Legacy!SkipFresh, Legacy!NextFresh, Legacy!input, Legacy!stopVars, Late
  <2> QED  BY <1>1, <2>3 DEF Legacy!GNext
<1>7. CASE ~Gate(Late.pool, x)
  <2>1. Late.pool' = Insert(Late.pool, x) /\ Late.scored' = Late.scored + 1
        /\ Late.skipped' = Late.skipped
    BY <1>3, <1>7 DEF Offer
  <2>2. Legacy!ScoreSurvivor
    BY <1>1, <1>5, <1>7, <2>1, LegacyOperators
    DEF Legacy!ScoreSurvivor, Legacy!ScoreFresh, Legacy!NextFresh, Legacy!input, Legacy!stopVars, Late
  <2> QED  BY <1>1, <2>2 DEF Legacy!GNext
<1> QED  BY <1>6, <1>7

\* For the other search a flush does nothing: the nodes of the batch are in.
LEMMA LegacyStutters ==
  ASSUME BInv, FlushDistanceBatch \/ UNCHANGED batchedVars
  PROVE  UNCHANGED Legacy!gatedVars
<1>1. CASE FlushDistanceBatch
  <2>1. /\ pc = "flush" /\ batch' = <<>>
        /\ pool' = Late.pool /\ scored' = Late.scored /\ skipped' = Late.skipped
        /\ pc' = (IF fresh = <<>> THEN "visit" ELSE "score")
        /\ UNCHANGED <<graph, dist, bound, marked, frontier, links, fresh, backBefore, stall, visited>>
    BY <1>1 DEF FlushDistanceBatch, Late, input, stopVars
  <2>2. Late.pool' = pool' /\ Late.scored' = scored' /\ Late.skipped' = skipped'
    <3>1. (batch = <<>> => Late.pool = pool /\ Late.scored = scored /\ Late.skipped = skipped)'
      BY NothingLate, PTL
    <3> QED  BY <2>1, <3>1
  <2> QED  BY <2>1, <2>2
    DEF Legacy!gatedVars, Legacy!vars, Legacy!input, Legacy!stopVars, Legacy!stats, Late
<1>2. CASE UNCHANGED batchedVars
  <2>1. UNCHANGED <<graph, dist, pc, pool, marked, frontier, links, fresh, backBefore, stall,
                    visited, bound, scored, skipped, batch>>
    BY <1>2 DEF batchedVars, gatedVars, vars, input, stopVars, stats
  <2>2. Len(batch) \in Nat /\ batch' = batch
    BY <2>1, TypesOfBInv DEF BInv
  <2>3. Late' = Late
    <3>1. PICK n : n = Len(batch)
      OBVIOUS
    <3>2. n \in 0 .. n /\ n \in Nat /\ \A i \in 1 .. n : batch'[i] = batch[i]
      BY <2>2, <3>1
    <3>3. Offered(n)' = Offered(n)
      BY <2>1, <3>2, OfferedPrefix
    <3>4. Late' = Offered(n)'
      BY <2>2, <3>1, LateIsLater
    <3> QED  BY <3>1, <3>3, <3>4 DEF Late
  <2> QED  BY <2>1, <2>3
    DEF Legacy!gatedVars, Legacy!vars, Legacy!input, Legacy!stopVars, Legacy!stats, Late
<1> QED  BY <1>1, <1>2

LEMMA LegacyInit == BInit => Legacy!GInit
<1> SUFFICES ASSUME BInit PROVE Legacy!GInit
  OBVIOUS
<1>1. Init /\ bound \in [Nodes -> Bounds] /\ scored = 1 /\ skipped = 0 /\ batch = <<>> /\ pc = "select"
  BY DEF BInit, GInit, Init
<1>2. Late.pool = pool /\ Late.scored = scored /\ Late.skipped = skipped
  BY <1>1, NothingLate
<1>3. Legacy!Init
  BY <1>1, <1>2 DEF Init, Legacy!Init, Nodes, Legacy!Nodes, NewEntry, Legacy!NewEntry, Late
<1> QED  BY <1>1, <1>2, <1>3 DEF Legacy!GInit, Legacy!Nodes, Nodes, Late

\* The batched search takes the steps of the one-at-a-time search, with the same
\* pool, the same answer and the same counters, for all estimates, right or wrong.
THEOREM BatchesChangeNothing == BSpec => ParityWithLegacy
<1>1. BInv /\ [BNext]_batchedVars => [Legacy!GNext]_(Legacy!gatedVars)
  BY LegacyTraverses, LegacySkips, LegacyOffers, LegacyStutters DEF BNext
<1> QED  BY <1>1, LegacyInit, BatchedInvariance, PTL DEF BSpec, ParityWithLegacy, Legacy!GSpec

\* Its pool stays sorted and has no node twice, whatever the estimates say.
THEOREM BatchedPoolSorted == BSpec => []PoolSorted
<1>1. BInv => PoolSorted  BY DEF BInv
<1> QED  BY <1>1, BatchedInvariance, PTL

-----------------------------------------------------------------------------
(* A batch that is offered in parts *)

\* The first c nodes of the batch enter the pool, the others still wait.
FlushPart(c) ==
  /\ pc = "flush" /\ c \in 0 .. Len(batch)
  /\ pool' = Offered(c).pool /\ scored' = Offered(c).scored /\ skipped' = Offered(c).skipped
  /\ batch' = SubSeq(batch, c + 1, Len(batch))
  /\ UNCHANGED <<input, bound, pc, marked, frontier, links, fresh, stopVars, visited>>

LEMMA RestOfBatch ==
  ASSUME BInv, NEW c, FlushPart(c)
  PROVE  /\ batch' \in Seq(Nodes) /\ Len(batch') = Len(batch) - c /\ Len(batch) - c \in Nat
         /\ \A i \in 1 .. Len(batch) - c : i + c \in 1 .. Len(batch) /\ batch'[i] = batch[i + c]
<1>1. batch \in Seq(Nodes) /\ Len(batch) \in Nat /\ c \in 0 .. Len(batch)
  BY TypesOfBInv DEF BInv, FlushPart
<1>2. batch' = SubSeq(batch, c + 1, Len(batch))
  BY DEF FlushPart
<1>3. /\ c + 1 \in Int /\ Len(batch) \in Int /\ \A i \in c + 1 .. Len(batch) : batch[i] \in Nodes
      /\ (IF c + 1 <= Len(batch) THEN Len(batch) - (c + 1) + 1 ELSE 0) = Len(batch) - c
      /\ Len(batch) - (c + 1) + 1 = Len(batch) - c
  BY <1>1
<1>4. /\ batch' \in Seq(Nodes) /\ Len(batch') = Len(batch) - c
      /\ \A i \in 1 .. Len(batch) - c : batch'[i] = batch[c + 1 + i - 1]
  <2> DEFINE a == c + 1
             b == Len(batch)
  <2> HIDE DEF a, b
  <2>1. a \in Int /\ b \in Int /\ \A i \in a .. b : batch[i] \in Nodes
    BY <1>3 DEF a, b
  <2>2. /\ SubSeq(batch, a, b) \in Seq(Nodes)
        /\ Len(SubSeq(batch, a, b)) = IF a <= b THEN b - a + 1 ELSE 0
        /\ \A i \in 1 .. b - a + 1 : SubSeq(batch, a, b)[i] = batch[a + i - 1]
    BY <2>1, SubSeqProperties
  <2>3. batch' = SubSeq(batch, a, b)
    BY <1>2 DEF a, b
  <2> QED  BY <1>3, <2>2, <2>3 DEF a, b
<1>5. \A i \in 1 .. Len(batch) - c : c + 1 + i - 1 = i + c /\ i + c \in 1 .. Len(batch)
  BY <1>1
<1> QED  BY <1>1, <1>4, <1>5

LEMMA PartKeepsInv ==
  ASSUME BInv, NEW c, FlushPart(c)
  PROVE  BInv'
<1> DEFINE end == Offered(c)
<1>1. /\ pc = "flush" /\ pc' = pc /\ c \in 0 .. Len(batch)
      /\ pool' = end.pool /\ scored' = end.scored /\ skipped' = end.skipped
      /\ UNCHANGED <<input, bound, marked, frontier, links, fresh, stopVars, visited>>
  BY DEF FlushPart
<1>2. OfferedOk(c, end)
  BY <1>1, OfferedIsOk
<1> HIDE DEF end
<1>3. /\ pool' \in Seq(Entry) /\ Len(pool') \in 1 .. L /\ Ordered(pool') /\ scored' \in Nat
      /\ skipped' \in Nat /\ Ids(pool') \subseteq Ids(pool) \cup {batch[i] : i \in 1 .. c}
  BY <1>1, <1>2 DEF OfferedOk
<1>4. /\ batch' \in Seq(Nodes) /\ Len(batch') = Len(batch) - c /\ Len(batch) \in Nat /\ c \in Nat
      /\ \A i \in 1 .. Len(batch') : i + c \in 1 .. Len(batch) /\ batch'[i] = batch[i + c]
  <2>1. Len(batch) \in Nat /\ c \in Nat
    BY <1>1, TypesOfBInv DEF BInv
  <2> QED  BY <2>1, RestOfBatch
<1>5. BTypeOK'
  <2>1. Len(batch') <= BatchSize
    <3>1. Len(batch) <= BatchSize
      BY DEF BInv, BTypeOK
    <3>2. Len(batch) - c <= BatchSize
      BY <1>4, <3>1
    <3> QED  BY <1>4, <3>2
  <2>2. batch' \in Seq(Nodes) /\ pc' = "flush"
    BY <1>1, <1>4
  <2> QED  BY <1>1, <1>3, <2>1, <2>2 DEF BInv, BTypeOK, BPcValues, PcValues, input, stopVars
<1>6. PoolSorted'
  <2>1. dist' = dist
    BY <1>1 DEF input
  <2> QED  BY <1>3, <2>1 DEF PoolSorted, Ordered, Less
<1>7. OfferedOnce'
  <2>1. \A y \in Ids(pool') : y \in marked /\ \A i \in 1 .. Len(fresh) : fresh[i] # y
    <3> TAKE y \in Ids(pool')
    <3>1. CASE y \in Ids(pool)
      BY <3>1 DEF BInv, OfferedOnce
    <3>2. CASE y \notin Ids(pool)
      <4>1. PICK k \in 1 .. c : batch[k] = y
        BY <1>3, <3>2
      <4>2. k \in 1 .. Len(batch)
        BY <1>1, <1>4, <4>1
      <4> QED  BY <4>1, <4>2 DEF BInv, Waiting, Members
    <3> QED  BY <3>1, <3>2
  <2>2. Ids(pool)' = Ids(pool')
    BY DEF Ids
  <2> QED  BY <1>1, <2>1, <2>2 DEF BInv, OfferedOnce
<1>8. BCounted'
  BY <1>1 DEF BInv, BCounted, Counted
<1>9. Waiting'
  <2>1. ASSUME NEW i \in 1 .. Len(batch')
        PROVE  batch'[i] \in marked' /\ batch'[i] \notin Ids(pool') /\ batch'[i] \notin Members(fresh')
    <3>1. i + c \in 1 .. Len(batch) /\ batch'[i] = batch[i + c] /\ \A k \in 1 .. c : k # i + c
      BY <1>4
    <3>2. batch[i + c] \in marked /\ batch[i + c] \notin Ids(pool) /\ batch[i + c] \notin Members(fresh)
      BY <3>1 DEF BInv, Waiting
    <3>3. \A k \in 1 .. c : batch[k] # batch[i + c]
      <4>1. \A k \in 1 .. c : k \in 1 .. Len(batch)
        BY <1>1, <1>4
      <4> QED  BY <3>1, <4>1 DEF BInv, Waiting
    <3> QED  BY <1>1, <1>3, <3>1, <3>2, <3>3
  <2>2. ASSUME NEW i \in 1 .. Len(batch'), NEW j \in 1 .. Len(batch'), batch'[i] = batch'[j]
        PROVE  i = j
    <3>1. i + c \in 1 .. Len(batch) /\ j + c \in 1 .. Len(batch) /\ batch[i + c] = batch[j + c]
      BY <1>4, <2>2
    <3>2. i + c = j + c
      BY <3>1 DEF BInv, Waiting
    <3>3. i \in Int /\ j \in Int /\ c \in Int
      BY <1>4
    <3> QED  BY <3>2, <3>3
  <2>3. Ids(pool)' = Ids(pool') /\ Members(fresh)' = Members(fresh')
    BY DEF Ids, Members
  <2> QED  BY <1>1, <2>1, <2>2, <2>3 DEF Waiting
<1> QED  BY <1>5, <1>6, <1>7, <1>8, <1>9 DEF BInv

\* With the rest offered too the state is the one it would have been.
LEMMA PartIsNotSeen ==
  ASSUME BInv, NEW c, FlushPart(c)
  PROVE  UNCHANGED Legacy!gatedVars
<1>1. /\ pc = "flush" /\ pc' = pc /\ c \in 0 .. Len(batch)
      /\ pool' = Offered(c).pool /\ scored' = Offered(c).scored /\ skipped' = Offered(c).skipped
      /\ UNCHANGED <<graph, dist, bound, marked, frontier, links, fresh, backBefore, stall, visited>>
  BY DEF FlushPart, input, stopVars
<1>2. /\ Len(batch') = Len(batch) - c /\ Len(batch) \in Nat /\ c \in Nat /\ Len(batch) - c \in Nat
      /\ \A i \in 1 .. Len(batch) - c : batch'[i] = batch[i + c]
  <2>1. Len(batch) \in Nat /\ c \in Nat
    BY <1>1, TypesOfBInv DEF BInv
  <2> QED  BY <2>1, RestOfBatch
<1> DEFINE T == {n \in 0 .. Len(batch) - c : Offered(n)' # Offered(n + c)}
<1>3. T = {}
  <2> SUFFICES ASSUME T # {} PROVE FALSE
    OBVIOUS
  <2>1. T \subseteq Nat
    OBVIOUS
  <2>2. PICK n \in T : \A j \in T : ~(j < n)
    BY <2>1, LeastNumber
  <2>3. /\ Offered(0)' = Unoffered'
        /\ \A k \in Nat : \A s, x :
             Offered(k)' = s /\ batch'[k + 1] = x => Offered(k + 1)' = Offer(s, x)'
    BY OfferedStepsLater
  <2>4. CASE n = 0
    <3>1. Offered(c) = [pool |-> Offered(c).pool, scored |-> Offered(c).scored,
                        skipped |-> Offered(c).skipped]
      BY <1>1, OfferedIsOk DEF OfferedOk
    <3>2. Unoffered' = Offered(c) /\ 0 + c = c
      BY <1>1, <1>2, <3>1 DEF Unoffered
    <3> QED  BY <2>2, <2>3, <2>4, <3>2
  <2>5. CASE n # 0
    <3>1. /\ n - 1 \in 0 .. Len(batch) - c /\ n - 1 < n /\ (n - 1) + 1 = n /\ n - 1 \in Nat
          /\ n \in 1 .. Len(batch) - c /\ n - 1 + c \in Nat /\ (n - 1 + c) + 1 = n + c
      BY <1>2, <2>2, <2>5
    <3>2. Offered(n - 1)' = Offered(n - 1 + c)
      BY <2>2, <3>1
    <3>3. PICK s, x : s = Offered(n - 1 + c) /\ x = batch[n + c]
      OBVIOUS
    <3>4. Offered(n + c) = Offer(s, x)
      BY <3>1, <3>3, OfferedSteps
    <3>5. batch'[n] = x
      BY <1>2, <3>1, <3>3
    <3>6. Offered(n)' = Offer(s, x)'
      BY <2>3, <3>1, <3>2, <3>3, <3>5
    <3>7. Offer(s, x)' = Offer(s, x)
      BY <1>1, OfferFixed
    <3> QED  BY <2>2, <3>4, <3>6, <3>7
  <2> QED  BY <2>4, <2>5
<1>4. Late' = Late
  <2>1. PICK n : n = Len(batch) - c
    OBVIOUS
  <2>2. n \in 0 .. Len(batch) - c /\ n + c = Len(batch) /\ n = Len(batch')
    BY <1>2, <2>1
  <2>3. Offered(n)' = Offered(n + c)
    BY <1>3, <2>2
  <2>4. Late' = Offered(n)'
    BY <2>2, LateIsLater
  <2> QED  BY <2>2, <2>3, <2>4 DEF Late
<1> QED  BY <1>1, <1>4
  DEF Legacy!gatedVars, Legacy!vars, Legacy!input, Legacy!stopVars, Legacy!stats, Late

\* The nodes that wait and those still to be looked at are not the whole graph: the
\* pool has a node too.
LEMMA WaitingIsFew ==
  ASSUME BInv
  PROVE  Len(batch) + Len(fresh) < NodeCount
<1> DEFINE m == Len(batch)
           n == Len(fresh)
           y == pool[1].id
           f == [i \in 1 .. m + n + 1 |->
                   IF i <= m THEN batch[i] ELSE IF i <= m + n THEN fresh[i - m] ELSE y]
<1>1. /\ m \in Nat /\ n \in Nat /\ batch \in Seq(Nodes) /\ fresh \in Seq(Nodes)
      /\ pool \in Seq(Entry) /\ 1 \in 1 .. Len(pool)
  <2>1. batch \in Seq(Nodes) /\ fresh \in Seq(Nodes) /\ pool \in Seq(Entry) /\ Len(pool) \in 1 .. L
    BY TypesOfBInv DEF BInv, BTypeOK
  <2> QED  BY <2>1
<1>2. y \in Nodes /\ y \in Ids(pool)
  BY <1>1, EntriesTyped DEF Ids
<1>3. /\ \A i \in 1 .. m : batch[i] \in Nodes /\ batch[i] # y
      /\ \A i \in 1 .. n : fresh[i] \in Nodes /\ fresh[i] # y
      /\ \A i \in 1 .. m, j \in 1 .. n : batch[i] # fresh[j]
      /\ \A i, j \in 1 .. m : batch[i] = batch[j] => i = j
      /\ \A i, j \in 1 .. n : fresh[i] = fresh[j] => i = j
  <2>1. \A i \in 1 .. m : batch[i] \in Nodes
    BY <1>1
  <2>2. \A i \in 1 .. n : fresh[i] \in Nodes
    BY <1>1
  <2>3. \A i \in 1 .. m : batch[i] # y /\ batch[i] \notin Members(fresh)
    BY <1>2 DEF BInv, Waiting
  <2>4. \A i \in 1 .. n : fresh[i] # y
    BY <1>2 DEF BInv, OfferedOnce
  <2>5. \A i, j \in 1 .. m : batch[i] = batch[j] => i = j
    BY DEF BInv, Waiting
  <2>6. \A i, j \in 1 .. n : fresh[i] = fresh[j] => i = j
    BY DEF BInv, OfferedOnce
  <2> QED  BY <2>1, <2>2, <2>3, <2>4, <2>5, <2>6 DEF Members
<1> HIDE DEF m, n, y
<1>4. /\ f \in [1 .. m + n + 1 -> Nodes]
      /\ \A i, j \in 1 .. m + n + 1 : f[i] = f[j] => i = j
  <2>1. \A i \in 1 .. m + n + 1 :
          \/ i \in 1 .. m /\ f[i] = batch[i]
          \/ i - m \in 1 .. n /\ ~(i <= m) /\ f[i] = fresh[i - m]
          \/ i = m + n + 1 /\ f[i] = y
    BY <1>1
  <2>2. f \in [1 .. m + n + 1 -> Nodes]
    BY <1>2, <1>3, <2>1
  <2>3. ASSUME NEW i \in 1 .. m + n + 1, NEW j \in 1 .. m + n + 1, f[i] = f[j]
        PROVE  i = j
    <3>1. m \in Int /\ n \in Int /\ i \in Int /\ j \in Int
      BY <1>1
    <3>2. CASE i \in 1 .. m /\ f[i] = batch[i]
      BY <1>3, <2>1, <2>3, <3>2
    <3>3. CASE i - m \in 1 .. n /\ ~(i <= m) /\ f[i] = fresh[i - m]
      <4>1. j - m \in 1 .. n /\ f[j] = fresh[j - m]
        BY <1>3, <2>1, <2>3, <3>3
      <4>2. i - m = j - m
        BY <1>3, <2>3, <3>3, <4>1
      <4> QED  BY <3>1, <4>2
    <3>4. CASE i = m + n + 1 /\ f[i] = y
      BY <1>3, <2>1, <2>3, <3>4
    <3> QED  BY <2>1, <3>2, <3>3, <3>4
  <2> HIDE DEF f
  <2> QED  BY <2>2, <2>3
<1> HIDE DEF f
<1>5. IsFiniteSet(1 .. m + n + 1) /\ Cardinality(1 .. m + n + 1) = m + n + 1
  <2>1. m + n + 1 \in Int /\ 1 \in Int /\ 1 <= m + n + 1
    BY <1>1
  <2>2. m + n + 1 - 1 + 1 = m + n + 1
    BY <1>1
  <2> QED  BY <2>1, <2>2, FS_Interval
<1>6. IsFiniteSet(Nodes) /\ Cardinality(Nodes) = NodeCount
  <2>1. 0 \in Int /\ NodeCount - 1 \in Int /\ 0 <= NodeCount - 1 /\ NodeCount - 1 - 0 + 1 = NodeCount
    OBVIOUS
  <2> QED  BY <2>1, FS_Interval DEF Nodes
<1>7. ~(Cardinality(Nodes) < Cardinality(1 .. m + n + 1))
  BY <1>4, <1>5, <1>6, FS_PigeonHole
<1> QED  BY <1>1, <1>5, <1>6, <1>7 DEF m, n
=============================================================================
