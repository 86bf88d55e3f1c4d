-------------------------- MODULE HnswInsertProofs --------------------------
(***************************************************************************)
(* The inductive invariant of HnswInsert, and what follows from it for any *)
(* number of threads, elements, layers and neighbours.                     *)
(*                                                                         *)
(* An insertion begins on a layer when it writes the list of its element   *)
(* there (Select), and `begun' numbers these moments, its turns.  Links    *)
(* only join elements that have begun, and an insertion links back to      *)
(* neighbours with earlier turns.  An element that has begun on a layer    *)
(* and is not locked is on all layers below.  So locks are waited for from *)
(* the top layer down, and on one layer from later turns to earlier ones.  *)
(*                                                                         *)
(* Turns also order the lowest layer into a tree: while lists have room,   *)
(* every element but the first is linked both ways with an earlier one.    *)
(* So the entry point, whichever it is, leads back to the first element    *)
(* and from there to all others (ReachInv).                                *)
(***************************************************************************)
EXTENDS HnswInsert, FiniteSetTheorems, WellFoundedInduction, TLAPS

\* Where a thread has read maxlevel_ and not yet given global back for good, and
\* where its element has no turn yet.
InGraph == {"entry", "descend", "search", "connect", "publish"}
Before  == {"own", "global", "entry", "descend"}

\* TopLayer is the highest layer the new element is linked on; a finished
\* element has a turn on each of its layers.
Active(t)   == pc[t] # "idle"
TopLayer(t) == Smaller(level[cur[t]], maxcopy[t])
Finished(e) == \A l \in Layers : l <= level[e] => begun[e][l] > 0

\* A list is held by the thread that inserts its element and by no other, and
\* global by a thread whose element is higher than the index it saw.
Locks ==
  /\ \A t \in Threads : pc[t] \in Holding => owner[cur[t]] = t
  /\ \A t \in Threads, e \in Ids : owner[e] = t => pc[t] \in Holding /\ cur[t] = e
  /\ \A t \in Threads : Active(t) => cur[t] < count
  /\ \A t, u \in Threads : t # u /\ Active(t) /\ Active(u) => cur[t] # cur[u]
  /\ \A t \in Threads : global = t => pc[t] \in InGraph
  /\ \A t \in Threads : pc[t] \in InGraph => (level[cur[t]] > maxcopy[t] <=> global = t)

\* The first element is being published: the index is not empty any more, but
\* no element is linked yet.
First == \E t \in Threads : global = t /\ pc[t] = "publish" /\ maxcopy[t] = -1

\* The entry point is finished and on the highest layer.  While there is none, or
\* the first one is being published, no other thread gets into the index.
Entry ==
  /\ enterpoint = NoEntry <=> maxlevel = -1
  /\ enterpoint # NoEntry /\ ~First => Finished(enterpoint) /\ level[enterpoint] = maxlevel
  /\ enterpoint = NoEntry \/ First =>
       \A t \in Threads : global # t => pc[t] \in {"idle", "own", "global"}
  /\ First => \A e \in Ids, l \in Layers : begun[e][l] = 0
  /\ \A t \in Threads : pc[t] \in InGraph => maxcopy[t] <= maxlevel
  /\ \A t \in Threads : global = t /\ pc[t] # "publish" => maxcopy[t] = maxlevel
  /\ \A t \in Threads : global = t /\ pc[t] = "publish" =>
       maxlevel = IF maxcopy[t] = -1 THEN level[cur[t]] ELSE maxcopy[t]

\* Turns are given on existing layers of existing elements, each later than the
\* ones before; an element without one has a thread that inserts it.
Turns ==
  /\ \A e \in Ids, l \in Layers : begun[e][l] > 0 => l <= level[e] /\ l <= maxlevel /\ e < count
  /\ \A e \in Ids, l \in Layers : begun[e][l] < NextTurn(l)
  /\ \A e \in Ids : e < count => Finished(e) \/ \E t \in Threads : Active(t) /\ cur[t] = e

\* The layers on which the element of a thread has begun.
BegunPhase(t) ==
  /\ pc[t] \in Before  => \A l \in Layers : begun[cur[t]][l] = 0
  /\ pc[t] = "search"  => \A l \in Layers : begun[cur[t]][l] > 0 <=> layer[t] < l /\ l <= TopLayer(t)
  /\ pc[t] = "connect" => \A l \in Layers : begun[cur[t]][l] > 0 <=> layer[t] <= l /\ l <= TopLayer(t)
  /\ pc[t] = "publish" => \A l \in Layers : begun[cur[t]][l] > 0 <=> l <= TopLayer(t)
  /\ pc[t] = "unlock"  => Finished(cur[t])

Phases ==
  \A t \in Threads :
    /\ BegunPhase(t)
    /\ pc[t] = "descend" => level[cur[t]] < layer[t] /\ layer[t] <= maxcopy[t]
    /\ pc[t] \in {"search", "connect"} => layer[t] <= TopLayer(t)

\* Links join different elements that have begun, and lists keep their length.
Lists ==
  /\ \A e, n \in Ids, l \in Layers : n \in links[e][l] => begun[n][l] > 0 /\ begun[e][l] > 0 /\ n # e
  /\ \A e \in Ids, l \in Layers : IsFiniteSet(links[e][l]) /\ Cardinality(links[e][l]) <= MaxLinks(l)

\* Whatever a thread has met on a layer has begun there.  It links back to
\* earlier turns, and it leaves a layer from a finished element.
Searches ==
  \A t \in Threads :
    /\ pc[t] = "descend" => begun[obj[t]][layer[t]] > 0
    /\ pc[t] = "search" =>
         /\ \A n \in visited[t] \cup frontier[t] \cup top[t] : begun[n][layer[t]] > 0
         /\ top[t] # {}
    /\ pc[t] = "connect" =>
         /\ begun[obj[t]][layer[t]] > 0
         /\ obj[t] \notin targets[t] => Finished(obj[t])
         /\ \A n \in targets[t] :
              /\ 0 < begun[n][layer[t]] /\ begun[n][layer[t]] < begun[cur[t]][layer[t]]
              /\ cur[t] \notin links[n][layer[t]]

IInv == TypeOK /\ Locks /\ Entry /\ Turns /\ Phases /\ Lists /\ Searches

USE ThreadsAssumption, SizesAssumption

-----------------------------------------------------------------------------
(* Turns are counted *)

\* There are finitely many elements.
LEMMA IdsFinite == IsFiniteSet(Ids)
BY FS_Interval DEF Ids

\* The turn of an element to begin is a number greater than zero.
LEMMA NextTurnType == ASSUME NEW l \in Layers PROVE NextTurn(l) \in Nat \ {0}
<1> DEFINE s == {e \in Ids : begun[e][l] > 0}
<1>1. IsFiniteSet(s)  BY IdsFinite, FS_Subset
<1>2. Cardinality(s) \in Nat  BY <1>1, FS_CardinalityType
<1> QED  BY <1>2 DEF NextTurn

\* When one more element begins on a layer the turns of the layer go one up.
LEMMA NextTurnGrows ==
  ASSUME NEW l \in Layers, NEW c \in Ids, begun[c][l] = 0, begun'[c][l] > 0,
         \A e \in Ids : e # c => begun'[e][l] = begun[e][l]
  PROVE  NextTurn(l)' = NextTurn(l) + 1
<1> DEFINE s == {e \in Ids : begun[e][l] > 0}
           z == {e \in Ids : begun'[e][l] > 0}
<1>1. IsFiniteSet(s)  BY IdsFinite, FS_Subset
<1>2. c \notin s /\ z = s \cup {c}  OBVIOUS
<1> HIDE DEF s, z
<1>3. Cardinality(z) = Cardinality(s) + 1  BY <1>1, <1>2, FS_AddElement
<1>4. Cardinality(s) \in Nat  BY <1>1, FS_CardinalityType
<1>5. 1 + Cardinality(z) = (1 + Cardinality(s)) + 1  BY <1>3, <1>4
<1> QED  BY <1>5 DEF NextTurn, s, z

\* A layer on which nothing begins keeps its next turn.
LEMMA NextTurnStays ==
  ASSUME NEW l \in Layers, \A e \in Ids : begun'[e][l] = begun[e][l]
  PROVE  NextTurn(l)' = NextTurn(l)
BY DEF NextTurn

-----------------------------------------------------------------------------
(* Types *)

\* Below a layer other than the lowest there is a layer.
LEMMA LayerBelow == ASSUME NEW l \in Layers, l > 0 PROVE l - 1 \in Layers
BY DEF Layers

\* Layers and levels are numbers, -1 standing for the empty index.
LEMMA Numbers ==
  ASSUME TypeOK, NEW t \in Threads
  PROVE  /\ layer[t] \in Nat /\ level[cur[t]] \in Nat /\ cur[t] \in Nat
         /\ maxcopy[t] \in Int /\ maxcopy[t] >= -1 /\ maxlevel \in Int /\ maxlevel >= -1
BY DEF TypeOK, Ids, Layers

\* The empty index is well typed.
LEMMA InitTypeOK == Init => TypeOK
BY DEF Init, TypeOK, Ids, Layers, NoEntry, PcValues

\* Every step of addPoint keeps the types: layers never go below 0, and a thread
\* that reads an entry point has seen an index that is not empty.
LEMMA StepTypeOK == ASSUME IInv, [Next]_vars PROVE TypeOK'
<1> USE DEF TypeOK
<1> TypeOK /\ Locks /\ Entry  BY DEF IInv
<1>1. ASSUME NEW t \in Threads, Allocate(t) PROVE TypeOK'
  <2>1. count \in Ids /\ count' \in 0 .. MaxElements
    BY <1>1 DEF Allocate, Ids
  <2> QED  BY <1>1, <2>1 DEF Allocate, PcValues, graphVars, lockVars, searchVars
<1>2. ASSUME NEW t \in Threads, TakeOwnLock(t) PROVE TypeOK'
  BY <1>2 DEF TakeOwnLock, PcValues, Holding, graphVars, lockVars, searchVars
<1>3. ASSUME NEW t \in Threads, TakeGlobal(t) PROVE TypeOK'
  BY <1>3 DEF TakeGlobal, PcValues, Holding, graphVars, lockVars, searchVars
<1>4. ASSUME NEW t \in Threads, ReadEntry(t) PROVE TypeOK'
  <2>1. links' \in [Ids -> [Layers -> SUBSET Ids]]
    BY <1>4 DEF ReadEntry
  <2>2. CASE enterpoint = NoEntry
    <3>1. enterpoint' \in Ids /\ maxlevel' \in -1 .. MaxLevel
      <4>1. enterpoint' = 0 /\ maxlevel' = level[cur[t]]
        BY <1>4, <2>2 DEF ReadEntry
      <4>2. level[cur[t]] \in Layers  OBVIOUS
      <4> QED  BY <4>1, <4>2 DEF Ids, Layers
    <3>2. pc' \in [Threads -> PcValues]
      BY <1>4, <2>2 DEF ReadEntry, PcValues, Holding
    <3>3. UNCHANGED <<obj, layer, visited, frontier, top>>
      BY <1>4, <2>2 DEF ReadEntry, searchVars
    <3> QED  BY <1>4, <2>1, <3>1, <3>2, <3>3 DEF ReadEntry, lockVars
  <2>3. CASE enterpoint # NoEntry
    <3>1. enterpoint \in Ids  BY <2>3
    <3>2. maxcopy[t] # -1
      <4>1. pc[t] = "entry" /\ pc[t] \in InGraph  BY <1>4 DEF ReadEntry, InGraph
      <4>2. level[cur[t]] \in Nat  BY DEF Layers
      <4>3. maxcopy[t] = -1 => global = t  BY <4>1, <4>2 DEF Locks
      <4> QED  BY <2>3, <4>1, <4>3 DEF Entry
    <3>3. maxcopy[t] \in Layers
      BY <3>2 DEF Layers
    <3>4. pc' \in [Threads -> PcValues]
      BY <1>4, <2>3 DEF ReadEntry, PcValues, Holding
    <3>5. /\ obj' = [obj EXCEPT ![t] = enterpoint] /\ layer' = [layer EXCEPT ![t] = maxcopy[t]]
          /\ StartSearch(t, enterpoint) /\ enterpoint' = enterpoint /\ maxlevel' = maxlevel
      BY <1>4, <2>3 DEF ReadEntry
    <3>6. obj' \in [Threads -> Ids] /\ layer' \in [Threads -> Layers]
      BY <3>1, <3>3, <3>5
    <3>7. /\ visited' \in [Threads -> SUBSET Ids] /\ frontier' \in [Threads -> SUBSET Ids]
          /\ top' \in [Threads -> SUBSET Ids]
      BY <3>1, <3>5 DEF StartSearch
    <3> QED  BY <1>4, <2>1, <3>4, <3>5, <3>6, <3>7 DEF ReadEntry, lockVars
  <2> QED  BY <2>2, <2>3
<1>5. ASSUME NEW t \in Threads, NEW node \in Ids, DescendTo(t, node) PROVE TypeOK'
  BY <1>5 DEF DescendTo, graphVars, lockVars
<1>6. ASSUME NEW t \in Threads, DescendLayer(t) PROVE TypeOK'
  <2>1. layer[t] - 1 \in Layers
    BY <1>6 DEF DescendLayer, IInv, Phases, Layers
  <2>2. layer' \in [Threads -> Layers]
    BY <1>6, <2>1 DEF DescendLayer
  <2>3. pc' \in [Threads -> PcValues] /\ visited' \in [Threads -> SUBSET Ids]
        /\ frontier' \in [Threads -> SUBSET Ids] /\ top' \in [Threads -> SUBSET Ids]
    <3>1. CASE layer'[t] = level[cur[t]]
      <4>1. pc' = [pc EXCEPT ![t] = "search"] /\ StartSearch(t, obj[t])
        BY <1>6, <3>1 DEF DescendLayer
      <4> QED  BY <4>1 DEF StartSearch, PcValues, Holding
    <3>2. CASE layer'[t] # level[cur[t]]
      <4>1. UNCHANGED <<pc, searchVars>>
        BY <1>6, <3>2 DEF DescendLayer
      <4> QED  BY <4>1 DEF searchVars
    <3> QED  BY <3>1, <3>2
  <2> QED  BY <1>6, <2>2, <2>3 DEF DescendLayer, graphVars, lockVars
<1>7. ASSUME NEW t \in Threads, NEW node \in Ids, Expand(t, node) PROVE TypeOK'
  <2>1. /\ visited' \in [Threads -> SUBSET Ids] /\ frontier' \in [Threads -> SUBSET Ids]
        /\ top' \in [Threads -> SUBSET Ids]
    BY <1>7 DEF Expand
  <2> QED  BY <1>7, <2>1 DEF Expand, graphVars, lockVars
<1>8. ASSUME NEW t \in Threads, Select(t) PROVE TypeOK'
  <2>1. NextTurn(layer[t]) \in Nat  BY NextTurnType
  <2>2. begun' \in [Ids -> [Layers -> Nat]]
    BY <1>8, <2>1 DEF Select
  <2>3. \A s \in Chosen(top[t], M) : s \in SUBSET Ids
    BY DEF Chosen
  <2>4. links' \in [Ids -> [Layers -> SUBSET Ids]] /\ targets' \in [Threads -> SUBSET Ids]
    BY <1>8, <2>3 DEF Select
  <2>5. obj' \in [Threads -> Ids]
    BY <1>8, <2>3 DEF Select
  <2>6. pc' \in [Threads -> PcValues] /\ visited' \in [Threads -> SUBSET Ids]
        /\ frontier' \in [Threads -> SUBSET Ids] /\ top' \in [Threads -> SUBSET Ids]
    BY <1>8 DEF Select, PcValues, Holding, EndSearch
  <2> QED  BY <1>8, <2>2, <2>4, <2>5, <2>6 DEF Select, lockVars
<1>9. ASSUME NEW t \in Threads, NEW node \in Ids, Connect(t, node) PROVE TypeOK'
  <2>1. \A s \in LinksWith(node, layer[t], cur[t]) : s \in SUBSET Ids
    BY DEF LinksWith, Chosen
  <2>2. links' \in [Ids -> [Layers -> SUBSET Ids]] /\ targets' \in [Threads -> SUBSET Ids]
    BY <1>9, <2>1 DEF Connect
  <2>3. /\ pc' \in [Threads -> PcValues] /\ layer' \in [Threads -> Layers]
        /\ visited' \in [Threads -> SUBSET Ids] /\ frontier' \in [Threads -> SUBSET Ids]
        /\ top' \in [Threads -> SUBSET Ids]
    <3>1. CASE targets'[t] # {}
      <4>1. UNCHANGED <<pc, layer, searchVars>>
        BY <1>9, <3>1 DEF Connect
      <4> QED  BY <4>1 DEF searchVars
    <3>2. CASE targets'[t] = {} /\ layer[t] > 0
      <4>1. /\ layer' = [layer EXCEPT ![t] = @ - 1] /\ pc' = [pc EXCEPT ![t] = "search"]
            /\ StartSearch(t, obj[t])
        BY <1>9, <3>2 DEF Connect
      <4>2. layer[t] \in Layers  OBVIOUS
      <4>3. layer[t] - 1 \in Layers  BY <3>2, <4>2, LayerBelow
      <4> QED  BY <4>1, <4>3 DEF StartSearch, PcValues, Holding
    <3>3. CASE targets'[t] = {} /\ ~(layer[t] > 0)
      <4>1. pc' = [pc EXCEPT ![t] = "publish"] /\ UNCHANGED <<layer, searchVars>>
        BY <1>9, <3>3 DEF Connect
      <4> QED  BY <4>1 DEF searchVars, PcValues, Holding
    <3> QED  BY <3>1, <3>2, <3>3
  <2> QED  BY <1>9, <2>2, <2>3 DEF Connect, lockVars
<1>10. ASSUME NEW t \in Threads, Publish(t) PROVE TypeOK'
  <2>1. enterpoint' \in Ids \cup {NoEntry} /\ maxlevel' \in -1 .. MaxLevel
    BY <1>10 DEF Publish, Layers
  <2>2. begun' \in [Ids -> [Layers -> Nat]]
    BY <1>10, NextTurnType DEF Publish
  <2>3. pc' \in [Threads -> PcValues] /\ global' \in Threads \cup {NoThread}
    BY <1>10 DEF Publish, PcValues, Holding
  <2> QED  BY <1>10, <2>1, <2>2, <2>3 DEF Publish, searchVars
<1>11. ASSUME NEW t \in Threads, Unlock(t) PROVE TypeOK'
  <2>1. 0 \in Ids /\ 0 \in Layers  BY DEF Ids, Layers
  <2> QED  BY <1>11, <2>1 DEF Unlock, PcValues, graphVars, searchVars
<1>12. CASE UNCHANGED vars
  BY <1>12 DEF vars, graphVars, lockVars, searchVars
<1> QED
  BY <1>1, <1>2, <1>3, <1>4, <1>5, <1>6, <1>7, <1>8, <1>9, <1>10, <1>11, <1>12 DEF Next, Step

-----------------------------------------------------------------------------
(* What a step leaves alone *)

\* A thread changes no local of another thread.
LEMMA OthersKeepTheirLocals ==
  ASSUME IInv, NEW t \in Threads, Allocate(t) \/ Step(t), NEW u \in Threads, u # t
  PROVE  /\ pc'[u] = pc[u] /\ cur'[u] = cur[u] /\ maxcopy'[u] = maxcopy[u]
         /\ layer'[u] = layer[u] /\ obj'[u] = obj[u] /\ visited'[u] = visited[u]
         /\ frontier'[u] = frontier[u] /\ top'[u] = top[u] /\ targets'[u] = targets[u]
<1> USE DEF IInv, TypeOK
<1>1. CASE Allocate(t)  BY <1>1 DEF Allocate, searchVars
<1>2. CASE TakeOwnLock(t)  BY <1>2 DEF TakeOwnLock, searchVars
<1>3. CASE TakeGlobal(t)  BY <1>3 DEF TakeGlobal, searchVars
<1>4. CASE ReadEntry(t)  BY <1>4 DEF ReadEntry, searchVars, StartSearch
<1>5. CASE \E node \in Ids : DescendTo(t, node)  BY <1>5 DEF DescendTo
<1>6. CASE DescendLayer(t)  BY <1>6 DEF DescendLayer, searchVars, StartSearch
<1>7. CASE \E node \in Ids : Expand(t, node)  BY <1>7 DEF Expand
<1>8. CASE Select(t)  BY <1>8 DEF Select, EndSearch
<1>9. CASE \E node \in Ids : Connect(t, node)  BY <1>9 DEF Connect, searchVars, StartSearch
<1>10. CASE Publish(t)  BY <1>10 DEF Publish, searchVars
<1>11. CASE Unlock(t)  BY <1>11 DEF Unlock, searchVars
<1> QED
  BY <1>1, <1>2, <1>3, <1>4, <1>5, <1>6, <1>7, <1>8, <1>9, <1>10, <1>11 DEF Step

\* A set of numbers that is not empty has a least one.
LEMMA LeastNumber ==
  ASSUME NEW T, T \subseteq Nat, T # {}
  PROVE  \E x \in T : \A y \in T : x <= y
<1> DEFINE R == {ss \in Nat \X Nat : ss[1] < ss[2]}
<1>1. IsWellFoundedOn(R, Nat)
  BY NatLessThanWellFounded, Zenon DEF OpToRel
<1>2. PICK x \in T : \A y \in T : ~ (<<y, x>> \in R)
  <2> HIDE DEF R
  <2> QED  BY <1>1, WFMin, Zenon
<1>3. ASSUME NEW y \in T PROVE x <= y
  <2>1. ~ (<<y, x>> \in R) /\ y \in Nat /\ x \in Nat  BY <1>2
  <2>2. ~ (y < x)  BY <2>1
  <2> QED  BY <2>1, <2>2
<1> QED  BY <1>3

\* Steps that touch neither locks, levels nor the number of elements.
Inner(t) ==
  \/ ReadEntry(t) \/ DescendLayer(t) \/ Select(t)
  \/ \E node \in Ids : DescendTo(t, node) \/ Expand(t, node) \/ Connect(t, node)

\* These steps belong to a thread that is in the index and stays there.
LEMMA InnerStays ==
  ASSUME IInv, NEW t \in Threads, Inner(t)
  PROVE  /\ UNCHANGED <<count, level, owner, global, cur, maxcopy>>
         /\ pc[t] \in InGraph /\ pc'[t] \in InGraph
<1> USE DEF IInv, TypeOK, InGraph
<1>1. CASE ReadEntry(t)
  <2>1. CASE enterpoint = NoEntry  BY <1>1, <2>1 DEF ReadEntry, lockVars
  <2>2. CASE enterpoint # NoEntry  BY <1>1, <2>2 DEF ReadEntry, lockVars
  <2> QED  BY <2>1, <2>2
<1>2. CASE DescendLayer(t)
  <2>1. CASE layer'[t] = level[cur[t]]
    BY <1>2, <2>1 DEF DescendLayer, lockVars, graphVars
  <2>2. CASE layer'[t] # level[cur[t]]
    BY <1>2, <2>2 DEF DescendLayer, lockVars, graphVars
  <2> QED  BY <2>1, <2>2
<1>3. CASE Select(t)  BY <1>3 DEF Select, lockVars
<1>4. CASE \E node \in Ids : DescendTo(t, node)  BY <1>4 DEF DescendTo, lockVars, graphVars
<1>5. CASE \E node \in Ids : Expand(t, node)  BY <1>5 DEF Expand, lockVars, graphVars
<1>6. ASSUME NEW node \in Ids, Connect(t, node)
      PROVE  UNCHANGED <<count, level, owner, global, cur, maxcopy>>
             /\ pc[t] \in InGraph /\ pc'[t] \in InGraph
  <2>1. CASE targets'[t] # {}  BY <1>6, <2>1 DEF Connect, lockVars
  <2>2. CASE targets'[t] = {} /\ layer[t] > 0  BY <1>6, <2>2 DEF Connect, lockVars
  <2>3. CASE targets'[t] = {} /\ ~(layer[t] > 0)  BY <1>6, <2>3 DEF Connect, lockVars
  <2> QED  BY <2>1, <2>2, <2>3
<1> QED  BY <1>1, <1>2, <1>3, <1>4, <1>5, <1>6 DEF Inner

-----------------------------------------------------------------------------
(* Locks *)

\* It is enough to look at the thread that moves, when the others keep what
\* is theirs.
LEMMA LocksFrame ==
  ASSUME Locks, NEW t \in Threads, count \in Int, count' \in Int, count <= count',
         cur \in [Threads -> Ids],
         \A u \in Threads : u # t =>
           /\ pc'[u] = pc[u] /\ cur'[u] = cur[u] /\ maxcopy'[u] = maxcopy[u]
           /\ global' = u <=> global = u
           /\ Active(u) => /\ owner'[cur[u]] = owner[cur[u]]
                           /\ level'[cur[u]] = level[cur[u]]
           /\ \A e \in Ids : owner'[e] = u => owner[e] = u,
         pc'[t] \in Holding => owner'[cur'[t]] = t,
         \A e \in Ids : owner'[e] = t => pc'[t] \in Holding /\ cur'[t] = e,
         pc'[t] # "idle" =>
           cur'[t] < count' /\ \A u \in Threads : u # t /\ Active(u) => cur[u] # cur'[t],
         global' = t => pc'[t] \in InGraph,
         pc'[t] \in InGraph => (level'[cur'[t]] > maxcopy'[t] <=> global' = t)
  PROVE  Locks'
<1>1. \A u \in Threads : pc'[u] \in Holding => owner'[cur'[u]] = u
  <2>1. "idle" \notin Holding  BY DEF Holding
  <2> QED  BY <2>1 DEF Locks, Active
<1>2. \A u \in Threads, e \in Ids : owner'[e] = u => pc'[u] \in Holding /\ cur'[u] = e
  <2> SUFFICES ASSUME NEW u \in Threads, NEW e \in Ids, owner'[e] = u
               PROVE  pc'[u] \in Holding /\ cur'[u] = e
    OBVIOUS
  <2>1. CASE u = t  BY <2>1
  <2>2. CASE u # t
    <3>1. owner[e] = u  BY <2>2
    <3>2. pc[u] \in Holding /\ cur[u] = e  BY <3>1 DEF Locks
    <3> QED  BY <2>2, <3>2
  <2> QED  BY <2>1, <2>2
<1>3. \A u \in Threads : Active(u)' => cur'[u] < count'
  <2> SUFFICES ASSUME NEW u \in Threads, pc'[u] # "idle" PROVE cur'[u] < count'
    BY DEF Active
  <2>1. CASE u = t  BY <2>1
  <2>2. CASE u # t
    <3>1. cur[u] < count /\ cur[u] \in Int  BY <2>2 DEF Locks, Active, Ids
    <3> QED  BY <2>2, <3>1
  <2> QED  BY <2>1, <2>2
<1>4. \A u, v \in Threads : u # v /\ Active(u)' /\ Active(v)' => cur'[u] # cur'[v]
  <2> SUFFICES ASSUME NEW u \in Threads, NEW v \in Threads, u # v, pc'[u] # "idle", pc'[v] # "idle"
               PROVE  cur'[u] # cur'[v]
    BY DEF Active
  <2>1. CASE u = t  BY <2>1 DEF Active
  <2>2. CASE v = t  BY <2>2 DEF Active
  <2>3. CASE u # t /\ v # t  BY <2>3 DEF Locks, Active
  <2> QED  BY <2>1, <2>2, <2>3
<1>5. \A u \in Threads : global' = u => pc'[u] \in InGraph
  BY DEF Locks
<1>6. \A u \in Threads : pc'[u] \in InGraph => (level'[cur'[u]] > maxcopy'[u] <=> global' = u)
  <2>1. "idle" \notin InGraph  BY DEF InGraph
  <2> SUFFICES ASSUME NEW u \in Threads, u # t, pc'[u] \in InGraph
               PROVE  level'[cur'[u]] > maxcopy'[u] <=> global' = u
    OBVIOUS
  <2>2. Active(u) /\ pc[u] \in InGraph  BY <2>1 DEF Active
  <2>3. level[cur[u]] > maxcopy[u] <=> global = u  BY <2>2 DEF Locks
  <2>4. level'[cur'[u]] = level[cur[u]] /\ maxcopy'[u] = maxcopy[u]  BY <2>2
  <2> QED  BY <2>3, <2>4
<1> QED  BY <1>1, <1>2, <1>3, <1>4, <1>5, <1>6 DEF Locks

\* Every step of addPoint keeps the ownership of locks.
LEMMA StepLocks ==
  ASSUME IInv, TypeOK', NEW t \in Threads, Allocate(t) \/ Step(t)
  PROVE  Locks'
<1>1. \A u \in Threads : u # t =>
        pc'[u] = pc[u] /\ cur'[u] = cur[u] /\ maxcopy'[u] = maxcopy[u]
  BY OthersKeepTheirLocals
<1>2. /\ Locks /\ cur \in [Threads -> Ids] /\ pc \in [Threads -> PcValues]
      /\ owner \in [Ids -> Threads \cup {NoThread}] /\ level \in [Ids -> Layers]
      /\ count \in Int /\ count' \in Int /\ maxcopy \in [Threads -> -1 .. MaxLevel]
      /\ global \in Threads \cup {NoThread}
  BY DEF IInv, TypeOK
<1>3. NoThread \notin Threads  OBVIOUS
<1>4. "idle" \notin Holding /\ "idle" \notin InGraph /\ "own" \notin Holding
  BY DEF Holding, InGraph
<1>5. pc[t] # "idle" =>
        cur[t] < count /\ \A u \in Threads : u # t /\ Active(u) => cur[u] # cur[t]
  BY <1>2 DEF Locks, Active
<1>6. CASE Inner(t)
  <2>1. /\ UNCHANGED <<count, level, owner, global, cur, maxcopy>>
        /\ pc[t] \in InGraph /\ pc'[t] \in InGraph
    BY <1>6, InnerStays
  <2>2. /\ pc[t] \in Holding /\ pc'[t] \in Holding /\ pc[t] # "idle" /\ pc'[t] # "idle"
    BY <2>1 DEF InGraph, Holding
  <2>3. \A u \in Threads : /\ pc'[u] \in Holding <=> pc[u] \in Holding
                           /\ pc'[u] \in InGraph <=> pc[u] \in InGraph
                           /\ Active(u)' <=> Active(u)
    BY <1>1, <2>1, <2>2 DEF Active
  <2> QED  BY <1>2, <2>1, <2>3 DEF Locks
<1>7. CASE Allocate(t)
  <2>1. /\ pc[t] = "idle" /\ pc'[t] = "own" /\ cur'[t] = count /\ count' = count + 1
        /\ UNCHANGED <<level, owner, global>>
    BY <1>2, <1>7 DEF Allocate, graphVars, lockVars
  <2>2. \A u \in Threads : u # t /\ Active(u) => cur[u] # count
    BY <1>2 DEF Locks, Ids
  <2>3. \A e \in Ids : owner'[e] # t
    BY <1>2, <1>4, <2>1 DEF Locks
  <2>4. global' # t  BY <1>2, <1>4, <2>1 DEF Locks
  <2>5. pc'[t] \notin InGraph /\ pc'[t] \notin Holding  BY <2>1 DEF InGraph, Holding
  <2>6. cur'[t] < count' /\ count <= count'  BY <1>2, <2>1
  <2>7. \A u \in Threads : u # t /\ Active(u) => cur[u] # cur'[t]  BY <2>1, <2>2
  <2>8. \A u \in Threads : u # t =>
          /\ global' = u <=> global = u
          /\ Active(u) => owner'[cur[u]] = owner[cur[u]] /\ level'[cur[u]] = level[cur[u]]
          /\ \A e \in Ids : owner'[e] = u => owner[e] = u
    BY <2>1
  <2>9. \A u \in Threads : u # t =>
          /\ pc'[u] = pc[u] /\ cur'[u] = cur[u] /\ maxcopy'[u] = maxcopy[u]
          /\ global' = u <=> global = u
          /\ Active(u) => /\ owner'[cur[u]] = owner[cur[u]]
                          /\ level'[cur[u]] = level[cur[u]]
          /\ \A e \in Ids : owner'[e] = u => owner[e] = u
    BY <1>1, <2>8
  <2> QED  BY <1>2, <2>3, <2>4, <2>5, <2>6, <2>7, <2>9, LocksFrame
<1>8. CASE TakeOwnLock(t)
  <2>1. /\ pc[t] = "own" /\ owner[cur[t]] = NoThread /\ owner' = [owner EXCEPT ![cur[t]] = t]
        /\ pc'[t] = "global" /\ UNCHANGED <<count, cur, maxcopy, global>>
        /\ \A e \in Ids : e # cur[t] => level'[e] = level[e]
    BY <1>2, <1>8 DEF TakeOwnLock, Free
  <2>2. /\ pc'[t] \in Holding /\ pc'[t] \notin InGraph /\ pc[t] # "idle" /\ pc[t] \notin InGraph
        /\ pc[t] \notin Holding
    BY <2>1 DEF Holding, InGraph
  <2>3. \A e \in Ids : owner'[e] = IF e = cur[t] THEN t ELSE owner[e]
    BY <1>2, <2>1
  <2>4. global # t /\ \A e \in Ids : owner[e] # t
    BY <1>2, <2>2 DEF Locks
  <2>5. cur[t] \in Ids /\ \A u \in Threads : u # t /\ Active(u) =>
          cur[u] \in Ids /\ owner'[cur[u]] = owner[cur[u]] /\ level'[cur[u]] = level[cur[u]]
    BY <1>2, <1>5, <2>1, <2>2, <2>3
  <2>6. \A u \in Threads : u # t => \A e \in Ids : owner'[e] = u => owner[e] = u
    BY <2>3
  <2>7. owner'[cur[t]] = t /\ \A e \in Ids : owner'[e] = t => e = cur[t]
    BY <2>3, <2>4, <2>5
  <2>8. count <= count' /\ count' = count /\ cur'[t] = cur[t] /\ global' = global
    BY <1>2, <2>1
  <2>9. \A u \in Threads : u # t =>
          /\ pc'[u] = pc[u] /\ cur'[u] = cur[u] /\ maxcopy'[u] = maxcopy[u]
          /\ global' = u <=> global = u
          /\ Active(u) => /\ owner'[cur[u]] = owner[cur[u]]
                          /\ level'[cur[u]] = level[cur[u]]
          /\ \A e \in Ids : owner'[e] = u => owner[e] = u
    BY <1>1, <2>5, <2>6, <2>8
  <2> QED  BY <1>2, <1>5, <2>2, <2>4, <2>7, <2>8, <2>9, LocksFrame
<1>9. CASE TakeGlobal(t)
  <2>1. /\ pc[t] = "global" /\ global = NoThread /\ maxcopy'[t] = maxlevel /\ pc'[t] = "entry"
        /\ UNCHANGED <<count, level, owner, cur>>
    BY <1>2, <1>9 DEF TakeGlobal, graphVars, IInv, TypeOK
  <2>2. global' = IF level[cur[t]] > maxlevel THEN t ELSE NoThread
    BY <1>9 DEF TakeGlobal
  <2>3. \A u \in Threads : u # t => (global' = u <=> global = u)
    BY <1>3, <2>1, <2>2
  <2>4. global' = t <=> level'[cur'[t]] > maxcopy'[t]
    BY <1>3, <2>1, <2>2
  <2>5. pc'[t] \in InGraph /\ pc'[t] \in Holding /\ pc[t] \in Holding /\ pc[t] # "idle"
    BY <2>1 DEF InGraph, Holding
  <2>6. owner'[cur'[t]] = t /\ \A e \in Ids : owner'[e] = t => cur'[t] = e
    BY <1>2, <2>1, <2>5 DEF Locks
  <2>7. count <= count' /\ count' = count /\ cur'[t] = cur[t]  BY <1>2, <2>1
  <2>8. \A u \in Threads : u # t =>
          /\ pc'[u] = pc[u] /\ cur'[u] = cur[u] /\ maxcopy'[u] = maxcopy[u]
          /\ global' = u <=> global = u
          /\ Active(u) => /\ owner'[cur[u]] = owner[cur[u]]
                          /\ level'[cur[u]] = level[cur[u]]
          /\ \A e \in Ids : owner'[e] = u => owner[e] = u
    BY <1>1, <2>1, <2>3
  <2> QED  BY <1>2, <1>5, <2>4, <2>5, <2>6, <2>7, <2>8, LocksFrame
<1>10. CASE Publish(t)
  <2>1. /\ pc[t] = "publish" /\ pc'[t] = "unlock"
        /\ UNCHANGED <<count, level, owner, cur, maxcopy>>
        /\ global' = IF global = t THEN NoThread ELSE global
    BY <1>2, <1>10 DEF Publish
  <2>2. /\ pc[t] \in Holding /\ pc'[t] \in Holding /\ pc'[t] \notin InGraph /\ pc[t] # "idle"
    BY <2>1 DEF InGraph, Holding
  <2>3. global' # t /\ \A u \in Threads : u # t => (global' = u <=> global = u)
    BY <1>3, <2>1
  <2>4. owner'[cur'[t]] = t /\ \A e \in Ids : owner'[e] = t => cur'[t] = e
    BY <1>2, <2>1, <2>2 DEF Locks
  <2>5. count <= count' /\ count' = count /\ cur'[t] = cur[t]  BY <1>2, <2>1
  <2>6. \A u \in Threads : u # t =>
          /\ pc'[u] = pc[u] /\ cur'[u] = cur[u] /\ maxcopy'[u] = maxcopy[u]
          /\ global' = u <=> global = u
          /\ Active(u) => /\ owner'[cur[u]] = owner[cur[u]]
                          /\ level'[cur[u]] = level[cur[u]]
          /\ \A e \in Ids : owner'[e] = u => owner[e] = u
    BY <1>1, <2>1, <2>3
  <2> QED  BY <1>2, <1>5, <2>2, <2>3, <2>4, <2>5, <2>6, LocksFrame
<1>11. CASE Unlock(t)
  <2>1. /\ pc[t] = "unlock" /\ pc'[t] = "idle" /\ owner' = [owner EXCEPT ![cur[t]] = NoThread]
        /\ UNCHANGED <<count, level, global>>
    BY <1>2, <1>11 DEF Unlock, graphVars
  <2>2. /\ pc[t] \in Holding /\ pc[t] \notin InGraph /\ pc[t] # "idle"
        /\ pc'[t] \notin Holding /\ pc'[t] \notin InGraph
    BY <2>1 DEF InGraph, Holding
  <2>3. \A e \in Ids : owner'[e] = IF e = cur[t] THEN NoThread ELSE owner[e]
    BY <1>2, <2>1
  <2>4. global' # t  BY <1>2, <2>1, <2>2 DEF Locks
  <2>5. \A e \in Ids : owner'[e] # t
    BY <1>2, <1>3, <2>3 DEF Locks
  <2>6. \A u \in Threads : u # t /\ Active(u) =>
          owner'[cur[u]] = owner[cur[u]] /\ level'[cur[u]] = level[cur[u]]
    BY <1>2, <1>5, <2>1, <2>2, <2>3
  <2>7. \A u \in Threads : u # t => \A e \in Ids : owner'[e] = u => owner[e] = u
    BY <1>3, <2>3
  <2>8. count <= count' /\ global' = global /\ pc'[t] = "idle"  BY <1>2, <2>1
  <2>9. \A u \in Threads : u # t =>
          /\ pc'[u] = pc[u] /\ cur'[u] = cur[u] /\ maxcopy'[u] = maxcopy[u]
          /\ global' = u <=> global = u
          /\ Active(u) => /\ owner'[cur[u]] = owner[cur[u]]
                          /\ level'[cur[u]] = level[cur[u]]
          /\ \A e \in Ids : owner'[e] = u => owner[e] = u
    BY <1>1, <2>6, <2>7, <2>8
  <2> QED  BY <1>2, <2>2, <2>4, <2>5, <2>8, <2>9, LocksFrame
<1> QED  BY <1>6, <1>7, <1>8, <1>9, <1>10, <1>11 DEF Step, Inner

-----------------------------------------------------------------------------
(* What a step does to levels and turns *)

\* Only an element whose insertion has just begun gets a level.
LEMMA LevelsStay ==
  ASSUME IInv, NEW t \in Threads, Allocate(t) \/ Step(t), NEW e \in Ids
  PROVE  level'[e] = level[e] \/ (TakeOwnLock(t) /\ e = cur[t])
<1> USE DEF IInv, TypeOK
<1>1. CASE Inner(t)  BY <1>1, InnerStays
<1>2. CASE Allocate(t)  BY <1>2 DEF Allocate, graphVars
<1>3. CASE TakeOwnLock(t)  BY <1>3 DEF TakeOwnLock
<1>4. CASE TakeGlobal(t)  BY <1>4 DEF TakeGlobal, graphVars
<1>5. CASE Publish(t)  BY <1>5 DEF Publish
<1>6. CASE Unlock(t)  BY <1>6 DEF Unlock, graphVars
<1> QED  BY <1>1, <1>2, <1>3, <1>4, <1>5, <1>6 DEF Step, Inner

\* A turn is given once, by the thread that inserts the element.
LEMMA TurnsStay ==
  ASSUME IInv, NEW t \in Threads, Allocate(t) \/ Step(t), NEW e \in Ids, NEW l \in Layers
  PROVE  \/ begun'[e][l] = begun[e][l]
         \/ /\ Select(t) \/ Publish(t)
            /\ e = cur[t] /\ begun[e][l] = 0 /\ begun'[e][l] = NextTurn(l)
            /\ Select(t) => l = layer[t]
            /\ Publish(t) => l <= level[e]
<1> USE DEF IInv, TypeOK
<1>1. CASE ReadEntry(t)  BY <1>1 DEF ReadEntry
<1>2. CASE DescendLayer(t)  BY <1>2 DEF DescendLayer
<1>3. CASE Select(t)
  <2>1. /\ pc[t] = "search" /\ pc[t] # "publish"
        /\ begun' = [begun EXCEPT ![cur[t]][layer[t]] = NextTurn(layer[t])]
    BY <1>3 DEF Select
  <2>2. begun[cur[t]][layer[t]] = 0
    <3>1. ~(begun[cur[t]][layer[t]] > 0)
      <4>1. BegunPhase(t)  BY DEF Phases
      <4>2. \A k \in Layers : begun[cur[t]][k] > 0 <=> layer[t] < k /\ k <= TopLayer(t)
        BY <2>1, <4>1 DEF BegunPhase, Before
      <4>3. layer[t] \in Layers /\ ~(layer[t] < layer[t])  BY DEF Layers
      <4> QED  BY <4>2, <4>3
    <3> QED  BY <3>1
  <2>3. ~Publish(t)  BY <2>1 DEF Publish
  <2>4. CASE e = cur[t] /\ l = layer[t]  BY <1>3, <2>1, <2>2, <2>3, <2>4
  <2>5. CASE ~(e = cur[t] /\ l = layer[t])  BY <2>1, <2>5
  <2> QED  BY <2>4, <2>5
<1>4. CASE \E node \in Ids : DescendTo(t, node)  BY <1>4 DEF DescendTo
<1>5. CASE \E node \in Ids : Expand(t, node)  BY <1>5 DEF Expand
<1>6. CASE \E node \in Ids : Connect(t, node)  BY <1>6 DEF Connect
<1>7. CASE Allocate(t)  BY <1>7 DEF Allocate
<1>8. CASE TakeOwnLock(t)  BY <1>8 DEF TakeOwnLock
<1>9. CASE TakeGlobal(t)  BY <1>9 DEF TakeGlobal
<1>10. CASE Publish(t)
  <2>1. begun' = [begun EXCEPT ![cur[t]] =
                    [k \in Layers |-> IF k <= level[cur[t]] /\ @[k] = 0 THEN NextTurn(k) ELSE @[k]]]
    BY <1>10 DEF Publish
  <2>2. ~Select(t)  BY <1>10 DEF Publish, Select
  <2>3. CASE e # cur[t]  BY <2>1, <2>3
  <2>4. CASE e = cur[t]
    <3>1. begun'[e][l] = IF l <= level[e] /\ begun[e][l] = 0 THEN NextTurn(l) ELSE begun[e][l]
      BY <2>1, <2>4
    <3> QED  BY <1>10, <2>2, <2>4, <3>1
  <2> QED  BY <2>3, <2>4
<1>11. CASE Unlock(t)  BY <1>11 DEF Unlock
<1> QED
  BY <1>1, <1>2, <1>3, <1>4, <1>5, <1>6, <1>7, <1>8, <1>9, <1>10, <1>11 DEF Step

\* An element that a layer knows, and that no thread holds, is on all its layers.
LEMMA FreeIsFinished ==
  ASSUME IInv, NEW e \in Ids, Free(e), NEW l \in Layers, begun[e][l] > 0
  PROVE  Finished(e)
<1> USE DEF IInv, TypeOK
<1>1. e < count  BY DEF Turns
<1>2. ASSUME NEW t \in Threads, Active(t), cur[t] = e
      PROVE  FALSE
  <2>1. pc[t] \notin Holding
    BY <1>2, ThreadsAssumption DEF Locks, Free
  <2>2. pc[t] = "own"
    BY <1>2, <2>1 DEF Active, PcValues
  <2>3. begun[e][l] = 0
    BY <1>2, <2>2 DEF Phases, BegunPhase, Before
  <2> QED  BY <2>3
<1> QED  BY <1>1, <1>2 DEF Turns

\* An element that is finished stays so.
LEMMA FinishedStays ==
  ASSUME IInv, NEW t \in Threads, Allocate(t) \/ Step(t), NEW e \in Ids, Finished(e)
  PROVE  Finished(e)'
<1> USE DEF IInv, TypeOK
<1>1. level'[e] = level[e]
  <2>1. CASE TakeOwnLock(t) /\ e = cur[t]
    <3>1. 0 \in Layers /\ 0 <= level[e]  BY DEF Layers
    <3>2. begun[e][0] = 0
      BY <2>1, <3>1 DEF TakeOwnLock, Phases, BegunPhase, Before
    <3> QED  BY <3>1, <3>2 DEF Finished
  <2> QED  BY <2>1, LevelsStay
<1>2. \A l \in Layers : begun[e][l] > 0 => begun'[e][l] = begun[e][l]
  BY TurnsStay
<1> QED  BY <1>1, <1>2 DEF Finished

-----------------------------------------------------------------------------
(* Turns *)

\* Every step of addPoint keeps turns on existing layers, in the order given.
LEMMA StepTurns ==
  ASSUME IInv, TypeOK', NEW t \in Threads, Allocate(t) \/ Step(t)
  PROVE  Turns'
<1> USE DEF IInv, TypeOK
<1>0. /\ \A u \in Threads : u # t => pc'[u] = pc[u] /\ cur'[u] = cur[u]
  BY OthersKeepTheirLocals
<1>1. maxlevel <= maxlevel'
  <2>1. CASE ReadEntry(t)
    <3>1. enterpoint = NoEntry => maxlevel' \in Layers /\ maxlevel = -1
      BY <2>1 DEF ReadEntry, Entry
    <3>2. enterpoint # NoEntry => maxlevel' = maxlevel
      BY <2>1 DEF ReadEntry
    <3> QED  BY <3>1, <3>2 DEF Layers
  <2>2. CASE Publish(t)
    <3>1. pc[t] = "publish" /\ pc[t] \in InGraph  BY <2>2 DEF Publish, InGraph
    <3>2. CASE level[cur[t]] > maxcopy[t]
      <4>1. maxlevel' = level[cur[t]] /\ global = t
        BY <2>2, <3>1, <3>2 DEF Publish, Locks
      <4>2. maxlevel = IF maxcopy[t] = -1 THEN level[cur[t]] ELSE maxcopy[t]
        BY <3>1, <4>1 DEF Entry
      <4>3. level[cur[t]] \in Int /\ maxcopy[t] \in Int  BY Numbers
      <4> QED  BY <3>2, <4>1, <4>2, <4>3
    <3>3. CASE ~(level[cur[t]] > maxcopy[t])  BY <2>2, <3>3 DEF Publish
    <3> QED  BY <3>2, <3>3
  <2>3. CASE ~ReadEntry(t) /\ ~Publish(t)
    <3>1. maxlevel' = maxlevel
      BY <2>3 DEF Step, Allocate, TakeOwnLock, TakeGlobal, DescendLayer, Select, DescendTo, Expand,
                  Connect, Unlock, graphVars
    <3> QED  BY <3>1
  <2> QED  BY <2>1, <2>2, <2>3
<1>2. count <= count' /\ (~Allocate(t) => count' = count)
  <2>1. CASE Allocate(t)  BY <2>1 DEF Allocate
  <2>2. CASE Inner(t)  BY <2>2, InnerStays
  <2>3. CASE TakeOwnLock(t) \/ TakeGlobal(t) \/ Publish(t) \/ Unlock(t)
    BY <2>3 DEF TakeOwnLock, TakeGlobal, Publish, Unlock
  <2> QED  BY <2>1, <2>2, <2>3 DEF Step, Inner
<1>3. (\A e \in Ids, l \in Layers : begun[e][l] > 0 => l <= level[e] /\ l <= maxlevel /\ e < count)'
  <2> SUFFICES ASSUME NEW e \in Ids, NEW l \in Layers, begun'[e][l] > 0
               PROVE  l <= level'[e] /\ l <= maxlevel' /\ e < count'
    OBVIOUS
  <2>1. CASE begun'[e][l] = begun[e][l]
    <3>1. l <= level[e] /\ l <= maxlevel /\ e < count  BY <2>1 DEF Turns
    <3>2. level'[e] = level[e]
      <4>1. CASE TakeOwnLock(t) /\ e = cur[t]
        <5>1. begun[e][l] > 0  BY <2>1
        <5>2. BegunPhase(t) /\ pc[t] = "own"  BY <4>1 DEF TakeOwnLock, Phases
        <5>3. begun[e][l] = 0  BY <4>1, <5>2 DEF BegunPhase, Before
        <5> QED  BY <5>1, <5>3
      <4> QED  BY <4>1, LevelsStay
    <3> QED  BY <1>1, <1>2, <3>1, <3>2 DEF Layers, Ids
  <2>2. CASE Select(t) /\ e = cur[t] /\ l = layer[t]
    <3>1. pc[t] = "search" /\ pc[t] \in InGraph /\ pc[t] # "idle" /\ level' = level
      BY <2>2 DEF Select, InGraph
    <3>2. layer[t] <= TopLayer(t)  BY <3>1 DEF Phases
    <3>3. layer[t] <= level[e] /\ layer[t] <= maxcopy[t]
      <4>1. /\ layer[t] \in Int /\ level[cur[t]] \in Int /\ maxcopy[t] \in Int
        BY DEF Layers
      <4>2. layer[t] <= IF level[cur[t]] <= maxcopy[t] THEN level[cur[t]] ELSE maxcopy[t]
        BY <3>2 DEF TopLayer, Smaller
      <4> QED  BY <2>2, <4>1, <4>2
    <3>4. maxcopy[t] <= maxlevel /\ e < count
      BY <2>2, <3>1 DEF Entry, Locks, Active
    <3>5. /\ l \in Int /\ maxcopy[t] \in Int /\ maxlevel \in Int /\ maxlevel' \in Int
          /\ e \in Int /\ count \in Int /\ count' \in Int
      BY Numbers DEF Layers, Ids
    <3>6. l <= maxlevel'  BY <1>1, <2>2, <3>3, <3>4, <3>5
    <3> QED  BY <1>2, <2>2, <3>1, <3>3, <3>4, <3>5, <3>6
  <2>3. CASE Publish(t) /\ e = cur[t] /\ l <= level[e]
    <3>1. pc[t] = "publish" /\ pc[t] \in InGraph /\ pc[t] # "idle" /\ level' = level
      BY <2>3 DEF Publish, InGraph
    <3>2. e < count  BY <2>3, <3>1 DEF Locks, Active
    <3>3. maxcopy[t] <= maxlevel  BY <3>1 DEF Entry
    <3>4. level[e] <= maxlevel'
      <4>1. CASE level[cur[t]] > maxcopy[t]  BY <2>3, <4>1 DEF Publish, Layers
      <4>2. CASE ~(level[cur[t]] > maxcopy[t])  BY <1>1, <2>3, <3>3, <4>2 DEF Layers
      <4> QED  BY <4>1, <4>2
    <3>5. /\ l \in Int /\ level[e] \in Int /\ maxlevel' \in Int
          /\ e \in Int /\ count \in Int /\ count' \in Int
      BY DEF Layers, Ids
    <3>6. l <= maxlevel'  BY <2>3, <3>4, <3>5
    <3> QED  BY <1>2, <2>3, <3>1, <3>2, <3>5, <3>6
  <2> QED  BY <2>1, <2>2, <2>3, TurnsStay
<1>4. (\A e \in Ids, l \in Layers : begun[e][l] < NextTurn(l))'
  <2> SUFFICES ASSUME NEW l \in Layers PROVE \A e \in Ids : begun'[e][l] < NextTurn(l)'
    OBVIOUS
  <2>1. NextTurn(l) \in Nat \ {0}  BY NextTurnType
  <2>2. \A e \in Ids : begun[e][l] < NextTurn(l)  BY DEF Turns
  <2>3. CASE \A e \in Ids : begun'[e][l] = begun[e][l]
    <3>1. NextTurn(l)' = NextTurn(l)  BY <2>3, NextTurnStays
    <3> QED  BY <2>2, <2>3, <3>1
  <2>4. CASE ~(\A e \in Ids : begun'[e][l] = begun[e][l])
    <3>1. begun[cur[t]][l] = 0 /\ begun'[cur[t]][l] = NextTurn(l)
      BY <2>4, TurnsStay
    <3>2. \A e \in Ids : e # cur[t] => begun'[e][l] = begun[e][l]
      BY TurnsStay
    <3>3. NextTurn(l)' = NextTurn(l) + 1
      <4>1. cur[t] \in Ids /\ begun'[cur[t]][l] > 0  BY <2>1, <3>1
      <4> QED  BY <3>1, <3>2, <4>1, NextTurnGrows
    <3>4. ASSUME NEW e \in Ids PROVE begun'[e][l] < NextTurn(l) + 1
      <4>1. begun[e][l] \in Int /\ begun[e][l] < NextTurn(l)  BY <2>2
      <4>2. begun'[e][l] = begun[e][l] \/ begun'[e][l] = NextTurn(l)  BY <3>1, <3>2
      <4> QED  BY <2>1, <4>1, <4>2
    <3> QED  BY <3>3, <3>4
  <2> QED  BY <2>3, <2>4
<1>5. (\A e \in Ids : e < count => Finished(e) \/ \E u \in Threads : Active(u) /\ cur[u] = e)'
  <2> SUFFICES ASSUME NEW e \in Ids, e < count'
               PROVE  Finished(e)' \/ \E u \in Threads : Active(u)' /\ cur'[u] = e
    OBVIOUS
  <2>1. CASE Finished(e)  BY <2>1, FinishedStays
  <2>2. CASE Allocate(t) /\ ~(e < count)
    <3>1. e = count /\ cur'[t] = count /\ pc'[t] = "own"
      BY <2>2 DEF Allocate, Ids
    <3> QED  BY <3>1 DEF Active
  <2>3. CASE e < count /\ ~Finished(e)
    <3>1. PICK u \in Threads : Active(u) /\ cur[u] = e  BY <2>3 DEF Turns
    <3>2. CASE u # t  BY <1>0, <3>1, <3>2 DEF Active
    <3>3. CASE u = t
      <4>1. ~Allocate(t)  BY <3>1, <3>3 DEF Allocate, Active
      <4>2. ~Unlock(t)  BY <2>3, <3>1, <3>3 DEF Unlock, Phases, BegunPhase, Before
      <4>3. CASE Inner(t)
        BY <3>1, <3>3, <4>3, InnerStays DEF InGraph, Active
      <4>4. CASE TakeOwnLock(t) \/ TakeGlobal(t) \/ Publish(t)
        BY <3>1, <3>3, <4>4 DEF TakeOwnLock, TakeGlobal, Publish, Active
      <4> QED  BY <4>1, <4>2, <4>3, <4>4 DEF Step, Inner
    <3> QED  BY <3>2, <3>3
  <2> QED  BY <1>2, <2>1, <2>2, <2>3
<1> QED  BY <1>3, <1>4, <1>5 DEF Turns

-----------------------------------------------------------------------------
(* The entry point *)

\* What a step changes of the variables the entry point depends on, and what
\* it may leave to the other threads.
LEMMA OthersKeepTheirs ==
  ASSUME IInv, Locks', NEW t \in Threads, Allocate(t) \/ Step(t), NEW u \in Threads, u # t
  PROVE  /\ global' = u <=> global = u
         /\ Active(u) => level'[cur[u]] = level[cur[u]]
<1>1. TypeOK /\ Locks /\ NoThread \notin Threads  BY DEF IInv
<1>2. global' = u <=> global = u
  <2>1. CASE Inner(t)  BY <2>1, InnerStays
  <2>2. CASE Allocate(t)  BY <2>2 DEF Allocate, lockVars
  <2>3. CASE TakeOwnLock(t)  BY <2>3 DEF TakeOwnLock
  <2>4. CASE TakeGlobal(t)  BY <1>1, <2>4 DEF TakeGlobal
  <2>5. CASE Publish(t)  BY <1>1, <2>5 DEF Publish
  <2>6. CASE Unlock(t)  BY <2>6 DEF Unlock
  <2> QED  BY <2>1, <2>2, <2>3, <2>4, <2>5, <2>6 DEF Step, Inner
<1>3. ASSUME Active(u) PROVE level'[cur[u]] = level[cur[u]]
  <2>1. CASE TakeOwnLock(t) /\ cur[u] = cur[t]
    <3>1. Active(t)  BY <2>1 DEF TakeOwnLock, Active
    <3> QED  BY <1>1, <1>3, <2>1, <3>1 DEF Locks
  <2>2. cur[u] \in Ids  BY <1>1 DEF TypeOK
  <2> QED  BY <2>1, <2>2, LevelsStay
<1> QED  BY <1>2, <1>3

\* While the first element is being published no other thread is in the index.
LEMMA FirstIsAlone ==
  ASSUME IInv, First, NEW t \in Threads
  PROVE  pc[t] \in {"idle", "own", "global"} \/ (pc[t] = "publish" /\ global = t /\ maxcopy[t] = -1)
<1>1. CASE global # t  BY <1>1 DEF IInv, Entry
<1>2. CASE global = t  BY <1>2 DEF First
<1> QED  BY <1>1, <1>2

\* Steps that leave the entry point alone.
Quiet(t) == (Allocate(t) \/ Step(t)) /\ ~ReadEntry(t) /\ ~Publish(t)

\* They leave maxlevel_ alone as well.
LEMMA QuietStays ==
  ASSUME IInv, NEW t \in Threads, Quiet(t)
  PROVE  enterpoint' = enterpoint /\ maxlevel' = maxlevel
BY DEF Quiet, Step, Allocate, TakeOwnLock, TakeGlobal, DescendLayer, Select, DescendTo, Expand,
       Connect, Unlock, graphVars

\* A connecting thread has found a layer, so that the index was not empty.
LEMMA LayersBelowCopy ==
  ASSUME IInv, NEW t \in Threads, pc[t] \in {"search", "connect"}
  PROVE  /\ layer[t] <= maxcopy[t] /\ layer[t] <= level[cur[t]]
         /\ maxcopy[t] >= 0
<1>1. layer[t] <= TopLayer(t)  BY DEF IInv, Phases
<1>2. /\ layer[t] \in Nat /\ level[cur[t]] \in Nat /\ maxcopy[t] \in Int
  BY Numbers DEF IInv
<1>3. TopLayer(t) = IF level[cur[t]] <= maxcopy[t] THEN level[cur[t]] ELSE maxcopy[t]
  BY DEF TopLayer, Smaller
<1>4. layer[t] <= maxcopy[t] /\ layer[t] <= level[cur[t]]
  BY <1>1, <1>2, <1>3
<1> QED  BY <1>2, <1>4

\* And they neither begin nor end the publication of the first element.
LEMMA QuietFirst ==
  ASSUME IInv, TypeOK', Locks', NEW t \in Threads, Quiet(t)
  PROVE  First' <=> First
<1>1. TypeOK /\ Locks  BY DEF IInv
<1>2. Allocate(t) \/ Step(t)  BY DEF Quiet
<1>3. ASSUME NEW u \in Threads, u # t
      PROVE  /\ global' = u <=> global = u
             /\ pc'[u] = pc[u] /\ maxcopy'[u] = maxcopy[u]
  BY <1>2, <1>3, OthersKeepTheirs, OthersKeepTheirLocals
<1>4. ~(pc'[t] = "publish" /\ maxcopy'[t] = -1)
  <2>1. CASE \E node \in Ids : Connect(t, node)
    <3>1. pc[t] = "connect" /\ maxcopy' = maxcopy  BY <2>1 DEF Connect
    <3>2. maxcopy[t] # -1  BY <1>1, <3>1, LayersBelowCopy, Numbers
    <3> QED  BY <3>1, <3>2
  <2>2. CASE DescendLayer(t)
    BY <1>1, <2>2 DEF DescendLayer, TypeOK
  <2>3. CASE ~DescendLayer(t) /\ ~(\E node \in Ids : Connect(t, node))
    BY <1>1, <2>3 DEF Quiet, Step, Allocate, TakeOwnLock, TakeGlobal, Select, DescendTo, Expand,
                      Unlock, TypeOK
  <2> QED  BY <2>1, <2>2, <2>3
<1>5. pc[t] # "publish"
  BY DEF Quiet, Step, Allocate, TakeOwnLock, TakeGlobal, DescendLayer, Select, DescendTo, Expand,
         Connect, Unlock
<1> QED  BY <1>3, <1>4, <1>5 DEF First

\* Every other step keeps the entry point finished and highest.
LEMMA QuietEntry ==
  ASSUME IInv, TypeOK', Locks', NEW t \in Threads, Quiet(t)
  PROVE  Entry'
<1>1. TypeOK /\ Locks /\ Entry /\ NoThread \notin Threads  BY DEF IInv
<1>2. Allocate(t) \/ Step(t)  BY DEF Quiet
<1>3. enterpoint' = enterpoint /\ maxlevel' = maxlevel /\ (First' <=> First)
  BY QuietStays, QuietFirst
<1>4. ASSUME NEW u \in Threads, u # t
      PROVE  /\ global' = u <=> global = u
             /\ Active(u) => level'[cur[u]] = level[cur[u]]
             /\ pc'[u] = pc[u] /\ maxcopy'[u] = maxcopy[u] /\ cur'[u] = cur[u]
  BY <1>2, <1>4, OthersKeepTheirs, OthersKeepTheirLocals
<1>5. \/ Allocate(t) \/ TakeOwnLock(t) \/ TakeGlobal(t) \/ Unlock(t)
      \/ Inner(t) /\ ~ReadEntry(t)
  BY DEF Quiet, Step, Inner
<1>6. ASSUME NEW e \in Ids, Finished(e) PROVE Finished(e)'
  BY <1>2, <1>6, FinishedStays
<1>7. pc'[t] \in InGraph => \/ Inner(t) /\ ~ReadEntry(t) /\ maxcopy'[t] = maxcopy[t]
                               /\ pc[t] \in InGraph /\ (global' = t <=> global = t)
                               /\ pc[t] \in {"descend", "search", "connect"}
                               /\ cur'[t] = cur[t] /\ level'[cur[t]] = level[cur[t]]
                            \/ TakeGlobal(t)
  <2>1. CASE Inner(t) /\ ~ReadEntry(t)
    <3>1. pc[t] \in {"descend", "search", "connect"}
      BY <2>1 DEF Inner, DescendLayer, Select, DescendTo, Expand, Connect
    <3> QED  BY <2>1, <3>1, InnerStays
  <2>2. CASE Allocate(t) \/ TakeOwnLock(t) \/ Unlock(t)
    <3>1. pc'[t] \in {"own", "global", "idle"}
      <4> USE <1>1 DEF TypeOK
      <4>1. CASE Allocate(t)  BY <4>1 DEF Allocate
      <4>2. CASE TakeOwnLock(t)  BY <4>2 DEF TakeOwnLock
      <4>3. CASE Unlock(t)  BY <4>3 DEF Unlock
      <4> QED  BY <2>2, <4>1, <4>2, <4>3
    <3> QED  BY <3>1 DEF InGraph
  <2> QED  BY <1>5, <2>1, <2>2
<1>8. TakeGlobal(t) => /\ maxcopy'[t] = maxlevel /\ pc'[t] = "entry" /\ global = NoThread
                       /\ global' = IF level[cur[t]] > maxlevel THEN t ELSE NoThread
  BY <1>1 DEF TakeGlobal, TypeOK
<1>9. enterpoint' = NoEntry <=> maxlevel' = -1
  BY <1>1, <1>3 DEF Entry
<1>10. ASSUME enterpoint' # NoEntry, ~First'
       PROVE  Finished(enterpoint)' /\ level'[enterpoint'] = maxlevel'
  <2>1. Finished(enterpoint) /\ level[enterpoint] = maxlevel /\ enterpoint \in Ids
    BY <1>1, <1>3, <1>10 DEF Entry, TypeOK
  <2>2. Finished(enterpoint)'
    <3>1. PICK e \in Ids : e = enterpoint  BY <2>1
    <3>2. Finished(e)  BY <2>1, <3>1 DEF Finished
    <3>3. Finished(e)'  BY <1>6, <3>2
    <3> QED  BY <1>3, <3>1, <3>3 DEF Finished
  <2>3. level'[enterpoint] = level[enterpoint]
    <3>1. CASE TakeOwnLock(t) /\ enterpoint = cur[t]
      <4>1. BegunPhase(t) /\ pc[t] = "own"  BY <3>1 DEF TakeOwnLock, IInv, Phases
      <4>2. 0 \in Layers /\ 0 <= level[enterpoint]
        BY <1>1, <2>1 DEF Layers, TypeOK
      <4>3. begun[cur[t]][0] = 0
        BY <4>1, <4>2 DEF BegunPhase, Before
      <4> QED  BY <2>1, <3>1, <4>2, <4>3 DEF Finished
    <3> QED  BY <1>2, <2>1, <3>1, LevelsStay
  <2> QED  BY <1>3, <2>1, <2>2, <2>3
<1>11. ASSUME enterpoint' = NoEntry \/ First', NEW u \in Threads, global' # u
       PROVE  pc'[u] \in {"idle", "own", "global"}
  <2>1. enterpoint = NoEntry \/ First  BY <1>3, <1>11
  <2>2. \A v \in Threads : global # v => pc[v] \in {"idle", "own", "global"}
    BY <1>1, <2>1 DEF Entry
  <2>3. CASE u # t  BY <1>4, <1>11, <2>2, <2>3
  <2>4. CASE u = t
    <3>1. CASE Allocate(t) \/ TakeOwnLock(t) \/ Unlock(t)
      BY <1>1, <2>4, <3>1 DEF Allocate, TakeOwnLock, Unlock, TypeOK
    <3>2. CASE TakeGlobal(t)
      <4>1. ~First  BY <1>1, <1>8, <3>2 DEF First
      <4>2. maxlevel = -1  BY <1>1, <2>1, <4>1 DEF Entry
      <4>3. level[cur[t]] > maxlevel  BY <1>1, <4>2, Numbers
      <4> QED  BY <1>8, <1>11, <2>4, <3>2, <4>3
    <3>3. CASE Inner(t) /\ ~ReadEntry(t)
      <4>1. global # t /\ pc[t] \in InGraph
        BY <1>11, <2>4, <3>3, InnerStays
      <4> QED  BY <2>2, <4>1 DEF InGraph
    <3> QED  BY <1>5, <3>1, <3>2, <3>3
  <2> QED  BY <2>3, <2>4
<1>12. ASSUME First', NEW e \in Ids, NEW l \in Layers PROVE begun'[e][l] = 0
  <2>1. First /\ begun[e][l] = 0  BY <1>1, <1>3, <1>12 DEF Entry
  <2>2. ~Select(t)  BY <2>1, FirstIsAlone DEF Select
  <2> QED  BY <1>2, <2>1, <2>2, TurnsStay DEF Quiet
<1>13. \A u \in Threads : pc'[u] \in InGraph => maxcopy'[u] <= maxlevel'
  <2> SUFFICES ASSUME NEW u \in Threads, pc'[u] \in InGraph PROVE maxcopy'[u] <= maxlevel'
    OBVIOUS
  <2>1. maxlevel \in Int  BY <1>1, Numbers
  <2>2. CASE u # t  BY <1>1, <1>3, <1>4, <2>2 DEF Entry
  <2>3. CASE u = t  BY <1>1, <1>3, <1>7, <1>8, <2>1, <2>3 DEF Entry
  <2> QED  BY <2>2, <2>3
<1>14. \A u \in Threads : global' = u /\ pc'[u] # "publish" => maxcopy'[u] = maxlevel'
  <2> SUFFICES ASSUME NEW u \in Threads, global' = u, pc'[u] # "publish"
               PROVE  maxcopy'[u] = maxlevel'
    OBVIOUS
  <2>1. pc'[u] \in InGraph  BY DEF Locks
  <2>2. CASE u # t  BY <1>1, <1>3, <1>4, <2>2 DEF Entry
  <2>3. CASE u = t  BY <1>1, <1>3, <1>7, <1>8, <2>1, <2>3 DEF Entry
  <2> QED  BY <2>2, <2>3
<1>15. \A u \in Threads : global' = u /\ pc'[u] = "publish" =>
         maxlevel' = IF maxcopy'[u] = -1 THEN level'[cur'[u]] ELSE maxcopy'[u]
  <2> SUFFICES ASSUME NEW u \in Threads, global' = u, pc'[u] = "publish"
               PROVE  maxlevel' = IF maxcopy'[u] = -1 THEN level'[cur'[u]] ELSE maxcopy'[u]
    OBVIOUS
  <2>1. pc'[u] \in InGraph  BY DEF InGraph
  <2>2. CASE u # t
    <3>1. Active(u) /\ global = u /\ pc[u] = "publish"  BY <1>4, <2>2 DEF Active
    <3>2. maxlevel = IF maxcopy[u] = -1 THEN level[cur[u]] ELSE maxcopy[u]
      BY <1>1, <3>1 DEF Entry
    <3> QED  BY <1>3, <1>4, <2>2, <3>1, <3>2
  <2>3. CASE u = t
    <3>1. /\ Inner(t) /\ maxcopy'[t] = maxcopy[t] /\ global = t
          /\ pc[t] \in {"descend", "search", "connect"}
      BY <1>7, <1>8, <2>1, <2>3
    <3>2. maxcopy[t] = maxlevel  BY <1>1, <3>1 DEF Entry
    <3>3. CASE pc[t] = "descend"
      <4>1. maxcopy[t] # -1
        BY <1>1, <3>3, Numbers DEF IInv, Phases
      <4> QED  BY <1>3, <2>3, <3>1, <3>2, <4>1
    <3>4. CASE pc[t] \in {"search", "connect"}
      <4>1. maxcopy[t] # -1  BY <1>1, <3>4, LayersBelowCopy, Numbers
      <4> QED  BY <1>3, <2>3, <3>1, <3>2, <4>1
    <3> QED  BY <3>1, <3>3, <3>4
  <2> QED  BY <2>2, <2>3
<1> QED  BY <1>9, <1>10, <1>11, <1>12, <1>13, <1>14, <1>15 DEF Entry

\* The thread that finds no entry point holds global, and is alone.
LEMMA ReadEntryEntry ==
  ASSUME IInv, TypeOK', Locks', NEW t \in Threads, ReadEntry(t)
  PROVE  Entry'
<1>1. TypeOK /\ Locks /\ Entry /\ Turns /\ NoThread \notin Threads  BY DEF IInv
<1>2. Allocate(t) \/ Step(t)  BY DEF Step
<1>3. ASSUME NEW u \in Threads, u # t
      PROVE  /\ Active(u) => level'[cur[u]] = level[cur[u]]
             /\ pc'[u] = pc[u] /\ maxcopy'[u] = maxcopy[u] /\ cur'[u] = cur[u]
  BY <1>2, <1>3, OthersKeepTheirs, OthersKeepTheirLocals
<1>4. pc[t] = "entry" /\ level' = level /\ begun' = begun /\ UNCHANGED <<global, cur, maxcopy>>
  BY DEF ReadEntry, lockVars
<1>5. CASE enterpoint = NoEntry
  <2>1. /\ pc' = [pc EXCEPT ![t] = "publish"]
        /\ enterpoint' = 0 /\ maxlevel' = level[cur[t]]
    BY <1>5 DEF ReadEntry
  <2>2. maxlevel = -1 /\ global = t
    BY <1>1, <1>4, <1>5 DEF Entry
  <2>3. maxcopy[t] = -1  BY <1>1, <1>4, <2>2 DEF Entry
  <2>4. pc'[t] = "publish" /\ pc'[t] \in InGraph  BY <1>1, <2>1 DEF TypeOK, InGraph
  <2>5. First'  BY <1>4, <2>2, <2>3, <2>4 DEF First
  <2>6. \A e \in Ids, l \in Layers : begun'[e][l] = 0
    <3> SUFFICES ASSUME NEW e \in Ids, NEW l \in Layers PROVE begun[e][l] = 0
      BY <1>4
    <3>1. begun[e][l] \in Nat /\ l \in Nat  BY <1>1 DEF TypeOK, Layers
    <3>2. begun[e][l] > 0 => l <= maxlevel  BY <1>1 DEF Turns
    <3> QED  BY <2>2, <3>1, <3>2
  <2>7. \A u \in Threads : u # t => pc'[u] \in {"idle", "own", "global"} /\ global' # u
    BY <1>1, <1>3, <1>4, <1>5, <2>2 DEF Entry
  <2>8. \A u \in Threads : pc'[u] \in InGraph => u = t
    BY <2>7 DEF InGraph
  <2>9. level[cur[t]] \in Nat  BY <1>1, Numbers
  <2>10. enterpoint' # NoEntry /\ maxlevel' # -1 /\ maxcopy'[t] <= maxlevel'
    BY <1>4, <2>1, <2>3, <2>9 DEF NoEntry
  <2>11. \A u \in Threads : global' = u => u = t  BY <2>7
  <2> QED  BY <1>4, <2>1, <2>2, <2>3, <2>4, <2>5, <2>6, <2>7, <2>8, <2>10, <2>11 DEF Entry
<1>6. CASE enterpoint # NoEntry
  <2>1. /\ enterpoint' = enterpoint /\ maxlevel' = maxlevel
        /\ pc'[t] \in {"descend", "search"}
    BY <1>1, <1>6 DEF ReadEntry, TypeOK
  <2>2. ~First  BY <1>4, FirstIsAlone
  <2>3. ~First'  BY <1>3, <1>4, <2>1, <2>2 DEF First
  <2>4. pc'[t] \in InGraph /\ pc[t] \in InGraph /\ pc[t] # "publish" /\ pc'[t] # "publish"
    BY <1>4, <2>1 DEF InGraph
  <2>5. Finished(enterpoint)' /\ level'[enterpoint'] = maxlevel'
    BY <1>1, <1>4, <1>6, <2>1, <2>2 DEF Entry, Finished
  <2>6. \A u \in Threads : pc'[u] \in InGraph => maxcopy'[u] <= maxlevel'
    BY <1>1, <1>3, <1>4, <2>1, <2>4 DEF Entry
  <2>7. \A u \in Threads : global' = u /\ pc'[u] # "publish" => maxcopy'[u] = maxlevel'
    BY <1>1, <1>3, <1>4, <2>1, <2>4 DEF Entry
  <2>8. \A u \in Threads : global' = u /\ pc'[u] = "publish" =>
          maxlevel' = IF maxcopy'[u] = -1 THEN level'[cur'[u]] ELSE maxcopy'[u]
    BY <1>1, <1>3, <1>4, <2>1, <2>4 DEF Entry
  <2>9. enterpoint' # NoEntry /\ maxlevel' # -1  BY <1>1, <1>6, <2>1 DEF Entry
  <2> QED  BY <2>3, <2>5, <2>6, <2>7, <2>8, <2>9 DEF Entry
<1> QED  BY <1>5, <1>6

\* The thread that publishes a higher element has linked it on all its layers.
LEMMA PublishEntry ==
  ASSUME IInv, TypeOK', Locks', NEW t \in Threads, Publish(t)
  PROVE  Entry'
<1>1. TypeOK /\ Locks /\ Entry /\ NoThread \notin Threads  BY DEF IInv
<1>2. Allocate(t) \/ Step(t)  BY DEF Step
<1>3. ASSUME NEW u \in Threads, u # t
      PROVE  /\ global' = u <=> global = u
             /\ Active(u) => level'[cur[u]] = level[cur[u]]
             /\ pc'[u] = pc[u] /\ maxcopy'[u] = maxcopy[u] /\ cur'[u] = cur[u]
  BY <1>2, <1>3, OthersKeepTheirs, OthersKeepTheirLocals
<1>4. /\ pc[t] = "publish" /\ pc'[t] = "unlock" /\ UNCHANGED <<level, cur, maxcopy>>
      /\ global' = IF global = t THEN NoThread ELSE global
  BY <1>1 DEF Publish, TypeOK
<1>5. pc[t] \in InGraph /\ pc'[t] \notin InGraph /\ global' # t
  BY <1>1, <1>4 DEF InGraph
<1>6. level[cur[t]] > maxcopy[t] <=> global = t  BY <1>1, <1>5 DEF Locks
<1>7. maxcopy[t] <= maxlevel /\ maxlevel \in Int /\ maxcopy[t] \in Int /\ level[cur[t]] \in Nat
  BY <1>1, <1>5, Numbers DEF Entry
<1>8. ~First'
  <2>1. \A u \in Threads : u # t /\ First => ~(global = u)
    BY <1>4, FirstIsAlone
  <2> QED  BY <1>3, <1>4, <2>1 DEF First
<1>9. \A u \in Threads : global' = u => u # t /\ global = u  BY <1>3, <1>5
<1>10. CASE global = t
  <2>1. enterpoint' = cur[t] /\ maxlevel' = level[cur[t]]
    BY <1>6, <1>10 DEF Publish
  <2>2. \A u \in Threads : global' # u  BY <1>1, <1>9, <1>10
  <2>3. cur[t] \in Ids /\ cur[t] # NoEntry  BY <1>1 DEF TypeOK, Ids, NoEntry
  <2>4. maxlevel <= maxlevel'
    <3>1. maxlevel = IF maxcopy[t] = -1 THEN level[cur[t]] ELSE maxcopy[t]
      BY <1>1, <1>4, <1>10 DEF Entry
    <3> QED  BY <1>6, <1>7, <1>10, <2>1, <3>1
  <2>5. \A l \in Layers : l <= level[cur[t]] => begun'[cur[t]][l] > 0
    <3> SUFFICES ASSUME NEW l \in Layers, l <= level[cur[t]] PROVE begun'[cur[t]][l] > 0
      OBVIOUS
    <3>1. begun'[cur[t]][l] = IF begun[cur[t]][l] = 0 THEN NextTurn(l) ELSE begun[cur[t]][l]
      BY <1>1, <2>3 DEF Publish, TypeOK
    <3>2. begun[cur[t]][l] \in Nat  BY <1>1, <2>3 DEF TypeOK
    <3> QED  BY <3>1, <3>2, NextTurnType
  <2>6. Finished(enterpoint)'  BY <1>4, <2>1, <2>5 DEF Finished
  <2>7. level'[enterpoint'] = maxlevel' /\ maxlevel' # -1 /\ enterpoint' # NoEntry
    BY <1>4, <1>7, <2>1, <2>3
  <2>8. \A u \in Threads : pc'[u] \in InGraph => maxcopy'[u] <= maxlevel'
    <3> SUFFICES ASSUME NEW u \in Threads, u # t, pc[u] \in InGraph PROVE maxcopy[u] <= maxlevel'
      BY <1>3, <1>5
    <3>1. maxcopy[u] <= maxlevel /\ maxcopy[u] \in Int /\ maxlevel' \in Int
      BY <1>1, <1>7, <2>1, Numbers DEF Entry
    <3> QED  BY <1>7, <2>4, <3>1
  <2> QED  BY <1>8, <2>2, <2>6, <2>7, <2>8 DEF Entry
<1>11. CASE global # t
  <2>1. enterpoint' = enterpoint /\ maxlevel' = maxlevel
    BY <1>6, <1>11 DEF Publish
  <2>2. enterpoint # NoEntry  BY <1>1, <1>4, <1>11 DEF Entry
  <2>3. ~First  BY <1>11, <1>4, FirstIsAlone
  <2>4. enterpoint \in Ids /\ Finished(enterpoint) /\ level[enterpoint] = maxlevel
    BY <1>1, <2>2, <2>3 DEF Entry, TypeOK
  <2>5. Finished(enterpoint)'
    <3>1. ASSUME NEW e \in Ids, Finished(e) PROVE Finished(e)'
      BY <1>2, <3>1, FinishedStays
    <3>2. PICK e \in Ids : e = enterpoint  BY <2>4
    <3>3. Finished(e)  BY <2>4, <3>2 DEF Finished
    <3>4. Finished(e)'  BY <3>1, <3>3
    <3> QED  BY <2>1, <3>2, <3>4 DEF Finished
  <2>6. maxlevel # -1  BY <1>1, <2>2 DEF Entry
  <2>7. \A u \in Threads : pc'[u] \in InGraph => maxcopy'[u] <= maxlevel'
    BY <1>1, <1>3, <1>5, <2>1 DEF Entry
  <2>8. \A u \in Threads : global' = u /\ pc'[u] # "publish" => maxcopy'[u] = maxlevel'
    BY <1>1, <1>3, <1>9, <2>1 DEF Entry
  <2>9. \A u \in Threads : global' = u /\ pc'[u] = "publish" =>
          maxlevel' = IF maxcopy'[u] = -1 THEN level'[cur'[u]] ELSE maxcopy'[u]
    BY <1>1, <1>3, <1>4, <1>9, <2>1 DEF Entry
  <2> QED  BY <1>4, <1>8, <2>1, <2>2, <2>4, <2>5, <2>6, <2>7, <2>8, <2>9 DEF Entry
<1> QED  BY <1>10, <1>11

\* Every step of addPoint keeps the entry point finished and highest.
LEMMA StepEntry ==
  ASSUME IInv, TypeOK', Locks', NEW t \in Threads, Allocate(t) \/ Step(t)
  PROVE  Entry'
BY QuietEntry, ReadEntryEntry, PublishEntry DEF Quiet

-----------------------------------------------------------------------------
(* Phases *)

\* The thread that moves is the only one whose phase may change.
LEMMA OthersKeepTheirPhase ==
  ASSUME IInv, Locks', NEW t \in Threads, Allocate(t) \/ Step(t), NEW u \in Threads, u # t, Active(u)
  PROVE  /\ level'[cur[u]] = level[cur[u]]
         /\ \A l \in Layers : begun'[cur[u]][l] = begun[cur[u]][l]
         /\ pc'[u] = pc[u] /\ cur'[u] = cur[u] /\ maxcopy'[u] = maxcopy[u]
         /\ layer'[u] = layer[u]
<1>1. level'[cur[u]] = level[cur[u]]  BY OthersKeepTheirs
<1>2. ASSUME NEW l \in Layers PROVE begun'[cur[u]][l] = begun[cur[u]][l]
  <2>1. cur[u] \in Ids  BY DEF IInv, TypeOK
  <2>2. CASE (Select(t) \/ Publish(t)) /\ cur[u] = cur[t]
    <3>1. Active(t)  BY <2>2 DEF Select, Publish, Active
    <3> QED  BY <2>2, <3>1 DEF IInv, Locks
  <2> QED  BY <2>1, <2>2, TurnsStay
<1> QED  BY <1>1, <1>2, OthersKeepTheirLocals

\* What Phases says of one thread.
PhaseOf(t) ==
  /\ BegunPhase(t)
  /\ pc[t] = "descend" => level[cur[t]] < layer[t] /\ layer[t] <= maxcopy[t]
  /\ pc[t] \in {"search", "connect"} => layer[t] <= TopLayer(t)

\* No thread begins a layer for another one.
LEMMA OthersPhase ==
  ASSUME IInv, Locks', NEW t \in Threads, Allocate(t) \/ Step(t), NEW u \in Threads, u # t
  PROVE  PhaseOf(u)'
<1>1. PhaseOf(u)  BY DEF IInv, Phases, PhaseOf
<1>2. CASE Active(u)
  <2>1. /\ level'[cur[u]] = level[cur[u]]
        /\ \A l \in Layers : begun'[cur[u]][l] = begun[cur[u]][l]
        /\ pc'[u] = pc[u] /\ cur'[u] = cur[u] /\ maxcopy'[u] = maxcopy[u]
        /\ layer'[u] = layer[u]
    BY <1>2, OthersKeepTheirPhase
  <2>2. TopLayer(u)' = TopLayer(u)  BY <2>1 DEF TopLayer, Smaller
  <2>3. Finished(cur[u])' <=> Finished(cur[u])  BY <2>1 DEF Finished
  <2>4. BegunPhase(u)'
    <3>1. CASE pc[u] \in Before
      <4>1. \A l \in Layers : begun[cur[u]][l] = 0  BY <1>1, <3>1 DEF PhaseOf, BegunPhase
      <4>2. \A l \in Layers : begun'[cur'[u]][l] = 0  BY <2>1, <4>1
      <4> QED  BY <2>1, <3>1, <4>2 DEF BegunPhase, Before
    <3>2. CASE pc[u] = "search"  BY <1>1, <2>1, <2>2, <3>2 DEF PhaseOf, BegunPhase, Before
    <3>3. CASE pc[u] = "connect"  BY <1>1, <2>1, <2>2, <3>3 DEF PhaseOf, BegunPhase, Before
    <3>4. CASE pc[u] = "publish"  BY <1>1, <2>1, <2>2, <3>4 DEF PhaseOf, BegunPhase, Before
    <3>5. CASE pc[u] = "unlock"  BY <1>1, <2>1, <2>3, <3>5 DEF PhaseOf, BegunPhase, Before
    <3>6. CASE pc[u] \notin Before \cup {"search", "connect", "publish", "unlock"}
      BY <2>1, <3>6 DEF BegunPhase
    <3> QED  BY <3>1, <3>2, <3>3, <3>4, <3>5, <3>6
  <2> QED  BY <1>1, <2>1, <2>2, <2>4 DEF PhaseOf
<1>3. CASE ~Active(u)
  <2>1. pc'[u] = "idle"  BY <1>3, OthersKeepTheirLocals DEF Active
  <2> QED  BY <2>1 DEF PhaseOf, BegunPhase, Before
<1> QED  BY <1>2, <1>3

\* Only a thread that has met a neighbour on a layer leaves the search there.
LEMMA StepPhases ==
  ASSUME IInv, TypeOK', Locks', NEW t \in Threads, Allocate(t) \/ Step(t)
  PROVE  Phases'
<1>1. /\ TypeOK /\ Turns /\ Entry /\ PhaseOf(t)
  BY DEF IInv, Phases, PhaseOf
<1>2. /\ layer[t] \in Nat /\ level[cur[t]] \in Nat /\ maxcopy[t] \in Int /\ maxcopy[t] >= -1
      /\ maxlevel \in Int /\ cur[t] \in Ids /\ layer[t] \in Layers /\ Layers \subseteq Nat
  BY <1>1, Numbers DEF TypeOK, Layers
<1>3. TopLayer(t) = IF level[cur[t]] <= maxcopy[t] THEN level[cur[t]] ELSE maxcopy[t]
  BY DEF TopLayer, Smaller
<1>4. PhaseOf(t)'
  <2>1. CASE Allocate(t)
    <3>1. /\ pc'[t] = "own" /\ cur'[t] = count /\ begun' = begun /\ count \in Ids
      BY <1>1, <2>1 DEF Allocate, TypeOK, Ids
    <3>2. \A l \in Layers : begun[count][l] = 0
      <4> SUFFICES ASSUME NEW l \in Layers PROVE begun[count][l] = 0
        OBVIOUS
      <4>1. begun[count][l] \in Nat /\ count \in Nat  BY <1>1, <3>1 DEF TypeOK, Ids
      <4>2. begun[count][l] > 0 => count < count  BY <1>1, <3>1 DEF Turns
      <4> QED  BY <4>1, <4>2
    <3> QED  BY <3>1, <3>2 DEF PhaseOf, BegunPhase
  <2>2. CASE TakeOwnLock(t) \/ TakeGlobal(t)
    <3>1. /\ pc[t] \in {"own", "global"} /\ pc'[t] \in {"global", "entry"}
          /\ cur' = cur /\ begun' = begun
      <4>1. CASE TakeOwnLock(t)  BY <1>1, <4>1 DEF TakeOwnLock, TypeOK
      <4>2. CASE TakeGlobal(t)  BY <1>1, <4>2 DEF TakeGlobal, TypeOK
      <4> QED  BY <2>2, <4>1, <4>2
    <3>2. \A l \in Layers : begun[cur[t]][l] = 0
      BY <1>1, <3>1 DEF PhaseOf, BegunPhase, Before
    <3> QED  BY <3>1, <3>2 DEF PhaseOf, BegunPhase
  <2>3. CASE ReadEntry(t)
    <3>1. /\ pc[t] = "entry" /\ begun' = begun /\ cur' = cur /\ level' = level /\ maxcopy' = maxcopy
      BY <2>3 DEF ReadEntry
    <3>2. \A l \in Layers : begun'[cur'[t]][l] = 0
      BY <1>1, <3>1 DEF PhaseOf, BegunPhase, Before
    <3>3. TopLayer(t)' = TopLayer(t)  BY <3>1 DEF TopLayer, Smaller
    <3>4. CASE enterpoint = NoEntry
      <4>1. pc'[t] = "publish"  BY <1>1, <2>3, <3>4 DEF ReadEntry, TypeOK
      <4>2. maxcopy[t] = -1  BY <1>1, <1>2, <3>1, <3>4 DEF Entry, InGraph
      <4>3. TopLayer(t) = -1  BY <1>2, <1>3, <4>2
      <4>4. \A l \in Layers : begun'[cur'[t]][l] > 0 <=> l <= TopLayer(t)'
        BY <1>2, <3>2, <3>3, <4>3
      <4> QED  BY <4>1, <4>4 DEF PhaseOf, BegunPhase, Before
    <3>5. CASE enterpoint # NoEntry
      <4>1. /\ layer'[t] = maxcopy[t]
            /\ pc'[t] = IF level[cur[t]] < maxcopy[t] THEN "descend" ELSE "search"
        BY <1>1, <2>3, <3>5 DEF ReadEntry, TypeOK
      <4>2. CASE level[cur[t]] < maxcopy[t]
        <5>1. pc'[t] = "descend"  BY <4>1, <4>2
        <5>2. level'[cur'[t]] < layer'[t] /\ layer'[t] <= maxcopy'[t]
          BY <1>2, <3>1, <4>1, <4>2
        <5> QED  BY <3>2, <5>1, <5>2 DEF PhaseOf, BegunPhase, Before
      <4>3. CASE ~(level[cur[t]] < maxcopy[t])
        <5>1. pc'[t] = "search"  BY <4>1, <4>3
        <5>2. layer'[t] = TopLayer(t)' /\ layer'[t] \in Int
          BY <1>2, <1>3, <3>3, <4>1, <4>3
        <5>3. \A l \in Layers : begun'[cur'[t]][l] > 0 <=> layer'[t] < l /\ l <= TopLayer(t)'
          <6> SUFFICES ASSUME NEW l \in Layers
                       PROVE  begun'[cur'[t]][l] > 0 <=> layer'[t] < l /\ l <= TopLayer(t)'
            OBVIOUS
          <6>1. l \in Nat /\ begun'[cur'[t]][l] = 0
            BY <1>2, <3>2, <5>2 DEF Layers
          <6> QED  BY <1>2, <3>2, <5>2, <6>1
        <5> QED  BY <5>1, <5>2, <5>3 DEF PhaseOf, BegunPhase, Before
      <4> QED  BY <4>2, <4>3
    <3> QED  BY <3>4, <3>5
  <2>4. CASE DescendLayer(t)
    <3>1. /\ pc[t] = "descend" /\ begun' = begun /\ cur' = cur /\ level' = level /\ maxcopy' = maxcopy
          /\ layer'[t] = layer[t] - 1
      BY <1>1, <2>4 DEF DescendLayer, graphVars, TypeOK
    <3>2. \A l \in Layers : begun'[cur'[t]][l] = 0
      BY <1>1, <3>1 DEF PhaseOf, BegunPhase, Before
    <3>3. TopLayer(t)' = TopLayer(t)  BY <3>1 DEF TopLayer, Smaller
    <3>4. level[cur[t]] < layer[t] /\ layer[t] <= maxcopy[t]  BY <1>1, <3>1 DEF PhaseOf
    <3>5. CASE layer'[t] = level[cur[t]]
      <4>1. pc'[t] = "search"  BY <1>1, <2>4, <3>5 DEF DescendLayer, TypeOK
      <4>2. layer'[t] = TopLayer(t)' /\ layer'[t] \in Int
        BY <1>2, <1>3, <3>3, <3>4, <3>5
      <4>3. \A l \in Layers : begun'[cur'[t]][l] > 0 <=> layer'[t] < l /\ l <= TopLayer(t)'
        <5> SUFFICES ASSUME NEW l \in Layers
                     PROVE  begun'[cur'[t]][l] > 0 <=> layer'[t] < l /\ l <= TopLayer(t)'
          OBVIOUS
        <5>1. l \in Nat /\ begun'[cur'[t]][l] = 0
          BY <1>2, <3>2, <4>2 DEF Layers
        <5> QED  BY <1>2, <3>2, <4>2, <5>1
      <4> QED  BY <4>1, <4>2, <4>3 DEF PhaseOf, BegunPhase, Before
    <3>6. CASE layer'[t] # level[cur[t]]
      <4>1. pc'[t] = "descend"  BY <2>4, <3>1, <3>6 DEF DescendLayer
      <4>2. level'[cur'[t]] < layer'[t] /\ layer'[t] <= maxcopy'[t]
        BY <1>2, <3>1, <3>4, <3>6
      <4> QED  BY <3>2, <4>1, <4>2 DEF PhaseOf, BegunPhase
    <3> QED  BY <3>5, <3>6
  <2>5. CASE \E node \in Ids : DescendTo(t, node) \/ Expand(t, node)
    <3>1. UNCHANGED <<pc, begun, cur, level, maxcopy, layer>>
      BY <2>5 DEF DescendTo, Expand, graphVars
    <3>2. TopLayer(t)' = TopLayer(t)  BY <3>1 DEF TopLayer, Smaller
    <3>3. Finished(cur[t])' <=> Finished(cur[t])  BY <3>1 DEF Finished
    <3> QED  BY <1>1, <3>1, <3>2, <3>3 DEF PhaseOf, BegunPhase
  <2>6. CASE Select(t)
    <3>1. /\ pc[t] = "search" /\ pc'[t] = "connect"
          /\ cur' = cur /\ level' = level /\ maxcopy' = maxcopy /\ layer' = layer
          /\ begun' = [begun EXCEPT ![cur[t]][layer[t]] = NextTurn(layer[t])]
      BY <1>1, <2>6 DEF Select, TypeOK
    <3>2. TopLayer(t)' = TopLayer(t)  BY <3>1 DEF TopLayer, Smaller
    <3>3. layer[t] <= TopLayer(t)  BY <1>1, <3>1 DEF PhaseOf
    <3>4. \A l \in Layers : begun[cur[t]][l] > 0 <=> layer[t] < l /\ l <= TopLayer(t)
      BY <1>1, <3>1 DEF PhaseOf, BegunPhase
    <3>5. \A l \in Layers : begun'[cur[t]][l] = IF l = layer[t] THEN NextTurn(l) ELSE begun[cur[t]][l]
      BY <1>1, <1>2, <3>1 DEF TypeOK
    <3>6. \A l \in Layers : begun'[cur[t]][l] > 0 <=> layer[t] <= l /\ l <= TopLayer(t)
      <4> SUFFICES ASSUME NEW l \in Layers
                   PROVE  begun'[cur[t]][l] > 0 <=> layer[t] <= l /\ l <= TopLayer(t)
        OBVIOUS
      <4>1. CASE l = layer[t]
        <5>1. begun'[cur[t]][l] > 0  BY <3>5, <4>1, NextTurnType
        <5> QED  BY <1>2, <3>3, <4>1, <5>1
      <4>2. CASE l # layer[t]  BY <1>2, <3>4, <3>5, <4>2
      <4> QED  BY <4>1, <4>2
    <3> QED  BY <3>1, <3>2, <3>3, <3>6 DEF PhaseOf, BegunPhase, Before
  <2>7. ASSUME NEW node \in Ids, Connect(t, node) PROVE PhaseOf(t)'
    <3>1. /\ pc[t] = "connect" /\ UNCHANGED <<begun, cur, level, maxcopy>>
      BY <2>7 DEF Connect
    <3>2. TopLayer(t)' = TopLayer(t)  BY <3>1 DEF TopLayer, Smaller
    <3>3. layer[t] <= TopLayer(t)  BY <1>1, <3>1 DEF PhaseOf
    <3>4. \A l \in Layers : begun'[cur'[t]][l] > 0 <=> layer[t] <= l /\ l <= TopLayer(t)
      BY <1>1, <3>1 DEF PhaseOf, BegunPhase
    <3>5. TopLayer(t) \in Int  BY <1>2, <1>3
    <3>6. CASE targets'[t] # {}
      <4>1. pc'[t] = "connect" /\ layer' = layer  BY <2>7, <3>1, <3>6 DEF Connect
      <4> QED  BY <3>2, <3>3, <3>4, <4>1 DEF PhaseOf, BegunPhase, Before
    <3>7. CASE targets'[t] = {} /\ layer[t] > 0
      <4>1. pc'[t] = "search" /\ layer'[t] = layer[t] - 1
        BY <1>1, <2>7, <3>7 DEF Connect, TypeOK
      <4>2. layer'[t] <= TopLayer(t)'  BY <1>2, <3>2, <3>3, <3>5, <4>1
      <4>3. \A l \in Layers : begun'[cur'[t]][l] > 0 <=> layer'[t] < l /\ l <= TopLayer(t)'
        <5> SUFFICES ASSUME NEW l \in Layers
                     PROVE  begun'[cur'[t]][l] > 0 <=> layer'[t] < l /\ l <= TopLayer(t)'
          OBVIOUS
        <5>1. l \in Nat /\ (begun'[cur'[t]][l] > 0 <=> layer[t] <= l /\ l <= TopLayer(t))
          BY <3>4 DEF Layers
        <5>2. layer'[t] < l <=> layer[t] <= l  BY <1>2, <4>1, <5>1
        <5>3. l <= TopLayer(t)' <=> l <= TopLayer(t)  BY <3>2
        <5> QED  BY <5>1, <5>2, <5>3, Zenon
      <4> QED  BY <4>1, <4>2, <4>3 DEF PhaseOf, BegunPhase, Before
    <3>8. CASE targets'[t] = {} /\ ~(layer[t] > 0)
      <4>1. pc'[t] = "publish"  BY <1>1, <2>7, <3>8 DEF Connect, TypeOK
      <4>2. \A l \in Layers : begun'[cur'[t]][l] > 0 <=> l <= TopLayer(t)'
        <5> SUFFICES ASSUME NEW l \in Layers
                     PROVE  begun'[cur'[t]][l] > 0 <=> l <= TopLayer(t)'
          OBVIOUS
        <5>1. l \in Nat /\ (begun'[cur'[t]][l] > 0 <=> layer[t] <= l /\ l <= TopLayer(t))
          BY <3>4 DEF Layers
        <5>2. layer[t] <= l  BY <1>2, <3>8, <5>1
        <5>3. l <= TopLayer(t)' <=> l <= TopLayer(t)  BY <3>2
        <5> QED  BY <5>1, <5>2, <5>3, Zenon
      <4> QED  BY <4>1, <4>2 DEF PhaseOf, BegunPhase, Before
    <3> QED  BY <3>6, <3>7, <3>8
  <2>8. CASE Publish(t)
    <3>1. /\ pc'[t] = "unlock" /\ cur' = cur /\ level' = level
          /\ begun' = [begun EXCEPT ![cur[t]] =
                        [l \in Layers |-> IF l <= level[cur[t]] /\ @[l] = 0 THEN NextTurn(l) ELSE @[l]]]
      BY <1>1, <2>8 DEF Publish, TypeOK
    <3>2. \A l \in Layers : l <= level[cur[t]] => begun'[cur[t]][l] > 0
      <4> SUFFICES ASSUME NEW l \in Layers, l <= level[cur[t]] PROVE begun'[cur[t]][l] > 0
        OBVIOUS
      <4>1. begun'[cur[t]][l] = IF begun[cur[t]][l] = 0 THEN NextTurn(l) ELSE begun[cur[t]][l]
        BY <1>1, <1>2, <3>1 DEF TypeOK
      <4>2. begun[cur[t]][l] \in Nat  BY <1>1, <1>2 DEF TypeOK
      <4> QED  BY <4>1, <4>2, NextTurnType
    <3>3. Finished(cur[t])'  BY <3>1, <3>2 DEF Finished
    <3> QED  BY <3>1, <3>3 DEF PhaseOf, BegunPhase, Before
  <2>9. CASE Unlock(t)
    <3>1. pc'[t] = "idle"  BY <1>1, <2>9 DEF Unlock, TypeOK
    <3> QED  BY <3>1 DEF PhaseOf, BegunPhase, Before
  <2> QED  BY <2>1, <2>2, <2>3, <2>4, <2>5, <2>6, <2>7, <2>8, <2>9 DEF Step
<1>5. \A u \in Threads : PhaseOf(u)'
  BY <1>4, OthersPhase
<1> QED  BY <1>5 DEF Phases, PhaseOf

-----------------------------------------------------------------------------
(* Lists *)

\* The heuristic keeps some of the candidates, and not more than asked for.
LEMMA ChosenFits ==
  ASSUME NEW candidates, IsFiniteSet(candidates), NEW m \in Nat, NEW s \in Chosen(candidates, m)
  PROVE  /\ s \subseteq candidates /\ IsFiniteSet(s) /\ Cardinality(s) <= m
         /\ candidates # {} => s # {}
<1>1. Cardinality(candidates) \in Nat  BY FS_CardinalityType
<1>2. s \subseteq candidates /\ Cardinality(s) <= m /\ (candidates # {} => s # {})
  BY <1>1 DEF Chosen
<1> QED  BY <1>2, FS_Subset

\* A list has room for the neighbours a new element takes.
LEMMA Rooms ==
  ASSUME NEW l \in Layers
  PROVE  MaxLinks(l) \in Nat /\ M <= MaxLinks(l)
BY DEF MaxLinks

\* A list that takes one more element keeps to its length.
LEMMA LinksFit ==
  ASSUME NEW node \in Ids, NEW l \in Layers, NEW e \in Ids, NEW s \in LinksWith(node, l, e),
         IsFiniteSet(links[node][l]), Cardinality(links[node][l]) <= MaxLinks(l)
  PROVE  s \subseteq links[node][l] \cup {e} /\ IsFiniteSet(s) /\ Cardinality(s) <= MaxLinks(l)
<1> DEFINE old == links[node][l]
<1>1. Cardinality(old) \in Nat /\ MaxLinks(l) \in Nat  BY FS_CardinalityType, Rooms
<1>2. IsFiniteSet(old \cup {e})
      /\ Cardinality(old \cup {e}) = IF e \in old THEN Cardinality(old) ELSE Cardinality(old) + 1
  BY FS_AddElement
<1>3. CASE Cardinality(old) < MaxLinks(l)
  <2>1. s = old \cup {e}  BY <1>3 DEF LinksWith
  <2>2. Cardinality(s) <= MaxLinks(l)  BY <1>1, <1>2, <1>3, <2>1
  <2> QED  BY <1>2, <2>1, <2>2
<1>4. CASE ~(Cardinality(old) < MaxLinks(l))
  <2>1. s \in Chosen(old \cup {e}, MaxLinks(l))  BY <1>4 DEF LinksWith
  <2> QED  BY <1>1, <1>2, <2>1, ChosenFits
<1> QED  BY <1>3, <1>4

\* A step clears, writes or extends one list at most.
LEMMA ListsStay ==
  ASSUME IInv, NEW t \in Threads, Allocate(t) \/ Step(t), NEW e \in Ids, NEW l \in Layers
  PROVE  \/ links'[e][l] = links[e][l]
         \/ ReadEntry(t) /\ e = cur[t]
         \/ Select(t) /\ e = cur[t] /\ l = layer[t]
         \/ \E node \in Ids : Connect(t, node) /\ e = node /\ l = layer[t]
<1> TypeOK  BY DEF IInv
<1> USE DEF TypeOK
<1>1. CASE ReadEntry(t)
  <2>1. links' = [links EXCEPT ![cur[t]] = [k \in Layers |-> {}]]  BY <1>1 DEF ReadEntry
  <2>2. CASE e # cur[t]  BY <2>1, <2>2
  <2> QED  BY <1>1, <2>2
<1>2. CASE Select(t)
  <2>1. PICK s \in Chosen(top[t], M) : links' = [links EXCEPT ![cur[t]][layer[t]] = s]
    BY <1>2 DEF Select
  <2>2. CASE ~(e = cur[t] /\ l = layer[t])  BY <2>1, <2>2
  <2> QED  BY <1>2, <2>2
<1>3. ASSUME NEW node \in Ids, Connect(t, node)
      PROVE  links'[e][l] = links[e][l] \/ (e = node /\ l = layer[t])
  <2>1. PICK s \in LinksWith(node, layer[t], cur[t]) :
          links' = [links EXCEPT ![node][layer[t]] = s]
    BY <1>3 DEF Connect
  <2> QED  BY <2>1
<1>4. CASE ~ReadEntry(t) /\ ~Select(t) /\ ~(\E node \in Ids : Connect(t, node))
  BY <1>4 DEF Step, Allocate, TakeOwnLock, TakeGlobal, DescendLayer, DescendTo, Expand,
              Publish, Unlock, graphVars
<1> QED  BY <1>1, <1>2, <1>3, <1>4

\* Every step of addPoint keeps lists short and between elements that have begun.
LEMMA StepLists ==
  ASSUME IInv, TypeOK', NEW t \in Threads, Allocate(t) \/ Step(t)
  PROVE  Lists'
<1>1. /\ TypeOK /\ Lists /\ Searches /\ BegunPhase(t)  BY DEF IInv, Phases
<1>2. \A e \in Ids, l \in Layers : begun[e][l] > 0 => begun'[e][l] > 0
  BY <1>1, TurnsStay
<1>3. cur[t] \in Ids /\ layer[t] \in Layers  BY <1>1 DEF TypeOK
<1>4. SUFFICES ASSUME NEW e \in Ids, NEW l \in Layers
               PROVE  /\ \A n \in Ids : n \in links'[e][l] =>
                           begun'[n][l] > 0 /\ begun'[e][l] > 0 /\ n # e
                      /\ IsFiniteSet(links'[e][l]) /\ Cardinality(links'[e][l]) <= MaxLinks(l)
  BY DEF Lists, MaxLinks
<1>5. CASE links'[e][l] = links[e][l]
  <2>1. \A n \in Ids : n \in links[e][l] => begun[n][l] > 0 /\ begun[e][l] > 0 /\ n # e
    BY <1>1 DEF Lists
  <2>2. IsFiniteSet(links[e][l]) /\ Cardinality(links[e][l]) <= MaxLinks(l)
    BY <1>1 DEF Lists
  <2> QED  BY <1>2, <1>5, <2>1, <2>2
<1>6. CASE ReadEntry(t) /\ e = cur[t]
  <2>1. links'[e][l] = {}  BY <1>1, <1>3, <1>6 DEF ReadEntry, TypeOK
  <2> QED  BY <2>1, FS_EmptySet, Rooms
<1>7. CASE Select(t) /\ e = cur[t] /\ l = layer[t]
  <2>1. PICK s \in Chosen(top[t], M) : links' = [links EXCEPT ![cur[t]][layer[t]] = s]
    BY <1>7 DEF Select
  <2>2. links'[e][l] = s  BY <1>1, <1>3, <1>7, <2>1 DEF TypeOK
  <2>3. top[t] \subseteq Ids /\ IsFiniteSet(top[t])  BY <1>1, IdsFinite, FS_Subset DEF TypeOK
  <2>4. s \subseteq top[t] /\ IsFiniteSet(s) /\ Cardinality(s) <= M  BY <2>3, ChosenFits
  <2>5. Cardinality(s) <= MaxLinks(l)
    <3>1. Cardinality(s) \in Nat /\ MaxLinks(l) \in Nat /\ M <= MaxLinks(l) /\ M \in Nat
      BY <2>4, FS_CardinalityType, Rooms
    <3> QED  BY <2>4, <3>1
  <2>6. pc[t] = "search"  BY <1>7 DEF Select
  <2>7. \A n \in top[t] : begun[n][l] > 0  BY <1>1, <1>7, <2>6 DEF Searches
  <2>8. ~(begun[e][l] > 0)
    <3>1. l \in Nat /\ (begun[e][l] > 0 => l < l)
      BY <1>1, <1>3, <1>7, <2>6 DEF BegunPhase, Layers
    <3> QED  BY <3>1
  <2>9. begun'[e][l] > 0
    <3>1. begun'[e][l] = NextTurn(l)  BY <1>1, <1>3, <1>7 DEF Select, TypeOK
    <3> QED  BY <3>1, NextTurnType
  <2>10. \A n \in Ids : n \in s => begun[n][l] > 0 /\ n # e  BY <2>4, <2>7, <2>8
  <2> QED  BY <1>2, <2>2, <2>4, <2>5, <2>9, <2>10
<1>8. ASSUME NEW node \in Ids, Connect(t, node), e = node, l = layer[t]
      PROVE  /\ \A n \in Ids : n \in links'[e][l] =>
                  begun'[n][l] > 0 /\ begun'[e][l] > 0 /\ n # e
             /\ IsFiniteSet(links'[e][l]) /\ Cardinality(links'[e][l]) <= MaxLinks(l)
  <2>1. PICK s \in LinksWith(node, layer[t], cur[t]) : links' = [links EXCEPT ![node][layer[t]] = s]
    BY <1>8 DEF Connect
  <2>2. links'[e][l] = s  BY <1>1, <1>8, <2>1 DEF TypeOK
  <2>3. IsFiniteSet(links[e][l]) /\ Cardinality(links[e][l]) <= MaxLinks(l)
    BY <1>1 DEF Lists
  <2>4. s \subseteq links[e][l] \cup {cur[t]} /\ IsFiniteSet(s) /\ Cardinality(s) <= MaxLinks(l)
    BY <1>3, <1>8, <2>3, LinksFit
  <2>5. pc[t] = "connect" /\ node \in targets[t]  BY <1>8 DEF Connect
  <2>6. 0 < begun[e][l] /\ begun[e][l] < begun[cur[t]][l]
    BY <1>1, <1>8, <2>5 DEF Searches
  <2>7. begun[e][l] > 0 /\ begun[cur[t]][l] > 0 /\ cur[t] # e
    <3>1. begun[e][l] \in Nat /\ begun[cur[t]][l] \in Nat  BY <1>1, <1>3 DEF TypeOK
    <3> QED  BY <2>6, <3>1
  <2>8. \A n \in Ids : n \in links[e][l] => begun[n][l] > 0 /\ n # e
    BY <1>1 DEF Lists
  <2>9. \A n \in Ids : n \in s => begun[n][l] > 0 /\ n # e  BY <2>4, <2>7, <2>8
  <2> QED  BY <1>2, <2>2, <2>4, <2>7, <2>9
<1> QED  BY <1>5, <1>6, <1>7, <1>8, ListsStay

-----------------------------------------------------------------------------
(* Searches *)

\* What Searches says of one thread.
SearchOf(t) ==
  /\ pc[t] = "descend" => begun[obj[t]][layer[t]] > 0
  /\ pc[t] = "search" =>
       /\ \A n \in visited[t] \cup frontier[t] \cup top[t] : begun[n][layer[t]] > 0
       /\ top[t] # {}
  /\ pc[t] = "connect" =>
       /\ begun[obj[t]][layer[t]] > 0
       /\ obj[t] \notin targets[t] => Finished(obj[t])
       /\ \A n \in targets[t] :
            /\ 0 < begun[n][layer[t]] /\ begun[n][layer[t]] < begun[cur[t]][layer[t]]
            /\ cur[t] \notin links[n][layer[t]]

\* A turn that was given stays.
LEMMA BegunStays ==
  ASSUME IInv, NEW t \in Threads, Allocate(t) \/ Step(t), NEW e \in Ids, NEW l \in Layers,
         begun[e][l] > 0
  PROVE  begun'[e][l] = begun[e][l]
BY TurnsStay

\* Another thread may append its own element to a neighbour's list, no other.
LEMMA OthersSearch ==
  ASSUME IInv, NEW t \in Threads, Allocate(t) \/ Step(t), NEW u \in Threads, u # t
  PROVE  SearchOf(u)'
<1>1. /\ TypeOK /\ Locks /\ Lists /\ Searches /\ SearchOf(u) /\ BegunPhase(t)
  BY DEF IInv, Phases, Searches, SearchOf
<1>2. /\ pc'[u] = pc[u] /\ cur'[u] = cur[u] /\ layer'[u] = layer[u] /\ obj'[u] = obj[u]
      /\ visited'[u] = visited[u] /\ frontier'[u] = frontier[u] /\ top'[u] = top[u]
      /\ targets'[u] = targets[u]
  BY OthersKeepTheirLocals
<1>3. /\ layer[u] \in Layers /\ obj[u] \in Ids /\ cur[u] \in Ids /\ cur[t] \in Ids
      /\ visited[u] \subseteq Ids /\ frontier[u] \subseteq Ids /\ top[u] \subseteq Ids
      /\ targets[u] \subseteq Ids
  BY <1>1 DEF TypeOK
<1>4. \A e \in Ids : begun[e][layer[u]] > 0 => begun'[e][layer[u]] = begun[e][layer[u]]
  BY <1>3, BegunStays
<1>5. CASE pc[u] = "descend"
  <2>1. begun[obj[u]][layer[u]] > 0  BY <1>1, <1>5 DEF SearchOf
  <2>2. begun'[obj[u]][layer[u]] > 0  BY <1>3, <1>4, <2>1
  <2> QED  BY <1>2, <1>5, <2>2 DEF SearchOf
<1>6. CASE pc[u] = "search"
  <2>1. top[u] # {} /\ \A n \in visited[u] \cup frontier[u] \cup top[u] : begun[n][layer[u]] > 0
    BY <1>1, <1>6 DEF SearchOf
  <2>2. \A n \in visited[u] \cup frontier[u] \cup top[u] : begun'[n][layer[u]] > 0
    BY <1>3, <1>4, <2>1
  <2> QED  BY <1>2, <1>6, <2>1, <2>2 DEF SearchOf
<1>7. CASE pc[u] = "connect"
  <2>1. /\ begun[obj[u]][layer[u]] > 0
        /\ obj[u] \notin targets[u] => Finished(obj[u])
        /\ \A n \in targets[u] :
             /\ 0 < begun[n][layer[u]] /\ begun[n][layer[u]] < begun[cur[u]][layer[u]]
             /\ cur[u] \notin links[n][layer[u]]
    BY <1>1, <1>7 DEF SearchOf
  <2>2. begun'[obj[u]][layer[u]] > 0  BY <1>3, <1>4, <2>1
  <2>3. obj[u] \notin targets[u] => Finished(obj[u])'
    <3>1. PICK e \in Ids : e = obj[u]  BY <1>3
    <3>2. ASSUME Finished(e) PROVE Finished(e)'  BY <3>2, FinishedStays
    <3> QED  BY <1>2, <2>1, <3>1, <3>2 DEF Finished
  <2>4. ASSUME NEW n \in targets[u]
        PROVE  /\ 0 < begun'[n][layer[u]] /\ begun'[n][layer[u]] < begun'[cur[u]][layer[u]]
               /\ cur[u] \notin links'[n][layer[u]]
    <3>1. n \in Ids /\ begun[n][layer[u]] > 0 /\ begun[cur[u]][layer[u]] > 0
      <4>1. n \in Ids /\ begun[n][layer[u]] \in Nat /\ begun[cur[u]][layer[u]] \in Nat
        BY <1>1, <1>3 DEF TypeOK
      <4> QED  BY <2>1, <4>1
    <3>2. /\ begun'[n][layer[u]] = begun[n][layer[u]]
          /\ begun'[cur[u]][layer[u]] = begun[cur[u]][layer[u]]
      BY <1>3, <1>4, <3>1
    <3>3. cur[u] \notin links[n][layer[u]]  BY <2>1
    <3>4. CASE ReadEntry(t) /\ n = cur[t]
      <4>1. links' = [links EXCEPT ![cur[t]] = [k \in Layers |-> {}]]  BY <3>4 DEF ReadEntry
      <4>2. links'[n][layer[u]] = {}  BY <1>1, <1>3, <3>1, <3>4, <4>1 DEF TypeOK
      <4> QED  BY <2>1, <3>2, <4>2
    <3>5. CASE Select(t) /\ n = cur[t] /\ layer[u] = layer[t]
      <4>1. pc[t] = "search"  BY <3>5 DEF Select
      <4>2. layer[t] \in Nat /\ (begun[n][layer[t]] > 0 => layer[t] < layer[t])
        BY <1>1, <1>3, <3>5, <4>1 DEF BegunPhase, Layers
      <4> QED  BY <3>1, <3>5, <4>2
    <3>6. ASSUME NEW node \in Ids, Connect(t, node), n = node, layer[u] = layer[t]
          PROVE  cur[u] \notin links'[n][layer[u]]
      <4>1. PICK s \in LinksWith(node, layer[t], cur[t]) :
              links' = [links EXCEPT ![node][layer[t]] = s]
        BY <3>6 DEF Connect
      <4>2. links'[n][layer[u]] = s  BY <1>1, <1>3, <3>6, <4>1 DEF TypeOK
      <4>3. IsFiniteSet(links[node][layer[t]])
            /\ Cardinality(links[node][layer[t]]) <= MaxLinks(layer[t])
        BY <1>1, <1>3, <3>6 DEF Lists
      <4>4. s \subseteq links[node][layer[t]] \cup {cur[t]}
        BY <1>3, <3>6, <4>3, LinksFit
      <4>5. Active(u) /\ Active(t)  BY <1>7, <3>6 DEF Active, Connect
      <4>6. cur[u] # cur[t]  BY <1>1, <4>5 DEF Locks
      <4> QED  BY <3>3, <3>6, <4>2, <4>4, <4>6
    <3>7. CASE links'[n][layer[u]] = links[n][layer[u]]  BY <2>1, <3>2, <3>7
    <3>8. \/ links'[n][layer[u]] = links[n][layer[u]]
          \/ ReadEntry(t) /\ n = cur[t]
          \/ Select(t) /\ n = cur[t] /\ layer[u] = layer[t]
          \/ \E node \in Ids : Connect(t, node) /\ n = node /\ layer[u] = layer[t]
      BY <1>3, <3>1, ListsStay
    <3> QED  BY <2>1, <3>2, <3>4, <3>5, <3>6, <3>7, <3>8
  <2> QED  BY <1>2, <1>7, <2>2, <2>3, <2>4 DEF SearchOf
<1>8. CASE pc[u] \notin {"descend", "search", "connect"}
  BY <1>2, <1>8 DEF SearchOf
<1> QED  BY <1>5, <1>6, <1>7, <1>8

\* An element that a layer knows and no thread holds is on the layer below too.
LEMMA LayerBelowIsReady ==
  ASSUME IInv, NEW e \in Ids, NEW l \in Layers, begun[e][l] > 0, Finished(e), l - 1 \in Layers
  PROVE  begun[e][l - 1] > 0
<1>1. l <= level[e]  BY DEF IInv, Turns
<1>2. l \in Nat /\ level[e] \in Nat  BY DEF IInv, TypeOK, Layers
<1>3. l - 1 <= level[e]  BY <1>1, <1>2
<1> QED  BY <1>3 DEF Finished

\* The entry point has begun on the layer where an insertion starts.
LEMMA ReadEntrySearch ==
  ASSUME IInv, TypeOK', NEW t \in Threads, ReadEntry(t)
  PROVE  SearchOf(t)'
<1>1. TypeOK /\ Entry  BY DEF IInv
<1>2. pc[t] = "entry" /\ begun' = begun  BY DEF ReadEntry
<1>3. CASE enterpoint = NoEntry
  <2>1. pc'[t] = "publish"  BY <1>1, <1>3 DEF ReadEntry, TypeOK
  <2> QED  BY <2>1 DEF SearchOf
<1>4. CASE enterpoint # NoEntry
  <2>1. /\ obj' = [obj EXCEPT ![t] = enterpoint] /\ layer' = [layer EXCEPT ![t] = maxcopy[t]]
        /\ StartSearch(t, enterpoint)
        /\ pc' = [pc EXCEPT ![t] = IF level[cur[t]] < maxcopy[t] THEN "descend" ELSE "search"]
    BY <1>4 DEF ReadEntry
  <2>2. /\ obj'[t] = enterpoint /\ layer'[t] = maxcopy[t] /\ pc'[t] \in {"descend", "search"}
        /\ visited'[t] = {enterpoint} /\ frontier'[t] = {enterpoint} /\ top'[t] = {enterpoint}
    BY <1>1, <2>1 DEF StartSearch, TypeOK
  <2>3. ~First  BY <1>2, FirstIsAlone
  <2>4. Finished(enterpoint) /\ level[enterpoint] = maxlevel
    BY <1>1, <1>4, <2>3 DEF Entry
  <2>5. maxcopy[t] <= maxlevel  BY <1>1, <1>2 DEF Entry, InGraph
  <2>6. maxcopy[t] \in Layers  BY <2>2 DEF TypeOK
  <2>7. begun'[enterpoint][maxcopy[t]] > 0  BY <1>2, <2>4, <2>5, <2>6 DEF Finished
  <2> QED  BY <2>2, <2>7 DEF SearchOf
<1> QED  BY <1>3, <1>4

\* A closer neighbour has begun on the layer, and on the layer below as no thread
\* holds it.
LEMMA DescendSearch ==
  ASSUME IInv, TypeOK', NEW t \in Threads,
         DescendLayer(t) \/ \E node \in Ids : DescendTo(t, node)
  PROVE  SearchOf(t)'
<1>1. TypeOK /\ Lists /\ Searches  BY DEF IInv
<1>2. pc[t] = "descend" /\ begun' = begun /\ Free(obj[t])
  BY DEF DescendLayer, DescendTo
<1>3. begun[obj[t]][layer[t]] > 0 /\ obj[t] \in Ids /\ layer[t] \in Layers
  BY <1>1, <1>2 DEF Searches, TypeOK
<1>4. ASSUME NEW node \in Ids, DescendTo(t, node) PROVE SearchOf(t)'
  <2>1. /\ obj'[t] = node /\ layer'[t] = layer[t] /\ pc'[t] = "descend"
        /\ node \in links[obj[t]][layer[t]]
    BY <1>1, <1>2, <1>4 DEF DescendTo, TypeOK
  <2>2. begun[node][layer[t]] > 0  BY <1>1, <1>3, <2>1 DEF Lists
  <2> QED  BY <1>2, <2>1, <2>2 DEF SearchOf
<1>5. CASE DescendLayer(t)
  <2>1. layer'[t] = layer[t] - 1 /\ layer'[t] \in Layers /\ obj' = obj
    BY <1>1, <1>5 DEF DescendLayer, TypeOK
  <2>2. Finished(obj[t])  BY <1>2, <1>3, FreeIsFinished
  <2>3. begun[obj[t]][layer[t] - 1] > 0
    BY <1>3, <2>1, <2>2, LayerBelowIsReady
  <2>4. begun'[obj'[t]][layer'[t]] > 0  BY <1>2, <2>1, <2>3
  <2>5. CASE layer'[t] = level[cur[t]]
    <3>1. pc' = [pc EXCEPT ![t] = "search"] /\ StartSearch(t, obj[t])
      BY <1>5, <2>5 DEF DescendLayer
    <3>2. /\ pc'[t] = "search" /\ visited'[t] = {obj[t]} /\ frontier'[t] = {obj[t]}
          /\ top'[t] = {obj[t]}
      BY <1>1, <3>1 DEF StartSearch, TypeOK
    <3> QED  BY <2>1, <2>4, <3>2 DEF SearchOf
  <2>6. CASE layer'[t] # level[cur[t]]
    <3>1. pc'[t] = "descend"  BY <1>2, <1>5, <2>6 DEF DescendLayer
    <3> QED  BY <2>4, <3>1 DEF SearchOf
  <2> QED  BY <2>5, <2>6
<1> QED  BY <1>4, <1>5

\* A search only meets what has begun on its layer, and always keeps a result.
LEMMA ExpandSearch ==
  ASSUME IInv, TypeOK', NEW t \in Threads, NEW node \in Ids, Expand(t, node)
  PROVE  SearchOf(t)'
<1>1. TypeOK /\ Lists /\ Searches  BY DEF IInv
<1>2. /\ pc[t] = "search" /\ pc' = pc /\ begun' = begun /\ layer' = layer
  BY DEF Expand
<1>3. /\ layer[t] \in Layers /\ top[t] \subseteq Ids /\ top[t] # {}
      /\ \A n \in visited[t] \cup frontier[t] \cup top[t] : begun[n][layer[t]] > 0
  BY <1>1, <1>2 DEF Searches, TypeOK
<1> DEFINE new == links[node][layer[t]] \ visited[t]
<1>4. PICK kept \in SUBSET new :
        /\ visited'  = [visited  EXCEPT ![t] = @ \cup new]
        /\ frontier' = [frontier EXCEPT ![t] = (@ \ {node}) \cup kept]
        /\ \E best \in SUBSET (top[t] \cup kept) :
             /\ Cardinality(best) = Smaller(EfConstruction, Cardinality(top[t] \cup kept))
             /\ top' = [top EXCEPT ![t] = best]
  BY DEF Expand
<1>5. PICK best \in SUBSET (top[t] \cup kept) :
        /\ Cardinality(best) = Smaller(EfConstruction, Cardinality(top[t] \cup kept))
        /\ top' = [top EXCEPT ![t] = best]
  BY <1>4
<1>6. \A n \in new : n \in Ids /\ begun[n][layer[t]] > 0
  BY <1>1, <1>3 DEF Lists, TypeOK
<1>7. best # {}
  <2>1. IsFiniteSet(top[t] \cup kept)
    <3>1. top[t] \cup kept \subseteq Ids  BY <1>3, <1>6
    <3> QED  BY <3>1, IdsFinite, FS_Subset
  <2>2. Cardinality(top[t] \cup kept) \in Nat /\ Cardinality(top[t] \cup kept) # 0
    BY <1>3, <2>1, FS_CardinalityType, FS_EmptySet
  <2>3. Cardinality(best) # 0  BY <1>5, <2>2 DEF Smaller
  <2> QED  BY <2>3, FS_EmptySet
<1>8. /\ visited'[t] = visited[t] \cup new /\ frontier'[t] \subseteq frontier[t] \cup new
      /\ top'[t] = best /\ best \subseteq top[t] \cup new
  BY <1>1, <1>4, <1>5 DEF TypeOK
<1>9. \A n \in visited'[t] \cup frontier'[t] \cup top'[t] : begun[n][layer[t]] > 0
  BY <1>3, <1>6, <1>8
<1> QED  BY <1>2, <1>7, <1>8, <1>9 DEF SearchOf

\* Neighbours have earlier turns than the new element, and do not know it yet.
LEMMA SelectSearch ==
  ASSUME IInv, TypeOK', NEW t \in Threads, Select(t)
  PROVE  SearchOf(t)'
<1>1. TypeOK /\ Lists /\ Turns /\ Searches /\ BegunPhase(t)  BY DEF IInv, Phases
<1>2. pc[t] = "search" /\ pc'[t] = "connect" /\ layer' = layer /\ cur' = cur
  BY <1>1 DEF Select, TypeOK
<1>3. /\ layer[t] \in Layers /\ cur[t] \in Ids /\ top[t] \subseteq Ids /\ top[t] # {}
      /\ \A n \in top[t] : begun[n][layer[t]] > 0
  BY <1>1, <1>2 DEF Searches, TypeOK
<1>4. PICK chosen \in Chosen(top[t], M) :
        /\ links' = [links EXCEPT ![cur[t]][layer[t]] = chosen]
        /\ targets' = [targets EXCEPT ![t] = chosen]
        /\ \E closest \in chosen : obj' = [obj EXCEPT ![t] = closest]
  BY DEF Select
<1>5. chosen \subseteq top[t]
  <2>1. IsFiniteSet(top[t])  BY <1>3, IdsFinite, FS_Subset
  <2> QED  BY <2>1, ChosenFits
<1>6. targets'[t] = chosen /\ obj'[t] \in chosen  BY <1>1, <1>4 DEF TypeOK
<1>7. ~(begun[cur[t]][layer[t]] > 0)
  <2>1. layer[t] \in Nat /\ (begun[cur[t]][layer[t]] > 0 => layer[t] < layer[t])
    BY <1>1, <1>2, <1>3 DEF BegunPhase, Layers
  <2> QED  BY <2>1
<1>8. /\ begun'[cur[t]][layer[t]] = NextTurn(layer[t])
      /\ \A n \in Ids : n # cur[t] => begun'[n][layer[t]] = begun[n][layer[t]]
  BY <1>1, <1>3 DEF Select, TypeOK
<1>9. ASSUME NEW n \in chosen
      PROVE  /\ 0 < begun'[n][layer[t]] /\ begun'[n][layer[t]] < begun'[cur[t]][layer[t]]
             /\ cur[t] \notin links'[n][layer[t]]
  <2>1. n \in Ids /\ begun[n][layer[t]] > 0 /\ n # cur[t]  BY <1>3, <1>5, <1>7
  <2>2. begun'[n][layer[t]] = begun[n][layer[t]]  BY <1>8, <2>1
  <2>3. begun[n][layer[t]] < NextTurn(layer[t])  BY <1>1, <1>3, <2>1 DEF Turns
  <2>4. links'[n][layer[t]] = links[n][layer[t]]  BY <1>1, <1>4, <2>1 DEF TypeOK
  <2>5. cur[t] \notin links[n][layer[t]]  BY <1>1, <1>3, <1>7, <2>1 DEF Lists
  <2>6. begun[n][layer[t]] \in Nat  BY <1>1, <1>3, <2>1 DEF TypeOK
  <2> QED  BY <1>8, <2>1, <2>2, <2>3, <2>4, <2>5, <2>6
<1>10. begun'[obj'[t]][layer[t]] > 0
  <2>1. begun[obj'[t]][layer[t]] > 0 /\ obj'[t] \in Ids  BY <1>3, <1>5, <1>6
  <2>2. obj'[t] # cur[t]  BY <1>7, <2>1
  <2> QED  BY <1>8, <2>1, <2>2
<1> QED  BY <1>2, <1>6, <1>9, <1>10 DEF SearchOf

\* Linking back to one neighbour leaves the others alone.  The closest one was
\* not locked when it was linked, so that it is on the layer below.
LEMMA ConnectSearch ==
  ASSUME IInv, TypeOK', NEW t \in Threads, NEW node \in Ids, Connect(t, node)
  PROVE  SearchOf(t)'
<1>1. TypeOK /\ Searches  BY DEF IInv
<1>2. /\ pc[t] = "connect" /\ begun' = begun /\ obj' = obj /\ cur' = cur /\ level' = level
      /\ Free(node) /\ node \in targets[t] /\ targets' = [targets EXCEPT ![t] = @ \ {node}]
  BY DEF Connect
<1>3. /\ layer[t] \in Layers /\ obj[t] \in Ids /\ cur[t] \in Ids /\ targets[t] \subseteq Ids
      /\ targets'[t] = targets[t] \ {node}
  BY <1>1, <1>2 DEF TypeOK
<1>4. /\ begun[obj[t]][layer[t]] > 0
      /\ obj[t] \notin targets[t] => Finished(obj[t])
      /\ \A n \in targets[t] :
           /\ 0 < begun[n][layer[t]] /\ begun[n][layer[t]] < begun[cur[t]][layer[t]]
           /\ cur[t] \notin links[n][layer[t]]
  BY <1>1, <1>2 DEF Searches
<1>5. obj[t] \notin targets'[t] => Finished(obj[t])
  <2>1. CASE obj[t] = node
    <3>1. \A l \in Layers : begun[node][l] > 0 => Finished(node)
      BY <1>2, FreeIsFinished
    <3>2. Finished(node)  BY <1>3, <1>4, <2>1, <3>1
    <3> QED  BY <2>1, <3>2
  <2>2. CASE obj[t] # node  BY <1>3, <1>4, <2>2
  <2> QED  BY <2>1, <2>2
<1>6. CASE targets'[t] # {}
  <2>1. pc'[t] = "connect" /\ layer' = layer  BY <1>2, <1>6 DEF Connect
  <2>2. PICK s \in LinksWith(node, layer[t], cur[t]) : links' = [links EXCEPT ![node][layer[t]] = s]
    BY DEF Connect
  <2>3. \A n \in targets'[t] : links'[n][layer[t]] = links[n][layer[t]]
    BY <1>1, <1>3, <2>2 DEF TypeOK
  <2>4. \A n \in targets'[t] :
          /\ 0 < begun'[n][layer[t]] /\ begun'[n][layer[t]] < begun'[cur[t]][layer[t]]
          /\ cur[t] \notin links'[n][layer[t]]
    BY <1>2, <1>3, <1>4, <2>3
  <2>5. obj[t] \notin targets'[t] => Finished(obj[t])'
    BY <1>2, <1>5 DEF Finished
  <2> QED  BY <1>2, <1>4, <2>1, <2>4, <2>5 DEF SearchOf
<1>7. CASE targets'[t] = {} /\ layer[t] > 0
  <2>1. /\ layer' = [layer EXCEPT ![t] = @ - 1] /\ pc' = [pc EXCEPT ![t] = "search"]
        /\ StartSearch(t, obj[t])
    BY <1>7 DEF Connect
  <2>2. /\ layer'[t] = layer[t] - 1 /\ pc'[t] = "search" /\ layer'[t] \in Layers
        /\ visited'[t] = {obj[t]} /\ frontier'[t] = {obj[t]} /\ top'[t] = {obj[t]}
    BY <1>1, <2>1 DEF StartSearch, TypeOK
  <2>3. Finished(obj[t])  BY <1>5, <1>7
  <2>4. begun'[obj[t]][layer'[t]] > 0
    BY <1>2, <1>3, <1>4, <2>2, <2>3, LayerBelowIsReady
  <2> QED  BY <2>2, <2>4 DEF SearchOf
<1>8. CASE targets'[t] = {} /\ ~(layer[t] > 0)
  <2>1. pc'[t] = "publish"  BY <1>1, <1>8 DEF Connect, TypeOK
  <2> QED  BY <2>1 DEF SearchOf
<1> QED  BY <1>6, <1>7, <1>8

\* Every step of addPoint keeps what the searches have met.
LEMMA StepSearches ==
  ASSUME IInv, TypeOK', NEW t \in Threads, Allocate(t) \/ Step(t)
  PROVE  Searches'
<1>1. SearchOf(t)'
  <2>1. CASE Allocate(t) \/ TakeOwnLock(t) \/ TakeGlobal(t) \/ Publish(t) \/ Unlock(t)
    <3>1. TypeOK  BY DEF IInv
    <3>2. pc'[t] \in {"own", "global", "entry", "unlock", "idle"}
      BY <2>1, <3>1 DEF Allocate, TakeOwnLock, TakeGlobal, Publish, Unlock, TypeOK
    <3> QED  BY <3>2 DEF SearchOf
  <2> QED  BY <2>1, ReadEntrySearch, DescendSearch, ExpandSearch, SelectSearch, ConnectSearch DEF Step
<1>2. \A u \in Threads : SearchOf(u)'  BY <1>1, OthersSearch
<1> QED  BY <1>2 DEF Searches, SearchOf

-----------------------------------------------------------------------------
(* The inductive invariant *)

\* The invariant holds of the empty index.
LEMMA InitIInv == Init => IInv
<1> SUFFICES ASSUME Init PROVE IInv
  OBVIOUS
<1>1. TypeOK  BY InitTypeOK
<1>2. /\ count = 0 /\ enterpoint = NoEntry /\ maxlevel = -1 /\ global = NoThread
      /\ \A t \in Threads : pc[t] = "idle" /\ global # t
      /\ \A e \in Ids : owner[e] = NoThread
      /\ \A e \in Ids, l \in Layers : links[e][l] = {} /\ begun[e][l] = 0
  BY DEF Init
<1>3. Locks  BY <1>2 DEF Locks, Active, Holding, InGraph
<1>4. Entry  BY <1>2 DEF Entry, First, InGraph
<1>5. Turns
  <2>1. \A e \in Ids : ~(e < count)  BY <1>2 DEF Ids
  <2>2. \A e \in Ids, l \in Layers : ~(begun[e][l] > 0) /\ begun[e][l] < NextTurn(l)
    BY <1>2, NextTurnType
  <2> QED  BY <2>1, <2>2 DEF Turns
<1>6. Phases  BY <1>2 DEF Phases, BegunPhase, Before
<1>7. Lists
  <2>1. \A l \in Layers : IsFiniteSet({}) /\ Cardinality({}) <= MaxLinks(l)
    BY FS_EmptySet, Rooms
  <2> QED  BY <1>2, <2>1 DEF Lists
<1>8. Searches  BY <1>2 DEF Searches
<1> QED  BY <1>1, <1>3, <1>4, <1>5, <1>6, <1>7, <1>8 DEF IInv

\* The invariant depends on the variables only.
LEMMA StutterIInv == IInv /\ UNCHANGED vars => IInv'
<1> SUFFICES ASSUME IInv, UNCHANGED vars PROVE IInv'
  OBVIOUS
<1>1. UNCHANGED <<count, level, links, owner, global, enterpoint, maxlevel, pc, cur, maxcopy,
                  layer, obj, visited, frontier, top, targets, begun>>
  BY DEF vars, graphVars, lockVars, searchVars
<1>2. TypeOK'  BY <1>1 DEF IInv, TypeOK
<1>3. Locks'  BY <1>1 DEF IInv, Locks, Active
<1>4. \A e \in Ids : Finished(e)' <=> Finished(e)  BY <1>1 DEF Finished
<1>5. Entry'  BY <1>1 DEF IInv, Entry, First, Finished
<1>6. Turns'  BY <1>1 DEF IInv, Turns, NextTurn, Finished, Active
<1>7. Phases'  BY <1>1 DEF IInv, Phases, BegunPhase, TopLayer, Smaller, Finished
<1>8. Lists'  BY <1>1 DEF IInv, Lists, MaxLinks
<1>9. Searches'  BY <1>1 DEF IInv, Searches, Finished
<1> QED  BY <1>2, <1>3, <1>5, <1>6, <1>7, <1>8, <1>9 DEF IInv

\* The invariant is inductive.
LEMMA StepIInv == IInv /\ [Next]_vars => IInv'
<1> SUFFICES ASSUME IInv, [Next]_vars PROVE IInv'
  OBVIOUS
<1>1. TypeOK'  BY StepTypeOK
<1>2. ASSUME NEW t \in Threads, Allocate(t) \/ Step(t) PROVE IInv'
  <2>1. Locks'  BY <1>1, <1>2, StepLocks
  <2>2. Entry'  BY <1>1, <1>2, <2>1, StepEntry
  <2>3. Turns'  BY <1>1, <1>2, StepTurns
  <2>4. Phases'  BY <1>1, <1>2, <2>1, StepPhases
  <2>5. Lists'  BY <1>1, <1>2, StepLists
  <2>6. Searches'  BY <1>1, <1>2, StepSearches
  <2> QED  BY <1>1, <2>1, <2>2, <2>3, <2>4, <2>5, <2>6 DEF IInv
<1> QED  BY <1>2, StutterIInv DEF Next

\* The invariant holds in every state of every run of any size.
THEOREM Invariance == Spec => []IInv
BY InitIInv, StepIInv, PTL DEF Spec

-----------------------------------------------------------------------------
(* Nothing throws *)

\* A blank list has no turn yet; neighbours have one, and are on the layer.
LEMMA IInvNothingThrows == IInv => NothingThrows
<1> SUFFICES ASSUME IInv, NEW t \in Threads
             PROVE  /\ pc[t] = "search" => links[cur[t]][layer[t]] = {} /\ top[t] # {}
                    /\ pc[t] = "connect" =>
                         \A node \in targets[t] :
                           /\ node # cur[t] /\ layer[t] <= level[node]
                           /\ Cardinality(links[node][layer[t]]) <= MaxLinks(layer[t])
  BY DEF NothingThrows
<1>1. /\ TypeOK /\ Turns /\ BegunPhase(t) /\ Lists /\ Searches
      /\ layer[t] \in Layers /\ cur[t] \in Ids /\ targets[t] \subseteq Ids
  BY DEF IInv, Phases, TypeOK
<1>2. ASSUME pc[t] = "search" PROVE links[cur[t]][layer[t]] = {} /\ top[t] # {}
  <2>1. ~(begun[cur[t]][layer[t]] > 0)
    <3>1. layer[t] \in Nat /\ (begun[cur[t]][layer[t]] > 0 => layer[t] < layer[t])
      BY <1>1, <1>2 DEF BegunPhase, Layers
    <3> QED  BY <3>1
  <2>2. links[cur[t]][layer[t]] \subseteq Ids  BY <1>1 DEF TypeOK
  <2>3. \A n \in Ids : n \notin links[cur[t]][layer[t]]  BY <1>1, <2>1 DEF Lists
  <2>4. top[t] # {}  BY <1>1, <1>2 DEF Searches
  <2> QED  BY <2>2, <2>3, <2>4
<1>3. ASSUME pc[t] = "connect", NEW node \in targets[t]
      PROVE  /\ node # cur[t] /\ layer[t] <= level[node]
             /\ Cardinality(links[node][layer[t]]) <= MaxLinks(layer[t])
  <2>1. 0 < begun[node][layer[t]] /\ begun[node][layer[t]] < begun[cur[t]][layer[t]]
    BY <1>1, <1>3 DEF Searches
  <2>2. node \in Ids /\ begun[node][layer[t]] \in Nat
    BY <1>1 DEF TypeOK
  <2>3. node # cur[t] /\ begun[node][layer[t]] > 0  BY <2>1, <2>2
  <2>4. layer[t] <= level[node]  BY <1>1, <2>2, <2>3 DEF Turns
  <2>5. Cardinality(links[node][layer[t]]) <= MaxLinks(layer[t])  BY <1>1, <2>2 DEF Lists
  <2> QED  BY <2>3, <2>4, <2>5
<1> QED  BY <1>2, <1>3

\* No exception of mutuallyConnectNewElement is ever thrown, however many threads
\* insert and whatever the sizes of the index.
THEOREM NeverThrows == Spec => []NothingThrows
BY Invariance, IInvNothingThrows, PTL

-----------------------------------------------------------------------------
(* Links are appended once *)

\* AppendsOnce is part of what Searches says.
LEMMA IInvAppendsOnce == IInv => AppendsOnce
BY DEF IInv, Searches, AppendsOnce

\* A neighbour's list never holds the element that is about to be appended to it.
THEOREM AlwaysAppendsOnce == Spec => []AppendsOnce
BY Invariance, IInvAppendsOnce, PTL

-----------------------------------------------------------------------------
(* The entry point is the highest element *)

\* An inserted element is finished, and turns are given up to maxlevel_ only.
LEMMA IInvEntryIsHighest == IInv => EntryIsHighest
<1> SUFFICES ASSUME IInv, NEW e \in Ids, Inserted(e)
             PROVE  enterpoint # NoEntry /\ level[e] <= level[enterpoint] /\ level[e] <= maxlevel
  BY DEF EntryIsHighest
<1>1. TypeOK /\ Locks /\ Turns /\ Entry /\ NoThread \notin Threads  BY DEF IInv
<1>2. e < count /\ owner[e] = NoThread /\ \A t \in Threads : pc[t] = "own" => cur[t] # e
  BY DEF Inserted, Free
<1>3. Finished(e)
  <2>1. ASSUME NEW t \in Threads, Active(t), cur[t] = e PROVE FALSE
    <3>1. pc[t] \in Holding  BY <1>1, <1>2, <2>1 DEF Active, TypeOK, PcValues
    <3> QED  BY <1>1, <1>2, <2>1, <3>1 DEF Locks
  <2> QED  BY <1>1, <1>2, <2>1 DEF Turns
<1>4. level[e] \in Layers /\ level[e] \in Nat /\ level[e] <= level[e]
  BY <1>1 DEF TypeOK, Layers
<1>5. begun[e][level[e]] > 0  BY <1>3, <1>4 DEF Finished
<1>6. level[e] <= maxlevel  BY <1>1, <1>4, <1>5 DEF Turns
<1>7. ~First
  <2>1. First => begun[e][level[e]] = 0  BY <1>1, <1>4 DEF Entry
  <2> QED  BY <1>5, <2>1
<1>8. maxlevel # -1  BY <1>4, <1>6
<1>9. enterpoint # NoEntry /\ level[enterpoint] = maxlevel  BY <1>1, <1>7, <1>8 DEF Entry
<1> QED  BY <1>6, <1>9

\* When an insertion has ended its element is not above the entry point.
THEOREM EntryIsAlwaysHighest == Spec => []EntryIsHighest
BY Invariance, IInvEntryIsHighest, PTL

-----------------------------------------------------------------------------
(* No circle of waiting threads *)

\* Locks are taken from the top layer to the lowest, on one layer by those who
\* search before those who connect, and between these from a later turn to an
\* earlier one.
Rank(t) ==
  IF pc[t] = "global" THEN 2 * MaxLevel + 3
  ELSE IF pc[t] \in {"descend", "search"} THEN 2 * layer[t] + 2
  ELSE IF pc[t] = "connect" THEN 2 * layer[t] + 1
  ELSE 0

Turn(t) == begun[cur[t]][layer[t]]

\* A thread that holds an element of a layer works on that layer or below it.
LEMMA HolderIsBelow ==
  ASSUME IInv, NEW u \in Threads, NEW l \in Layers, NEW e \in Ids, owner[e] = u, begun[e][l] > 0
  PROVE  /\ cur[u] = e
         /\ \/ pc[u] \in {"publish", "unlock"}
            \/ pc[u] = "search" /\ layer[u] < l
            \/ pc[u] = "connect" /\ layer[u] <= l
<1>1. Locks /\ BegunPhase(u)  BY DEF IInv, Phases
<1>2. cur[u] = e /\ pc[u] \in Holding  BY <1>1 DEF Locks
<1>3. pc[u] \notin Before
  <2>1. pc[u] \in Before => begun[e][l] = 0  BY <1>1, <1>2 DEF BegunPhase
  <2> QED  BY <2>1
<1>4. pc[u] \in {"search", "connect", "publish", "unlock"}  BY <1>2, <1>3 DEF Holding, Before
<1>5. pc[u] = "search" => layer[u] < l  BY <1>1, <1>2 DEF BegunPhase
<1>6. pc[u] = "connect" => layer[u] <= l  BY <1>1, <1>2 DEF BegunPhase
<1> QED  BY <1>2, <1>4, <1>5, <1>6

\* A thread waits for one that is lower in this order.
LEMMA LockOrder ==
  ASSUME IInv, NEW t \in Threads, NEW u \in Threads, WaitsFor(t, u)
  PROVE  Rank(u) < Rank(t) \/ (Rank(u) = Rank(t) /\ Turn(u) < Turn(t))
<1>1. /\ TypeOK /\ Locks /\ Searches
      /\ layer[t] \in Layers /\ layer[u] \in Layers /\ obj[t] \in Ids
      /\ frontier[t] \subseteq Ids /\ targets[t] \subseteq Ids
  BY DEF IInv, TypeOK
<1>2. /\ layer[t] \in Nat /\ layer[u] \in Nat /\ layer[u] <= MaxLevel /\ layer[t] <= MaxLevel
      /\ MaxLevel \in Nat
  BY <1>1 DEF Layers
<1>3. ~(pc[t] = "own" /\ owner[cur[t]] = u)
  <2> SUFFICES ASSUME pc[t] = "own", owner[cur[t]] = u PROVE FALSE
    OBVIOUS
  <2>1. cur[t] \in Ids  BY <1>1 DEF TypeOK
  <2>2. pc[u] \in Holding /\ cur[u] = cur[t]  BY <1>1, <2>1 DEF Locks
  <2>3. t # u /\ Active(t) /\ Active(u)  BY <2>2 DEF Active, Holding
  <2> QED  BY <1>1, <2>2, <2>3 DEF Locks
<1>4. CASE pc[t] = "global" /\ global = u
  <2>1. pc[u] \in InGraph  BY <1>1, <1>4 DEF Locks
  <2>2. pc[u] # "global"  BY <2>1 DEF InGraph
  <2>3. Rank(t) = 2 * MaxLevel + 3  BY <1>4 DEF Rank
  <2>4. Rank(u) \in {2 * layer[u] + 2, 2 * layer[u] + 1, 0}  BY <2>2 DEF Rank
  <2> QED  BY <1>2, <2>3, <2>4
<1>5. ASSUME pc[t] \in {"descend", "search"}, NEW e \in Ids, owner[e] = u, begun[e][layer[t]] > 0
      PROVE  Rank(u) < Rank(t)
  <2>1. Rank(t) = 2 * layer[t] + 2  BY <1>5 DEF Rank
  <2>2. \/ pc[u] \in {"publish", "unlock"}
        \/ pc[u] = "search" /\ layer[u] < layer[t]
        \/ pc[u] = "connect" /\ layer[u] <= layer[t]
    BY <1>1, <1>5, HolderIsBelow
  <2>3. \/ Rank(u) = 0
        \/ Rank(u) = 2 * layer[u] + 2 /\ layer[u] < layer[t]
        \/ Rank(u) = 2 * layer[u] + 1 /\ layer[u] <= layer[t]
    BY <2>2 DEF Rank
  <2> QED  BY <1>2, <2>1, <2>3
<1>6. CASE pc[t] = "descend" /\ owner[obj[t]] = u
  <2>1. begun[obj[t]][layer[t]] > 0  BY <1>1, <1>6 DEF Searches
  <2> QED  BY <1>1, <1>5, <1>6, <2>1
<1>7. CASE pc[t] = "search" /\ \E node \in frontier[t] : owner[node] = u
  <2>1. PICK node \in frontier[t] : owner[node] = u  BY <1>7
  <2>2. begun[node][layer[t]] > 0 /\ node \in Ids  BY <1>1, <1>7 DEF Searches
  <2> QED  BY <1>5, <1>7, <2>1, <2>2
<1>8. CASE pc[t] = "connect" /\ \E node \in targets[t] : owner[node] = u
  <2>1. PICK node \in targets[t] : owner[node] = u  BY <1>8
  <2>2. /\ 0 < begun[node][layer[t]] /\ begun[node][layer[t]] < begun[cur[t]][layer[t]]
        /\ node \in Ids
    BY <1>1, <1>8 DEF Searches
  <2>3. begun[node][layer[t]] > 0
    <3>1. begun[node][layer[t]] \in Nat  BY <1>1, <2>2 DEF TypeOK
    <3> QED  BY <2>2, <3>1
  <2>4. Rank(t) = 2 * layer[t] + 1  BY <1>8 DEF Rank
  <2>5. /\ cur[u] = node
        /\ \/ pc[u] \in {"publish", "unlock"}
           \/ pc[u] = "search" /\ layer[u] < layer[t]
           \/ pc[u] = "connect" /\ layer[u] <= layer[t]
    BY <1>1, <2>1, <2>2, <2>3, HolderIsBelow
  <2>6. \/ Rank(u) = 0
        \/ Rank(u) = 2 * layer[u] + 2 /\ layer[u] < layer[t]
        \/ Rank(u) = 2 * layer[u] + 1 /\ layer[u] <= layer[t]
    BY <2>5 DEF Rank
  <2>7. CASE Rank(u) = 2 * layer[u] + 1 /\ layer[u] = layer[t]
    <3>1. Turn(u) < Turn(t)  BY <2>2, <2>5, <2>7 DEF Turn
    <3> QED  BY <2>4, <2>7, <3>1
  <2>8. CASE ~(Rank(u) = 2 * layer[u] + 1 /\ layer[u] = layer[t])
    BY <1>2, <2>4, <2>6, <2>8
  <2> QED  BY <2>7, <2>8
<1> QED  BY <1>3, <1>4, <1>6, <1>7, <1>8 DEF WaitsFor

\* In a group of threads the lowest in this order waits for none of them.
LEMMA IInvNoCircularWait == IInv => NoCircularWait
<1> SUFFICES ASSUME IInv, NEW group \in SUBSET Threads, group # {}
             PROVE  \E t \in group : \A u \in group : ~WaitsFor(t, u)
  BY DEF NoCircularWait
<1>1. \A t \in Threads : Rank(t) \in Nat /\ Turn(t) \in Nat
  <2> SUFFICES ASSUME NEW t \in Threads PROVE Rank(t) \in Nat /\ Turn(t) \in Nat
    OBVIOUS
  <2> TypeOK  BY DEF IInv
  <2>1. layer[t] \in Nat /\ layer[t] \in Layers /\ cur[t] \in Ids
    BY Numbers DEF TypeOK
  <2>2. Rank(t) \in Nat  BY <2>1 DEF Rank
  <2>3. Turn(t) \in Nat  BY <2>1 DEF Turn, TypeOK
  <2> QED  BY <2>2, <2>3
<1> DEFINE ranks == {Rank(t) : t \in group}
<1>2. PICK lowest \in ranks : \A r \in ranks : lowest <= r
  <2>1. ranks \subseteq Nat /\ ranks # {}  BY <1>1
  <2> HIDE DEF ranks
  <2> QED  BY <2>1, LeastNumber
<1> DEFINE same == {t \in group : Rank(t) = lowest}
           turns == {Turn(t) : t \in same}
<1>3. PICK first \in turns : \A r \in turns : first <= r
  <2>1. turns \subseteq Nat /\ turns # {}  BY <1>1
  <2> HIDE DEF turns
  <2> QED  BY <2>1, LeastNumber
<1>4. PICK t \in group : Rank(t) = lowest /\ Turn(t) = first  BY <1>3
<1>5. ASSUME NEW u \in group, WaitsFor(t, u) PROVE FALSE
  <2>1. t \in Threads /\ u \in Threads  OBVIOUS
  <2>2. Rank(u) < Rank(t) \/ (Rank(u) = Rank(t) /\ Turn(u) < Turn(t))
    BY <1>5, <2>1, LockOrder
  <2>3. Rank(t) <= Rank(u)  BY <1>2, <1>4
  <2>4. Rank(u) = Rank(t) => Turn(t) <= Turn(u)
    <3>1. ASSUME Rank(u) = lowest PROVE first <= Turn(u)  BY <1>3, <3>1
    <3> QED  BY <1>4, <3>1
  <2>5. Rank(u) \in Nat /\ Rank(t) \in Nat /\ Turn(u) \in Nat /\ Turn(t) \in Nat
    BY <1>1, <2>1
  <2> QED  BY <2>2, <2>3, <2>4, <2>5
<1> QED  BY <1>5

\* No threads, however many, ever wait for each other in a circle.
THEOREM NeverCircularWait == Spec => []NoCircularWait
BY Invariance, IInvNoCircularWait, PTL

-----------------------------------------------------------------------------
(* Everything inserted is reached *)

\* An element has joined the lowest layer when it is the first one there, or is
\* linked both ways with one that has an earlier turn.
HasParent(e) ==
  \E n \in Ids : begun[n][0] < begun[e][0] /\ n \in links[e][0] /\ e \in links[n][0]
Joined(e) == begun[e][0] > 0 /\ (begun[e][0] = 1 \/ HasParent(e))

\* An element that has begun on the lowest layer and is linked to by none yet.
Joining(t, e) == pc[t] = "connect" /\ layer[t] = 0 /\ cur[t] = e

\* Searches of the lowest layer only meet what has joined, and an insertion
\* goes down from what has joined.
JoinedSearch(t) ==
  /\ pc[t] = "search" /\ layer[t] = 0 =>
       \A n \in visited[t] \cup frontier[t] \cup top[t] : Joined(n)
  /\ pc[t] = "connect" =>
       /\ targets[t] \subseteq links[cur[t]][layer[t]]
       /\ obj[t] \notin targets[t] => Joined(obj[t])

\* One element is the first; links lead to what has joined; and what has begun
\* has joined or is about to.
OneIsFirst   == \A e, f \in Ids : begun[e][0] = 1 /\ begun[f][0] = 1 => e = f
LinksJoined  == \A e, n \in Ids : n \in links[e][0] => Joined(n)
BegunJoins   == \A e \in Ids : begun[e][0] > 0 => Joined(e) \/ \E t \in Threads : Joining(t, e)
EntryJoined  == enterpoint # NoEntry /\ ~First => Joined(enterpoint)
SearchesJoined == \A t \in Threads : JoinedSearch(t)

Joins == OneIsFirst /\ LinksJoined /\ BegunJoins /\ EntryJoined /\ SearchesJoined

\* No list of the lowest layer can be full.
Early == count <= MaxLinks(0)

ReachInv == IInv /\ (Early => Joins)

\* The lowest layer is a layer of every element.
LEMMA LowestLayer == 0 \in Layers /\ \A l \in Layers : l \in Nat
BY DEF Layers

\* A list of the lowest layer holds fewer elements than there are.
LEMMA ListsHaveRoom ==
  ASSUME IInv, Early, NEW e \in Ids, begun[e][0] > 0
  PROVE  Cardinality(links[e][0]) < MaxLinks(0)
<1>1. TypeOK /\ Turns /\ Lists  BY DEF IInv
<1>2. count \in Nat /\ MaxLinks(0) \in Nat /\ count <= MaxLinks(0)
  BY <1>1, LowestLayer, Rooms DEF TypeOK, Early
<1> DEFINE all == 0 .. count - 1
<1>3. e \in all  BY <1>1, <1>2, LowestLayer DEF Turns, Ids
<1>4. IsFiniteSet(all) /\ Cardinality(all) = count
  <2>1. count \in Nat \ {0}  BY <1>2, <1>3
  <2>2. /\ IsFiniteSet(0 .. count - 1)
        /\ Cardinality(0 .. count - 1) = IF 0 > count - 1 THEN 0 ELSE (count - 1) - 0 + 1
    BY <2>1, FS_Interval
  <2> QED  BY <2>1, <2>2
<1>5. links[e][0] \in SUBSET (all \ {e})
  <2>1. links[e][0] \subseteq Ids  BY <1>1, LowestLayer DEF TypeOK
  <2>2. \A n \in links[e][0] : n < count /\ n # e  BY <1>1, <2>1, LowestLayer DEF Lists, Turns
  <2> QED  BY <1>2, <2>1, <2>2 DEF Ids
<1>6. IsFiniteSet(all \ {e}) /\ Cardinality(all \ {e}) = count - 1
  <2> HIDE DEF all
  <2> QED  BY <1>3, <1>4, FS_RemoveElement
<1>7. Cardinality(links[e][0]) <= count - 1 /\ Cardinality(links[e][0]) \in Nat
  BY <1>5, <1>6, FS_Subset, FS_CardinalityType
<1> QED  BY <1>2, <1>7

\* The number of elements only grows.
LEMMA CountGrows ==
  ASSUME IInv, NEW t \in Threads, Allocate(t) \/ Step(t)
  PROVE  count <= count'
<1>1. count \in Nat  BY DEF IInv, TypeOK
<1>2. CASE Allocate(t)  BY <1>1, <1>2 DEF Allocate
<1>3. CASE ~Allocate(t)
  <2>1. count' = count
    <3>1. CASE Inner(t)  BY <3>1, InnerStays
    <3>2. CASE TakeOwnLock(t) \/ TakeGlobal(t) \/ Publish(t) \/ Unlock(t)
      BY <3>2 DEF TakeOwnLock, TakeGlobal, Publish, Unlock
    <3> QED  BY <1>3, <3>1, <3>2 DEF Step, Inner
  <2> QED  BY <1>1, <2>1
<1> QED  BY <1>2, <1>3

\* What is early after a step was early before it.
LEMMA EarlyBefore ==
  ASSUME IInv, TypeOK', NEW t \in Threads, Allocate(t) \/ Step(t), Early'
  PROVE  Early
<1>1. count <= count' /\ count \in Nat /\ count' \in Nat
  BY CountGrows DEF IInv, TypeOK
<1>2. MaxLinks(0) \in Nat  BY LowestLayer, Rooms
<1>3. count' <= MaxLinks(0)  BY DEF Early, MaxLinks
<1> QED  BY <1>1, <1>2, <1>3 DEF Early

\* A neighbour with room takes the new element and keeps what it has.
LEMMA ConnectAppends ==
  ASSUME IInv, Early, NEW t \in Threads, NEW node \in Ids, Connect(t, node), layer[t] = 0
  PROVE  links'[node][0] = links[node][0] \cup {cur[t]}
<1>1. TypeOK /\ Searches  BY DEF IInv
<1>2. pc[t] = "connect" /\ node \in targets[t]  BY DEF Connect
<1>3. begun[node][0] > 0  BY <1>1, <1>2 DEF Searches
<1>4. PICK list \in LinksWith(node, layer[t], cur[t]) :
        links' = [links EXCEPT ![node][layer[t]] = list]
  BY DEF Connect
<1>5. list = links[node][0] \cup {cur[t]}
  BY <1>3, <1>4, ListsHaveRoom DEF LinksWith
<1> QED  BY <1>1, <1>4, <1>5, LowestLayer DEF TypeOK

\* As long as lists have room they only grow.
LEMMA LinksGrow ==
  ASSUME IInv, Early, NEW t \in Threads, Allocate(t) \/ Step(t), NEW e \in Ids
  PROVE  links[e][0] \subseteq links'[e][0]
<1>1. TypeOK /\ Lists /\ BegunPhase(t)  BY DEF IInv, Phases
<1>2. cur[t] \in Ids /\ layer[t] \in Layers  BY <1>1 DEF TypeOK
<1>3. begun[e][0] = 0 => links[e][0] = {}
  <2>1. links[e][0] \subseteq Ids  BY <1>1, LowestLayer DEF TypeOK
  <2>2. \A n \in links[e][0] : begun[e][0] > 0  BY <1>1, <2>1, LowestLayer DEF Lists
  <2> QED  BY <2>2
<1>4. CASE ReadEntry(t) /\ e = cur[t]
  <2>1. begun[e][0] = 0  BY <1>1, <1>4, LowestLayer DEF ReadEntry, BegunPhase, Before
  <2> QED  BY <1>3, <2>1
<1>5. CASE Select(t) /\ e = cur[t] /\ 0 = layer[t]
  <2>1. pc[t] = "search"  BY <1>5 DEF Select
  <2>2. begun[e][0] > 0 => 0 < 0
    BY <1>1, <1>5, <2>1, LowestLayer DEF BegunPhase, Before
  <2>3. begun[e][0] \in Nat  BY <1>1, LowestLayer DEF TypeOK
  <2>4. begun[e][0] = 0  BY <2>2, <2>3
  <2> QED  BY <1>3, <2>4
<1>6. ASSUME NEW node \in Ids, Connect(t, node), e = node, 0 = layer[t]
      PROVE  links[e][0] \subseteq links'[e][0]
  BY <1>6, ConnectAppends
<1> QED  BY <1>4, <1>5, <1>6, LowestLayer, ListsStay

\* So what has joined stays joined.
LEMMA JoinedStays ==
  ASSUME IInv, Early, NEW t \in Threads, Allocate(t) \/ Step(t), NEW e \in Ids, Joined(e)
  PROVE  Joined(e)'
<1>1. TypeOK /\ Lists  BY DEF IInv
<1>2. begun'[e][0] = begun[e][0] /\ begun[e][0] > 0
  BY LowestLayer, BegunStays DEF Joined
<1>3. CASE begun[e][0] = 1  BY <1>2, <1>3 DEF Joined
<1>4. CASE HasParent(e)
  <2>1. PICK n \in Ids : begun[n][0] < begun[e][0] /\ n \in links[e][0] /\ e \in links[n][0]
    BY <1>4 DEF HasParent
  <2>2. begun'[n][0] = begun[n][0]
    <3>1. begun[n][0] > 0  BY <1>1, <2>1, LowestLayer DEF Lists
    <3> QED  BY <3>1, LowestLayer, BegunStays
  <2>3. n \in links'[e][0] /\ e \in links'[n][0]  BY <2>1, LinksGrow
  <2>4. HasParent(e)'  BY <1>2, <2>1, <2>2, <2>3 DEF HasParent
  <2> QED  BY <1>2, <2>4 DEF Joined
<1> QED  BY <1>3, <1>4 DEF Joined

\* What no thread holds and has begun has joined.
LEMMA FreeIsJoined ==
  ASSUME IInv, Joins, NEW e \in Ids, Free(e), NEW l \in Layers, begun[e][l] > 0
  PROVE  Joined(e)
<1>1. TypeOK /\ Locks  BY DEF IInv
<1>2. begun[e][0] > 0
  <2>1. Finished(e)  BY FreeIsFinished
  <2>2. 0 <= level[e]  BY <1>1 DEF TypeOK, Layers
  <2> QED  BY <2>1, <2>2, LowestLayer DEF Finished
<1>3. \A t \in Threads : ~Joining(t, e)
  BY <1>1 DEF Joining, Locks, Holding, Free
<1> QED  BY <1>2, <1>3 DEF Joins, BegunJoins

\* The first neighbour that links back makes the new element join.
LEMMA ConnectJoins ==
  ASSUME IInv, Early, Joins, NEW t \in Threads, NEW node \in Ids, Connect(t, node), layer[t] = 0
  PROVE  Joined(cur[t])'
<1>1. TypeOK /\ Searches  BY DEF IInv
<1>2. pc[t] = "connect" /\ node \in targets[t] /\ begun' = begun /\ cur' = cur
  BY DEF Connect
<1>3. cur[t] \in Ids /\ cur[t] \in links'[node][0]
  BY <1>1, ConnectAppends DEF TypeOK
<1>4. node \in links'[cur[t]][0]
  <2>1. node \in links[cur[t]][0]
    BY <1>2 DEF Joins, SearchesJoined, JoinedSearch
  <2>2. Allocate(t) \/ Step(t)  BY DEF Step
  <2> QED  BY <1>3, <2>1, <2>2, LinksGrow
<1>5. 0 < begun[node][0] /\ begun[node][0] < begun[cur[t]][0]
  BY <1>1, <1>2 DEF Searches
<1>6. begun[node][0] \in Nat /\ begun[cur[t]][0] \in Nat
  BY <1>1, <1>3, LowestLayer DEF TypeOK
<1>7. begun[cur[t]][0] > 0  BY <1>5, <1>6
<1>8. \E n \in Ids : begun'[n][0] < begun'[cur'[t]][0] /\ n \in links'[cur'[t]][0] /\ cur'[t] \in links'[n][0]
  BY <1>2, <1>3, <1>4, <1>5
<1> QED  BY <1>2, <1>7, <1>8 DEF Joined, HasParent

\* Turns on the lowest layer differ from the first one.
LEMMA StepOneIsFirst ==
  ASSUME IInv, OneIsFirst, NEW t \in Threads, Allocate(t) \/ Step(t)
  PROVE  OneIsFirst'
<1>1. TypeOK /\ Turns  BY DEF IInv
<1>2. SUFFICES ASSUME NEW e \in Ids, NEW f \in Ids, begun'[e][0] = 1, begun'[f][0] = 1, e # f
               PROVE  FALSE
  BY DEF OneIsFirst
<1>3. \A g \in Ids : begun[g][0] \in Nat /\ begun[g][0] < NextTurn(0)
  BY <1>1, LowestLayer DEF TypeOK, Turns
<1>4. \A g \in Ids : \/ begun'[g][0] = begun[g][0]
                     \/ g = cur[t] /\ begun'[g][0] = NextTurn(0)
  BY LowestLayer, TurnsStay
<1>5. CASE begun'[e][0] = begun[e][0] /\ begun'[f][0] = begun[f][0]
  BY <1>2, <1>5 DEF OneIsFirst
<1>6. CASE NextTurn(0) = 1
  <2>1. \A g \in Ids : begun[g][0] = 0  BY <1>3, <1>6
  <2>2. e = cur[t] /\ f = cur[t]  BY <1>2, <1>4, <2>1
  <2> QED  BY <1>2, <2>2
<1>7. CASE NextTurn(0) # 1
  BY <1>2, <1>4, <1>5, <1>7
<1> QED  BY <1>6, <1>7

\* The new element is linked to what its search has met, and is appended where
\* it is linked to.
LEMMA StepLinksJoined ==
  ASSUME IInv, Early, Joins, TypeOK', NEW t \in Threads, Allocate(t) \/ Step(t)
  PROVE  LinksJoined'
<1>1. TypeOK /\ cur[t] \in Ids /\ layer[t] \in Layers  BY DEF IInv, TypeOK
<1>2. SUFFICES ASSUME NEW e \in Ids, NEW n \in Ids, n \in links'[e][0]
               PROVE  Joined(n)'
  BY DEF LinksJoined
<1>3. Joined(n) => Joined(n)'  BY JoinedStays
<1>4. CASE n \in links[e][0]
  BY <1>3, <1>4 DEF Joins, LinksJoined
<1>5. CASE ReadEntry(t) /\ e = cur[t]
  <2>1. links' = [links EXCEPT ![cur[t]] = [k \in Layers |-> {}]]  BY <1>5 DEF ReadEntry
  <2>2. links'[e][0] = {}  BY <1>1, <1>5, <2>1, LowestLayer DEF TypeOK
  <2> QED  BY <1>2, <2>2
<1>6. CASE Select(t) /\ e = cur[t] /\ 0 = layer[t]
  <2>1. PICK s \in Chosen(top[t], M) : links' = [links EXCEPT ![cur[t]][layer[t]] = s]
    BY <1>6 DEF Select
  <2>2. links'[e][0] = s  BY <1>1, <1>6, <2>1 DEF TypeOK
  <2>3. top[t] \subseteq Ids /\ IsFiniteSet(top[t])  BY <1>1, IdsFinite, FS_Subset DEF TypeOK
  <2>4. n \in top[t]  BY <1>2, <2>2, <2>3, ChosenFits
  <2>5. pc[t] = "search"  BY <1>6 DEF Select
  <2>6. Joined(n)  BY <1>6, <2>4, <2>5 DEF Joins, SearchesJoined, JoinedSearch
  <2> QED  BY <1>3, <2>6
<1>7. ASSUME NEW node \in Ids, Connect(t, node), e = node, 0 = layer[t]
      PROVE  Joined(n)'
  <2>1. links'[e][0] = links[e][0] \cup {cur[t]}  BY <1>7, ConnectAppends
  <2>2. CASE n = cur[t]
    <3>1. cur'[t] = cur[t]  BY <1>7 DEF Connect
    <3>2. Joined(cur[t])'  BY <1>7, ConnectJoins
    <3> QED  BY <2>2, <3>1, <3>2 DEF Joined, HasParent
  <2> QED  BY <1>2, <1>4, <2>1, <2>2
<1> QED  BY <1>2, <1>4, <1>5, <1>6, <1>7, LowestLayer, ListsStay

\* What begins on the lowest layer is the first element there, or about to be
\* linked back.
LEMMA StepBegunJoins ==
  ASSUME IInv, Early, Joins, TypeOK', NEW t \in Threads, Allocate(t) \/ Step(t)
  PROVE  BegunJoins'
<1>1. TypeOK /\ Locks /\ Entry /\ BegunPhase(t)  BY DEF IInv, Phases
<1>2. SUFFICES ASSUME NEW e \in Ids, begun'[e][0] > 0
               PROVE  Joined(e)' \/ \E u \in Threads : Joining(u, e)'
  BY DEF BegunJoins
<1>3. CASE begun'[e][0] = begun[e][0]
  <2>1. Joined(e) \/ \E u \in Threads : Joining(u, e)
    BY <1>2, <1>3 DEF Joins, BegunJoins
  <2>2. CASE Joined(e)  BY <2>2, JoinedStays
  <2>3. ASSUME NEW u \in Threads, Joining(u, e), u # t PROVE Joining(u, e)'
    BY <2>3, OthersKeepTheirLocals DEF Joining
  <2>4. CASE Joining(t, e)
    <3>1. pc[t] = "connect" /\ layer[t] = 0 /\ cur[t] = e  BY <2>4 DEF Joining
    <3>2. PICK node \in Ids : Connect(t, node)
      BY <3>1 DEF Step, Allocate, TakeOwnLock, TakeGlobal, ReadEntry, DescendLayer, Select,
                  DescendTo, Expand, Publish, Unlock
    <3>3. Joined(cur[t])' /\ cur'[t] = cur[t]  BY <3>1, <3>2, ConnectJoins DEF Connect
    <3> QED  BY <3>1, <3>3 DEF Joined, HasParent
  <2> QED  BY <2>1, <2>2, <2>3, <2>4
<1>4. CASE Select(t) /\ e = cur[t] /\ 0 = layer[t]
  <2>1. pc'[t] = "connect" /\ layer'[t] = 0 /\ cur'[t] = e
    BY <1>1, <1>4 DEF Select, TypeOK
  <2> QED  BY <2>1 DEF Joining
<1>5. CASE Publish(t) /\ e = cur[t] /\ begun[e][0] = 0 /\ begun'[e][0] = NextTurn(0)
  <2>1. pc[t] = "publish" /\ pc[t] \in InGraph  BY <1>5 DEF Publish, InGraph
  <2>2. ~(0 <= TopLayer(t))
    BY <1>1, <1>5, <2>1, LowestLayer DEF BegunPhase, Before
  <2>3. maxcopy[t] = -1 /\ level[cur[t]] > maxcopy[t]
    <3>1. level[cur[t]] \in Nat /\ maxcopy[t] \in Int /\ maxcopy[t] >= -1
      BY <1>1, Numbers
    <3> QED  BY <2>2, <3>1 DEF TopLayer, Smaller
  <2>4. First  BY <1>1, <2>1, <2>3 DEF Locks, First
  <2>5. \A g \in Ids : ~(begun[g][0] > 0)  BY <1>1, <2>4, LowestLayer DEF Entry
  <2>6. {g \in Ids : begun[g][0] > 0} = {}  BY <2>5
  <2>7. NextTurn(0) = 1
    <3>1. Cardinality({g \in Ids : begun[g][0] > 0}) = 0  BY <2>6, FS_EmptySet
    <3> QED  BY <3>1 DEF NextTurn
  <2>8. begun'[e][0] = 1  BY <1>5, <2>7
  <2> QED  BY <2>8 DEF Joined
<1> QED  BY <1>3, <1>4, <1>5, LowestLayer, TurnsStay

\* The element that becomes the entry point has joined.
LEMMA StepEntryJoined ==
  ASSUME IInv, Early, Joins, TypeOK', Locks', BegunJoins', NEW t \in Threads, Allocate(t) \/ Step(t)
  PROVE  EntryJoined'
<1>1. TypeOK /\ Locks /\ Entry  BY DEF IInv
<1>2. ASSUME enterpoint' = enterpoint, enterpoint # NoEntry, ~First
      PROVE  Joined(enterpoint)'
  <2>1. enterpoint \in Ids  BY <1>1, <1>2 DEF TypeOK
  <2>2. PICK e \in Ids : e = enterpoint  BY <2>1
  <2>3. Joined(e)  BY <1>2, <2>2 DEF Joins, EntryJoined, Joined, HasParent
  <2>4. Joined(e)'  BY <2>3, JoinedStays
  <2> QED  BY <1>2, <2>2, <2>4 DEF Joined, HasParent
<1>3. CASE Quiet(t)
  <2>1. enterpoint' = enterpoint  BY <1>3, QuietStays
  <2>2. First' <=> First  BY <1>3, QuietFirst
  <2> QED  BY <1>2, <2>1, <2>2 DEF EntryJoined
<1>4. CASE ReadEntry(t)
  <2>1. pc[t] = "entry"  BY <1>4 DEF ReadEntry
  <2>2. ~First  BY <2>1, FirstIsAlone
  <2>3. CASE enterpoint # NoEntry
    <3>1. enterpoint' = enterpoint  BY <1>4, <2>3 DEF ReadEntry
    <3> QED  BY <1>2, <2>2, <2>3, <3>1 DEF EntryJoined
  <2>4. CASE enterpoint = NoEntry
    <3>1. global = t  BY <1>1, <2>1, <2>4 DEF Entry
    <3>2. maxcopy[t] = maxlevel /\ maxlevel = -1  BY <1>1, <2>1, <2>4, <3>1 DEF Entry
    <3>3. pc'[t] = "publish" /\ global' = t /\ maxcopy'[t] = -1
      BY <1>1, <1>4, <2>4, <3>1, <3>2 DEF ReadEntry, lockVars, TypeOK
    <3>4. First'  BY <3>3 DEF First
    <3> QED  BY <3>4 DEF EntryJoined
  <2> QED  BY <2>3, <2>4
<1>5. CASE Publish(t)
  <2>1. /\ pc[t] = "publish" /\ pc'[t] = "unlock" /\ cur' = cur /\ pc[t] \in InGraph
    BY <1>1, <1>5 DEF Publish, TypeOK, InGraph
  <2>2. level[cur[t]] > maxcopy[t] <=> global = t  BY <1>1, <2>1 DEF Locks
  <2>3. CASE global = t
    <3>1. enterpoint' = cur[t] /\ cur[t] \in Ids  BY <1>1, <1>5, <2>2, <2>3 DEF Publish, TypeOK
    <3>2. begun'[cur[t]][0] > 0
      <4>1. begun'[cur[t]][0] = IF 0 <= level[cur[t]] /\ begun[cur[t]][0] = 0
                                THEN NextTurn(0) ELSE begun[cur[t]][0]
        BY <1>1, <1>5, <3>1, LowestLayer DEF Publish, TypeOK
      <4>2. begun[cur[t]][0] \in Nat /\ level[cur[t]] \in Nat
        BY <1>1, <3>1, LowestLayer DEF TypeOK
      <4> QED  BY <4>1, <4>2, LowestLayer, NextTurnType
    <3>3. PICK e \in Ids : e = cur[t]  BY <3>1
    <3>4. Joined(e)' \/ \E u \in Threads : Joining(u, e)'
      BY <3>2, <3>3 DEF BegunJoins
    <3>5. ASSUME NEW u \in Threads, Joining(u, e)' PROVE FALSE
      <4>1. pc'[u] = "connect" /\ cur'[u] = e  BY <3>5 DEF Joining
      <4>2. u # t  BY <2>1, <4>1
      <4>3. pc[u] = "connect" /\ cur[u] = cur[t]
        BY <3>3, <4>1, <4>2, OthersKeepTheirLocals
      <4> QED  BY <1>1, <2>1, <4>2, <4>3 DEF Locks, Active
    <3> QED  BY <3>1, <3>3, <3>4, <3>5 DEF EntryJoined, Joined, HasParent
  <2>4. CASE global # t
    <3>1. enterpoint' = enterpoint  BY <1>5, <2>2, <2>4 DEF Publish
    <3>2. ~First  BY <2>1, <2>4, FirstIsAlone
    <3> QED  BY <1>2, <3>1, <3>2 DEF EntryJoined
  <2> QED  BY <2>3, <2>4
<1> QED  BY <1>3, <1>4, <1>5 DEF Quiet

\* A thread keeps what its search has met while others move.
LEMMA OthersJoinedSearch ==
  ASSUME IInv, Early, Joins, NEW t \in Threads, Allocate(t) \/ Step(t), NEW u \in Threads, u # t
  PROVE  JoinedSearch(u)'
<1>1. TypeOK /\ Locks /\ JoinedSearch(u)  BY DEF IInv, Joins, SearchesJoined
<1>2. /\ pc'[u] = pc[u] /\ cur'[u] = cur[u] /\ layer'[u] = layer[u] /\ obj'[u] = obj[u]
      /\ visited'[u] = visited[u] /\ frontier'[u] = frontier[u] /\ top'[u] = top[u]
      /\ targets'[u] = targets[u]
  BY OthersKeepTheirLocals
<1>3. /\ layer[u] \in Layers /\ obj[u] \in Ids /\ cur[u] \in Ids
      /\ visited[u] \subseteq Ids /\ frontier[u] \subseteq Ids /\ top[u] \subseteq Ids
  BY <1>1 DEF TypeOK
<1>4. \A n \in Ids : Joined(n) => Joined(n)'  BY JoinedStays
<1>5. CASE pc[u] = "search" /\ layer[u] = 0
  <2>1. \A n \in visited[u] \cup frontier[u] \cup top[u] : Joined(n)
    BY <1>1, <1>5 DEF JoinedSearch
  <2>2. \A n \in visited'[u] \cup frontier'[u] \cup top'[u] : Joined(n)'
    BY <1>2, <1>3, <1>4, <2>1
  <2> QED  BY <1>2, <1>5, <2>2 DEF JoinedSearch
<1>6. CASE pc[u] = "connect"
  <2>1. links'[cur[u]][layer[u]] = links[cur[u]][layer[u]]
    <3>1. owner[cur[u]] = u  BY <1>1, <1>6 DEF Locks, Holding
    <3>2. ASSUME ReadEntry(t) \/ Select(t) PROVE cur[u] # cur[t]
      <4>1. Active(u) /\ Active(t)  BY <1>6, <3>2 DEF Active, ReadEntry, Select
      <4> QED  BY <1>1, <4>1 DEF Locks
    <3>3. ASSUME NEW node \in Ids, Connect(t, node) PROVE cur[u] # node
      BY <3>1, <3>3 DEF Connect, Free
    <3> QED  BY <1>3, <3>2, <3>3, ListsStay
  <2>2. targets'[u] \subseteq links'[cur'[u]][layer'[u]]
    BY <1>1, <1>2, <1>6, <2>1 DEF JoinedSearch
  <2>3. obj'[u] \notin targets'[u] => Joined(obj[u])'
    <3>1. PICK e \in Ids : e = obj[u]  BY <1>3
    <3>2. obj[u] \notin targets[u] => Joined(e)
      BY <1>1, <1>6, <3>1 DEF JoinedSearch, Joined, HasParent
    <3> QED  BY <1>2, <1>4, <3>1, <3>2 DEF Joined, HasParent
  <2> QED  BY <1>2, <1>6, <2>2, <2>3 DEF JoinedSearch, Joined, HasParent
<1>7. CASE ~(pc[u] = "search" /\ layer[u] = 0) /\ pc[u] # "connect"
  BY <1>2, <1>7 DEF JoinedSearch
<1> QED  BY <1>5, <1>6, <1>7

\* A search of the lowest layer that starts from one joined node.
LEMMA StartJoined ==
  ASSUME NEW t \in Threads, NEW node \in Ids, Joined(node)', TypeOK,
         StartSearch(t, node), pc'[t] # "connect"
  PROVE  JoinedSearch(t)'
<1>1. visited'[t] = {node} /\ frontier'[t] = {node} /\ top'[t] = {node}
  BY DEF StartSearch, TypeOK
<1>2. ASSUME NEW n \in visited'[t] \cup frontier'[t] \cup top'[t] PROVE Joined(n)'
  <2>1. n = node  BY <1>1, <1>2
  <2> QED  BY <2>1 DEF Joined, HasParent
<1> QED  BY <1>2 DEF JoinedSearch, Joined, HasParent

\* A thread neither searches nor connects.
LEMMA ElsewhereJoined ==
  ASSUME NEW t \in Threads, pc'[t] \notin {"search", "connect"}
  PROVE  JoinedSearch(t)'
BY DEF JoinedSearch

\* A thread searches from the entry point, or from where its descent has led.
LEMMA DescentJoined ==
  ASSUME IInv, Early, Joins, TypeOK', NEW t \in Threads, ReadEntry(t) \/ DescendLayer(t)
  PROVE  JoinedSearch(t)'
<1>1. TypeOK /\ Entry /\ Searches  BY DEF IInv
<1>2. Allocate(t) \/ Step(t)  BY DEF Step
<1>3. CASE ReadEntry(t) /\ enterpoint = NoEntry
  <2>1. pc'[t] = "publish"  BY <1>1, <1>3 DEF ReadEntry, TypeOK
  <2> QED  BY <2>1, ElsewhereJoined
<1>4. CASE ReadEntry(t) /\ enterpoint # NoEntry
  <2>1. pc[t] = "entry" /\ StartSearch(t, enterpoint) /\ pc'[t] # "connect"
    BY <1>1, <1>4 DEF ReadEntry, TypeOK
  <2>2. ~First  BY <2>1, FirstIsAlone
  <2>3. PICK e \in Ids : e = enterpoint  BY <1>1, <1>4 DEF TypeOK
  <2>4. Joined(e)  BY <1>4, <2>2, <2>3 DEF Joins, EntryJoined, Joined, HasParent
  <2>5. Joined(e)'  BY <1>2, <2>4, JoinedStays
  <2>6. StartSearch(t, e)  BY <2>1, <2>3 DEF StartSearch
  <2> QED  BY <1>1, <2>1, <2>5, <2>6, StartJoined
<1>5. CASE DescendLayer(t)
  <2>1. pc[t] = "descend" /\ Free(obj[t])  BY <1>5 DEF DescendLayer
  <2>2. CASE layer'[t] = level[cur[t]]
    <3>1. pc'[t] = "search" /\ StartSearch(t, obj[t])
      BY <1>1, <1>5, <2>2 DEF DescendLayer, TypeOK
    <3>2. PICK e \in Ids : e = obj[t]  BY <1>1 DEF TypeOK
    <3>3. PICK l \in Layers : l = layer[t]  BY <1>1 DEF TypeOK
    <3>4. Free(e) /\ begun[e][l] > 0
      BY <1>1, <2>1, <3>2, <3>3 DEF Searches, Free
    <3>5. Joined(e)'  BY <1>2, <3>4, FreeIsJoined, JoinedStays
    <3>6. StartSearch(t, e)  BY <3>1, <3>2 DEF StartSearch
    <3> QED  BY <1>1, <3>1, <3>5, <3>6, StartJoined
  <2>3. CASE layer'[t] # level[cur[t]]
    <3>1. pc'[t] = "descend"  BY <1>5, <2>1, <2>3 DEF DescendLayer
    <3> QED  BY <3>1, ElsewhereJoined
  <2> QED  BY <2>2, <2>3
<1> QED  BY <1>3, <1>4, <1>5

\* A search goes on along links.
LEMMA ExpandJoined ==
  ASSUME IInv, Early, Joins, TypeOK', NEW t \in Threads, NEW node \in Ids, Expand(t, node)
  PROVE  JoinedSearch(t)'
<1>1. TypeOK  BY DEF IInv
<1>2. Allocate(t) \/ Step(t)  BY DEF Step
<1>3. /\ pc[t] = "search" /\ pc' = pc /\ layer' = layer  BY DEF Expand
<1> DEFINE new == links[node][layer[t]] \ visited[t]
<1>4. PICK kept \in SUBSET new :
        /\ visited'  = [visited  EXCEPT ![t] = @ \cup new]
        /\ frontier' = [frontier EXCEPT ![t] = (@ \ {node}) \cup kept]
        /\ \E best \in SUBSET (top[t] \cup kept) :
             /\ Cardinality(best) = Smaller(EfConstruction, Cardinality(top[t] \cup kept))
             /\ top' = [top EXCEPT ![t] = best]
  BY DEF Expand
<1>5. visited'[t] \cup frontier'[t] \cup top'[t] \subseteq visited[t] \cup frontier[t] \cup top[t] \cup new
  BY <1>1, <1>4 DEF TypeOK
<1>6. ASSUME layer[t] = 0, NEW n \in visited'[t] \cup frontier'[t] \cup top'[t]
      PROVE  Joined(n)'
  <2>1. n \in Ids
    BY <1>6, TypeOK' DEF TypeOK
  <2>2. CASE n \in visited[t] \cup frontier[t] \cup top[t]
    <3>1. Joined(n)  BY <1>3, <1>6, <2>2 DEF Joins, SearchesJoined, JoinedSearch
    <3> QED  BY <1>2, <2>1, <3>1, JoinedStays
  <2>3. CASE n \in new
    <3>1. n \in links[node][0]  BY <1>6, <2>3
    <3>2. Joined(n)  BY <2>1, <3>1 DEF Joins, LinksJoined
    <3> QED  BY <1>2, <2>1, <3>2, JoinedStays
  <2> QED  BY <1>5, <1>6, <2>2, <2>3
<1>7. pc'[t] = "search" /\ layer'[t] = layer[t]  BY <1>3
<1> QED  BY <1>6, <1>7 DEF JoinedSearch, Joined, HasParent

\* The neighbours chosen are the list of the new element.
LEMMA SelectJoined ==
  ASSUME IInv, TypeOK', NEW t \in Threads, Select(t)
  PROVE  JoinedSearch(t)'
<1>1. TypeOK  BY DEF IInv
<1>2. PICK chosen \in Chosen(top[t], M) :
        /\ links' = [links EXCEPT ![cur[t]][layer[t]] = chosen]
        /\ targets' = [targets EXCEPT ![t] = chosen]
        /\ \E closest \in chosen : obj' = [obj EXCEPT ![t] = closest]
  BY DEF Select
<1>3. /\ pc'[t] = "connect" /\ cur'[t] = cur[t] /\ layer'[t] = layer[t]
      /\ targets'[t] = chosen /\ obj'[t] \in chosen /\ links'[cur[t]][layer[t]] = chosen
  BY <1>1, <1>2 DEF Select, TypeOK
<1> QED  BY <1>3 DEF JoinedSearch

\* The closest neighbour has joined once the new element is linked back from it.
LEMMA ConnectJoined ==
  ASSUME IInv, Early, Joins, TypeOK', NEW t \in Threads, NEW node \in Ids, Connect(t, node)
  PROVE  JoinedSearch(t)'
<1>1. TypeOK /\ Searches /\ JoinedSearch(t)  BY DEF IInv, Joins, SearchesJoined
<1>2. Allocate(t) \/ Step(t)  BY DEF Step
<1>3. /\ pc[t] = "connect" /\ node \in targets[t] /\ Free(node)
      /\ obj' = obj /\ cur' = cur /\ targets'[t] = targets[t] \ {node}
  BY <1>1 DEF Connect, TypeOK
<1>4. PICK e \in Ids : e = obj[t]  BY <1>1 DEF TypeOK
<1>5. ASSUME e \notin targets'[t] PROVE Joined(e)'
  <2>1. CASE e = node
    <3>1. PICK l \in Layers : l = layer[t]  BY <1>1 DEF TypeOK
    <3>2. begun[e][l] > 0  BY <1>1, <1>3, <1>4, <3>1 DEF Searches
    <3>3. Joined(e)  BY <1>3, <2>1, <3>2, FreeIsJoined
    <3> QED  BY <1>2, <3>3, JoinedStays
  <2>2. CASE e # node
    <3>1. e \notin targets[t]  BY <1>3, <1>5, <2>2
    <3>2. Joined(e)  BY <1>1, <1>3, <1>4, <3>1 DEF JoinedSearch, Joined, HasParent
    <3> QED  BY <1>2, <3>2, JoinedStays
  <2> QED  BY <2>1, <2>2
<1>6. CASE targets'[t] # {}
  <2>1. pc'[t] = "connect" /\ layer'[t] = layer[t]  BY <1>3, <1>6 DEF Connect
  <2>2. node # cur[t]
    <3>1. begun[node][layer[t]] < begun[cur[t]][layer[t]]  BY <1>1, <1>3 DEF Searches
    <3>2. begun[cur[t]][layer[t]] \in Nat  BY <1>1 DEF TypeOK
    <3> QED  BY <3>1, <3>2
  <2>3. links'[cur[t]][layer[t]] = links[cur[t]][layer[t]]
    <3>1. PICK list \in LinksWith(node, layer[t], cur[t]) :
            links' = [links EXCEPT ![node][layer[t]] = list]
      BY DEF Connect
    <3> QED  BY <1>1, <2>2, <3>1 DEF TypeOK
  <2>4. targets'[t] \subseteq links'[cur'[t]][layer'[t]]
    BY <1>1, <1>3, <2>1, <2>3 DEF JoinedSearch
  <2>5. obj'[t] \notin targets'[t] => Joined(obj[t])'
    BY <1>3, <1>4, <1>5 DEF Joined, HasParent
  <2> QED  BY <2>1, <2>4, <2>5 DEF JoinedSearch, Joined, HasParent
<1>7. CASE targets'[t] = {} /\ layer[t] > 0
  <2>1. StartSearch(t, obj[t]) /\ pc'[t] = "search"  BY <1>1, <1>7 DEF Connect, TypeOK
  <2>2. StartSearch(t, e)  BY <1>4, <2>1 DEF StartSearch
  <2> QED  BY <1>1, <1>5, <1>7, <2>1, <2>2, StartJoined
<1>8. CASE targets'[t] = {} /\ ~(layer[t] > 0)
  <2>1. pc'[t] = "publish"  BY <1>1, <1>8 DEF Connect, TypeOK
  <2> QED  BY <2>1, ElsewhereJoined
<1> QED  BY <1>6, <1>7, <1>8

\* Every step of addPoint keeps searches among what has joined.
LEMMA StepSearchesJoined ==
  ASSUME IInv, Early, Joins, TypeOK', NEW t \in Threads, Allocate(t) \/ Step(t)
  PROVE  SearchesJoined'
<1>1. TypeOK  BY DEF IInv
<1>2. JoinedSearch(t)'
  <2>1. CASE \/ Allocate(t) \/ TakeOwnLock(t) \/ TakeGlobal(t) \/ Publish(t) \/ Unlock(t)
             \/ \E node \in Ids : DescendTo(t, node)
    <3>1. pc'[t] \in {"own", "global", "entry", "unlock", "idle", "descend"}
      BY <1>1, <2>1 DEF Allocate, TakeOwnLock, TakeGlobal, Publish, Unlock, DescendTo, TypeOK
    <3> QED  BY <3>1, ElsewhereJoined
  <2> QED  BY <2>1, DescentJoined, ExpandJoined, SelectJoined, ConnectJoined DEF Step
<1>3. \A u \in Threads : JoinedSearch(u)'  BY <1>2, OthersJoinedSearch
<1> QED  BY <1>3 DEF SearchesJoined

\* Nothing is in the empty index.
LEMMA InitReachInv == Init => ReachInv
<1> SUFFICES ASSUME Init PROVE ReachInv
  OBVIOUS
<1>1. /\ enterpoint = NoEntry /\ \A t \in Threads : pc[t] = "idle"
      /\ \A e \in Ids : links[e][0] = {} /\ begun[e][0] = 0
  BY LowestLayer DEF Init
<1>2. Joins
  BY <1>1 DEF Joins, OneIsFirst, LinksJoined, BegunJoins, EntryJoined, SearchesJoined, JoinedSearch
<1> QED  BY <1>2, InitIInv DEF ReachInv

\* The invariant depends on the variables only.
LEMMA StutterReachInv == ReachInv /\ UNCHANGED vars => ReachInv'
<1> SUFFICES ASSUME ReachInv, UNCHANGED vars PROVE ReachInv'
  OBVIOUS
<1>1. UNCHANGED <<count, level, links, owner, global, enterpoint, maxlevel, pc, cur, maxcopy,
                  layer, obj, visited, frontier, top, targets, begun>>
  BY DEF vars, graphVars, lockVars, searchVars
<1>2. IInv'  BY StutterIInv DEF ReachInv
<1>3. Early' <=> Early  BY <1>1 DEF Early, MaxLinks
<1>4. Joins' <=> Joins
  BY <1>1 DEF Joins, OneIsFirst, LinksJoined, BegunJoins, EntryJoined, SearchesJoined, JoinedSearch,
              Joined, HasParent, Joining, First
<1> QED  BY <1>2, <1>3, <1>4 DEF ReachInv

\* The invariant is inductive.
LEMMA StepReachInv == ReachInv /\ [Next]_vars => ReachInv'
<1> SUFFICES ASSUME ReachInv, [Next]_vars PROVE ReachInv'
  OBVIOUS
<1>1. IInv /\ IInv'  BY StepIInv DEF ReachInv
<1>2. TypeOK' /\ Locks'  BY <1>1 DEF IInv
<1>3. ASSUME NEW t \in Threads, Allocate(t) \/ Step(t), Early' PROVE Joins'
  <2>1. Early  BY <1>1, <1>2, <1>3, EarlyBefore
  <2>2. Joins  BY <2>1 DEF ReachInv
  <2>3. OneIsFirst'  BY <1>1, <1>3, <2>2, StepOneIsFirst DEF Joins
  <2>4. LinksJoined'  BY <1>1, <1>2, <1>3, <2>1, <2>2, StepLinksJoined
  <2>5. BegunJoins'  BY <1>1, <1>2, <1>3, <2>1, <2>2, StepBegunJoins
  <2>6. EntryJoined'  BY <1>1, <1>2, <1>3, <2>1, <2>2, <2>5, StepEntryJoined
  <2>7. SearchesJoined'  BY <1>1, <1>2, <1>3, <2>1, <2>2, StepSearchesJoined
  <2> QED  BY <2>3, <2>4, <2>5, <2>6, <2>7 DEF Joins
<1>4. ASSUME NEW t \in Threads, Allocate(t) \/ Step(t) PROVE ReachInv'
  BY <1>1, <1>3, <1>4 DEF ReachInv
<1> QED  BY <1>4, StutterReachInv DEF Next

\* From the entry point the links lead to everything that has joined.
LEMMA JoinedIsReached ==
  ASSUME IInv, Joins, NEW found \in SUBSET Ids, enterpoint \in found, ~First,
         \A e \in found : links[e][0] \subseteq found, NEW x \in Ids, Joined(x)
  PROVE  x \in found
<1>1. TypeOK /\ \A e \in Ids : begun[e][0] \in Nat
  BY LowestLayer DEF IInv, TypeOK
<1>2. \A e, n \in Ids : n \in links[e][0] => Joined(n)  BY DEF Joins, LinksJoined
<1>3. enterpoint # NoEntry /\ enterpoint \in Ids /\ Joined(enterpoint)
  <2>1. enterpoint \in Ids /\ enterpoint # NoEntry  BY DEF Ids, NoEntry
  <2> QED  BY <2>1 DEF Joins, EntryJoined
<1>4. \E r \in found : begun[r][0] = 1
  <2> DEFINE turns == {begun[e][0] : e \in {y \in found : Joined(y)}}
  <2>1. turns \subseteq Nat  BY <1>1
  <2>2. turns # {}
    <3>1. PICK e \in found : e = enterpoint  OBVIOUS
    <3>2. Joined(e)  BY <1>3, <3>1 DEF Joined, HasParent
    <3> QED  BY <3>2
  <2>3. PICK a \in turns : \A b \in turns : a <= b
    <3> HIDE DEF turns
    <3> QED  BY <2>1, <2>2, LeastNumber
  <2>4. PICK r \in found : Joined(r) /\ begun[r][0] = a  BY <2>3
  <2>5. ASSUME HasParent(r) PROVE FALSE
    <3>1. PICK n \in Ids : begun[n][0] < begun[r][0] /\ n \in links[r][0] /\ r \in links[n][0]
      BY <2>5 DEF HasParent
    <3>2. n \in found /\ Joined(n)  BY <1>2, <3>1
    <3>3. begun[n][0] \in turns  BY <3>2
    <3>4. a <= begun[n][0]  BY <2>3, <3>3
    <3> QED  BY <1>1, <2>4, <3>1, <3>4
  <2> QED  BY <2>4, <2>5 DEF Joined
<1>5. PICK r \in found : begun[r][0] = 1  BY <1>4
<1>6. ASSUME x \notin found PROVE FALSE
  <2> DEFINE turns == {begun[e][0] : e \in {y \in Ids \ found : Joined(y)}}
  <2>1. turns \subseteq Nat  BY <1>1
  <2>2. turns # {}  BY <1>6
  <2>3. PICK a \in turns : \A b \in turns : a <= b
    <3> HIDE DEF turns
    <3> QED  BY <2>1, <2>2, LeastNumber
  <2>4. PICK y \in Ids \ found : Joined(y) /\ begun[y][0] = a  BY <2>3
  <2>5. begun[y][0] # 1  BY <1>5, <2>4 DEF Joins, OneIsFirst
  <2>6. HasParent(y)  BY <2>4, <2>5 DEF Joined
  <2>7. PICK n \in Ids : begun[n][0] < begun[y][0] /\ n \in links[y][0] /\ y \in links[n][0]
    BY <2>6 DEF HasParent
  <2>8. Joined(n)  BY <1>2, <2>7
  <2>9. CASE n \in found  BY <2>4, <2>7, <2>9
  <2>10. CASE n \notin found
    <3>1. begun[n][0] \in turns  BY <2>8, <2>10
    <3>2. a <= begun[n][0]  BY <2>3, <3>1
    <3> QED  BY <1>1, <2>4, <2>7, <3>2
  <2> QED  BY <2>9, <2>10
<1> QED  BY <1>6

\* An inserted element has joined.
LEMMA ReachInvInsertedIsReached == ReachInv => InsertedIsReached
<1> SUFFICES ASSUME ReachInv, count <= MaxLinks(0), NEW found \in SUBSET Ids,
                    enterpoint \in found, \A e \in found : links[e][0] \subseteq found,
                    NEW x \in Ids, Inserted(x)
             PROVE  x \in found
  BY DEF InsertedIsReached
<1>1. IInv /\ Joins  BY DEF ReachInv, Early
<1>2. TypeOK /\ Locks /\ Turns /\ Entry /\ NoThread \notin Threads  BY <1>1 DEF IInv
<1>3. x < count /\ owner[x] = NoThread /\ Free(x) /\ \A t \in Threads : pc[t] = "own" => cur[t] # x
  BY DEF Inserted, Free
<1>4. Finished(x)
  <2>1. ASSUME NEW t \in Threads, Active(t), cur[t] = x PROVE FALSE
    <3>1. pc[t] \in Holding  BY <1>2, <1>3, <2>1 DEF Active, TypeOK, PcValues
    <3> QED  BY <1>2, <1>3, <2>1, <3>1 DEF Locks
  <2> QED  BY <1>2, <1>3, <2>1 DEF Turns
<1>5. begun[x][0] > 0
  <2>1. level[x] \in Nat  BY <1>2 DEF TypeOK, Layers
  <2> QED  BY <1>4, <2>1, LowestLayer DEF Finished
<1>6. Joined(x)  BY <1>1, <1>3, <1>5, LowestLayer, FreeIsJoined
<1>7. ~First
  <2>1. First => begun[x][0] = 0  BY <1>2, LowestLayer DEF Entry
  <2> QED  BY <1>5, <2>1
<1> QED  BY <1>1, <1>6, <1>7, JoinedIsReached

\* The invariant of insertion while no list can be full.
THEOREM Reachability == Spec => []ReachInv
BY InitReachInv, StepReachInv, PTL DEF Spec

\* Whatever insertions overlap, what is inserted before a list can be full is
\* reached from the entry point.
THEOREM InsertedIsAlwaysReached == Spec => []InsertedIsReached
BY Reachability, ReachInvInsertedIsReached, PTL

-----------------------------------------------------------------------------

\* Every variable keeps its type.
THEOREM TypeCorrect == Spec => []TypeOK
<1>1. IInv => TypeOK  BY DEF IInv
<1> QED  BY Invariance, <1>1, PTL
=============================================================================
