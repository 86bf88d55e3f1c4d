----------------------------- MODULE HnswInsert -----------------------------
(***************************************************************************)
(* addPoint, searchBaseLayer and mutuallyConnectNewElement of              *)
(* HierarchicalNSW (Ours/core/hnswlib/hnswalg.h): several threads insert   *)
(* new labels into one index.                                              *)
(*                                                                         *)
(* A thread locks the list of its own element for as long as the insertion *)
(* takes, and keeps `global' as well when the element is higher than the   *)
(* index.  With these held it takes the lock of one other list after the   *)
(* other.  A list of another element is locked for the length of one       *)
(* reading or writing and with no lock taken meanwhile, so that such a     *)
(* section is one step, whose guard is that the list is not held.          *)
(*                                                                         *)
(* Distances are left out: which candidates are closer, and which ones the *)
(* heuristic keeps, is any choice the code could make.                     *)
(***************************************************************************)
EXTENDS Integers, FiniteSets

CONSTANTS
  Threads,
  NoThread,        \* the owner of a free lock
  MaxElements,     \* max_elements_
  M,               \* M_, the most neighbours a new element takes on a layer
  EfConstruction,  \* ef_construction_, at least M_
  MaxLevel         \* bound: the greatest level getRandomLevel returns

ASSUME ThreadsAssumption == NoThread \notin Threads /\ IsFiniteSet(Threads)
ASSUME SizesAssumption ==
  /\ MaxElements \in Nat \ {0} /\ MaxLevel \in Nat
  /\ M \in Nat \ {0} /\ EfConstruction \in Nat /\ EfConstruction >= M

Ids     == 0 .. MaxElements - 1
Layers  == 0 .. MaxLevel
NoEntry == -1

VARIABLES
  count,       \* cur_element_count
  level,       \* element_levels_
  links,       \* the neighbours of an element on a layer
  owner,       \* link_list_locks_: the thread that holds the list of an element
  global,      \* the thread that holds global
  enterpoint,  \* enterpoint_node_
  maxlevel,    \* maxlevel_
  pc,          \* where a thread is in addPoint
  cur,         \* cur_c
  maxcopy,     \* maxlevelcopy
  layer,       \* the layer a thread works on
  obj,         \* currObj
  visited,     \* nodes the descent or the search on this layer has met
  frontier,    \* candidateSet
  top,         \* top_candidates
  targets,     \* selectedNeighbors that do not know the new element yet
  begun        \* history: at which turn an element was first linked on a layer

graphVars  == <<level, links, enterpoint, maxlevel>>
lockVars   == <<owner, global>>
searchVars == <<visited, frontier, top>>
vars == <<count, graphVars, lockVars, pc, cur, maxcopy, layer, obj, searchVars, targets, begun>>

Holding  == {"global", "entry", "descend", "search", "connect", "publish", "unlock"}
PcValues == {"idle", "own"} \cup Holding

TypeOK ==
  /\ count \in 0 .. MaxElements
  /\ level \in [Ids -> Layers]
  /\ links \in [Ids -> [Layers -> SUBSET Ids]]
  /\ owner \in [Ids -> Threads \cup {NoThread}]
  /\ global \in Threads \cup {NoThread}
  /\ enterpoint \in Ids \cup {NoEntry}
  /\ maxlevel \in -1 .. MaxLevel
  /\ pc \in [Threads -> PcValues]
  /\ cur \in [Threads -> Ids] /\ obj \in [Threads -> Ids]
  /\ maxcopy \in [Threads -> -1 .. MaxLevel]
  /\ layer \in [Threads -> Layers]
  /\ visited \in [Threads -> SUBSET Ids]
  /\ frontier \in [Threads -> SUBSET Ids]
  /\ top \in [Threads -> SUBSET Ids]
  /\ targets \in [Threads -> SUBSET Ids]
  /\ begun \in [Ids -> [Layers -> Nat]]

Init ==
  /\ count = 0
  /\ level = [e \in Ids |-> 0]
  /\ links = [e \in Ids |-> [l \in Layers |-> {}]]
  /\ begun = [e \in Ids |-> [l \in Layers |-> 0]]
  /\ enterpoint = NoEntry /\ maxlevel = -1
  /\ owner = [e \in Ids |-> NoThread] /\ global = NoThread
  /\ pc = [t \in Threads |-> "idle"]
  /\ cur = [t \in Threads |-> 0] /\ obj = [t \in Threads |-> 0]
  /\ maxcopy = [t \in Threads |-> -1] /\ layer = [t \in Threads |-> 0]
  /\ visited = [t \in Threads |-> {}] /\ frontier = [t \in Threads |-> {}]
  /\ top = [t \in Threads |-> {}] /\ targets = [t \in Threads |-> {}]

-----------------------------------------------------------------------------
(* Helpers *)

Smaller(a, b) == IF a <= b THEN a ELSE b

MaxLinks(l) == IF l = 0 THEN 2 * M ELSE M   \* maxM0_ and maxM_

Free(e) == owner[e] = NoThread

\* The turn of an element that is first linked on a layer now.
NextTurn(l) == 1 + Cardinality({e \in Ids : begun[e][l] > 0})

\* getNeighborsByHeuristic2: fewer than m candidates are all kept; of more,
\* the closest one and any others, m at most.
Chosen(candidates, m) ==
  IF Cardinality(candidates) < m
  THEN {candidates}
  ELSE {s \in SUBSET candidates : s # {} /\ Cardinality(s) <= m}

\* searchBaseLayer starts from the node the layer above has led to.
StartSearch(t, node) ==
  /\ visited'  = [visited  EXCEPT ![t] = {node}]
  /\ frontier' = [frontier EXCEPT ![t] = {node}]
  /\ top'      = [top      EXCEPT ![t] = {node}]

EndSearch(t) ==
  /\ visited'  = [visited  EXCEPT ![t] = {}]
  /\ frontier' = [frontier EXCEPT ![t] = {}]
  /\ top'      = [top      EXCEPT ![t] = {}]

-----------------------------------------------------------------------------
(* addPoint *)

\* Under label_lookup_lock.  A full index refuses the call and is unchanged.
Allocate(t) ==
  /\ pc[t] = "idle" /\ count < MaxElements
  /\ cur' = [cur EXCEPT ![t] = count]
  /\ count' = count + 1
  /\ pc' = [pc EXCEPT ![t] = "own"]
  /\ UNCHANGED <<graphVars, lockVars, maxcopy, layer, obj, searchVars, targets, begun>>

\* Mutant: lock_el is missing, as if the lists of a new element were private.
TakesNoOwnLock(t) ==
  /\ pc[t] = "own"
  /\ \E l \in Layers : level' = [level EXCEPT ![cur[t]] = l]
  /\ pc' = [pc EXCEPT ![t] = "global"]
  /\ UNCHANGED <<count, links, enterpoint, maxlevel, lockVars, cur, maxcopy, layer, obj,
                 searchVars, targets, begun>>

TakeOwnLock(t) ==
  /\ pc[t] = "own" /\ Free(cur[t])
  /\ owner' = [owner EXCEPT ![cur[t]] = t]
  /\ \E l \in Layers : level' = [level EXCEPT ![cur[t]] = l]
  /\ pc' = [pc EXCEPT ![t] = "global"]
  /\ UNCHANGED <<count, links, enterpoint, maxlevel, global, cur, maxcopy, layer, obj,
                 searchVars, targets, begun>>

\* global is kept by an element higher than the index, else given back.
TakeGlobal(t) ==
  /\ pc[t] = "global" /\ global = NoThread
  /\ maxcopy' = [maxcopy EXCEPT ![t] = maxlevel]
  /\ global' = IF level[cur[t]] > maxlevel THEN t ELSE NoThread
  /\ pc' = [pc EXCEPT ![t] = "entry"]
  /\ UNCHANGED <<count, graphVars, owner, cur, layer, obj, searchVars, targets, begun>>

\* The entry point is read when global may have been given back already; then
\* the lists of the new element are cleared.  The first element to come here
\* makes element 0 the entry point, which need not be the element itself.
ReadEntry(t) ==
  /\ pc[t] = "entry"
  /\ links' = [links EXCEPT ![cur[t]] = [l \in Layers |-> {}]]
  /\ \/ /\ enterpoint = NoEntry
        /\ enterpoint' = 0 /\ maxlevel' = level[cur[t]]
        /\ pc' = [pc EXCEPT ![t] = "publish"]
        /\ UNCHANGED <<obj, layer, searchVars>>
     \/ /\ enterpoint # NoEntry
        /\ obj' = [obj EXCEPT ![t] = enterpoint]
        /\ layer' = [layer EXCEPT ![t] = maxcopy[t]]
        /\ pc' = [pc EXCEPT ![t] = IF level[cur[t]] < maxcopy[t] THEN "descend" ELSE "search"]
        /\ StartSearch(t, enterpoint)
        /\ UNCHANGED <<enterpoint, maxlevel>>
  /\ UNCHANGED <<count, level, lockVars, cur, maxcopy, targets, begun>>

\* Above its level the insertion moves to a neighbour that is closer, and
\* looks at that one's list; each move is closer than all nodes before it.
DescendTo(t, node) ==
  /\ pc[t] = "descend" /\ Free(obj[t])
  /\ node \in links[obj[t]][layer[t]] \ visited[t]
  /\ obj' = [obj EXCEPT ![t] = node]
  /\ visited' = [visited EXCEPT ![t] = @ \cup {node}]
  /\ UNCHANGED <<count, graphVars, lockVars, pc, cur, maxcopy, layer, frontier, top,
                 targets, begun>>

\* No neighbour is closer.
DescendLayer(t) ==
  /\ pc[t] = "descend" /\ Free(obj[t])
  /\ layer' = [layer EXCEPT ![t] = @ - 1]
  /\ IF layer'[t] = level[cur[t]]
     THEN pc' = [pc EXCEPT ![t] = "search"] /\ StartSearch(t, obj[t])
     ELSE UNCHANGED <<pc, searchVars>>
  /\ UNCHANGED <<count, graphVars, lockVars, cur, maxcopy, obj, targets, begun>>

-----------------------------------------------------------------------------
(* searchBaseLayer *)

\* One turn of its loop: the neighbours met for the first time that are close
\* enough become candidates, all of them as long as the result has room.
Expand(t, node) ==
  /\ pc[t] = "search" /\ node \in frontier[t] /\ Free(node)
  /\ LET new  == links[node][layer[t]] \ visited[t]
         room == EfConstruction - Cardinality(top[t])
     IN  \E kept \in SUBSET new :
           /\ Cardinality(kept) >= Smaller(room, Cardinality(new))
           /\ visited'  = [visited  EXCEPT ![t] = @ \cup new]
           /\ frontier' = [frontier EXCEPT ![t] = (@ \ {node}) \cup kept]
           /\ \E best \in SUBSET (top[t] \cup kept) :
                /\ Cardinality(best) = Smaller(EfConstruction, Cardinality(top[t] \cup kept))
                /\ top' = [top EXCEPT ![t] = best]
  /\ UNCHANGED <<count, graphVars, lockVars, pc, cur, maxcopy, layer, obj, targets, begun>>

-----------------------------------------------------------------------------
(* mutuallyConnectNewElement *)

\* The search is over when no candidate is left, or none that could improve a
\* full result.  The new element gets its list; the closest neighbour is where
\* the next layer starts.
Select(t) ==
  /\ pc[t] = "search"
  /\ frontier[t] = {} \/ Cardinality(top[t]) = EfConstruction
  /\ \E chosen \in Chosen(top[t], M) :
       /\ links' = [links EXCEPT ![cur[t]][layer[t]] = chosen]
       /\ targets' = [targets EXCEPT ![t] = chosen]
       /\ \E closest \in chosen : obj' = [obj EXCEPT ![t] = closest]
  /\ begun' = [begun EXCEPT ![cur[t]][layer[t]] = NextTurn(layer[t])]
  /\ pc' = [pc EXCEPT ![t] = "connect"]
  /\ EndSearch(t)
  /\ UNCHANGED <<count, level, enterpoint, maxlevel, lockVars, cur, maxcopy, layer>>

\* Mutant: the lowest layer has no more room than the others.
LinksWithinM(node, l, e) ==
  IF Cardinality(links[node][l]) < M
  THEN {links[node][l] \cup {e}}
  ELSE Chosen(links[node][l] \cup {e}, M)

\* A neighbour with room appends the new element; a full list is chosen again
\* from what it holds and the new element.
LinksWith(node, l, e) ==
  IF Cardinality(links[node][l]) < MaxLinks(l)
  THEN {links[node][l] \cup {e}}
  ELSE Chosen(links[node][l] \cup {e}, MaxLinks(l))

\* Mutant: the neighbour links back on the layers below as well.
ConnectBelow(t, node) ==
  /\ pc[t] = "connect" /\ node \in targets[t] /\ Free(node)
  /\ links' = [links EXCEPT ![node] =
                 [l \in Layers |-> IF l <= layer[t] THEN @[l] \cup {cur[t]} ELSE @[l]]]
  /\ targets' = [targets EXCEPT ![t] = @ \ {node}]
  /\ IF targets'[t] # {} THEN UNCHANGED <<pc, layer, searchVars>>
     ELSE IF layer[t] > 0
     THEN /\ layer' = [layer EXCEPT ![t] = @ - 1]
          /\ pc' = [pc EXCEPT ![t] = "search"]
          /\ StartSearch(t, obj[t])
     ELSE /\ pc' = [pc EXCEPT ![t] = "publish"]
          /\ UNCHANGED <<layer, searchVars>>
  /\ UNCHANGED <<count, level, enterpoint, maxlevel, lockVars, cur, maxcopy, obj, begun>>

Connect(t, node) ==
  /\ pc[t] = "connect" /\ node \in targets[t] /\ Free(node)
  /\ \E list \in LinksWith(node, layer[t], cur[t]) :
       links' = [links EXCEPT ![node][layer[t]] = list]
  /\ targets' = [targets EXCEPT ![t] = @ \ {node}]
  /\ IF targets'[t] # {} THEN UNCHANGED <<pc, layer, searchVars>>
     ELSE IF layer[t] > 0
     THEN /\ layer' = [layer EXCEPT ![t] = @ - 1]
          /\ pc' = [pc EXCEPT ![t] = "search"]
          /\ StartSearch(t, obj[t])
     ELSE /\ pc' = [pc EXCEPT ![t] = "publish"]
          /\ UNCHANGED <<layer, searchVars>>
  /\ UNCHANGED <<count, level, enterpoint, maxlevel, lockVars, cur, maxcopy, obj, begun>>

-----------------------------------------------------------------------------
(* The end of addPoint *)

\* Mutant: an element as high as the index becomes the entry point too.
PublishAtLevel(t) ==
  /\ pc[t] = "publish"
  /\ IF level[cur[t]] >= maxcopy[t]
     THEN enterpoint' = cur[t] /\ maxlevel' = level[cur[t]]
     ELSE UNCHANGED <<enterpoint, maxlevel>>
  /\ begun' = [begun EXCEPT ![cur[t]] =
                 [l \in Layers |-> IF l <= level[cur[t]] /\ @[l] = 0 THEN NextTurn(l) ELSE @[l]]]
  /\ global' = IF global = t THEN NoThread ELSE global
  /\ pc' = [pc EXCEPT ![t] = "unlock"]
  /\ UNCHANGED <<count, level, links, owner, cur, maxcopy, layer, obj, searchVars, targets>>

\* An element higher than the index becomes the entry point.  Then the locks
\* go, in the reverse of the order in which they were taken, and the locals.
Publish(t) ==
  /\ pc[t] = "publish"
  /\ IF level[cur[t]] > maxcopy[t]
     THEN enterpoint' = cur[t] /\ maxlevel' = level[cur[t]]
     ELSE UNCHANGED <<enterpoint, maxlevel>>
  /\ begun' = [begun EXCEPT ![cur[t]] =
                 [l \in Layers |-> IF l <= level[cur[t]] /\ @[l] = 0 THEN NextTurn(l) ELSE @[l]]]
  /\ global' = IF global = t THEN NoThread ELSE global
  /\ pc' = [pc EXCEPT ![t] = "unlock"]
  /\ UNCHANGED <<count, level, links, owner, cur, maxcopy, layer, obj, searchVars, targets>>

Unlock(t) ==
  /\ pc[t] = "unlock"
  /\ owner' = [owner EXCEPT ![cur[t]] = NoThread]
  /\ pc' = [pc EXCEPT ![t] = "idle"]
  /\ cur' = [cur EXCEPT ![t] = 0] /\ obj' = [obj EXCEPT ![t] = 0]
  /\ maxcopy' = [maxcopy EXCEPT ![t] = -1] /\ layer' = [layer EXCEPT ![t] = 0]
  /\ UNCHANGED <<count, graphVars, global, searchVars, targets, begun>>

Step(t) ==
  \/ TakeOwnLock(t) \/ TakeGlobal(t) \/ ReadEntry(t) \/ DescendLayer(t)
  \/ Select(t) \/ Publish(t) \/ Unlock(t)
  \/ \E node \in Ids : DescendTo(t, node) \/ Expand(t, node) \/ Connect(t, node)

Next == \E t \in Threads : Allocate(t) \/ Step(t)

Spec == Init /\ [][Next]_vars

-----------------------------------------------------------------------------
(* Properties *)

\* Where t may be waiting for a lock that u holds.  A search waits for the
\* closest candidate, here for any.
WaitsFor(t, u) ==
  \/ pc[t] = "own"     /\ owner[cur[t]] = u
  \/ pc[t] = "global"  /\ global = u
  \/ pc[t] = "descend" /\ owner[obj[t]] = u
  \/ pc[t] = "search"  /\ \E node \in frontier[t] : owner[node] = u
  \/ pc[t] = "connect" /\ \E node \in targets[t] : owner[node] = u

\* Threads that hold their own element, and perhaps global, while they lock one
\* element of the others after the other never wait for each other in a circle,
\* and none waits for a lock it holds itself.
NoCircularWait ==
  \A group \in SUBSET Threads : group # {} =>
    \E t \in group : \A u \in group : ~WaitsFor(t, u)

\* The exceptions of mutuallyConnectNewElement are never thrown: the list of the
\* new element is blank on a layer when it is written, the search has found it a
\* neighbour (back() is called unchecked), and a neighbour is another element,
\* exists on the layer, and has a list that is not too long.
NothingThrows ==
  \A t \in Threads :
    /\ pc[t] = "search" => links[cur[t]][layer[t]] = {} /\ top[t] # {}
    /\ pc[t] = "connect" =>
         \A node \in targets[t] :
           /\ node # cur[t] /\ layer[t] <= level[node]
           /\ Cardinality(links[node][layer[t]]) <= MaxLinks(layer[t])

\* A neighbour appends the new element without looking whether its list has it
\* already: it never has, or checkIntegrity would find a repeated link.
AppendsOnce ==
  \A t \in Threads : pc[t] = "connect" =>
    \A node \in targets[t] : cur[t] \notin links[node][layer[t]]

Inserted(e) == e < count /\ Free(e) /\ \A t \in Threads : pc[t] = "own" => cur[t] # e

\* However insertions that each saw a lower index overlap, no element ends up
\* above the entry point, where a search would never find its upper layers.
EntryIsHighest ==
  \A e \in Ids : Inserted(e) =>
    enterpoint # NoEntry /\ level[e] <= level[enterpoint] /\ level[e] <= maxlevel

\* As long as no list can be full, no insertion takes a link from an element:
\* every inserted element is reached from the entry point on the lowest layer.
InsertedIsReached ==
  count <= MaxLinks(0) =>
    \A found \in SUBSET Ids :
      (enterpoint \in found /\ \A e \in found : links[e][0] \subseteq found)
        => \A e \in Ids : Inserted(e) => e \in found

=============================================================================
