----------------------------- MODULE BeamSearch -----------------------------
(***************************************************************************)
(* search_vamana of Ours/core/hnswlib/vamana_search.h: one best-first beam *)
(* search over the graph, for one query.  The pool holds the L best nodes  *)
(* seen so far in (distance, id) order.  A round expands the first         *)
(* BeamWidth entries not yet expanded; every neighbour met for the first   *)
(* time is scored and offered to the pool.  The search stops when no entry *)
(* is left to expand, or when the early stop is on and the worst distance  *)
(* of the full pool has stalled.                                           *)
(*                                                                         *)
(* The visited tags are the set marked; VisitedTags shows that the tagged  *)
(* scratch implements such a set from one search to the next.  Distances   *)
(* are natural numbers: only their order matters here.                     *)
(***************************************************************************)
EXTENDS Integers, Sequences, FiniteSets

CONSTANTS
  NodeCount,      \* node_count: ids 0 .. NodeCount - 1 are in the graph
  L,              \* l_value, capacity of the pool
  BeamWidth,      \* beam_width
  EarlyStopHops,  \* early_stop_hops, 0 when off
  Start,          \* start_node
  Graphs,         \* the adjacency lists to search
  Distances       \* the values a distance may take

ASSUME NodeCountAssumption == NodeCount \in Nat \ {0}
ASSUME LAssumption         == L \in Nat \ {0}
ASSUME BeamWidthAssumption == BeamWidth \in Nat \ {0}
ASSUME HopsAssumption      == EarlyStopHops \in Nat
ASSUME StartAssumption     == Start \in 0 .. NodeCount - 1
ASSUME DistancesAssumption == Distances \subseteq Nat

Nodes == 0 .. NodeCount - 1

\* Neighbour lists may name ids outside the searched prefix of the graph.
ASSUME GraphsAssumption == Graphs \subseteq [Nodes -> Seq(Nat)]

VARIABLES
  graph,       \* the adjacency lists, constant during the search
  dist,        \* the query's distance to every node, constant too
  pc,          \* the place in the loops, see PcValues
  pool,        \* scratch.pool: entries [id, expanded], best first
  marked,      \* the nodes whose visited tag is the current one
  frontier,    \* entries of this round still to be expanded
  links,       \* neighbours of the node in hand still to be looked at
  fresh,       \* its neighbours met for the first time, still to be scored
  backBefore,  \* distance of the last pool entry when the round began
  stall,       \* stall_hops
  visited      \* stats->visited_nodes

input    == <<graph, dist>>
stopVars == <<backBefore, stall>>
vars     == <<input, pc, pool, marked, frontier, links, fresh, stopVars, visited>>

PcValues == {"select", "visit", "mark", "score", "done", "error"}
Entry    == [id : Nodes, expanded : BOOLEAN]

TypeOK ==
  /\ graph \in Graphs
  /\ dist \in [Nodes -> Distances]
  /\ pc \in PcValues
  /\ pool \in Seq(Entry)
  /\ marked \in SUBSET Nodes
  /\ frontier \in Seq(Nodes)
  /\ links \in Seq(Nat)
  /\ fresh \in Seq(Nodes)
  /\ backBefore \in Nat
  /\ stall \in Nat
  /\ visited \in Nat

-----------------------------------------------------------------------------
(* The pool *)

\* candidate_less
Less(a, b) == IF dist[a] # dist[b] THEN dist[a] < dist[b] ELSE a < b

Full(p) == Len(p) >= L
Back(p) == p[Len(p)].id

\* lower_bound: the first place whose entry is not less than node.
Position(p, node) ==
  CHOOSE i \in 1 .. Len(p) + 1 :
    /\ \A j \in 1 .. i - 1 : Less(p[j].id, node)
    /\ i <= Len(p) => ~Less(p[i].id, node)

NewEntry(node) == [id |-> node, expanded |-> FALSE]

\* The entry goes to its place and what no longer fits is cut off.
Place(p, node) ==
  LET i    == Position(p, node)
      size == IF Full(p) THEN L ELSE Len(p) + 1
  IN  [j \in 1 .. size |->
         IF j < i THEN p[j] ELSE IF j = i THEN NewEntry(node) ELSE p[j - 1]]

\* Mutant: a node that improves a full pool takes the last place, not its own.
InsertAtEnd(p, node) ==
  IF ~Full(p) THEN Append(p, NewEntry(node))
  ELSE IF Less(node, Back(p)) THEN [p EXCEPT ![Len(p)] = NewEntry(node)]
  ELSE p

\* Mutant: a full pool also takes a node that is not better than its last.
InsertLosesLast(p, node) ==
  IF Full(p)
  THEN [p EXCEPT ![Len(p)] = NewEntry(node)]
  ELSE Place(p, node)

\* insert_candidate_sorted
Insert(p, node) ==
  IF Full(p) /\ ~Less(node, Back(p)) THEN p ELSE Place(p, node)

-----------------------------------------------------------------------------
(* The search *)

\* reset, then the start node is marked, scored and put in the pool.
Init ==
  /\ graph \in Graphs
  /\ dist \in [Nodes -> Distances]
  /\ pc = "select"
  /\ pool = <<NewEntry(Start)>>
  /\ marked = {Start}
  /\ frontier = <<>> /\ links = <<>> /\ fresh = <<>>
  /\ backBefore = 0 /\ stall = 0
  /\ visited = 1

\* Place i of the pool is among the first BeamWidth that are not expanded.
InBeam(i) ==
  /\ ~pool[i].expanded
  /\ Cardinality({j \in 1 .. i : ~pool[j].expanded}) <= BeamWidth

\* The frontier lists the entries of the beam in pool order.
TakeInOrder(f) ==
  /\ \A j, k \in DOMAIN f : j < k => f[j] < f[k]
  /\ frontier' = [k \in DOMAIN f |-> pool[f[k]].id]

\* Mutant: an entry that joins the frontier is not marked expanded.
SelectWithoutMarking ==
  /\ pc = "select"
  /\ backBefore' = dist[Back(pool)]
  /\ LET beam == {i \in 1 .. Len(pool) : InBeam(i)}
     IN  /\ \E f \in [1 .. Cardinality(beam) -> beam] : TakeInOrder(f)
         /\ pc' = IF beam = {} THEN "done" ELSE "visit"
  /\ UNCHANGED <<input, pool, marked, links, fresh, stall, visited>>

\* A round begins: the beam is marked expanded and becomes the frontier, in
\* pool order.  With nothing to expand the search is over.
SelectFrontier ==
  /\ pc = "select"
  /\ backBefore' = dist[Back(pool)]
  /\ LET beam == {i \in 1 .. Len(pool) : InBeam(i)}
     IN  /\ pool' = [i \in 1 .. Len(pool) |->
              [pool[i] EXCEPT !.expanded = @ \/ i \in beam]]
         /\ \E f \in [1 .. Cardinality(beam) -> beam] : TakeInOrder(f)
         /\ pc' = IF beam = {} THEN "done" ELSE "visit"
  /\ UNCHANGED <<input, marked, links, fresh, stall, visited>>

VisitNode ==
  /\ pc = "visit" /\ frontier # <<>>
  /\ links' = graph[Head(frontier)]
  /\ frontier' = Tail(frontier)
  /\ fresh' = <<>>
  /\ pc' = "mark"
  /\ UNCHANGED <<input, pool, marked, stopVars, visited>>

\* Mutant: try_mark says yes to a node that is already marked.
MarkAlwaysFresh ==
  /\ pc = "mark" /\ links # <<>> /\ Head(links) < NodeCount
  /\ fresh' = Append(fresh, Head(links))
  /\ marked' = marked \cup {Head(links)}
  /\ links' = Tail(links)
  /\ UNCHANGED <<input, pc, pool, frontier, stopVars, visited>>

\* try_mark
MarkNeighbor ==
  /\ pc = "mark" /\ links # <<>> /\ Head(links) < NodeCount
  /\ fresh' = IF Head(links) \in marked THEN fresh ELSE Append(fresh, Head(links))
  /\ marked' = marked \cup {Head(links)}
  /\ links' = Tail(links)
  /\ UNCHANGED <<input, pc, pool, frontier, stopVars, visited>>

\* "Vamana graph contains out-of-range neighbor"
OutOfRange ==
  /\ pc = "mark" /\ links # <<>> /\ Head(links) >= NodeCount
  /\ pc' = "error"
  /\ UNCHANGED <<input, pool, marked, frontier, links, fresh, stopVars, visited>>

MarkDone ==
  /\ pc = "mark" /\ links = <<>>
  /\ visited' = visited + Len(fresh)
  /\ pc' = IF fresh = <<>> THEN "visit" ELSE "score"
  /\ UNCHANGED <<input, pool, marked, frontier, links, fresh, stopVars>>

\* What the loops do once the head of fresh is dealt with.
NextFresh ==
  /\ fresh' = Tail(fresh)
  /\ pc' = IF Len(fresh) = 1 THEN "visit" ELSE "score"
  /\ UNCHANGED <<input, marked, frontier, links, stopVars, visited>>

ScoreFresh ==
  /\ pc = "score" /\ fresh # <<>>
  /\ pool' = Insert(pool, Head(fresh))
  /\ NextFresh

\* Mutant: the early stop also runs when it is off.
StalledAlsoWhenOff == Full(pool) /\ stall' >= EarlyStopHops

\* The worst distance of the full pool has not improved for EarlyStopHops rounds.
Stalled == EarlyStopHops # 0 /\ Full(pool) /\ stall' >= EarlyStopHops

FinishRound ==
  /\ pc = "visit" /\ frontier = <<>>
  /\ stall' = IF EarlyStopHops = 0 \/ ~Full(pool) THEN stall
              ELSE IF dist[Back(pool)] >= backBefore THEN stall + 1 ELSE 0
  /\ pc' = IF Stalled THEN "done" ELSE "select"
  /\ UNCHANGED <<input, pool, marked, frontier, links, fresh, backBefore, visited>>

\* Everything but the scoring of a fresh neighbour.
Traverse ==
  \/ SelectFrontier \/ VisitNode \/ MarkNeighbor \/ OutOfRange \/ MarkDone
  \/ FinishRound

Next == Traverse \/ ScoreFresh

Spec == Init /\ [][Next]_vars

-----------------------------------------------------------------------------
(* Properties *)

\* The pool is in strictly increasing (distance, id) order, so no node is in
\* it twice, and never longer than L.
PoolSorted ==
  /\ Len(pool) \in 1 .. L
  /\ \A i, j \in 1 .. Len(pool) : i < j => Less(pool[i].id, pool[j].id)

\* Every node is offered to the pool at most once: the pool, the nodes still
\* to be scored and the frontier hold marked nodes, and the number of nodes
\* counted as visited is the number of marked ones.
EachNodeOnce ==
  /\ {pool[i].id : i \in DOMAIN pool} \subseteq marked
  /\ \A i, j \in DOMAIN fresh : fresh[i] = fresh[j] => i = j
  /\ \A i \in DOMAIN fresh, j \in DOMAIN pool : fresh[i] # pool[j].id
  /\ pc \in {"select", "visit", "done"} => visited = Cardinality(marked)

\* A search that ran without the early stop has expanded its whole pool, and every
\* neighbour of a pool entry is in the pool or was no better than the last
\* entry of a full pool: nothing the pool can see would improve it.
Closed ==
  pc = "done" /\ EarlyStopHops = 0 =>
    \A i \in DOMAIN pool :
      /\ pool[i].expanded
      /\ \A k \in DOMAIN graph[pool[i].id] :
           LET n == graph[pool[i].id][k]
           IN  /\ n \in Nodes
               /\ \/ \E j \in DOMAIN pool : pool[j].id = n
                  \/ Full(pool) /\ ~Less(n, Back(pool))

\* A step never makes the answer worse: no rank of the pool is lost and none
\* gets a node that is farther than the one it had.
RanksNeverWorsen ==
  [][/\ Len(pool') >= Len(pool)
     /\ \A i \in 1 .. Len(pool) : ~Less(pool[i].id, pool'[i].id)]_vars

\* The search comes to an end, whatever the graph.
Terminates == <>(pc \in {"done", "error"})
=============================================================================
