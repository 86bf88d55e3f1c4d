----------------------------- MODULE VamanaBuild -----------------------------
(***************************************************************************)
(* The bulk construction of the graph (Ours/core/hnswlib/vamana_index.h:   *)
(* buildGraphFromLoadedPayloads, then refineGraphSymmetric).  Nodes are    *)
(* inserted in batches.  The threads of a parallel loop search the graph   *)
(* of the nodes before the batch and prune what they find, one node at a   *)
(* time and in any order; then one thread puts the lists in the graph and  *)
(* gathers the edges back to the new nodes; then the threads of a second   *)
(* loop add these to the lists of their sources, grouped by source, and    *)
(* prune the lists that became too long.  A refinement pass does the same  *)
(* for all nodes, and replaces every list.                                 *)
(*                                                                         *)
(* An iteration is one step here: it reads the graph, which no iteration   *)
(* of the first loop writes, and writes a list of its own; an iteration of *)
(* the second loop reads and writes only the list of its source.           *)
(***************************************************************************)
EXTENDS RobustPrune

CONSTANTS
  NodeCount,      \* record_count
  L,              \* l_build
  BeamWidth,      \* beam_width
  EarlyStopHops,  \* build_early_stop_hops, 0 when off
  PruneCap,       \* prune_candidate_cap, 0 when off
  BatchSize,      \* batch_size
  Passes,         \* refine_passes
  Tables          \* the tables of distances between the encoded nodes

\* Distances are estimates: between codes of different centroids one may be negative
\* (the memo of robust_prune_4bit then computes it again each time).
ASSUME TablesAssumption == Tables \subseteq [0 .. NodeCount - 1 -> [0 .. NodeCount - 1 -> Int]]
ASSUME SizesAssumption ==
  /\ NodeCount \in Nat \ {0} /\ L \in Nat \ {0} /\ BeamWidth \in Nat \ {0}
  /\ BatchSize \in Nat \ {0}
  /\ EarlyStopHops \in Nat /\ PruneCap \in Nat /\ Passes \in Nat

Nodes == 0 .. NodeCount - 1

VARIABLES
  dist,     \* the table of distances, constant
  graph,    \* graph_
  stage,    \* "build", then "refine" if there are passes, then "done"
  step,     \* which loop the threads are in: "search" or "link"
  begin,    \* the first node of the batch
  pass,     \* refinement passes completed
  todo,     \* the nodes of the batch, or the sources, still to be worked on
  lists,    \* batch_neighbors, refined: the lists of the nodes done
  groups,   \* the backedges: the new targets of each source
  before    \* the graph when the loop in progress began

buildVars == <<dist, graph, stage, step, begin, pass, todo, lists, groups, before>>

NoLists  == [n \in {} |-> <<>>]
NoGroups == [n \in {} |-> {}]
Elements(list) == {list[i] : i \in DOMAIN list}
Put(f, id, list) == [n \in DOMAIN f \cup {id} |-> IF n = id THEN list ELSE f[n]]
Lower(a, b)    == IF a < b THEN a ELSE b

\* Mutant: the batch includes the first node of the next one.
BatchOverlaps(first) == first .. Lower(NodeCount - 1, first + BatchSize)

Batch(first)   == first .. Lower(NodeCount, first + BatchSize) - 1
MoreBatches    == begin + BatchSize < NodeCount

-----------------------------------------------------------------------------
(* Searching the prefix of the graph: what BeamSearch does, for a node and a *)
(* table d of distances                                                      *)

Closest(d, id, n, S) == {c \in S : Cardinality({b \in S : Less(d, id, b, c)}) < n}

\* Distance of the last entry of the pool.
Worst(d, id, pool) == CHOOSE w \in {d[id][n] : n \in pool} : \A n \in pool : d[id][n] <= w

\* A round of search_vamana for a query at node id.
Round(d, g, id, s) ==
  LET frontier == Closest(d, id, BeamWidth, s.pool \ s.expanded)
      fresh    == UNION {Elements(g[n]) : n \in frontier} \ s.marked
      pool     == Closest(d, id, L, s.pool \cup fresh)
      stalls   == Worst(d, id, pool) >= Worst(d, id, s.pool)
      stall    == IF Cardinality(pool) < L THEN s.stall ELSE IF stalls THEN s.stall + 1 ELSE 0
  IN  IF frontier = {} \/ (EarlyStopHops # 0 /\ s.stall >= EarlyStopHops) THEN s
      ELSE [pool |-> pool, expanded |-> s.expanded \cup frontier,
            marked |-> s.marked \cup fresh, stall |-> stall]

\* Every round expands a node, so there are at most NodeCount of them.
Found(d, g, id) ==
  LET after[n \in 0 .. NodeCount] ==
        IF n = 0 THEN [pool |-> {0}, expanded |-> {}, marked |-> {0}, stall |-> 0]
                 ELSE Round(d, g, id, after[n - 1])
  IN  after[NodeCount].pool

\* capBuildPrunePool
Capped(d, id, pool) == IF PruneCap = 0 THEN pool ELSE Closest(d, id, PruneCap, pool)

\* What the list of a node is pruned from: what the search found, and the list it keeps.
PrunePool(d, g, id, kept) == Capped(d, id, Found(d, g, id)) \cup kept

-----------------------------------------------------------------------------
(* The two loops *)

Init ==
  /\ dist \in Tables
  /\ graph = [n \in Nodes |-> <<>>] /\ before = graph
  /\ begin = 1 /\ pass = 0
  /\ step = "search"
  /\ IF NodeCount > 1 THEN stage = "build" /\ todo = Batch(1)
                      ELSE stage = "done" /\ todo = {}
  /\ lists = NoLists /\ groups = NoGroups

\* One iteration of the loop over a batch.
InsertNode(id) ==
  /\ stage = "build" /\ step = "search" /\ id \in todo
  /\ lists' = Put(lists, id, Pruned(dist, id, PrunePool(dist, graph, id, {})))
  /\ todo'  = todo \ {id}
  /\ UNCHANGED <<dist, graph, stage, step, begin, pass, groups, before>>

\* Mutant: a refined list goes into the graph that is still searched.
RefineInPlace(id) ==
  /\ stage = "refine" /\ step = "search" /\ id \in todo
  /\ lists' = Put(lists, id, Pruned(dist, id, PrunePool(dist, graph, id, Elements(graph[id]))))
  /\ graph' = [graph EXCEPT ![id] = lists'[id]]
  /\ todo'  = todo \ {id}
  /\ UNCHANGED <<dist, stage, step, begin, pass, groups, before>>

\* One iteration of a refinement pass: the node keeps its list in the pool.
RefineNode(id) ==
  /\ stage = "refine" /\ step = "search" /\ id \in todo
  /\ lists' = Put(lists, id, Pruned(dist, id, PrunePool(dist, graph, id, Elements(graph[id]))))
  /\ todo'  = todo \ {id}
  /\ UNCHANGED <<dist, graph, stage, step, begin, pass, groups, before>>

\* The edges back, grouped by the node they start from.
Backedges(g, new) ==
  [s \in UNION {Elements(g[n]) : n \in new} |-> {n \in new : Contains(g[n], s)}]

StartLinking(new) ==
  /\ groups' = Backedges(graph', new)
  /\ step' = "link" /\ todo' = DOMAIN groups'
  /\ lists'  = NoLists

\* All threads are through with the batch; its lists go into the graph.
AssignBatch ==
  /\ stage = "build" /\ step = "search" /\ todo = {}
  /\ graph' = [n \in Nodes |-> IF n \in DOMAIN lists THEN lists[n] ELSE graph[n]]
  /\ StartLinking(DOMAIN lists)
  /\ UNCHANGED <<dist, stage, begin, pass, before>>

\* A batch of a refinement pass is finished; the next one reads the same graph.
NextRefineBatch ==
  /\ stage = "refine" /\ step = "search" /\ todo = {} /\ MoreBatches
  /\ begin' = begin + BatchSize /\ todo' = Batch(begin + BatchSize)
  /\ UNCHANGED <<dist, graph, stage, step, pass, lists, groups, before>>

\* The pass is finished: all lists are swapped in.
SwapGraph ==
  /\ stage = "refine" /\ step = "search" /\ todo = {} /\ ~MoreBatches
  /\ graph' = lists
  /\ StartLinking(Nodes)
  /\ UNCHANGED <<dist, stage, begin, pass, before>>

Ascending(S) == Sorted(S, {x \in S \X S : x[1] < x[2]})

\* Mutant: a list that became too long stays.
LinkedUnpruned(d, s, list, targets) ==
  list \o Ascending(targets \ (Elements(list) \cup {s}))

\* addBackedgeGroupAndPrune, on one list.
Linked(d, s, list, targets) ==
  LET longer == list \o Ascending(targets \ (Elements(list) \cup {s}))
  IN  IF longer = list \/ Len(longer) <= R THEN longer
      ELSE Pruned(d, s, Elements(longer))

\* One iteration of the loop over the groups.
LinkSource(s) ==
  /\ step = "link" /\ s \in todo
  /\ graph' = [graph EXCEPT ![s] = Linked(dist, s, graph[s], groups[s])]
  /\ todo'  = todo \ {s}
  /\ UNCHANGED <<dist, stage, step, begin, pass, lists, groups, before>>

\* All groups are done: the next batch, the first or next pass, or the end.
NextBatch ==
  /\ step = "link" /\ todo = {}
  /\ groups' = NoGroups /\ before' = graph /\ step' = "search"
  /\ pass' = IF stage = "refine" THEN pass + 1 ELSE pass
  /\ IF stage = "build" /\ MoreBatches
     THEN stage' = stage /\ begin' = begin + BatchSize /\ todo' = Batch(begin')
     ELSE IF pass' < Passes
     THEN stage' = "refine" /\ begin' = 0 /\ todo' = Batch(0)
     ELSE stage' = "done" /\ UNCHANGED begin /\ todo' = {}
  /\ UNCHANGED <<dist, graph, lists>>

Next ==
  \/ \E n \in Nodes : InsertNode(n) \/ RefineNode(n) \/ LinkSource(n)
  \/ AssignBatch \/ NextRefineBatch \/ SwapGraph \/ NextBatch

Spec == Init /\ [][Next]_buildVars

-----------------------------------------------------------------------------
(* Properties *)

TypeOK ==
  /\ dist \in Tables
  /\ graph \in [Nodes -> Seq(Nodes)] /\ before \in [Nodes -> Seq(Nodes)]
  /\ stage \in {"build", "refine", "done"} /\ step \in {"search", "link"}
  /\ begin \in 0 .. NodeCount /\ pass \in 0 .. Passes
  /\ todo \subseteq Nodes
  /\ DOMAIN lists \subseteq Nodes /\ DOMAIN groups \subseteq Nodes

\* The caller copies every list into R slots: no list is ever longer, names
\* its own node, or names a node twice.
ListsFit ==
  \A n \in Nodes : Len(graph[n]) <= R /\ IsInjective(graph[n]) /\ ~Contains(graph[n], n)

\* While nodes are inserted, the searches of a batch see the graph of the nodes
\* before it and nothing else: no list they follow names a node of the batch or
\* after it, for which they would fail.
SearchedPrefixIsClosed ==
  stage = "build" /\ step = "search" =>
    \A n \in Nodes : graph[n] = <<>> \/ (n < begin /\ \A m \in Elements(graph[n]) : m < begin)

\* The graph after a batch or a pass does not depend on the order in which the
\* threads took the nodes and the groups: it is what the graph before it gives.
Outcome ==
  LET new     == IF stage = "build" THEN Batch(begin) ELSE Nodes
      kept(n) == IF stage = "build" THEN {} ELSE Elements(before[n])
      first   == [n \in Nodes |->
                    IF n \in new THEN Pruned(dist, n, PrunePool(dist, before, n, kept(n)))
                                 ELSE before[n]]
      back(n) == {m \in new : Contains(first[m], n)}
  IN  [n \in Nodes |-> IF back(n) = {} THEN first[n] ELSE Linked(dist, n, first[n], back(n))]

OrderDoesNotMatter == step = "link" /\ todo = {} => graph = Outcome

\* The candidates a list of the search step was pruned from.
CandidatesOf(id) ==
  PrunePool(dist, graph, id, IF stage = "refine" THEN Elements(graph[id]) ELSE {}) \ {id}

LastAlpha == AlphaLevels[Len(AlphaLevels)]
StandsFor(id, s, c) == LastAlpha * dist[c][s] <= AlphaLevels[1] * dist[id][c]

\* A pruned list has at most R candidates and always the closest one, first.
KeepsNearest ==
  step = "search" =>
    \A id \in DOMAIN lists :
      /\ Len(lists[id]) <= R /\ IsInjective(lists[id])
      /\ Elements(lists[id]) \subseteq CandidatesOf(id)
      /\ \A c \in CandidatesOf(id) : c = lists[id][1] \/ Less(dist, id, lists[id][1], c)

\* While there is room, a candidate is dropped only if a kept one still stands
\* for it under the full alpha: the passes leave nothing behind.
DropsOnlyOccluded ==
  step = "search" =>
    \A id \in DOMAIN lists :
      Len(lists[id]) < R =>
        \A c \in CandidatesOf(id) \ Elements(lists[id]) :
          \E s \in Elements(lists[id]) : StandsFor(id, s, c)

\* No kept candidate is occluded by one kept before it, however small alpha
\* was in the pass that kept it, unless their distance is estimated as negative:
\* then a larger alpha makes it smaller.
KeptAreDiverse ==
  step = "search" =>
    \A id \in DOMAIN lists :
      \A i, j \in DOMAIN lists[id] :
        i < j /\ dist[lists[id][j]][lists[id][i]] >= 0
          => ~StandsFor(id, lists[id][i], lists[id][j])

\* What pruning promises for each list, whatever the passes do with the bound R and
\* with the candidates the passes before them kept.
ListsArePruned == KeepsNearest /\ DropsOnlyOccluded /\ KeptAreDiverse
=============================================================================
