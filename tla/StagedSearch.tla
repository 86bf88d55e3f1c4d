---------------------------- MODULE StagedSearch ----------------------------
(***************************************************************************)
(* search_ours_disk_graph of 05_disk_system_fair/native_rust/src/          *)
(* ours_port.rs: the search of the disk experiment.  It is the gated       *)
(* search with the full records left on disk: the neighbours of a node     *)
(* that pass the one-bit gate are read from the payload file, DIST_BATCH_  *)
(* SIZE at a time, pass the gate again because the pool has moved, and     *)
(* enter the pool; in the end the best of the pool are read once more and  *)
(* ranked by their residual distances.  A failed read ends the search.     *)
(*                                                                         *)
(* The reader is PayloadReader, step by step.  The loop over the graph is  *)
(* that of BatchedSearch with all survivors of a node in one batch, which  *)
(* is here offered chunk by chunk.  Without the gate every estimate is the *)
(* default one, which is invalid.                                          *)
(***************************************************************************)
EXTENDS PayloadReader

CONSTANTS
  NodeCount,    \* codec.layout.record_count
  L,            \* width, at least K
  BeamWidth,    \* beam
  ChunkSize,    \* DIST_BATCH_SIZE
  K,            \* k, the number of neighbours asked for
  Rerank,       \* rerank_candidates
  Graphs,       \* the adjacency lists to search, ids of no record among them
  Distances,    \* the values a distance may take
  Bounds        \* the values a lower bound may take

ASSUME SizesAssumption == {NodeCount, L, BeamWidth, ChunkSize, K} \subseteq Nat \ {0}
ASSUME WidthAssumption == K <= L /\ Rerank \in Nat
ASSUME InputsAssumption ==
  /\ Graphs \subseteq [0 .. NodeCount - 1 -> Seq(Nat)]
  /\ Distances \subseteq Nat /\ Bounds \subseteq Nat \cup {-1}

VARIABLES
  graph, dist, bound,     \* the input of the search
  pc, pool, marked, frontier, links, fresh, backBefore, stall,
  visited, scored, skipped,
  survivors,    \* the survivors of the first gate not yet offered to the pool
  reading,      \* the search is inside a call of read_records
  result,       \* "none", then "ok" or "error"
  answer        \* the ids returned

Search == INSTANCE BatchedSearch WITH
  batch <- survivors, BatchSize <- NodeCount, EarlyStopHops <- 0, Start <- 0

inputVars  == <<graph, dist, bound>>
readVars   == <<survivors, reading, result, answer>>
loopVars   == <<inputVars, pc, pool, marked, frontier, links, fresh, backBefore, stall,
                visited, scored, skipped>>
searchVars == <<loopVars, readVars>>
stagedVars == <<payloadVars, searchVars>>

StartPool == <<[id |-> 0, expanded |-> FALSE]>>

-----------------------------------------------------------------------------
(* Calls of read_records *)

ChunkLen == Min({ChunkSize, Len(survivors)})

\* The head of the pool that is ranked again.
RerankCount == Min({Max({Rerank, K}), Len(pool)})
RerankIds   == [i \in 1 .. RerankCount |-> pool[i].id]

\* The records the search needs before it can go on: that of the start node,
\* those of the next survivors, or those of the head of the final pool.
NeedsRecords ==
  \/ pc \in {"start", "done"}
  \/ pc = "flush" /\ survivors # <<>>
Needed == CASE pc = "start" -> <<0>>
            [] pc = "flush" -> SubSeq(survivors, 1, ChunkLen)
            [] pc = "done"  -> RerankIds

CallReader ==
  /\ result = "none" /\ ~reading /\ NeedsRecords
  /\ ids' = Needed /\ ReadRecords
  /\ reading' = TRUE
  /\ UNCHANGED <<loopVars, survivors, result, answer>>

ReaderWorks ==
  /\ result = "none" /\ reading
  /\ Serve
  /\ UNCHANGED searchVars

\* The ? after a read of the payload.
PayloadError ==
  /\ result = "none" /\ reading /\ status = "error"
  /\ reading' = FALSE /\ result' = "error"
  /\ UNCHANGED <<payloadVars, loopVars, survivors, answer>>

HasRecords == result = "none" /\ reading /\ status = "ok"

-----------------------------------------------------------------------------
(* The search *)

\* begin_query, and the start node is marked; it has no distance yet.
SearchInit ==
  /\ graph \in Graphs
  /\ dist \in [Search!Nodes -> Distances] /\ bound \in [Search!Nodes -> Bounds]
  /\ pc = "start" /\ pool = <<>> /\ marked = {0}
  /\ frontier = <<>> /\ links = <<>> /\ fresh = <<>>
  /\ backBefore = 0 /\ stall = 0
  /\ visited = 0 /\ scored = 0 /\ skipped = 0
  /\ survivors = <<>> /\ reading = FALSE /\ answer = <<>>

StagedInit ==
  /\ Init /\ reader # "baseline" /\ layout.count = NodeCount
  /\ SearchInit /\ result = "none"

ScoreStart ==
  /\ HasRecords /\ pc = "start"
  /\ pool' = StartPool /\ visited' = 1 /\ scored' = 1
  /\ pc' = "select" /\ reading' = FALSE
  /\ UNCHANGED <<payloadVars, inputVars, marked, frontier, links, fresh, backBefore, stall,
                 skipped, survivors, result, answer>>

\* The graph cannot be opened, or not be read.
GraphFails ==
  /\ result = "none" /\ ~reading
  /\ \/ pc = "start"
     \/ pc = "visit" /\ frontier # <<>>
  /\ result' = "error"
  /\ UNCHANGED <<payloadVars, loopVars, survivors, reading, answer>>

\* An id of no record is passed over, where the search in memory gives up.
SkipMalformed ==
  /\ pc = "mark" /\ links # <<>> /\ Head(links) >= NodeCount
  /\ links' = Tail(links)
  /\ UNCHANGED <<inputVars, pc, pool, marked, frontier, fresh, backBefore, stall, visited>>

\* The turns of the loops that need no record: SkipSlot and CollectSlot are
\* the first gate, with the pool as it was when the node was visited.
Traverse ==
  /\ result = "none" /\ ~reading
  /\ \/ /\ \/ Search!SelectFrontier \/ Search!VisitNode \/ Search!MarkNeighbor
           \/ SkipMalformed \/ Search!MarkDone \/ Search!FinishRound
        /\ UNCHANGED <<bound, scored, skipped, survivors>>
     \/ Search!SkipSlot \/ Search!CollectSlot
  /\ UNCHANGED <<payloadVars, reading, result, answer>>

\* Mutant: the chunks are cut one record wider than they are read.
OfferWiderChunk ==
  /\ HasRecords /\ pc = "flush"
  /\ LET end == Search!Offered(ChunkLen)
     IN  pool' = end.pool /\ scored' = end.scored /\ skipped' = end.skipped
  /\ survivors' = SubSeq(survivors, ChunkLen + 2, Len(survivors))
  /\ reading' = FALSE
  /\ UNCHANGED <<payloadVars, inputVars, pc, marked, frontier, links, fresh, backBefore, stall,
                 visited, result, answer>>

\* The records of a chunk have come: the second gate, the pool.
OfferChunk ==
  /\ HasRecords /\ pc = "flush"
  /\ LET end == Search!Offered(ChunkLen)
     IN  pool' = end.pool /\ scored' = end.scored /\ skipped' = end.skipped
  /\ survivors' = SubSeq(survivors, ChunkLen + 1, Len(survivors))
  /\ reading' = FALSE
  /\ UNCHANGED <<payloadVars, inputVars, pc, marked, frontier, links, fresh, backBefore, stall,
                 visited, result, answer>>

NodeDone ==
  /\ result = "none" /\ pc = "flush" /\ survivors = <<>>
  /\ pc' = "visit"
  /\ UNCHANGED <<payloadVars, inputVars, pool, marked, frontier, links, fresh, backBefore, stall,
                 visited, scored, skipped, readVars>>

\* The residual distances may rank the records in any order.
FinishRerank ==
  /\ HasRecords /\ pc = "done"
  /\ \E f \in [1 .. Min({K, RerankCount}) -> 1 .. RerankCount] :
       IsInjective(f) /\ answer' = [i \in DOMAIN f |-> RerankIds[f[i]]]
  /\ result' = "ok" /\ reading' = FALSE
  /\ UNCHANGED <<payloadVars, loopVars, survivors>>

StagedNext ==
  \/ CallReader \/ ReaderWorks \/ PayloadError
  \/ GraphFails \/ ScoreStart \/ Traverse \/ OfferChunk \/ NodeDone \/ FinishRerank

\* One worker runs the search; page reads return (EveryReadReturns of AioReader).
StagedSpec == StagedInit /\ [][StagedNext]_stagedVars /\ WF_stagedVars(StagedNext)

-----------------------------------------------------------------------------
(* Properties *)

\* A list without the ids of no record.
Known(s) ==
  LET from[i \in 1 .. Len(s) + 1] ==
        IF i > Len(s) THEN <<>>
                      ELSE (IF s[i] < NodeCount THEN <<s[i]>> ELSE <<>>) \o from[i + 1]
  IN  from[1]
Trimmed(g) == [n \in Search!Nodes |-> Known(g[n])]

\* The state as a state of BatchedSearch: the start node is in its pool from the
\* beginning, and no list names an id of no record.
GraphB   == Trimmed(graph)
LinksB   == Known(links)
PcB      == IF pc = "start" THEN "select" ELSE pc
PoolB    == IF pc = "start" THEN StartPool ELSE pool
VisitedB == IF pc = "start" THEN 1 ELSE visited
ScoredB  == IF pc = "start" THEN 1 ELSE scored

Batched == INSTANCE BatchedSearch WITH
  EarlyStopHops <- 0, Start <- 0, BatchSize <- NodeCount, batch <- survivors,
  Graphs <- {Trimmed(g) : g \in Graphs}, graph <- GraphB, links <- LinksB,
  pc <- PcB, pool <- PoolB, visited <- VisitedB, scored <- ScoredB

\* Whatever is read from the payload file, how and in how many calls, the search is
\* the gated search of the records in memory: with the waiting survivors offered,
\* its state is at every step the state of that search, until a read fails.
SameAsGatedSearch == Batched!ParityWithLegacy

\* With reuse, every page of every pool entry is still held: the final rerank asks
\* the disk for nothing.
PoolPagesHeld ==
  reader = "reuse" /\ medium = "direct" =>
    \A i \in DOMAIN pool : PagesFor(layout, pool[i].id) \subseteq DOMAIN queryCache

\* The search comes back, with an answer or with an error.
SearchReturns == <>(result # "none")
=============================================================================
