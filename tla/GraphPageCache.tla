--------------------------- MODULE GraphPageCache ---------------------------
(***************************************************************************)
(* The graph reader of one worker of 05_disk_system_fair/native_rust       *)
(* (lib.rs): DirectGraphReader, MemoryGraphReader, GraphBackend, the       *)
(* factory that opens one backend per query, and the accounting done by    *)
(* expand_beam.  Adjacency lists are fixed-size records packed into pages. *)
(* A page is looked up in the cache of the query, then in the cache shared *)
(* by all queries, and only then read from the disk, which is PageStore    *)
(* (implemented by AioReader).                                             *)
(***************************************************************************)
EXTENDS Integers, Sequences, FiniteSets

CONSTANTS
  NodeCount,      \* layout.node_count
  NodesPerPage,   \* layout.nodes_per_page
  MaxDegree,      \* layout.max_degree
  Graph,          \* the adjacency list the file holds for each node
  IdLimit,        \* bound: ids asked for are below it, some not in the graph
  BeamLimit,      \* bound: nodes asked for in one read
  MaxVisits       \* bound: nodes asked for during one query

ASSUME LayoutAssumption ==
  /\ NodeCount \in Nat \ {0} /\ NodesPerPage \in Nat \ {0} /\ MaxDegree \in Nat \ {0}
ASSUME GraphAssumption == Graph \in [0 .. NodeCount - 1 -> Seq(Nat)]
ASSUME BoundsAssumption == IdLimit \in Nat /\ BeamLimit \in Nat /\ MaxVisits \in Nat

VARIABLES
  medium,       \* which GraphBackend: "memory" or "direct"
  sharedCache,  \* shared_cache: page id -> the page whose bytes are kept there
  queryCache,   \* query_cache: the same, for the query in progress
  ids,          \* the beam of the read in progress, or of the last one
  status,       \* "none", "busy" during a read, then "ok" or "error"
  lists,        \* the lists read_nodes returned
  stats,        \* IoStats summed up by expand_beam over the query
  request, outcome, delivered   \* the disk

storeVars  == <<medium, ids, status, lists>>
cacheVars  == <<sharedCache, queryCache>>
diskVars   == <<request, outcome, delivered>>
graphVars  == <<storeVars, cacheVars, stats, diskVars>>

NoPages  == [p \in {} |-> 0]
NoStats  == [visited |-> 0, sectors |-> 0]

PageCount == (NodeCount + NodesPerPage - 1) \div NodesPerPage
FilePages == 0 .. PageCount - 1
Ids       == 0 .. IdLimit - 1

Disk == INSTANCE PageStore WITH Pages <- FilePages

Caches == UNION {[S -> FilePages] : S \in SUBSET FilePages}

TypeOK ==
  /\ medium \in {"memory", "direct"}
  /\ sharedCache \in Caches /\ queryCache \in Caches
  /\ ids \in Seq(Ids) /\ lists \in Seq(Seq(Nat))
  /\ status \in {"none", "busy", "ok", "error"}
  /\ stats \in [visited : 0 .. MaxVisits, sectors : 0 .. PageCount]
  /\ request \in SUBSET FilePages /\ delivered \in SUBSET FilePages
  /\ outcome \in {"none", "busy", "ok", "error"}

-----------------------------------------------------------------------------
(* The page layout *)

InGraph(id) == id < NodeCount
PageFor(id) == id \div NodesPerPage

\* The record in a slot of a page: past the last node the page is zero.
RecordAt(page, slot) ==
  LET n == page * NodesPerPage + slot IN IF n < NodeCount THEN Graph[n] ELSE <<>>

\* decode_node, given the page whose bytes it is handed.
Decode(page, id) == RecordAt(page, id % NodesPerPage)
WellFormed(list) ==
  /\ Len(list) <= MaxDegree
  /\ \A i \in DOMAIN list : InGraph(list[i])

-----------------------------------------------------------------------------
(* Reading a beam *)

\* The bytes of the pages asked for come back in one buffer, a page after the
\* other in the order of the request, which is ascending: its n-th page is the
\* n-th of those delivered.
Rank(p, pages) == Cardinality({q \in pages : q < p})
Cut(p, asked, got) == CHOOSE q \in got : Rank(q, got) = Rank(p, asked)

\* BackendFactory::direct_with_cache, BackendFactory::memory: a run opens one
\* backend, whose shared cache holds the pages it was told to load, if they
\* could be read.
Init ==
  /\ medium \in {"memory", "direct"}
  /\ \E S \in SUBSET FilePages : sharedCache = [p \in S |-> Cut(p, S, S)]
  /\ medium = "memory" => sharedCache = NoPages
  /\ queryCache = NoPages
  /\ ids = <<>> /\ status = "none" /\ lists = <<>>
  /\ stats = NoStats
  /\ Disk!Init

\* BackendFactory::create: a query starts with a cold cache of its own.
Create ==
  /\ status \in {"ok", "error"}
  /\ queryCache' = NoPages
  /\ ids' = <<>> /\ status' = "none" /\ lists' = <<>>
  /\ stats' = NoStats
  /\ UNCHANGED <<medium, sharedCache, diskVars>>

\* expand_beam counts the nodes before it reads them.  A failed read ends the
\* query.
ExpandBeam ==
  /\ status \in {"none", "ok"}
  /\ ids' \in UNION {[1 .. n -> Ids] : n \in 1 .. BeamLimit}
  /\ stats.visited + Len(ids') <= MaxVisits
  /\ stats' = [stats EXCEPT !.visited = @ + Len(ids')]
  /\ status' = "busy" /\ lists' = <<>>
  /\ UNCHANGED <<medium, cacheVars, diskVars>>

Requested == {PageFor(ids[i]) : i \in DOMAIN ids}

\* Mutant: the shared cache is not looked at before the disk is read.
MissingIgnoresShared == Requested \ DOMAIN queryCache

Missing == Requested \ (DOMAIN queryCache \cup DOMAIN sharedCache)

\* Each id is decoded from the page the caches hold for it, the query's first.
\* What the read counted is added up only when every list could be decoded.
Answer(cache, sectors) ==
  LET Held(i)  == LET p == PageFor(ids[i])
                  IN  IF p \in DOMAIN cache THEN cache[p] ELSE sharedCache[p]
      found    == [i \in DOMAIN ids |-> Decode(Held(i), ids[i])]
      decodes  == \A i \in DOMAIN ids : WellFormed(found[i])
  IN  /\ status' = IF decodes THEN "ok" ELSE "error"
      /\ lists'  = IF decodes THEN found ELSE <<>>
      /\ stats'  = IF decodes THEN [stats EXCEPT !.sectors = @ + sectors] ELSE stats

PageForFails ==
  /\ status = "busy" /\ outcome # "busy"
  /\ \E i \in DOMAIN ids : ~InGraph(ids[i])
  /\ status' = "error"
  /\ UNCHANGED <<medium, ids, lists, stats, cacheVars, diskVars>>

InRange == \A i \in DOMAIN ids : InGraph(ids[i])

ReadCached ==
  /\ status = "busy" /\ medium = "direct" /\ InRange /\ Missing = {}
  /\ Answer(queryCache, 0)
  /\ UNCHANGED <<medium, ids, cacheVars, diskVars>>

\* The pages in neither cache are asked for in one call.
ReadMissing ==
  /\ status = "busy" /\ medium = "direct" /\ outcome # "busy" /\ InRange
  /\ Missing # {}
  /\ Disk!Ask /\ request' = Missing
  /\ UNCHANGED <<storeVars, cacheVars, stats>>

\* Mutant: the buffer is taken to start with the last page asked for.
StoreReversed(p) ==
  CHOOSE q \in delivered' : Rank(q, delivered') + Rank(p, request) + 1 = Cardinality(request)

\* The bytes of the buffer that are stored under page p.
BytesFor(p) == Cut(p, request, delivered')

StorePages ==
  [p \in DOMAIN queryCache \cup request |->
     IF p \in request THEN BytesFor(p) ELSE queryCache[p]]

PagesArrive ==
  /\ status = "busy" /\ Disk!AnswerPages
  /\ queryCache' = StorePages
  /\ Answer(queryCache', Cardinality(request))
  /\ UNCHANGED <<medium, ids, sharedCache>>

\* Mutant: a failed read is tried again.
ReadRetries ==
  /\ status = "busy" /\ Disk!AnswerError
  /\ UNCHANGED <<medium, ids, status, lists, stats, cacheVars>>

\* The read fails before anything is stored.
ReadFails ==
  /\ status = "busy" /\ Disk!AnswerError
  /\ status' = "error"
  /\ UNCHANGED <<medium, ids, lists, stats, cacheVars>>

\* MemoryGraphReader: the whole file is resident, nothing is counted.
ReadMemory ==
  /\ status = "busy" /\ medium = "memory" /\ InRange
  /\ LET found == [i \in DOMAIN ids |-> Decode(PageFor(ids[i]), ids[i])]
         ok    == \A i \in DOMAIN ids : WellFormed(found[i])
     IN  /\ status' = IF ok THEN "ok" ELSE "error"
         /\ lists'  = IF ok THEN found ELSE <<>>
  /\ UNCHANGED <<medium, ids, stats, cacheVars, diskVars>>

Next ==
  \/ Create \/ ExpandBeam
  \/ PageForFails \/ ReadCached \/ ReadMissing \/ PagesArrive \/ ReadFails
  \/ ReadMemory

Spec     == Init /\ [][Next]_graphVars

\* A scheduled worker goes on with a read, and the disk answers (AioReader).
FairSpec == Spec /\ WF_graphVars(status = "busy" /\ Next)

-----------------------------------------------------------------------------
(* Properties *)

\* What the file holds for a node, and whether it can be read.
FileList(n) == Graph[n]
Readable(n) == InGraph(n) /\ WellFormed(Graph[n])

\* Whatever is cached, a read returns the file's lists for the nodes asked
\* for, or an error: caches and disk together are a NodeStore.
Store == INSTANCE NodeStore WITH asked <- ids, Record <- FileList, Valid <- Readable
StoreSpec == Store!Spec

\* Within a query no page is read from the disk twice, and none that the
\* shared cache holds is read at all: the pages counted are those the query's
\* cache has gained, except for the read that ended the query in an error.
EachPageReadOnce ==
  /\ DOMAIN queryCache \cap DOMAIN sharedCache = {}
  /\ stats.sectors <= Cardinality(DOMAIN queryCache)
  /\ status = "ok" => stats.sectors = Cardinality(DOMAIN queryCache)

\* A read in progress comes to an answer.
ReadsReturn == status = "busy" ~> status # "busy"
=============================================================================
