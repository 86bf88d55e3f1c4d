# Verification of Ours-DiskANN

This directory models the quantized-graph search system of this repository in
TLA+, model-checks the models with TLC on small instances and proves the
results that matter most for instances of every size with TLAPS.  Paths below are
relative to `src/`; `05/` stands for `experiments/05_disk_system_fair/`, `02/`
for `experiments/02_diskann_fair/`.

1. [The system](#1-the-system)
2. [The models](#2-the-models)
3. [What is checked](#3-what-is-checked)
4. [What is proved](#4-what-is-proved)
5. [Disagreements between code and documents](#5-disagreements-between-code-and-documents)
6. [What is not modelled](#6-what-is-not-modelled)
7. [Plan](#7-plan)

## 1. The system

The repository holds a 4-bit quantized Vamana graph index ("Ours"), written in
C++ headers, and the experiments that compare it with other indexes.  Most of
its lines are vendored (`baselines/`).  Its own logic is in four places:

* `Ours/core/hnswlib/`: quantizer, graph construction, pruning, search, and the
  HNSW index it was derived from;
* `02/src/`: a DiskANN runner that builds and shares a Vamana graph, and a Rust
  implementation of the search of Ours over the C++ quantizer;
* `05/native/` and `05/native_rust/`: the disk experiment: an asynchronous page
  reader on Linux native AIO, page caches, payload files, worker threads;
* `05/*.py`: the orchestration of formal runs.

### Inventory

| Component | State it keeps | Operations | What makes it hard | What makes it correct |
|---|---|---|---|---|
| `DirectAioReader` (`05/native/direct_io.cpp`) | file descriptor, AIO context, the blocks of a read | open, `read_pages`, `reset_context`, close | completions in any order, partial submission, failure half way with requests in flight | a read gives all its pages or an error; nothing outlives it |
| Graph page cache (`05/native_rust/src/lib.rs`) | pages of the query, pages shared by all queries, counters | open per query, `read_nodes`, clear, export | stale pages, failed reads between two stores, last page half empty | a read gives the file's lists or an error; the disk is asked once per page |
| Payload readers (`ours_port.rs`, `baseline_disk.rs`) | layout, page cache of the query | `begin_query`, `read_records`, `read_code`, save | packed, exact and multi-page records; four ways to gather the same bytes | a record is that of its id |
| Search of Ours on disk (`ours_port.rs`) | pool, marks, survivors of the gate | read start, gate, read a chunk, gate again, rerank | decisions on a pool that moves while records are read; any read may fail | the answer of the search in memory, or an error |
| Query workers (`05/native_rust/src/main.rs`) | shared cursor, result slots, one error per worker | open, warm up, claim, search, join, collect | interleaving of threads, one of which fails or panics | every query answered once in its place, or the batch fails |
| Beam search (`vamana_search.h`) | candidate pool, visited marks, early-stop counters | start, expand frontier, mark, score, insert | pool entries move while the round runs; ties; full pool | sorted pool, each node once, closed at the end, terminates |
| Gated and batched search (`02/src/ours_diskann.rs`) | the same, and the estimates, counters and waiting batch | gate, collect, flush, k-th stop | decisions on a pool that has changed since | same answer and counters as the search one at a time |
| Visited scratch (both files) | tags, current tag | reset, `try_mark` | outlives searches and indexes, tag wraps | a set that every search finds empty |
| Robust prune (`vamana_prune.h`) | none | prune | passes under a growing alpha, bound in mid-pass | closest kept, kept are diverse, dropped are occluded |
| Graph construction (`vamana_index.h`) | adjacency lists, batch, backedge groups | bulk build, refine, (insert, save, load) | two parallel loops over shared lists | lists fit, one outcome whatever the order of threads |
| HNSW index (`Ours/core/hnswlib/hnswalg.h`) | links per element and layer, entry point, a lock per element, `global` | concurrent `addPoint`, search, update, deletion, resize, save, load | a thread holds its own element while it locks others; half-linked elements are met by others | no circular wait, nothing throws, no link twice, entry point highest, everything reached |
| Shared graph cache (`02/src/diskann_runner.rs`) | graph file, meta file | validate, load, build, save, describe | two files, runs that die, runs of other parameters | a run searches the graph of its own parameters |
| Index export (`05/native_rust/src/main.rs`) | page files, code files, marker, metadata | export, complete, load, search phase | overwrites in place, metadata last, directory shared by runs | a search uses the pages of the graph it is given |
| Formal runs (`05/orchestrator.py`, `native_contract.py`, `plot_05_disk_suite.py`) | artifacts, tuning lock, aggregate, manifest | export, tune, run, reuse, aggregate, plot | restarts, changed binaries, reuse | rows of an aggregate belong together |
| Bridge (`02/native/rabitq_bridge.cpp`) | handles | build, copy lists, score | fixed-width copies | a list that does not fit is refused |
| Quantizer (`space_rabitq.h`, ...) | centroids, codes | encode, estimate | floating point, SIMD | out of reach here |

### How the components interact

A worker (`QueryWorkers`) opens one backend per thread and runs searches.  The
search of Ours in memory (`BeamSearch`, `GatedSearch`, `BatchedSearch`) marks nodes in the
thread's scratch (`VisitedTags`); the one on disk (`StagedSearch`) asks a graph reader
(`GraphPageCache`) for the lists of a node, and a payload reader (`PayloadReader`) for the
full records of the nodes the gate lets through.  Both readers call `read_pages` of
`DirectAioReader` (`AioReader`) when a page is in no cache.  The graph was built
by `VamanaIndex` (`VamanaBuild`, with `RobustPrune`) or by the DiskANN library
through the shared graph cache (`SharedGraph`), and exported to pages.

`HierarchicalNSW` (`HnswInsert`) is an index of its own: `rabitq_hnsw.h` wraps it and
`hnswlib.h` exports it, and no program of the repository inserts into it.

The calls are synchronous, and each worker owns its readers; the state shared by
threads is the cursor and the result slots, the shared page cache (read-only once
loaded), during construction the adjacency lists, and all of the HNSW index.  The hazards of the code,
each at its line, are listed in `PROJECT.json`.

## 2. The models

Components meet at abstract specifications, so that each can be checked alone:

```
  PageStore  <= AioReader          one request, one answer: pages or an error
      ^  used by GraphPageCache and PayloadReader as their disk
  NodeStore  <= GraphPageCache     a beam of ids, its lists or an error
  MarkSet    <= VisitedTags        a set of marks; BeamSearch's variable marked
  BeamSearch <= GatedSearch <= BatchedSearch      (plain, gated, batched)
                GatedSearch <= StagedSearch over PayloadReader
  QueryBatch <= QueryWorkers       all answers in their places, or a failure
  RobustPrune, used by VamanaBuild
  SharedGraph and FormalRun stand alone: files, and processes that die
```

`X <= Y` says that Y is shown to implement X.

**AioReader** is the worker's side of `read_pages` in `05/native/direct_io.cpp` and
the kernel it talks to.  `pc` follows the function: planning (`PlanPage`, one page of
the sorted list at a time, coalesced into `blocks`), `submit` (`IoSubmit(n)`:
`io_submit` takes any n of the requests still to be submitted, 1 at least),
`reap` (`IoGetevents(got)`: any non-empty part of what has completed),
`check` (every event of the window against its block), and `catch`, the handler that
resets the context.  `inflight` and `ring` are the kernel's: a request carries
the read it belongs to and its token, so that a completion delivered to a later
read would show.  `filled` are the buffers the kernel has written.  A completion is
good or bad (error or short).  `io_submit` or `io_getevents` may fail at any
time, `io_setup` in `reset_context` as well, after which the reader has no context
and the next read fails until one is made.  Returning -EINTR repeats the call and is a
stuttering step.

**PageStore** is what a caller may rely on: a request is answered by exactly its
pages or by an error; a page past the end of the file is an error.

**GraphPageCache** is `lib.rs`: `Create` (the factory opens a backend per query),
`ExpandBeam` (a request for a beam), and the body of `read_nodes`: `PageForFails`
(an id outside the graph), `ReadCached`, `ReadMissing`, `PagesArrive`, `ReadFails`,
and `ReadMemory` for the resident backend.  A cache maps a page number to the
page whose bytes are kept under it, and both the bytes of a request and the shared
pages are cut by their position (`Cut`); nothing in the model says that the two agree,
that is part of the refinement.  `Decode` reads a record out of such a page, with the
checks of `decode_node` (`WellFormed`).  The stored graph may hold records that
violate them.

**PayloadReader** with **PageLayout** is `OursPayloadReader` and
`BaselinePayloadReader`.  Pages hold named bytes, written by the exporters' loops
(`File`), so that a record put together from the wrong page or the wrong offset is
seen.  `reader` names the way the records are gathered: `by page`, `coalescing` and
`reuse` are the ablations the program runs with Ours, `baseline` is `read_code`, with
the place where it looks for a code larger than a page (`CodeOffset`; it is not where the
writer has put it, see section 5) and the single page it has of it in memory
(`ReadCodeMemory`).  Every reader is given every layout.  `reads` is
history: how often each page was asked of the disk since the cache was cleared.

**BeamSearch** is `search_vamana`: a step per phase of the loop (`SelectFrontier`,
`VisitNode`, `MarkNeighbor`, `MarkDone`, `ScoreFresh`, `FinishRound`).  The pool
is the sorted sequence of `scratch.pool` and `Insert` is
`insert_candidate_sorted`.  Distances are numbers; graph, distances and start node are
inputs.  **GatedSearch** adds the one-bit estimate and its gate
(`search_ours_paper_active_legacy`).  **BatchedSearch** is
`search_ours_paper_active_inner` with `flush_distance_batch`.  **KthStop** adds to it
the k-th convergence stop and the history needed to say what the comment says of it.

**StagedSearch** is `search_ours_disk_graph`, the composition of that search with
`PayloadReader`: `CallReader` calls `read_records` with the ids the search needs next (the
start node, a chunk of survivors, the head of the final pool), `ReaderWorks` is every step of the
reader until it returns, and `ScoreStart`, `OfferChunk` and `FinishRerank` take the records.
The loop over the graph is `Traverse`, made of the actions of `BatchedSearch` (its batch is the
list of survivors) except that an id of no record is passed over.  `GraphFails` and
`PayloadError` are the two sources of errors.  The mapping to `BatchedSearch` (`Batched`, and
through it to the gated search) puts the start node into the pool from the beginning and takes
the ids of no record out of the lists (`Known`).

**VisitedTags** is the tag array with its wrap (`MaxTag` stands for
2^32 - 1), **MarkSet** the set it stands for.

**QueryWorkers** is `execute_config` and `execute_config_ours`: each worker goes
through `Open`, `WarmUp`, `Claim` (one `fetch_add`), `Search` (answer stored in the
place claimed) and ends; it may `Break` (an error or a panic) at any step.  The
caller joins in order, leaves the join loop on the first error, and leaves the
scope only when every thread has ended.  **QueryBatch** is all or nothing.

**RobustPrune** is `robust_prune_4bit` as operators: `Pass` offers the sorted
candidates one after the other (`Offer`), `Pruned` makes a pass for each level of alpha.  **VamanaBuild** is the bulk build and
refinement: iterations of the first parallel loop (`InsertNode`, `RefineNode`), the
sequential part between the loops (`AssignBatch`, `SwapGraph`), iterations of the
second (`LinkSource`).  `Found` is the search of the prefix as a function of the graph
(`BeamSearch` is the step-by-step model of it), `PrunePool` what the list of a node is
pruned from.  Distances are any integers: the estimate of the distance between codes of
different centroids may be negative.  An iteration is one
step because an iteration of the first loop writes only its own list and reads a graph
nobody writes, and one of the second reads and writes only the list of its source;
`OrderDoesNotMatter` compares the outcome with the sequential one.

**HnswInsert** is `addPoint` of a new label, by several threads at once.  `pc` follows
the function: `Allocate` (the next id, under `label_lookup_lock`), `TakeOwnLock`,
`TakeGlobal` (given back at once unless the element is higher than the index),
`ReadEntry`, the descent (`DescendTo`, `DescendLayer`), and on each layer the turns of
`searchBaseLayer` (`Expand`), the list of the new element (`Select`) and the links back
(`Connect`, one neighbour at a time), then `Publish` and `Unlock`.  A section under the
lock of another element takes no further lock, and is one step, whose guard is that no
thread holds the element.  Distances are left out: any candidate may be the closest,
any neighbours may be kept by the heuristic, any level may be drawn (the generator is
shared by the threads without a lock).  `label_op_locks_` are taken first and one to a call,
and need no model.  `begun` is history: the turn in which an element was linked on a
layer.

**SharedGraph** is the cache of `02`: `Start` decides with `is_valid` whether the run
loads or builds; `SaveGraph`/`GraphSaved` and `WriteMeta`/`MetaWritten` split each
write into truncation and completion; `Crash` may happen between any two.  A file is
named after a part of the parameters (`Stem`), the rest is only in the meta file.

**FormalRun** is the life of one method's files through the phases of
`orchestrator.py`.  `phase` says what the invocation in progress writes next.  An export
hashes the source graph (`Export`), reads it again into pages (`WritePages`), and
describes the pages by the hash it took first (`WriteMeta`, `MetaWritten`).  A run takes its
points in order: an artifact that is whole and of the executable now there is
taken over (`Reuse`), another is measured: `Measure` decides so, `Check` compares the hash of the
executable with the registry, and `StartPort` starts what is there by then, which truncates the
trace; `WriteArtifact` truncates the artifact and `ArtifactWritten` completes both, naming the
executable that was checked.  The tuning lock is written from the artifact of the validation
queries (`Tune`), measured now or earlier (`Validate`).  Rows and manifest
are replaced one after the other.  `Stop` ends an invocation anywhere; `Install`,
`Pin` and `Rebuild` replace the port (also between check and start), the registry and the
source graph.  `stamp` tells one measurement from another, `ran` says which executable took it;
these, `replaced`, `switched`, `swapped` and `mixed` are history.
`PlotterAccepts` is the check of `plot_05_disk_suite.py`.

Definitions introduced by a comment `Mutant:` are altered forms of a definition
below them, each the way a plausible bug would alter it.  They are used nowhere in
the models.  Put in the place of the definition they alter, each makes TLC report the
property that `PROJECT.json` pairs it with: they show that the property can fail.

## 3. What is checked

| Run | Instance | What it shows |
|---|---|---|
| `aio_reader` | 5 pages, ids up to one past the end, windows of 2, blocks of 2 pages, 2 reads per reader | isolation, exact blocks, completeness, refinement of `PageStore`, every read comes back |
| `graph_page_cache` | 5 nodes, 2 to a page, one record too long, one naming a missing node; beams of 2, queries of 5 visits | refinement of `NodeStore`, no page read twice in a query, every read answered |
| `staged_search` | a payload reader (pages of 4 bytes; records of 2, 3, 4, 6, 8 bytes; batches of 2) with free callers, or with a search of 4 nodes, pool of 2, chunks of 2, 2 graphs, both distances, valid and invalid bounds, sound or not | records are their own, errors have a cause (for a baseline also a code larger than a page), pages read once; the disk search refines the gated search in memory, returns, and with reuse reranks from the cache |
| `gated_search` | 8 graphs of 5 nodes, all distances 0..2, all sound bounds, pool of 3, beam of 2 | sorted and improving pool, each node once, closed at the end, same as the plain search, termination |
| `batched_search` | 4 graphs of 4 nodes, all distances and bounds, sound or not, batches of 2, early stop on | the batched search refines the legacy one |
| `visited_tags` | indexes of up to 3 nodes, tags up to 3 | the tags implement a set of marks, past the wrap and for changing sizes |
| `query_workers` | 3 workers, 4 queries in reverse order, warm-up of 4 | all or nothing, each answer in its place, no worker left behind, the call returns |
| `shared_graph` | 3 sets of parameters under 2 names, runs that die anywhere, without a bound on runs | own graph unless torn, reuse |
| `formal_run` | 2 executables, 2 graphs, 2 points of which the plotter asks for 1, 2 measurements, both roles of a graph | an index of two exports is searched only if its graph was put back, rows name one executable, and were measured with it, unless it was replaced under way, rows of listed artifacts are those artifacts |
| `vamana_build` | 5 nodes on a line in 160 arrangements, distances exact or estimated too low (some negative), R = 2, pool of 3, batches of 2, one refinement pass | lists fit, prefix closed, order of threads does not matter, neighbourhoods are pruned as they should be |
| `hnsw_insert` | 2 threads, 4 elements on up to 2 layers, M = 2 (lists of 4 and 2), results of 2 | no circular wait, no exception, no repeated link, entry point highest, every element reached |
| `kth_stop` | a chain of 3 nodes | violated: see section 5 |

**Why the bounds suffice.**  They are chosen for each boundary in the code to lie
inside them.  A read of the AIO reader has more pages than a block and more
blocks than a window, so coalescing, a second window and a partial one occur; two
reads are enough for something of the first to be met by the second.  The graph cache
has a half-filled last page, an id past the end that maps into it, and beams
with both nodes in one page.  The layouts of the payload reader are of each kind: packed with full
pages or a short last one, a record to a page with bytes to spare or none, records of two pages
with a padded or a full second one.  In the
staged search three survivors of one node make a full chunk and a short one.
The pools of the searches fill up, overflow and meet ties, and a batch fills up in the
middle of a neighbour list and is flushed unfilled at the end of one.  Tags wrap within three
searches.  There are more workers than queries left at the end of the order,
and workers fail in every phase.  Lists overflow R in both loops of the construction.
A formal run of two points takes two measurements; or one point is measured, listed and
measured again, beside rows and a manifest that hold the first measurement.  Three
measurements give over 40 million states, more than a run should have, and the three
properties are proved for any number.  Executables and graphs are symmetric.  The four elements of the HNSW run overflow the lists of the upper layer; those
of the lowest hold four, so that `InsertedIsReached` is about every state of this run.  With three
threads the run has 4.3 million states and takes longer than a run should; it was done once
and found nothing, and the safety theorems hold for every number of threads.  Environment steps of `FormalRun` are limited to the moments at which the code
is about to read the file (for the port: before a decision to reuse, before the check, and between
check and start), since at any other moment they come to the same as in the next such one; and
exports stop when no measurement is left: nothing but a measurement or `Validate` reads an
index.

**Fairness.**  `AioReader`: the worker is scheduled and the kernel
completes a request it has accepted; no call is assumed to succeed and none to fail
in the end.  `GraphPageCache`: a read in progress goes on, which `EveryReadReturns` of
`AioReader` gives.  `GatedSearch`: the search is one sequential function, so it takes its
next step while it has one; `StagedSearch` the same with its reader, whose page reads
return (`EveryReadReturns`).  `QueryWorkers`: every thread is scheduled by the
operating system and a search returns (that is `Terminates` of the search and
`ReadsReturn` of the graph reader).  Nothing else is assumed, and `HnswInsert`
states no liveness: a search that always meets new elements may go on, and what a lock could
do against progress is `NoCircularWait`.  In particular no
action of the environment that helps (a failure, a crash) is fair.

Deadlock is checked wherever the component goes on for ever (readers, scratch, shared
graph, formal runs); the searches, the batch of queries and the construction really stop.

## 4. What is proved

Each theorem holds for every value of the constants, under the assumptions named in the
module that declares them (sizes are natural numbers, neighbour lists are sequences,
the query order is a permutation).

* **AioReaderProofs**: the five safety properties and the refinement of
  `PageStore`.  `IndInv` strengthens the properties by `PlanInv` (the blocks planned so far
  partition the part of the request already taken, and lie below the rest),
  `TokenInv` (each request, completion and reaped event of the window carries a token
  of its own) and `FillInv` (a good completion means a filled buffer).  The
  properties alone are not inductive: that the window is fully reaped when the number of
  events equals the number submitted needs the tokens to be distinct, and then a
  counting argument (`TokenCounting`) shows that nothing is left in the kernel.
* **SearchProofs**, on the three searches in memory, from one set of lemmas about insertion.
  - The plain search: types, `PoolSorted`, `EachNodeOnce`, `RanksNeverWorsen` as an action
    property, and `Closed`.  The core is `InsertKeepsPool`: insertion at the lower bound keeps
    a strictly sorted sequence sorted, contains the node or drops it, and no rank worsens.
    The invariant also relates `fresh` and `marked`, so that a node being scored is not
    yet in the pool.  `Closed` needs to know, of each phase, what the frontier still holds
    (`Phases`), that a marked node is expanded, waiting in the frontier or pending
    (`MarkedPlaced`, `ExpandedSeen`), and that the last round found an empty beam
    (`AllExpanded`).
  - The gated search: with sound bounds it is step by step the plain search, for every graph.
    A node that the gate rules out has a distance above the worst of a full pool
    (`GateMeansNoInsert`), so skipping it is inserting it.
  - The batched search: the parity with the legacy search, for any bounds, sound or not.
    `Waiting` says of every entry of the batch that it passed the gate against a pool at
    least as bad as the one its offer will meet; what a flush computes (`Offered`, a recursive
    function on the batch) is the pool and counters the legacy search has reached by the same
    node (`OfferedSteps`, `OfferedSkips`).
  - A batch offered in parts (`FlushPart`): offering the first nodes of the batch and leaving
    the rest waiting keeps the invariant and is a stutter of the legacy search
    (`PartKeepsInv`, `PartIsNotSeen`).  This is what the disk search does to its survivors.
* **StagedSearchProofs**, on the payload readers and the search of the disk experiment.
  - The layouts: the bytes at the offset of a record are those of the record, in a packed file,
    whose last page may be short, and in a file of padded records (`FileIs`), so a record put together
    from its pages (`ExtractIs`) or cut out of the resident bytes (`SliceIs`) is right.  A baseline
    finds a code in its page, and one larger than a page either where it lies, when the writer
    has added no padding or it is the first, or not at all: it then lacks a page and fails
    (`CodeIs`).  So neither theorem on the readers assumes anything of the layout.  The file is a concatenation of sequences of one length
    (`FlattenChunks`).
  - The readers: types, `RecordsAreTheirOwn`, `ErrorsHaveACause` and `EachPageReadOnce`.  `PInv` adds
    that every cache keeps each page under its own number (`OwnPages`; the bytes of a request come
    back in the order of the page numbers, and equal ranks name equal pages, `RankTells`), that
    what the disk was asked for is what the call still lacks (`InProgress`), and that a page
    counted as read is held or on its way unless the query has failed (`ReadsCounted`).
  - The search: `PoolPagesHeld` (a node enters the pool with its pages in the cache, which only
    grows during a query) and the refinement of the gated search.  The module is built on an
    instance of SearchProofs (`Mem`): every step is a step of the batched search, an offer
    of a part of its batch, or nothing to it (`StepIsAlike`), so that the invariant and the
    refinement are those proved there.
* **VamanaProofs**, on the construction and the scratch of its searches.
  - Pruning (`PrunedIs`): `Sound` says what holds of the kept neighbours before every
    candidate (they fit, are candidates, the closest is the first, none stands for a later
    one), `Settled` what lies behind a candidate (it is kept or occluded); an offer keeps the first
    and loses nothing of the second (`OfferKeeps`), so a pass that ends with room left has
    settled every candidate under its alpha (`PassIs`, `LevelsAre`).  That a kept neighbour does not
    stand for a later one under a *larger* alpha than that of its pass needs their distance not to be
    negative; the code does not give that, so `KeptAreDiverse` asks it of the pair.
  - Searching (`FoundInside`): a search never leaves a set of nodes that holds its start and
    that no list leaves.
  - The two loops: types, `ListsFit`, `SearchedPrefixIsClosed`, `OrderDoesNotMatter` and
    `ListsArePruned`.  `BuildInv` says of the search loop that every list made so far is the one
    that the graph before it gives (`Searching`), and of the link loop that every source done
    has what its group gives it and every other what the search loop gave (`Linking`); `Base` is what
    one batch leaves to the next: lists that fit and, while nodes are inserted, a prefix that
    is closed.  Neither `ListsFit` nor the closed prefix is inductive alone: a list that is linked
    fits because what it is linked from does, and names only nodes of the batch and before it
    because the search that made the groups stayed before the batch.
  - The scratch implements `MarkSet` for every tag width and every sequence of index
    sizes; the invariant is that no tag is ahead of the current one.
* **QueryWorkersProofs**: types, `ClaimedOnce`, `NoResultMissing`,
  `NoWorkerLeftBehind` and the refinement of `QueryBatch`, for any number of workers and
  queries.  The invariant adds which places below the cursor are held, answered or
  lost, and that the cursor is past the end only as often as workers have found it there.
* **FormalRunProofs**: the three properties of `FormalRun`.  `IndInv` adds that
  what an invocation has been through is measured, under the name of the executable there is
  unless it was replaced (`SettledInv`), that an artifact was measured by the executable it
  names unless that was replaced between check and start (`LabelInv`, which every earlier
  invocation must have kept, since artifacts are reused), that rows not yet listed are the
  measurements (`RowsInv`), and that measurements are numbered by their order (`StampInv`): an artifact
  once taken again is never equal to a listed one, which is what makes an unchanged hash
  say that the rows are unchanged too.
* **GraphFileProofs**, on the files a search reads its graph from.
  - The graph reader: types, `EachPageReadOnce` and the refinement of `NodeStore`, for any
    graph, page size, beams and caches.  `PageCacheIInv` says that a cached page lies under its
    own number and the two caches share none (`CacheInv`), that what the disk was
    asked for is still what is missing when it answers (`ReadInv`), and that the sectors
    counted are the pages gained (`Counted`).  `BytesAre` shows that the bytes of a request, which
    come back in ascending order, are stored under the right numbers, and `OnItsPage` that a node is
    decoded from its own slot of its own page, the last page included; `AnswerIs` puts them
    together.
  - The shared graph: types, `UsesOwnGraphUnlessTorn` and `CompletedBuildIsReused`, for any
    build parameters and any naming of the files.  `SharedIInv` says what one run leaves to the
    next: a whole description is true of its graph except between the two writes or after a
    death there (`Described`), and the files of a name are those of its last
    completed run until the next one overwrites them (`Kept`).
* **HnswInsertProofs**: types, `NoCircularWait`, `NothingThrows`, `AppendsOnce`,
  `EntryIsHighest` and `InsertedIsReached`, for any number of threads, elements, layers and neighbours.  `IInv` says
  who holds which lock (`Locks`), that the entry point is complete and highest unless the
  first element is just being published (`Entry`), that turns are given in order (`Turns`),
  which layers the element of a thread has begun on, by where the thread is (`Phases`), that
  links join elements that have begun (`Lists`), and that a search has met only such
  elements, links back to earlier turns and leaves a layer from an element that is complete
  below it (`Searches`).  None of the properties is inductive without turns: a thread may
  descend through an element because that was not locked when it was reached, so that it has
  begun on all its layers.  From `IInv` follows the order in which locks are waited for:
  from the top layer down, on one layer by searches before connections, and between two
  connections from the later turn to the earlier (`LockOrder`); a group of
  waiting threads has a lowest one in this order.
  `InsertedIsReached` has an invariant of its own, `ReachInv`, as long as no list of the
  lowest layer can be full.  There every element but the first is linked both ways with one of an
  earlier turn, or is about to be (`Joined`, `Joining`); links only lead to elements that
  have joined, and searches and the entry point stay among them.  No induction over paths is
  needed: the least turn in a set that is closed under links is that of the first element, and
  the least turn outside such a set has its earlier neighbour inside (`JoinedIsReached`).

Only model-checked: everything about liveness and fairness (out of the proof system's
reach, like ENABLED).

Induction theorems take an operator as a parameter, which no installed prover can
instantiate.  Where a proof needs induction over numbers it goes by the least counterexample
(`LeastNumber`): a set of numbers that is not empty has a least member, and the step before
it refutes it.  Recursive functions are unfolded in the same way (`ChainExists`,
`IterationExists`), and a set is put in order by counting what lies below each element
(`SortedIs`).

## 5. Disagreements between code and documents

* **k-th convergence stop** (`kth_stop`).  The comment in `ours_diskann.rs` says that once
  the k-th distance is at most every unexpanded candidate's lower bound "the top-k
  cannot change".  The bounds are on the candidates themselves, not on the nodes
  behind them: TLC finds a chain in which a far node leads to the best one.
Others were met, and are not runs of their own:

* `02/README.md:31`: "Changing them invalidates the cached graph".  The graph file is
  overwritten before the meta file that describes it (`diskann_runner.rs:779`), and both
  names leave out the batch parameters.  A run that dies between the two leaves the graph
  of one batch size under the description of another, which the next run takes over.
  `UsesOwnGraphUnlessTorn` says that this is the only way.
* The comment on `setBuildEarlyStopHops` (`vamana_index.h:195`) speaks of the best pool
  distance; the code (`vamana_search.h:184`) follows the worst one of the full pool,
  and counts the round that fills it as a stall.
* "The run aborts if the executable changes" (`05/README.md:71`): only an item that is
  measured is compared with the pinned executable, not one that is reused
  (`orchestrator.py:622`); and the comparison (`:439`) comes before the query order, the hash
  of the graph and a call of git, after which the port is started (`:535`) with the hash that was
  compared.  The port writes this hash into the artifact (`main.rs:1656`), whatever it
  is itself.  An executable that replaces it in between measures under its name, and when the old
  one is back the artifact is reused.  `OneBinaryUnlessSwitched` says what is left.
* "The plotter verifies artifact hashes" (`05/README.md:130`): those the manifest
  lists.  Rows written by a run that died before its manifest may hold points that
  the older manifest does not list; `ListedRowsAreVerified` says what is left.

One contradicts no document, but the code itself.  Codes larger than a page are written, and their
pages requested, padded to whole pages (`baseline_disk.rs:158` and `:88`), and looked for as if they
were not (`:106`); in memory the reader has one page of them at hand (`:250`).  Such a code is refused
("was not read") in memory always, and on disk unless it is the first or its length is a
whole number of pages; it is never returned wrong.  `ErrorsHaveACause` says exactly when, and
`RecordsAreTheirOwn` that nothing wrong is returned.  No data of the repository has codes of
more than 4096 bytes.

## 6. What is not modelled

Floating-point kernels (the quantizer, distance tables), experiments
01, 03 and 04 (sequential measurement), vendored code, plotting, command lines and
report formats.  Nine tenths of the repository's lines are the vendored baselines
(`baselines/`, most of it the DiskANN workspace), which is why the models stand for a small
part of them.

Of the HNSW index, updates of existing labels, deletion, `searchKnn`, resizing, saving and loading
are left out.  Reading showed races there that the model does not have:
`updatePoint` computes lists without a lock and writes them later, so that a link made in
between is lost or repeated; `epDeleted` of a search is read apart from the deletion marks of what it
collects; and `addPoint` of a label that exists, with `replace_deleted`, leaves the older
element behind, against the comment above it.  The native ports of other systems wrap `DirectAioReader` around other
projects' searches.  Of the formal runs, the contents of the tuning lock, the query order
files and the interplay of several methods are left out, and code files torn by an
export that died are taken to be refused by their loaders.  The choice of cached pages,
insertion, saving and loading of `VamanaIndex`, and the lazily built sidecar are left out as
well: they are sequential, or used by one thread only in this repository's programs.

## 7. Plan

What would add most, in order:

1. **FormalRun, extended**: several methods and their tuning lock (tuning a subset replaces
   it), query order files, code files torn in mid-export; and `SharedGraph` as the
   source of its graphs.
2. **HnswInsert, extended**: updates of existing labels and deletion beside insertion, whose
   races section 6 names.
3. **Insertion, saving and loading** of `VamanaIndex`, and the double-checked locking of
   its sidecar.
4. **CacheSelection**: the breadth-first choice of shared pages under the memory budget.
