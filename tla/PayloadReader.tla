--------------------------- MODULE PayloadReader ---------------------------
(***************************************************************************)
(* The payload readers of the disk searches                                *)
(* (05_disk_system_fair/native_rust): OursPayloadReader of ours_port.rs    *)
(* gathers the 4-bit records of a batch of nodes, BaselinePayloadReader of *)
(* baseline_disk.rs the PQ, SQ or SAQ code of one node, from the resident  *)
(* image of the payload file or from its pages on disk.  Three of the      *)
(* ablations of Ours differ in how: page by page for each record, all      *)
(* pages of a batch in one request, or the same with the pages of the      *)
(* query kept for later batches.  The baselines read page by page and keep *)
(* the pages of the query.  The disk is PageStore.  A record is one run of *)
(* bytes here: its compact and residual parts lie one after the other.     *)
(***************************************************************************)
EXTENDS PageLayout, FiniteSets

CONSTANTS
  Layouts,      \* the layouts a run may have
  PageLimit,    \* bound: no layout has more pages
  IdLimit,      \* bound: ids asked for are below it, some not in the file
  BatchLimit    \* bound: ids asked for in one call

ASSUME PageSizeAssumption == PageSize \in Nat \ {0}
ASSUME LimitsAssumption == {PageLimit, IdLimit, BatchLimit} \subseteq Nat
ASSUME LayoutsAssumption ==
  \A l \in Layouts : /\ l.count \in Nat \ {0} /\ l.bytes \in Nat \ {0}
                     /\ l.count <= IdLimit /\ PageCount(l) <= PageLimit

VARIABLES
  layout,
  medium,       \* "memory" or "direct"
  reader,       \* "by page", "coalescing" or "reuse", the ablations of Ours,
                \* or "baseline"
  queryCache,   \* query_cache: page id -> the page whose bytes are kept there
  ids,          \* the batch of the call in progress, or of the last one
  status,       \* "none", "busy" during a call, then "ok" or "error"
  local,        \* the pages gathered for the record in progress, page by page
  batch,        \* the records gathered so far, or returned
  reads,        \* how often each page was read from the disk since the cache was cleared
  request, outcome, delivered   \* the disk

callVars    == <<ids, status, local, batch>>
diskVars    == <<request, outcome, delivered>>
runVars     == <<layout, medium, reader>>
payloadVars == <<runVars, queryCache, callVars, reads, diskVars>>

Readers  == {"by page", "coalescing", "reuse", "baseline"}
NoPages  == [p \in {} |-> 0]
AllPages == 0 .. PageLimit - 1
NoReads  == [p \in AllPages |-> 0]
Ids      == 0 .. IdLimit - 1
Caches   == UNION {[S -> AllPages] : S \in SUBSET AllPages}

Disk == INSTANCE PageStore WITH Pages <- AllPages, FilePages <- AllPages

TypeOK ==
  /\ layout \in Layouts /\ medium \in {"memory", "direct"}
  /\ reader \in Readers
  /\ queryCache \in Caches /\ local \in Caches
  /\ ids \in Seq(Ids) /\ reads \in [AllPages -> Nat]
  /\ status \in {"none", "busy", "ok", "error"}
  /\ Len(batch) <= Len(ids)
  /\ \A i \in DOMAIN batch : Len(batch[i]) = layout.bytes
  /\ request \in SUBSET AllPages /\ delivered \in SUBSET AllPages
  /\ outcome \in {"none", "busy", "ok", "error"}

-----------------------------------------------------------------------------
(* Where a record is *)

InFile(id) == id < layout.count

\* What the pages of each file hold.
Contents == [l \in Layouts |-> [p \in 0 .. PageCount(l) - 1 |-> PageBytes(l, p)]]

\* The record put together from pages, each byte from the page it is in.
ByteAt(l, pages, at) == Contents[l][pages[at \div PageSize]][(at % PageSize) + 1]
Extract(l, pages, id) == [k \in 1 .. l.bytes |-> ByteAt(l, pages, RecordOffset(l, id) + k - 1)]

\* The code of a baseline, put together from the pages where it is looked for.
Code(l, pages, id) == [k \in 1 .. l.bytes |-> ByteAt(l, pages, CodeOffset(l, id) + k - 1)]

Wanted == UNION {PagesFor(layout, ids[i]) : i \in DOMAIN ids}

\* append_record for each id of the batch, the error of a missing page included.
Gather(pages) ==
  IF Wanted \subseteq DOMAIN pages
  THEN status' = "ok" /\ batch' = [i \in DOMAIN ids |-> Extract(layout, pages, ids[i])]
  ELSE status' = "error" /\ batch' = <<>>

\* BaselinePayloadLayout::extract, with the error of a page that was not read.
GatherCode(pages) ==
  IF CodePages(layout, ids[1]) \subseteq DOMAIN pages
  THEN status' = "ok" /\ batch' = <<Code(layout, pages, ids[1])>>
  ELSE status' = "error" /\ batch' = <<>>

-----------------------------------------------------------------------------
(* The calls *)

\* OursPayloadFactory::create, for one of the ablations of main.rs, or
\* BaselinePayloadFactory::create.
Init ==
  /\ layout \in Layouts
  /\ medium \in {"memory", "direct"}
  /\ reader \in Readers
  /\ queryCache = NoPages /\ local = NoPages /\ reads = NoReads
  /\ ids = <<>> /\ status = "none" /\ batch = <<>>
  /\ Disk!Init

\* begin_query
BeginQuery ==
  /\ status \in {"ok", "error"}
  /\ queryCache' = NoPages /\ reads' = NoReads
  /\ ids' = <<>> /\ status' = "none" /\ local' = NoPages /\ batch' = <<>>
  /\ UNCHANGED <<runVars, diskVars>>

\* The batches a call may be made with: a baseline asks for one node of the
\* graph, Ours also for ids that are not in the file.
Batches ==
  IF reader = "baseline" THEN {<<id>> : id \in 0 .. layout.count - 1}
                         ELSE UNION {[1 .. n -> Ids] : n \in 1 .. BatchLimit}

\* Mutant: the reuse flag of Ours is lost on the way to read_records.
KeepsCodePages == reader = "baseline"

KeepsPages == reader \in {"reuse", "baseline"}

\* read_records or read_code is called; an error would have ended the query.
ReadRecords ==
  /\ status \in {"none", "ok"}
  /\ ids' \in Batches
  /\ status' = "busy" /\ local' = NoPages /\ batch' = <<>>
  /\ IF KeepsPages THEN UNCHANGED <<queryCache, reads>>
                   ELSE queryCache' = NoPages /\ reads' = NoReads
  /\ UNCHANGED <<runVars, diskVars>>

\* record_offset refuses an id that is not in the file, before any page is read.
InRange == \A i \in DOMAIN ids : InFile(ids[i])
RefuseId ==
  /\ status = "busy" /\ ~InRange
  /\ status' = "error" /\ batch' = <<>>
  /\ UNCHANGED <<runVars, queryCache, ids, local, reads, diskVars>>

\* extract_from_bytes, record after record
ReadMemory ==
  /\ status = "busy" /\ medium = "memory" /\ reader # "baseline" /\ InRange
  /\ status' = "ok"
  /\ batch' = [i \in DOMAIN ids |->
                 SubSeq(File(layout), RecordOffset(layout, ids[i]) + 1,
                        RecordOffset(layout, ids[i]) + layout.bytes)]
  /\ UNCHANGED <<runVars, queryCache, ids, local, reads, diskVars>>

\* The resident image of a baseline: one page is copied out of it, the first of
\* those the code was written to.
FirstPage(l, id) == RecordOffset(l, id) \div PageSize
ReadCodeMemory ==
  /\ status = "busy" /\ medium = "memory" /\ reader = "baseline"
  /\ GatherCode([p \in {FirstPage(layout, ids[1])} |-> p])
  /\ UNCHANGED <<runVars, queryCache, ids, local, reads, diskVars>>

FromDisk == status = "busy" /\ medium = "direct" /\ InRange

\* The bytes of a request come back one page after the other, ascending: those of
\* its n-th page are those of the n-th page delivered.
Rank(p, pages) == Cardinality({q \in pages : q < p})
Slot(p)     == CHOOSE q \in delivered' : Rank(q, delivered') = Rank(p, request)
With(pages) == [p \in DOMAIN pages \cup request |-> IF p \in request THEN Slot(p) ELSE pages[p]]

Counted(pages) == [p \in AllPages |-> IF p \in pages THEN reads[p] + 1 ELSE reads[p]]

\* A page of a call cannot be read: the call fails.
ReadFails ==
  /\ FromDisk /\ Disk!AnswerError
  /\ status' = "error" /\ batch' = <<>>
  /\ UNCHANGED <<runVars, queryCache, ids, local, reads>>

-----------------------------------------------------------------------------
(* Page by page: the next record's pages are read one at a time *)

Current == ids[Len(batch) + 1]
NextPage == CHOOSE p \in PagesFor(layout, Current) \ DOMAIN local :
              \A q \in PagesFor(layout, Current) \ DOMAIN local : p <= q

PageByPage == FromDisk /\ reader \in {"by page", "baseline"}

\* The last page of a record completes it: append_record, or extract.
Hold(held) ==
  LET done == PagesFor(layout, Current) \subseteq DOMAIN held
  IN  \/ /\ ~done
         /\ local' = held
         /\ UNCHANGED <<batch, status>>
      \/ /\ done /\ reader # "baseline"
         /\ local' = NoPages
         /\ batch' = Append(batch, Extract(layout, held, Current))
         /\ status' = IF Len(batch') = Len(ids) THEN "ok" ELSE "busy"
      \/ /\ done /\ reader = "baseline"
         /\ local' = NoPages
         /\ GatherCode(held)

TakeCached ==
  /\ PageByPage /\ outcome # "busy" /\ NextPage \in DOMAIN queryCache
  /\ Hold([p \in DOMAIN local \cup {NextPage} |->
             IF p = NextPage THEN queryCache[p] ELSE local[p]])
  /\ UNCHANGED <<runVars, queryCache, ids, reads, diskVars>>

ReadPage ==
  /\ PageByPage /\ outcome # "busy" /\ NextPage \notin DOMAIN queryCache
  /\ request' = {NextPage} /\ Disk!Ask
  /\ reads' = Counted({NextPage})
  /\ UNCHANGED <<runVars, queryCache, callVars>>

\* Mutant: the cache is not told of the page.
ArrivesUncached ==
  /\ PageByPage /\ Disk!AnswerPages
  /\ Hold(With(local))
  /\ UNCHANGED <<runVars, queryCache, ids, reads>>

PageArrives ==
  /\ PageByPage /\ Disk!AnswerPages
  /\ Hold(With(local))
  /\ queryCache' = IF KeepsPages THEN With(queryCache) ELSE queryCache
  /\ UNCHANGED <<runVars, ids, reads>>

-----------------------------------------------------------------------------
(* Coalesced: the pages of the whole batch, each once, those at hand left out *)

Coalesced == FromDisk /\ reader \in {"coalescing", "reuse"}

Missing == Wanted \ DOMAIN queryCache

ReadMissing ==
  /\ Coalesced /\ outcome # "busy"
  /\ Missing # {}
  /\ request' = Missing /\ Disk!Ask
  /\ reads' = Counted(Missing)
  /\ UNCHANGED <<runVars, queryCache, callVars>>

\* Mutant: gathered from the pages just read, not from the cache.
ArriveGathersNew ==
  /\ Coalesced /\ Disk!AnswerPages
  /\ queryCache' = IF reader = "reuse" THEN With(queryCache) ELSE queryCache
  /\ Gather(With(NoPages))
  /\ UNCHANGED <<runVars, ids, local, reads>>

\* The pages go to the cache of the query, or to a temporary map.
PagesArrive ==
  /\ Coalesced /\ Disk!AnswerPages
  /\ queryCache' = IF reader = "reuse" THEN With(queryCache) ELSE queryCache
  /\ Gather(IF reader = "reuse" THEN queryCache' ELSE With(NoPages))
  /\ UNCHANGED <<runVars, ids, local, reads>>

GatherCached ==
  /\ Coalesced /\ Missing = {}
  /\ Gather(queryCache)
  /\ UNCHANGED <<runVars, queryCache, ids, local, reads, diskVars>>

\* What a call does until it returns.
Serve ==
  \/ RefuseId \/ ReadMemory \/ ReadCodeMemory \/ ReadFails
  \/ TakeCached \/ ReadPage \/ PageArrives
  \/ ReadMissing \/ PagesArrive \/ GatherCached

Next == BeginQuery \/ ReadRecords \/ Serve

Spec == Init /\ [][Next]_payloadVars

-----------------------------------------------------------------------------
(* Properties *)

\* However the pages are read, and whatever the cache holds, a call that
\* succeeds returns for each id the bytes that were written for that id, in
\* the order of the ids.
RecordsAreTheirOwn ==
  status = "ok" => batch = [i \in DOMAIN ids |-> RecordOf(layout, ids[i])]

\* A code larger than a page that a baseline cannot find: in memory, where one page
\* is at hand, every one; on disk, where those of its record are, every one but
\* the first, unless codes are whole pages long and need no padding.
Unfindable ==
  /\ reader = "baseline" /\ layout.bytes > PageSize
  /\ medium = "memory" \/ (ids[1] > 0 /\ layout.bytes % PageSize # 0)

\* A call of Ours fails only for an id that is not in the file or after a failed
\* read, whatever the layout: it never misses a page it has asked for.  The call of
\* a baseline may, and does so exactly for codes that it cannot find.
ErrorsHaveACause ==
  /\ status = "error" => ~InRange \/ outcome = "error" \/ Unfindable
  /\ status = "ok" => InRange /\ ~Unfindable

\* A coalesced call reads no page twice, with reuse and for a baseline no call
\* of the query reads a page again, and what the cache holds was read for this query.
EachPageReadOnce ==
  /\ reader # "by page" => \A p \in AllPages : reads[p] <= 1
  /\ DOMAIN queryCache \subseteq {p \in AllPages : reads[p] > 0}
=============================================================================
