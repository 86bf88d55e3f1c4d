----------------------------- MODULE AioReader -----------------------------
(***************************************************************************)
(* DirectAioReader of native/direct_io.cpp: one persistent native-AIO      *)
(* context, used by one worker, and the kernel it talks to.  read_pages    *)
(* sorts and deduplicates the page ids, coalesces adjacent ones into       *)
(* blocks, and reads the blocks in windows of at most MaxInflight          *)
(* requests.  A window is submitted (perhaps in several io_submit calls),  *)
(* reaped (perhaps in several io_getevents calls, in completion order) and *)
(* checked.  Any failure resets the context.                               *)
(*                                                                         *)
(* io_submit and io_getevents calls that return -EINTR are repeated by the *)
(* code with nothing changed: they are stuttering steps here.              *)
(***************************************************************************)
EXTENDS Integers, Sequences, FiniteSets

CONSTANTS
  PageCount,    \* pages of the file; page ids are 0 .. PageCount - 1
  PageLimit,    \* callers ask for page ids below PageLimit, valid or not
  MaxInflight,  \* max_inflight_
  MaxCoalesce,  \* max_coalesce_pages_
  MaxReads      \* bound: calls of read_pages over the life of a reader

ASSUME PageCountAssumption   == PageCount \in Nat \ {0}
ASSUME PageLimitAssumption   == PageLimit \in Nat
ASSUME MaxInflightAssumption == MaxInflight \in 1 .. 128
ASSUME MaxCoalesceAssumption == MaxCoalesce \in Nat \ {0}
ASSUME MaxReadsAssumption    == MaxReads \in Nat

Pages     == 0 .. PageLimit - 1
FilePages == 0 .. PageCount - 1

VARIABLES
  pc,         \* where the single worker is, see PcValues
  fd,         \* the file descriptor is open
  context,    \* context_: TRUE when the AIO context exists
  reads,      \* number of the current (or last) call of read_pages
  request,    \* page_ids of that call, as a set
  unplanned,  \* pages of the sorted, deduplicated list not yet in a block
  blocks,     \* result.blocks_: first_page, page_count
  filled,     \* indices of the blocks whose buffer the kernel has filled
  begin,      \* first block of the current window, minus one
  submitted,  \* requests of the window accepted by io_submit
  events,     \* io_events of the window reaped so far
  inflight,   \* kernel: requests accepted and not completed
  ring,       \* kernel: completions not reaped
  outcome,    \* how the last call of read_pages ended
  delivered   \* pages for which batch.page() returns the page's own bytes

readVars   == <<request, unplanned, blocks, filled, begin, submitted, events>>
kernelVars == <<inflight, ring>>
vars == <<pc, fd, context, reads, readVars, kernelVars, outcome, delivered>>

PcValues == {"closed", "idle", "plan", "submit", "reap", "check", "catch"}
BusyPcs  == PcValues \ {"closed", "idle"}
Block    == [first_page : Nat, page_count : 1 .. MaxCoalesce]
Request  == [read : Nat, token : Nat, block : Nat]     \* an iocb in the kernel
Event    == [read : Nat, token : Nat, good : BOOLEAN]  \* a struct io_event

TypeOK ==
  /\ pc \in PcValues
  /\ fd \in BOOLEAN
  /\ context \in BOOLEAN
  /\ reads \in Nat
  /\ request \in SUBSET Nat
  /\ unplanned \in SUBSET Nat
  /\ blocks \in Seq(Block)
  /\ filled \in SUBSET Nat
  /\ begin \in Nat
  /\ submitted \in 0 .. MaxInflight
  /\ events \in SUBSET Event
  /\ inflight \in SUBSET Request
  /\ ring \in SUBSET Event
  /\ outcome \in {"none", "busy", "ok", "error"}
  /\ delivered \in SUBSET Nat

-----------------------------------------------------------------------------
(* PageReadBatch *)

BlockPages(block) ==
  block.first_page .. (block.first_page + block.page_count - 1)

\* upper_bound over first_page, then the block before it.
LastBlockNotAfter(bs, page) ==
  CHOOSE i \in DOMAIN bs :
    /\ bs[i].first_page <= page
    /\ \A j \in DOMAIN bs : bs[j].first_page <= page => j <= i

\* PageReadBatch::page finds page in the batch ("page was not requested"
\* otherwise), and the bytes it returns have been read from the file.
PageReadable(bs, read, page) ==
  /\ \E i \in DOMAIN bs : bs[i].first_page <= page
  /\ LET i == LastBlockNotAfter(bs, page)
     IN  page \in BlockPages(bs[i]) /\ i \in read

\* The number of blocks in the current window.
WindowCount ==
  IF Len(blocks) - begin < MaxInflight THEN Len(blocks) - begin ELSE MaxInflight

Init ==
  /\ pc = "closed" /\ fd = FALSE /\ context = FALSE
  /\ reads = 0 /\ request = {} /\ unplanned = {} /\ blocks = <<>> /\ filled = {}
  /\ begin = 0 /\ submitted = 0 /\ events = {}
  /\ inflight = {} /\ ring = {}
  /\ outcome = "none" /\ delivered = {}

-----------------------------------------------------------------------------
(* Constructor and destructor *)

\* open, fstat and io_setup all succeed, or the descriptor is closed again.
Open ==
  /\ pc = "closed"
  /\ pc' = "idle" /\ fd' = TRUE /\ context' = TRUE
  /\ UNCHANGED <<reads, readVars, kernelVars, outcome, delivered>>

\* Mutant: the context is replaced without destroying the old one.
IoDestroyForgotten == UNCHANGED kernelVars

\* io_destroy cancels or completes what is in flight before it returns.
IoDestroy ==
  IF context THEN inflight' = {} /\ ring' = {} ELSE UNCHANGED kernelVars

Close ==
  /\ pc = "idle"
  /\ IoDestroy
  /\ pc' = "closed" /\ fd' = FALSE /\ context' = FALSE
  /\ reads' = 0 /\ request' = {} /\ unplanned' = {} /\ blocks' = <<>> /\ filled' = {}
  /\ begin' = 0 /\ submitted' = 0 /\ events' = {}
  /\ outcome' = "none" /\ delivered' = {}

-----------------------------------------------------------------------------
(* read_pages *)

\* The caller's ids are sorted and made unique; an empty list returns at once.
ReadPages(ids) ==
  /\ pc = "idle" /\ reads < MaxReads
  /\ reads' = reads + 1
  /\ request' = ids /\ unplanned' = ids
  /\ blocks' = <<>> /\ filled' = {} /\ delivered' = {}
  /\ begin' = 0 /\ submitted' = 0 /\ events' = {}
  /\ pc' = "plan" /\ outcome' = "busy"
  /\ UNCHANGED <<fd, context, kernelVars>>

NextPage == CHOOSE p \in unplanned : \A q \in unplanned : p <= q

NewBlock(page) == [first_page |-> page, page_count |-> 1]

\* Mutant: the next page joins the block although it is not adjacent.
CoalesceAcrossGaps(page) ==
  IF blocks # <<>> /\ blocks[Len(blocks)].page_count < MaxCoalesce
  THEN [blocks EXCEPT ![Len(blocks)].page_count = @ + 1]
  ELSE Append(blocks, NewBlock(page))

\* One more page of the sorted list joins the last block or starts a block.
Coalesce(page) ==
  LET last == blocks[Len(blocks)]
  IN  IF /\ blocks # <<>>
         /\ page = last.first_page + last.page_count
         /\ last.page_count < MaxCoalesce
      THEN [blocks EXCEPT ![Len(blocks)].page_count = @ + 1]
      ELSE Append(blocks, NewBlock(page))

PlanPage ==
  /\ pc = "plan" /\ unplanned # {}
  /\ NextPage < PageCount
  /\ blocks' = Coalesce(NextPage)
  /\ unplanned' = unplanned \ {NextPage}
  /\ UNCHANGED <<pc, fd, context, reads, request, filled, begin, submitted,
                 events, kernelVars, outcome, delivered>>

\* Mutant: a page id past the end of the file is skipped.
PlanSkipsOutOfRange ==
  /\ pc = "plan" /\ unplanned # {}
  /\ NextPage >= PageCount
  /\ unplanned' = unplanned \ {NextPage}
  /\ UNCHANGED <<pc, fd, context, reads, request, blocks, filled, begin, submitted,
                 events, kernelVars, outcome, delivered>>

\* "page id exceeds direct-I/O file", thrown before the try block: nothing
\* was submitted and the context is left as it is.
PlanOutOfRange ==
  /\ pc = "plan" /\ unplanned # {}
  /\ NextPage >= PageCount
  /\ pc' = "idle" /\ outcome' = "error" /\ blocks' = <<>> /\ unplanned' = {}
  /\ UNCHANGED <<fd, context, reads, request, filled, begin, submitted, events,
                 kernelVars, delivered>>

\* The result is returned once every window is done (or there is none).
Deliver ==
  /\ pc' = "idle" /\ outcome' = "ok"
  /\ delivered' = {p \in request : PageReadable(blocks, filled, p)}

PlanDone ==
  /\ pc = "plan" /\ unplanned = {}
  /\ IF blocks = <<>>
     THEN Deliver
     ELSE pc' = "submit" /\ UNCHANGED <<outcome, delivered>>
  /\ UNCHANGED <<fd, context, reads, readVars, kernelVars>>

\* Mutant: a partial io_submit is taken for a complete one.
IoSubmitOnce(n) ==
  /\ pc = "submit" /\ context /\ submitted < WindowCount
  /\ n \in 1 .. (WindowCount - submitted)
  /\ inflight' = inflight \cup
       {[read |-> reads, token |-> t, block |-> begin + t] :
          t \in (submitted + 1) .. (submitted + n)}
  /\ submitted' = submitted + n
  /\ pc' = "reap"
  /\ UNCHANGED <<fd, context, reads, request, unplanned, blocks, filled, begin,
                 events, ring, outcome, delivered>>

\* io_submit accepts the next n controls of the window.
IoSubmit(n) ==
  /\ pc = "submit" /\ context /\ submitted < WindowCount
  /\ n \in 1 .. (WindowCount - submitted)
  /\ inflight' = inflight \cup
       {[read |-> reads, token |-> t, block |-> begin + t] :
          t \in (submitted + 1) .. (submitted + n)}
  /\ submitted' = submitted + n
  /\ pc' = IF submitted + n = WindowCount THEN "reap" ELSE "submit"
  /\ UNCHANGED <<fd, context, reads, request, unplanned, blocks, filled, begin,
                 events, ring, outcome, delivered>>

\* io_submit returns an error or 0 and the code throws; without a context it
\* can do nothing else.
IoSubmitFails ==
  /\ pc = "submit"
  /\ pc' = "catch"
  /\ UNCHANGED <<fd, context, reads, readVars, kernelVars, outcome, delivered>>

\* io_getevents returns some completions, at least one, at most the missing ones.
IoGetevents(got) ==
  /\ pc = "reap"
  /\ got # {} /\ got \subseteq ring
  /\ Cardinality(got) <= WindowCount - Cardinality(events)
  /\ ring' = ring \ got
  /\ events' = events \cup got
  /\ pc' = IF Cardinality(events') = WindowCount THEN "check" ELSE "reap"
  /\ UNCHANGED <<fd, context, reads, request, unplanned, blocks, filled, begin,
                 submitted, inflight, outcome, delivered>>

IoGeteventsFails ==
  /\ pc = "reap"
  /\ pc' = "catch"
  /\ UNCHANGED <<fd, context, reads, readVars, kernelVars, outcome, delivered>>

\* Mutant: res and res2 of an event are not looked at.
EventAcceptedUnchecked(e) == e.token \in 1 .. WindowCount

\* Every event must carry a token of the window and a complete read.
EventAccepted(e) == e.token \in 1 .. WindowCount /\ e.good

CheckWindow ==
  /\ pc = "check"
  /\ \A e \in events : EventAccepted(e)
  /\ IF begin + MaxInflight < Len(blocks)
     THEN /\ begin' = begin + MaxInflight
          /\ submitted' = 0 /\ events' = {}
          /\ pc' = "submit"
          /\ UNCHANGED <<outcome, delivered>>
     ELSE Deliver /\ UNCHANGED <<begin, submitted, events>>
  /\ UNCHANGED <<fd, context, reads, request, unplanned, blocks, filled, kernelVars>>

CheckWindowFails ==
  /\ pc = "check"
  /\ \E e \in events : ~EventAccepted(e)
  /\ pc' = "catch"
  /\ UNCHANGED <<fd, context, reads, readVars, kernelVars, outcome, delivered>>

\* The catch block: reset_context, then the batch with its buffers is gone.
\* io_setup may fail, which leaves the reader without a context.
ResetContext(setupOk) ==
  /\ pc = "catch"
  /\ IoDestroy
  /\ context' = setupOk
  /\ pc' = "idle" /\ outcome' = "error"
  /\ blocks' = <<>> /\ filled' = {} /\ events' = {} /\ submitted' = 0 /\ begin' = 0
  /\ UNCHANGED <<fd, reads, request, unplanned, delivered>>

-----------------------------------------------------------------------------
(* The kernel *)

\* A request completes: the buffer of its block is filled, or the read is
\* short or failed.  Requests complete in any order.
KernelComplete(r, good) ==
  /\ r \in inflight
  /\ inflight' = inflight \ {r}
  /\ ring' = ring \cup {[read |-> r.read, token |-> r.token, good |-> good]}
  /\ filled' = IF good /\ r.read = reads THEN filled \cup {r.block} ELSE filled
  /\ UNCHANGED <<pc, fd, context, reads, request, unplanned, blocks, begin,
                 submitted, events, outcome, delivered>>

\* What the worker does when the kernel calls do not fail, and after a failure.
ReaderProgress ==
  \/ PlanPage \/ PlanOutOfRange \/ PlanDone
  \/ \E n \in 1 .. MaxInflight : IoSubmit(n)
  \/ \E got \in SUBSET ring : IoGetevents(got)
  \/ CheckWindow \/ CheckWindowFails
  \/ \E ok \in BOOLEAN : ResetContext(ok)
  \/ ~context /\ IoSubmitFails

CallFails == IoSubmitFails \/ IoGeteventsFails

Caller ==
  \/ Open \/ Close
  \/ \E ids \in SUBSET Pages : ReadPages(ids)

Kernel == \E r \in inflight, good \in BOOLEAN : KernelComplete(r, good)

Next == Caller \/ ReaderProgress \/ CallFails \/ Kernel

Spec == Init /\ [][Next]_vars

\* The worker thread is scheduled, EINTR does not repeat for ever, and the
\* kernel completes what it has accepted.  No kernel call is assumed to fail.
FairSpec == Spec /\ WF_vars(ReaderProgress) /\ WF_vars(Kernel)

-----------------------------------------------------------------------------
(* Properties *)

\* No request and no completion outlives the call of read_pages that made
\* it: the kernel never writes into a freed buffer, and the next call never
\* counts an old completion as its own.
NothingOutlivesItsRead ==
  \A r \in inflight \cup ring : r.read = reads /\ pc \in {"submit", "reap", "catch"}

\* The context of capacity MaxInflight is never asked to hold more requests
\* and unreaped completions than that (io_submit would refuse them).
ContextCapacityRespected ==
  Cardinality(inflight) + Cardinality(ring) <= MaxInflight

\* The blocks of a planned read are in file order, disjoint, at most
\* MaxCoalesce long, and hold exactly the requested pages.
BlocksPartitionRequest ==
  pc \in {"submit", "reap", "check"} =>
    /\ \A i, j \in DOMAIN blocks :
         i < j => blocks[i].first_page + blocks[i].page_count <= blocks[j].first_page
    /\ \A i \in DOMAIN blocks : blocks[i].page_count \in 1 .. MaxCoalesce
    /\ \A p \in Nat \cap (request \cup FilePages) :
         p \in request <=> \E i \in DOMAIN blocks : p \in BlockPages(blocks[i])

\* A read that returns without an error has every requested page, under the
\* page's own id, whatever the order of submissions and completions was and
\* whatever the calls before it did.
SuccessDeliversEveryPage ==
  outcome = "ok" => delivered = request /\ request \subseteq FilePages

\* read_pages always comes back to its caller.
EveryReadReturns == pc \in BusyPcs ~> pc = "idle"

\* AioReader implements PageStore.
Store == INSTANCE PageStore
StoreSpec == Store!Spec
=============================================================================
