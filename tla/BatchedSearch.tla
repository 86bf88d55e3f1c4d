--------------------------- MODULE BatchedSearch ---------------------------
(***************************************************************************)
(* search_ours_paper_active_inner and flush_distance_batch of              *)
(* 02_diskann_fair/src/ours_diskann.rs: the search that is measured.  The  *)
(* neighbours that pass the gate are collected, their distances are        *)
(* computed together, and each goes through the gate a second time before  *)
(* it enters the pool, because the pool has moved on since the first one.  *)
(*                                                                         *)
(* It must give the answer, and do the counted work, of the one-at-a-time  *)
(* search of GatedSearch (verify_search_parity), bounds sound or not.      *)
(***************************************************************************)
EXTENDS GatedSearch

CONSTANT BatchSize   \* DIST_BATCH_SIZE

ASSUME BatchSizeAssumption == BatchSize \in Nat \ {0}

VARIABLE batch       \* batch_ids: nodes waiting for their distance

batchedVars == <<gatedVars, batch>>

BPcValues == PcValues \cup {"flush"}

BTypeOK ==
  /\ graph \in Graphs /\ dist \in [Nodes -> Distances] /\ bound \in [Nodes -> Bounds]
  /\ pc \in BPcValues
  /\ pool \in Seq(Entry)
  /\ marked \in SUBSET Nodes
  /\ frontier \in Seq(Nodes) /\ links \in Seq(Nat) /\ fresh \in Seq(Nodes)
  /\ {backBefore, stall, visited, scored, skipped} \subseteq Nat
  /\ batch \in Seq(Nodes) /\ Len(batch) <= BatchSize

BInit == GInit /\ batch = <<>>

\* Mutant: a node that passed the first gate enters the pool unconditionally,
\* as if the pool had not changed since.
OfferUngated(state, node) ==
  [pool |-> Insert(state.pool, node), scored |-> state.scored + 1, skipped |-> state.skipped]

\* One turn of the loop of flush_distance_batch: the second gate, the pool.
Offer(state, node) ==
  IF Gate(state.pool, node)
  THEN [state EXCEPT !.skipped = @ + 1]
  ELSE [pool |-> Insert(state.pool, node), scored |-> state.scored + 1,
        skipped |-> state.skipped]

\* The state once the first n nodes of the batch have been offered.
Offered(n) ==
  LET after[i \in 0 .. n] ==
        IF i = 0 THEN [pool |-> pool, scored |-> scored, skipped |-> skipped]
                 ELSE Offer(after[i - 1], batch[i])
  IN  after[n]

\* flush_distance_batch is also called after the last neighbour of a node.
NextSlot ==
  /\ fresh' = Tail(fresh)
  /\ pc' = IF Len(batch') >= BatchSize \/ Len(fresh) = 1 THEN "flush" ELSE "score"
  /\ UNCHANGED <<input, bound, pool, marked, frontier, links, stopVars, visited, scored>>

\* The first gate looks at the pool as the last flush left it.
SkipSlot ==
  /\ pc = "score" /\ fresh # <<>> /\ Gate(pool, Head(fresh))
  /\ skipped' = skipped + 1
  /\ batch' = batch
  /\ NextSlot

CollectSlot ==
  /\ pc = "score" /\ fresh # <<>> /\ ~Gate(pool, Head(fresh))
  /\ batch' = Append(batch, Head(fresh))
  /\ skipped' = skipped
  /\ NextSlot

FlushDistanceBatch ==
  /\ pc = "flush"
  /\ LET end == Offered(Len(batch))
     IN  pool' = end.pool /\ scored' = end.scored /\ skipped' = end.skipped
  /\ batch' = <<>>
  /\ pc' = IF fresh = <<>> THEN "visit" ELSE "score"
  /\ UNCHANGED <<input, bound, marked, frontier, links, fresh, stopVars, visited>>

BNext ==
  \/ Traverse /\ UNCHANGED <<bound, stats, batch>>
  \/ SkipSlot \/ CollectSlot
  \/ FlushDistanceBatch

BSpec == BInit /\ [][BNext]_batchedVars

-----------------------------------------------------------------------------
(* Properties *)

\* The batched search is the one-at-a-time search run late: its state, with
\* the waiting batch offered, is at every step the state of that search, so
\* the answer and the counters are the same.
Legacy == INSTANCE GatedSearch WITH
  pool    <- Offered(Len(batch)).pool,
  scored  <- Offered(Len(batch)).scored,
  skipped <- Offered(Len(batch)).skipped,
  pc      <- IF pc # "flush" THEN pc ELSE IF fresh = <<>> THEN "visit" ELSE "score"

ParityWithLegacy == Legacy!GSpec

=============================================================================
