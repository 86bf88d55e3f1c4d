------------------------- MODULE QueryWorkersProofs -------------------------
(***************************************************************************)
(* Proofs about QueryWorkers: for every number of workers, every order and *)
(* every warm-up, the batch is complete or reported as failed.             *)
(***************************************************************************)
EXTENDS QueryWorkers, FiniteSetTheorems, TLAPS

USE WorkerAssumption, WarmupAssumption, OrderAssumption

-----------------------------------------------------------------------------
(* The inductive invariant *)

\* The workers that found the cursor past the end.
PastEnd == {w \in Workers : pc[w] = "done"}

\* The types, with the cursor past the end only as often as a worker found it.
Types ==
  /\ next \in Nat /\ next <= QueryCount + Cardinality(PastEnd)
  /\ results \in [Positions -> Positions \cup {NoResult}]
  /\ pc \in [Workers -> {"open", "warm", "claim", "search"} \cup Finished]
  /\ position \in [Workers -> Nat]
  /\ joined \in 0 .. WorkerCount
  /\ joinError \in BOOLEAN
  /\ outcome \in {"running", "ok", "error", "panic"}

\* What is recorded in a place is the answer to the query of that place.
RightPlace == \A p \in Positions : results[p] \in {Order[p], NoResult}

\* A place behind the cursor is answered, or held by the worker that is on it,
\* or was held by a worker that broke.
Accounted ==
  \A p \in Positions : p < next /\ results[p] = NoResult =>
    \E w \in Workers : position[w] = p /\ pc[w] \in {"search", "failed", "panicked"}

\* A worker that is done has found the cursor at the end.
DoneAtEnd == \A w \in Workers : pc[w] = "done" => next >= QueryCount

\* The workers joined have ended, all of them well unless the loop was left.
JoinedEnded ==
  /\ \A w \in Workers : w < joined => pc[w] \in Finished
  /\ ~joinError => \A w \in Workers : w < joined => pc[w] = "done"
  /\ joinError => \E w \in Workers : w < joined /\ pc[w] \in {"failed", "panicked"}

\* The call returns when nothing runs any more.
ReturnedLate ==
  /\ outcome # "running" => AllFinished
  /\ outcome = "ok" => joined = WorkerCount /\ ~joinError
  /\ outcome \in {"error", "panic"} => joinError

IInv ==
  /\ Types /\ RightPlace /\ ClaimedOnce /\ Accounted
  /\ DoneAtEnd /\ JoinedEnded /\ ReturnedLate

-----------------------------------------------------------------------------
(* Lemmas *)

\* The workers are finitely many, and so are those that are past the end.
LEMMA WorkersFinite ==
  /\ IsFiniteSet(Workers) /\ Cardinality(Workers) = WorkerCount
  /\ \A S \in SUBSET Workers : IsFiniteSet(S) /\ Cardinality(S) \in 0 .. WorkerCount
<1>1. IsFiniteSet(Workers) /\ Cardinality(Workers) = WorkerCount
  BY FS_Interval DEF Workers
<1>2. ASSUME NEW S \in SUBSET Workers
      PROVE  IsFiniteSet(S) /\ Cardinality(S) \in 0 .. WorkerCount
  <2>1. IsFiniteSet(S) /\ Cardinality(S) <= Cardinality(Workers)
    BY <1>1, FS_Subset
  <2>2. Cardinality(S) \in Nat
    BY <2>1, FS_CardinalityType
  <2> QED  BY <1>1, <2>1, <2>2
<1> QED  BY <1>1, <1>2

\* The caller that has joined every worker without an error has every answer.
LEMMA JoinedAllMeansAnswered ==
  ASSUME IInv, joined = WorkerCount, ~joinError
  PROVE  Missing = {}
<1>1. \A w \in Workers : pc[w] = "done"
  BY DEF IInv, JoinedEnded, Workers
<1>2. 0 \in Workers
  BY DEF Workers
<1>3. next >= QueryCount /\ next \in Nat
  BY <1>1, <1>2 DEF IInv, DoneAtEnd, Types
<1>4. \A p \in Positions : p < next
  BY <1>3 DEF Positions
<1> QED  BY <1>1, <1>4 DEF IInv, Accounted, Missing

\* A worker's step happens while the call is running: none is left at the end.
LEMMA WorkersRunInside ==
  ASSUME IInv, NEW w \in Workers, pc[w] \notin Finished
  PROVE  outcome = "running" /\ w >= joined
BY DEF IInv, ReturnedLate, AllFinished, JoinedEnded, Types, Workers

\* What a step of one worker does to the parts of the caller: a worker ends
\* after it was spawned and before it is joined.
LEMMA WorkerKeepsCaller ==
  ASSUME IInv, NEW w \in Workers, pc[w] \notin Finished,
         NEW place \in {"warm", "claim", "search"} \cup Finished,
         Go(w, place), CallerWaits
  PROVE  JoinedEnded' /\ ReturnedLate'
<1>1. outcome = "running" /\ w >= joined
  BY WorkersRunInside
<1>2. /\ \A v \in Workers : v # w => pc'[v] = pc[v]
      /\ joined' = joined /\ joinError' = joinError /\ outcome' = "running"
  BY <1>1 DEF Go, CallerWaits, IInv, Types
<1>3. JoinedEnded'
  BY <1>1, <1>2 DEF IInv, JoinedEnded, Types, Workers
<1>4. ReturnedLate'
  BY <1>2 DEF ReturnedLate
<1> QED  BY <1>3, <1>4

\* The cursor keeps its bound while no worker is taken back from the end.
LEMMA PastEndGrows ==
  ASSUME Types, NEW w \in Workers, pc[w] # "done",
         NEW place \in {"open", "warm", "claim", "search"} \cup Finished, Go(w, place)
  PROVE  /\ place # "done" => PastEnd' = PastEnd
         /\ place = "done" => Cardinality(PastEnd') = Cardinality(PastEnd) + 1
<1>1. PastEnd' = IF place = "done" THEN PastEnd \cup {w} ELSE PastEnd
  BY DEF PastEnd, Go, Types
<1>2. w \notin PastEnd /\ IsFiniteSet(PastEnd)
  BY WorkersFinite DEF PastEnd
<1> QED  BY <1>1, <1>2, FS_AddElement

-----------------------------------------------------------------------------
(* The invariant is inductive *)

LEMMA InitHolds == Init => IInv
<1> SUFFICES ASSUME Init PROVE IInv
  OBVIOUS
<1>1. Types
  <2>1. Cardinality(PastEnd) \in 0 .. WorkerCount
    BY WorkersFinite DEF PastEnd
  <2>2. next \in Nat /\ next <= QueryCount + Cardinality(PastEnd)
    BY <2>1 DEF Init
  <2>3. position \in [Workers -> Nat]
    BY DEF Init, Workers
  <2>4. results \in [Positions -> Positions \cup {NoResult}]
    BY DEF Init
  <2>5. pc \in [Workers -> {"open", "warm", "claim", "search"} \cup Finished]
    BY DEF Init
  <2>6. joined \in 0 .. WorkerCount
    BY DEF Init
  <2>7. joinError \in BOOLEAN /\ outcome = "running"
    BY DEF Init
  <2> QED  BY <2>2, <2>3, <2>4, <2>5, <2>6, <2>7 DEF Types
<1>2. RightPlace /\ ClaimedOnce /\ Accounted /\ DoneAtEnd
  BY DEF Init, RightPlace, ClaimedOnce, Accounted, DoneAtEnd, Positions
<1>3. JoinedEnded /\ ReturnedLate
  BY DEF Init, JoinedEnded, ReturnedLate, Workers
<1> QED  BY <1>1, <1>2, <1>3 DEF IInv

\* A step that moves a worker that has claimed nothing, and nothing else.
LEMMA UnclaimedStep ==
  ASSUME IInv, NEW w \in Workers, pc[w] \in {"open", "warm"},
         NEW place \in {"warm", "claim", "failed", "panicked"}, Go(w, place),
         position' \in [Workers -> Nat], \A v \in Workers : v # w => position'[v] = position[v],
         UNCHANGED <<next, results>>, CallerWaits
  PROVE  IInv'
<1>1. Types'
  <2>1. PastEnd' = PastEnd
    <3>1. pc[w] # "done" /\ place # "done"
      OBVIOUS
    <3> QED  BY <3>1, PastEndGrows DEF IInv, Finished
  <2> QED  BY <2>1 DEF IInv, Types, Go, CallerWaits, Finished
<1>2. JoinedEnded' /\ ReturnedLate'
  BY WorkerKeepsCaller DEF Finished
<1>3. pc' = [pc EXCEPT ![w] = place] /\ pc \in [Workers -> {"open", "warm", "claim", "search"} \cup Finished]
  BY DEF Go, IInv, Types
<1>4. RightPlace'
  BY DEF IInv, RightPlace
<1>5. ClaimedOnce'
  BY <1>3 DEF IInv, ClaimedOnce
<1>6. Accounted'
  BY <1>3 DEF IInv, Accounted
<1>7. DoneAtEnd'
  BY <1>3 DEF IInv, DoneAtEnd
<1> QED  BY <1>1, <1>2, <1>4, <1>5, <1>6, <1>7 DEF IInv

LEMMA ClaimStep ==
  ASSUME IInv, NEW w \in Workers, Claim(w)
  PROVE  IInv'
<1> DEFINE place == IF next < QueryCount THEN "search" ELSE "done"
<1>1. /\ pc[w] = "claim" /\ pc' = [pc EXCEPT ![w] = place] /\ Go(w, place)
      /\ position' = [position EXCEPT ![w] = next] /\ next' = next + 1
      /\ results' = results /\ CallerWaits
  BY DEF Claim, Go
<1>2. /\ next \in Nat /\ position \in [Workers -> Nat]
      /\ pc \in [Workers -> {"open", "warm", "claim", "search"} \cup Finished]
  BY DEF IInv, Types
<1>3. Types'
  <2>1. /\ place # "done" => PastEnd' = PastEnd
        /\ place = "done" => Cardinality(PastEnd') = Cardinality(PastEnd) + 1
    BY <1>1, PastEndGrows DEF IInv, Finished
  <2>2. Cardinality(PastEnd) \in Nat /\ next <= QueryCount + Cardinality(PastEnd)
    BY WorkersFinite DEF PastEnd, IInv, Types
  <2>3. next' <= QueryCount + Cardinality(PastEnd')
    BY <1>1, <1>2, <2>1, <2>2
  <2> QED  BY <1>1, <1>2, <2>3 DEF IInv, Types, CallerWaits, Finished
<1>4. JoinedEnded' /\ ReturnedLate'
  BY <1>1, WorkerKeepsCaller DEF Finished
<1>5. RightPlace'
  BY <1>1 DEF IInv, RightPlace
<1>6. ClaimedOnce'
  BY <1>1, <1>2 DEF IInv, ClaimedOnce, Positions
<1>7. Accounted'
  <2> SUFFICES ASSUME NEW p \in Positions, p < next', results[p] = NoResult
               PROVE  \E v \in Workers : position'[v] = p /\ pc'[v] \in {"search", "failed", "panicked"}
    BY <1>1 DEF Accounted
  <2>1. CASE p = next
    <3>1. position'[w] = p /\ pc'[w] = "search"
      BY <1>1, <1>2, <2>1 DEF Positions
    <3> QED  BY <3>1
  <2>2. CASE p # next
    <3>1. p < next
      BY <1>1, <1>2, <2>2 DEF Positions
    <3>2. PICK v \in Workers : position[v] = p /\ pc[v] \in {"search", "failed", "panicked"}
      BY <3>1 DEF IInv, Accounted
    <3>3. v # w
      BY <1>1, <3>2
    <3> QED  BY <1>1, <1>2, <3>2, <3>3
  <2> QED  BY <2>1, <2>2
<1>8. DoneAtEnd'
  BY <1>1, <1>2 DEF IInv, DoneAtEnd
<1> QED  BY <1>3, <1>4, <1>5, <1>6, <1>7, <1>8 DEF IInv

LEMMA SearchStep ==
  ASSUME IInv, NEW w \in Workers, Search(w)
  PROVE  IInv'
<1>1. /\ pc[w] = "search" /\ pc' = [pc EXCEPT ![w] = "claim"] /\ Go(w, "claim")
      /\ results' = [results EXCEPT ![position[w]] = Order[position[w]]]
      /\ next' = next /\ position' = position /\ CallerWaits
  BY DEF Search, Go
<1>2. /\ pc \in [Workers -> {"open", "warm", "claim", "search"} \cup Finished]
      /\ results \in [Positions -> Positions \cup {NoResult}]
      /\ position[w] \in Positions /\ position[w] < next
  BY <1>1 DEF IInv, Types, ClaimedOnce
<1>3. Order[position[w]] \in Positions /\ Order[position[w]] # NoResult
  BY <1>2 DEF Positions
<1>4. Types'
  <2>1. PastEnd' = PastEnd
    BY <1>1, PastEndGrows DEF IInv
  <2> QED  BY <1>1, <1>2, <1>3, <2>1 DEF IInv, Types, CallerWaits
<1>5. JoinedEnded' /\ ReturnedLate'
  BY <1>1, WorkerKeepsCaller DEF Finished
<1>6. RightPlace'
  BY <1>1, <1>2 DEF IInv, RightPlace
<1>7. ClaimedOnce'
  BY <1>1, <1>2 DEF IInv, Types, ClaimedOnce, Positions
<1>8. Accounted'
  <2> SUFFICES ASSUME NEW p \in Positions, p < next, results'[p] = NoResult
               PROVE  \E v \in Workers : position[v] = p /\ pc'[v] \in {"search", "failed", "panicked"}
    BY <1>1 DEF Accounted
  <2>1. p # position[w] /\ results[p] = NoResult
    BY <1>1, <1>2, <1>3
  <2>2. PICK v \in Workers : position[v] = p /\ pc[v] \in {"search", "failed", "panicked"}
    BY <2>1 DEF IInv, Accounted
  <2> QED  BY <1>1, <1>2, <2>1, <2>2
<1>9. DoneAtEnd'
  BY <1>1, <1>2 DEF IInv, DoneAtEnd
<1> QED  BY <1>4, <1>5, <1>6, <1>7, <1>8, <1>9 DEF IInv

LEMMA BreakStep ==
  ASSUME IInv, NEW w \in Workers, Break(w)
  PROVE  IInv'
<1>1. PICK end \in {"failed", "panicked"} : Go(w, end)
  BY DEF Break
<1>2. CASE pc[w] \in {"open", "warm"}
  <2>1. position' = position /\ position \in [Workers -> Nat]
    BY DEF Break, IInv, Types
  <2> QED  BY <1>1, <1>2, <2>1, UnclaimedStep DEF Break
<1>3. CASE pc[w] = "search"
  <2>1. pc' = [pc EXCEPT ![w] = end] /\ UNCHANGED <<next, results, position>> /\ CallerWaits
    BY <1>1 DEF Go, Break
  <2>2. pc \in [Workers -> {"open", "warm", "claim", "search"} \cup Finished]
    BY DEF IInv, Types
  <2>3. Types'
    <3>1. PastEnd' = PastEnd
      BY <1>1, <1>3, PastEndGrows DEF IInv, Finished
    <3> QED  BY <2>1, <2>2, <3>1 DEF IInv, Types, CallerWaits, Finished
  <2>4. JoinedEnded' /\ ReturnedLate'
    BY <1>1, <1>3, <2>1, WorkerKeepsCaller DEF Finished
  <2>5. RightPlace' /\ DoneAtEnd'
    BY <2>1, <2>2 DEF IInv, RightPlace, DoneAtEnd
  <2>6. ClaimedOnce'
    BY <2>1, <2>2 DEF IInv, ClaimedOnce
  <2>7. Accounted'
    BY <1>3, <2>1, <2>2 DEF IInv, Accounted
  <2> QED  BY <2>3, <2>4, <2>5, <2>6, <2>7 DEF IInv
<1> QED  BY <1>2, <1>3 DEF Break

\* The caller's steps leave the workers alone.
LEMMA CallerKeepsWorkers ==
  ASSUME IInv, UNCHANGED workerVars,
         joined' \in 0 .. WorkerCount, joinError' \in BOOLEAN,
         outcome' \in {"running", "ok", "error", "panic"}, JoinedEnded', ReturnedLate'
  PROVE  IInv'
<1>1. UNCHANGED <<next, results, pc, position>>
  BY DEF workerVars
<1>2. Types'
  BY <1>1 DEF IInv, Types, PastEnd
<1>3. RightPlace' /\ ClaimedOnce' /\ Accounted' /\ DoneAtEnd'
  BY <1>1 DEF IInv, RightPlace, ClaimedOnce, Accounted, DoneAtEnd
<1> QED  BY <1>2, <1>3 DEF IInv

LEMMA JoinStep ==
  ASSUME IInv, Join
  PROVE  IInv'
<1>1. /\ outcome = "running" /\ outcome' = outcome /\ ~joinError
      /\ joined < WorkerCount /\ joined' = joined + 1 /\ pc' = pc
      /\ pc[joined] \in Finished /\ joinError' = (pc[joined] # "done")
  BY DEF Join, Joining, workerVars
<1>2. joined \in Workers /\ joined \in Nat /\ joined' \in 0 .. WorkerCount
  BY <1>1 DEF IInv, Types, Workers
<1>3. \A w \in Workers : w < joined' => w < joined \/ w = joined
  BY <1>1, <1>2 DEF Workers
<1>4. \A w \in Workers : w < joined => pc[w] = "done"
  BY <1>1 DEF IInv, JoinedEnded
<1>5. JoinedEnded'
  <2>1. \A w \in Workers : w < joined' => pc'[w] \in Finished
    BY <1>1, <1>3, <1>4 DEF Finished
  <2>2. ~joinError' => \A w \in Workers : w < joined' => pc'[w] = "done"
    BY <1>1, <1>3, <1>4
  <2>3. joinError' => \E w \in Workers : w < joined' /\ pc'[w] \in {"failed", "panicked"}
    <3>1. joined < joined'
      BY <1>1, <1>2
    <3> QED  BY <1>1, <1>2, <3>1 DEF Finished
  <2> QED  BY <2>1, <2>2, <2>3 DEF JoinedEnded
<1>6. ReturnedLate'
  BY <1>1 DEF ReturnedLate
<1>7. joinError' \in BOOLEAN /\ outcome' \in {"running", "ok", "error", "panic"}
  BY <1>1
<1>8. UNCHANGED workerVars
  BY DEF Join
<1> QED  BY <1>2, <1>5, <1>6, <1>7, <1>8, CallerKeepsWorkers

LEMMA LeaveScopeStep ==
  ASSUME IInv, LeaveScope
  PROVE  IInv'
<1>1. /\ joinError /\ AllFinished /\ UNCHANGED <<workerVars, joined, joinError>>
      /\ outcome' \in {"panic", "error"}
  BY DEF LeaveScope
<1>2. pc' = pc /\ joined' = joined /\ joinError' = joinError
  BY <1>1 DEF workerVars
<1>3. JoinedEnded' /\ ReturnedLate'
  BY <1>1, <1>2 DEF IInv, JoinedEnded, ReturnedLate, AllFinished
<1>4. joined' \in 0 .. WorkerCount /\ joinError' \in BOOLEAN
  BY <1>2 DEF IInv, Types
<1> QED  BY <1>1, <1>3, <1>4, CallerKeepsWorkers

LEMMA CollectStep ==
  ASSUME IInv, Collect
  PROVE  IInv' /\ outcome' = "ok" /\ Missing = {}
<1>1. /\ joined = WorkerCount /\ ~joinError /\ outcome = "running"
      /\ UNCHANGED <<workerVars, joined, joinError>>
      /\ outcome' = IF Missing = {} THEN "ok" ELSE "error"
  BY DEF Collect, Joining
<1>2. Missing = {}
  BY <1>1, JoinedAllMeansAnswered
<1>3. outcome' = "ok"
  BY <1>1, <1>2
<1>4. pc' = pc /\ joined' = joined /\ joinError' = joinError
  BY <1>1 DEF workerVars
<1>5. JoinedEnded'
  BY <1>4 DEF IInv, JoinedEnded
<1>6. AllFinished'
  BY <1>1, <1>4 DEF IInv, JoinedEnded, AllFinished, Workers
<1>7. ReturnedLate'
  BY <1>1, <1>3, <1>4, <1>6 DEF ReturnedLate
<1>8. joined' \in 0 .. WorkerCount /\ joinError' \in BOOLEAN
  BY <1>4 DEF IInv, Types
<1> QED  BY <1>1, <1>2, <1>3, <1>5, <1>7, <1>8, CallerKeepsWorkers

\* The invariant holds from the first step of the batch to the last.
THEOREM BatchInvariance == Spec => []IInv
<1>1. IInv /\ [Next]_queryVars => IInv'
  <2> SUFFICES ASSUME IInv, [Next]_queryVars PROVE IInv'
    OBVIOUS
  <2>1. ASSUME NEW w \in Workers, Open(w) PROVE IInv'
    BY <2>1, UnclaimedStep DEF Open, IInv, Types
  <2>2. ASSUME NEW w \in Workers, WarmUp(w) PROVE IInv'
    <3>1. /\ position' \in [Workers -> Nat]
          /\ \A v \in Workers : v # w => position'[v] = position[v]
      BY <2>2 DEF WarmUp, IInv, Types
    <3>2. Go(w, "warm")
      BY <2>2 DEF WarmUp, Go, IInv, Types
    <3> QED  BY <2>2, <3>1, <3>2, UnclaimedStep DEF WarmUp
  <2>3. ASSUME NEW w \in Workers, WarmedUp(w) PROVE IInv'
    BY <2>3, UnclaimedStep DEF WarmedUp, IInv, Types
  <2>4. ASSUME NEW w \in Workers, Claim(w) PROVE IInv'
    BY <2>4, ClaimStep
  <2>5. ASSUME NEW w \in Workers, Search(w) PROVE IInv'
    BY <2>5, SearchStep
  <2>6. ASSUME NEW w \in Workers, Break(w) PROVE IInv'
    BY <2>6, BreakStep
  <2>7. CASE Join
    BY <2>7, JoinStep
  <2>8. CASE LeaveScope
    BY <2>8, LeaveScopeStep
  <2>9. CASE Collect
    BY <2>9, CollectStep
  <2>10. CASE UNCHANGED queryVars
    <3>1. JoinedEnded' /\ ReturnedLate'
      BY <2>10 DEF queryVars, workerVars, IInv, JoinedEnded, ReturnedLate, AllFinished
    <3> QED  BY <2>10, <3>1, CallerKeepsWorkers DEF queryVars, workerVars, IInv, Types
  <2> QED  BY <2>1, <2>2, <2>3, <2>4, <2>5, <2>6, <2>7, <2>8, <2>9, <2>10 DEF Next, Work
<1> QED  BY <1>1, InitHolds, PTL DEF Spec

-----------------------------------------------------------------------------
(* The theorems *)

\* The variables keep their types, and the cursor goes past the end of the
\* order at most once for each worker.
THEOREM TypeCorrect == Spec => []TypeOK
<1>1. IInv => TypeOK
  BY WorkersFinite DEF IInv, Types, TypeOK, PastEnd
<1> QED  BY <1>1, BatchInvariance, PTL

\* No place of the order is held by two workers or answered twice.
THEOREM EveryPlaceClaimedOnce == Spec => []ClaimedOnce
<1>1. IInv => ClaimedOnce  BY DEF IInv
<1> QED  BY <1>1, BatchInvariance, PTL

\* The check for missing results at the end of execute_config never fails.
THEOREM MissingResultUnreachable == Spec => []NoResultMissing
<1>1. IInv => NoResultMissing
  BY JoinedAllMeansAnswered DEF NoResultMissing, Joining
<1> QED  BY <1>1, BatchInvariance, PTL

\* The call returns after its workers, and with an error if one has broken.
THEOREM ReturnsAfterItsWorkers == Spec => []NoWorkerLeftBehind
<1>1. IInv => NoWorkerLeftBehind
  <2> SUFFICES ASSUME IInv, outcome # "running"
               PROVE  AllFinished /\ ((outcome = "ok") <=> \A w \in Workers : pc[w] = "done")
    BY DEF NoWorkerLeftBehind
  <2>1. AllFinished
    BY DEF IInv, ReturnedLate
  <2>2. CASE outcome = "ok"
    <3>1. \A w \in Workers : w < joined => pc[w] = "done"
      BY <2>2 DEF IInv, ReturnedLate, JoinedEnded
    <3>2. \A w \in Workers : w < joined
      BY <2>2 DEF IInv, ReturnedLate, Workers
    <3> QED  BY <2>1, <2>2, <3>1, <3>2
  <2>3. CASE outcome # "ok"
    <3>1. joinError
      BY <2>3 DEF IInv, ReturnedLate, Types
    <3>2. \E w \in Workers : pc[w] \in {"failed", "panicked"}
      BY <3>1 DEF IInv, JoinedEnded
    <3> QED  BY <2>1, <2>3, <3>2
  <2> QED  BY <2>2, <2>3
<1> QED  BY <1>1, BatchInvariance, PTL

\* Any number of workers, however they interleave and break, is a QueryBatch.
THEOREM ImplementsQueryBatch == Spec => BatchSpec
<1>1. Init => Batch!Init
  BY DEF Init, Batch!Init
<1>2. IInv /\ [Next]_queryVars => [Batch!Next]_Batch!batchVars
  <2> SUFFICES ASSUME IInv, [Next]_queryVars PROVE [Batch!Next]_Batch!batchVars
    OBVIOUS
  <2>1. ASSUME NEW w \in Workers, Search(w) PROVE Batch!Next
    <3>1. pc[w] = "search" /\ position[w] \in Positions /\ results[position[w]] = NoResult
      BY <2>1 DEF Search, IInv, ClaimedOnce
    <3>2. outcome = "running"
      BY <3>1, WorkersRunInside DEF Finished
    <3>3. Batch!Record(position[w])
      BY <2>1, <3>1, <3>2 DEF Search, Batch!Record, CallerWaits
    <3> QED  BY <3>1, <3>3 DEF Batch!Next
  <2>2. ASSUME NEW w \in Workers, Open(w) \/ WarmUp(w) \/ WarmedUp(w) \/ Claim(w) \/ Break(w)
        PROVE  UNCHANGED Batch!batchVars
    BY <2>2 DEF Open, WarmUp, WarmedUp, Claim, Break, CallerWaits, Batch!batchVars
  <2>3. CASE Join
    BY <2>3 DEF Join, workerVars, Batch!batchVars
  <2>4. CASE LeaveScope
    BY <2>4 DEF LeaveScope, workerVars, Batch!Next, Batch!Fail
  <2>5. CASE Collect
    <3>1. outcome' = "ok" /\ Missing = {}
      BY <2>5, CollectStep
    <3>2. \A p \in Positions : results[p] = Order[p]
      BY <3>1 DEF Missing, IInv, RightPlace
    <3> QED  BY <2>5, <3>1, <3>2 DEF Collect, Joining, workerVars, Batch!Next, Batch!Return
  <2>6. CASE UNCHANGED queryVars
    BY <2>6 DEF queryVars, workerVars, Batch!batchVars
  <2> QED  BY <2>1, <2>2, <2>3, <2>4, <2>5, <2>6 DEF Next, Work
<1> QED  BY <1>1, <1>2, BatchInvariance, PTL DEF Spec, BatchSpec, Batch!Spec
=============================================================================
