---------------------------- MODULE QueryWorkers ----------------------------
(***************************************************************************)
(* execute_config and execute_config_ours of                               *)
(* 05_disk_system_fair/native_rust/src/main.rs: a fixed number of scoped   *)
(* threads share a cursor into the query order.  A worker opens its        *)
(* backend, runs its part of the warm-up, then claims one place after the  *)
(* other until the order is used up, and writes each answer into the place *)
(* it claimed.  The caller joins the workers in the order it spawned them; *)
(* the scope waits for all of them before it lets the caller go.           *)
(*                                                                         *)
(* A search may fail or panic at any time; it does return.                 *)
(***************************************************************************)
EXTENDS Integers, FiniteSets

CONSTANTS
  WorkerCount,   \* workers
  QueryCount,    \* order.len()
  Order,         \* the query order, a permutation of the query ids
  WarmupQueries, \* warmup_queries
  NoResult       \* None

ASSUME WorkerAssumption == WorkerCount \in Nat \ {0}
ASSUME WarmupAssumption == WarmupQueries \in Nat /\ QueryCount \in Nat
ASSUME OrderAssumption  ==
  /\ Order \in [0 .. QueryCount - 1 -> 0 .. QueryCount - 1]
  /\ \A p, q \in 0 .. QueryCount - 1 : Order[p] = Order[q] => p = q
  /\ NoResult \notin 0 .. QueryCount - 1

Workers   == 0 .. WorkerCount - 1
Positions == 0 .. QueryCount - 1

VARIABLES
  next,       \* the shared cursor
  results,    \* one slot per place of the order
  pc,         \* where each worker is
  position,   \* the place a worker has claimed, or its next warm-up place
  joined,     \* handles the caller has joined
  joinError,  \* the join loop has returned early
  outcome     \* what execute_config returned, "running" until then

workerVars == <<next, results, pc, position>>
queryVars  == <<workerVars, joined, joinError, outcome>>

Finished == {"done", "failed", "panicked"}

TypeOK ==
  /\ next \in 0 .. QueryCount + WorkerCount
  /\ results \in [Positions -> Positions \cup {NoResult}]
  /\ pc \in [Workers -> {"open", "warm", "claim", "search"} \cup Finished]
  /\ position \in [Workers -> Nat]
  /\ joined \in 0 .. WorkerCount
  /\ joinError \in BOOLEAN
  /\ outcome \in {"running", "ok", "error", "panic"}

Init ==
  /\ next = 0
  /\ results = [p \in Positions |-> NoResult]
  /\ pc = [w \in Workers |-> "open"]
  /\ position = [w \in Workers |-> w]
  /\ joined = 0 /\ joinError = FALSE /\ outcome = "running"

-----------------------------------------------------------------------------
(* The workers *)

Go(w, place) == pc' = [pc EXCEPT ![w] = place]
CallerWaits  == UNCHANGED <<joined, joinError, outcome>>

Open(w) ==
  /\ pc[w] = "open"
  /\ Go(w, "warm")
  /\ UNCHANGED <<next, results, position>> /\ CallerWaits

\* Worker w warms up with the places w, w + workers, ... and keeps no answer.
WarmPlaces == {p \in Positions : p < WarmupQueries}

WarmUp(w) ==
  /\ pc[w] = "warm" /\ position[w] \in WarmPlaces
  /\ position' = [position EXCEPT ![w] = @ + WorkerCount]
  /\ UNCHANGED <<next, results, pc>> /\ CallerWaits

WarmedUp(w) ==
  /\ pc[w] = "warm" /\ position[w] \notin WarmPlaces
  /\ Go(w, "claim")
  /\ UNCHANGED <<next, results, position>> /\ CallerWaits

\* Mutant: a worker that finds the order used up asks again.
ClaimForever(w) ==
  /\ pc[w] = "claim" /\ next <= QueryCount
  /\ position' = [position EXCEPT ![w] = next]
  /\ next' = IF next < QueryCount THEN next + 1 ELSE next
  /\ Go(w, IF next < QueryCount THEN "search" ELSE "claim")
  /\ UNCHANGED results /\ CallerWaits

\* next.fetch_add(1); past the end of the order the worker is done.
Claim(w) ==
  /\ pc[w] = "claim"
  /\ position' = [position EXCEPT ![w] = next]
  /\ next' = next + 1
  /\ Go(w, IF next < QueryCount THEN "search" ELSE "done")
  /\ UNCHANGED results /\ CallerWaits

\* Mutant: the answer goes to the place numbered like the query.
SearchByQueryId(w) ==
  /\ pc[w] = "search"
  /\ results' = [results EXCEPT ![Order[position[w]]] = Order[position[w]]]
  /\ Go(w, "claim")
  /\ UNCHANGED <<next, position>> /\ CallerWaits

\* The answer is written under the lock of the results.
Search(w) ==
  /\ pc[w] = "search"
  /\ results' = [results EXCEPT ![position[w]] = Order[position[w]]]
  /\ Go(w, "claim")
  /\ UNCHANGED <<next, position>> /\ CallerWaits

\* The backend cannot be opened, or a search returns an error or panics.
Break(w) ==
  /\ pc[w] \in {"open", "warm", "search"}
  /\ pc[w] = "warm" => position[w] \in WarmPlaces
  /\ \E end \in {"failed", "panicked"} : Go(w, end)
  /\ UNCHANGED <<next, results, position>> /\ CallerWaits

Work(w) == Open(w) \/ WarmUp(w) \/ WarmedUp(w) \/ Claim(w) \/ Search(w) \/ Break(w)

-----------------------------------------------------------------------------
(* The caller *)

Joining == outcome = "running" /\ ~joinError

\* Mutant: only a panic stops the join loop, an error of the worker is lost.
JoinIgnoresErrors ==
  /\ Joining /\ joined < WorkerCount
  /\ pc[joined] \in Finished
  /\ joined' = joined + 1
  /\ joinError' = (pc[joined] = "panicked")
  /\ UNCHANGED <<workerVars, outcome>>

\* handle.join()??: the first worker that failed ends the loop.
Join ==
  /\ Joining /\ joined < WorkerCount
  /\ pc[joined] \in Finished
  /\ joined' = joined + 1
  /\ joinError' = (pc[joined] # "done")
  /\ UNCHANGED <<workerVars, outcome>>

AllFinished == \A w \in Workers : pc[w] \in Finished

\* Mutant: the caller does not wait for the workers it did not join.
LeaveEarly ==
  /\ outcome = "running" /\ joinError
  /\ outcome' = IF \E w \in Workers : w >= joined /\ pc[w] = "panicked" THEN "panic" ELSE "error"
  /\ UNCHANGED <<workerVars, joined, joinError>>

\* After an error the scope still waits for every worker; one that panicked
\* and was not joined makes the scope panic.
LeaveScope ==
  /\ outcome = "running" /\ joinError /\ AllFinished
  /\ outcome' = IF \E w \in Workers : w >= joined /\ pc[w] = "panicked" THEN "panic" ELSE "error"
  /\ UNCHANGED <<workerVars, joined, joinError>>

Missing == {p \in Positions : results[p] = NoResult}

\* "a query worker did not produce a result"
Collect ==
  /\ Joining /\ joined = WorkerCount
  /\ outcome' = IF Missing = {} THEN "ok" ELSE "error"
  /\ UNCHANGED <<workerVars, joined, joinError>>

Next == (\E w \in Workers : Work(w)) \/ Join \/ LeaveScope \/ Collect

Spec == Init /\ [][Next]_queryVars

\* Every thread is scheduled, and a search returns.
FairSpec ==
  /\ Spec
  /\ \A w \in Workers : WF_queryVars(Work(w))
  /\ WF_queryVars(Join) /\ WF_queryVars(LeaveScope) /\ WF_queryVars(Collect)

-----------------------------------------------------------------------------
(* Properties *)

\* However the workers interleave, every place that was claimed is answered,
\* being answered by exactly one worker, or was lost by a worker that broke;
\* nothing ahead of the cursor is touched.
ClaimedOnce ==
  /\ \A v, w \in Workers :
       pc[v] = "search" /\ pc[w] = "search" /\ position[v] = position[w] => v = w
  /\ \A w \in Workers : pc[w] = "search" =>
       position[w] \in Positions /\ position[w] < next /\ results[position[w]] = NoResult
  /\ \A p \in Positions : p >= next => results[p] = NoResult

\* The batch is returned with an answer to every query in its place, or not at
\* all: a worker that breaks is never covered up by the others.
Batch == INSTANCE QueryBatch WITH Query <- LAMBDA p : Order[p]
BatchSpec == Batch!Spec

\* When every worker has finished its loop no result is missing: the check
\* for it at the end of execute_config never fails.
NoResultMissing == Joining /\ joined = WorkerCount => Missing = {}

\* No worker outlives the call that started it, and it is reported when one
\* has broken.
NoWorkerLeftBehind ==
  outcome # "running" =>
    /\ AllFinished
    /\ (outcome = "ok") <=> \A w \in Workers : pc[w] = "done"

\* A measured configuration comes to an end.
Returns == <>(outcome # "running")
=============================================================================
