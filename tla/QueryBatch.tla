----------------------------- MODULE QueryBatch -----------------------------
(***************************************************************************)
(* What a measured configuration promises to whoever asked for it: the     *)
(* answer to each query of the order is recorded once, in the query's      *)
(* place, and the batch comes back with all of them or not at all.         *)
(***************************************************************************)
CONSTANTS
  Positions,   \* places of the query order
  Query(_),    \* the query in a place
  NoResult

VARIABLES
  results,   \* what is recorded in each place
  outcome    \* "running", then "ok", "error" or "panic"

batchVars == <<results, outcome>>

Init ==
  /\ results = [p \in Positions |-> NoResult]
  /\ outcome = "running"

Record(p) ==
  /\ outcome = "running"
  /\ results[p] = NoResult
  /\ results' = [results EXCEPT ![p] = Query(p)]
  /\ UNCHANGED outcome

Return ==
  /\ outcome = "running"
  /\ \A p \in Positions : results[p] = Query(p)
  /\ outcome' = "ok"
  /\ UNCHANGED results

Fail ==
  /\ outcome = "running"
  /\ outcome' \in {"error", "panic"}
  /\ UNCHANGED results

Next == (\E p \in Positions : Record(p)) \/ Return \/ Fail

Spec == Init /\ [][Next]_batchVars
=============================================================================
