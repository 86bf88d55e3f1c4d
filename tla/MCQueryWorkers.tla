--------------------------- MODULE MCQueryWorkers ---------------------------
(***************************************************************************)
(* Three workers and four queries, in an order that is the reverse of the  *)
(* ids, so that most places do not hold the query of their own number.     *)
(***************************************************************************)
EXTENDS QueryWorkers

MCOrder == [p \in 0 .. 3 |-> 3 - p]
=============================================================================
