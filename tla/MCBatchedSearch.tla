-------------------------- MODULE MCBatchedSearch --------------------------
(***************************************************************************)
(* The batched search on graphs whose start node has more neighbours than  *)
(* the batch and the pool have room for.                                   *)
(***************************************************************************)
EXTENDS BatchedSearch

MCGraphs ==
  {[n \in 0 .. 3 |-> CASE n = 0 -> a [] n = 1 -> b [] OTHER -> <<>>] :
     a \in {<<1, 2, 3>>, <<3, 1, 2>>},
     b \in {<<2>>, <<3, 2>>}}

MCDistances == 0 .. 2
MCBounds    == {Invalid, 1, 2}
=============================================================================
