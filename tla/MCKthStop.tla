----------------------------- MODULE MCKthStop -----------------------------
(***************************************************************************)
(* The k-th stop on a chain of three nodes, with every bound valid.        *)
(***************************************************************************)
EXTENDS KthStop

MCGraphs    == {[n \in 0 .. 2 |-> IF n < 2 THEN <<n + 1>> ELSE <<>>]}
MCDistances == 0 .. 2
MCBounds    == 0 .. 2
=============================================================================
