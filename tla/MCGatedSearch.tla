--------------------------- MODULE MCGatedSearch ---------------------------
(***************************************************************************)
(* The gated search, and with estimates that are all invalid the plain     *)
(* one, on graphs of five nodes: chains, cycles, self loops, a repeated    *)
(* neighbour, a node without neighbours, a list that leaves the searched   *)
(* prefix, and four nodes that compete for the rest of a pool of three,    *)
(* of which a round expands two, in every order of their distances.        *)
(***************************************************************************)
EXTENDS GatedSearch

MCGraphs ==
  {[n \in 0 .. 4 |->
      CASE n = 0 -> a [] n = 1 -> b [] n = 2 -> c [] n = 3 -> <<2, 0, 4>> [] OTHER -> <<>>] :
     a \in {<<1, 2, 3>>, <<4, 1>>},
     b \in {<<4, 2>>, <<3, 3, 0>>},
     c \in {<<3, 2, 1>>, <<5>>}}

MCDistances == 0 .. 2
MCBounds    == {Invalid, 1, 2}
=============================================================================
