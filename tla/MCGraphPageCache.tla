------------------------- MODULE MCGraphPageCache -------------------------
(***************************************************************************)
(* A graph of five nodes, two to a page: the last page is half empty, node *)
(* 3 has a degree no record may have, and node 4 names a node that is not  *)
(* there.                                                                  *)
(***************************************************************************)
EXTENDS GraphPageCache

MCGraph ==
  [n \in 0 .. 4 |-> CASE n = 0 -> <<1, 2>> [] n = 1 -> <<0>> [] n = 2 -> <<4, 0>>
                      [] n = 3 -> <<0, 1, 2>> [] OTHER -> <<5>>]
=============================================================================
