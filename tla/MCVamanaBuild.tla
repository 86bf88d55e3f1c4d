---------------------------- MODULE MCVamanaBuild ----------------------------
(***************************************************************************)
(* Five nodes on a line, at some of the places that make lists overflow,   *)
(* distances tie and codes coincide; distances are squared, or estimated a *)
(* little lower, so that those of coinciding codes are negative.           *)
(***************************************************************************)
EXTENDS VamanaBuild

MCLevels == <<10, 12>>
Places   == {p \in [Nodes -> {0, 1, 2, 4}] : p[0] = 2 /\ p[1] <= p[2]}
Errors   == {0, 1}  \* how much lower
MCTables ==
  {[a \in Nodes |-> [b \in Nodes |-> (p[a] - p[b]) * (p[a] - p[b]) - e]] : p \in Places, e \in Errors}
=============================================================================
