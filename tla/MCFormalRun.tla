---------------------------- MODULE MCFormalRun ----------------------------
(***************************************************************************)
(* Two executables, two graphs, two points of which the plotter asks for   *)
(* the first, and two measurements: of both points, or of one of them      *)
(* again, whose rows may be collected with or without the other.           *)
(***************************************************************************)
EXTENDS FormalRun, TLC

MCPoints   == {1, 2}
MCRequired == {1}

Symmetry == Permutations(Binaries) \cup Permutations(Graphs)
=============================================================================
