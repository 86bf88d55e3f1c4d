---------------------------- MODULE MCHnswInsert ----------------------------
(* Two threads that insert four elements on two layers.                     *)
EXTENDS HnswInsert, TLC

\* The threads are alike, and no property is about what eventually happens.
ThreadSymmetry == Permutations(Threads)
=============================================================================
