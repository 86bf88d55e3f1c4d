---------------------------- MODULE GatedSearch ----------------------------
(***************************************************************************)
(* The paper-active search: search_ours_paper_active_legacy of             *)
(* 02_diskann_fair/src/ours_diskann.rs, which is search_vamana_paper_active *)
(* of Ours/core/hnswlib/vamana_search.h with the early stop of BeamSearch. *)
(* A fresh neighbour is first estimated from its one-bit code; when the    *)
(* pool is full and the lower bound of the estimate is above the worst     *)
(* distance in the pool, its full record is never read.                    *)
(*                                                                         *)
(* The estimate is part of the input.  Nothing makes its lower bound a     *)
(* true one: epsilon0 sets how often it is wrong.  SoundSpec is the search *)
(* with bounds that are right.                                             *)
(***************************************************************************)
EXTENDS BeamSearch

CONSTANT Bounds   \* the values a lower bound may take, Invalid among them or not

Invalid == -1     \* paper.valid is 0

ASSUME BoundsAssumption == Bounds \subseteq Nat \cup {Invalid}

VARIABLES
  bound,    \* lower_bound of the paper estimate of every node, constant
  scored,   \* stats.distance_computations
  skipped   \* stats.paper_full_saved

stats == <<scored, skipped>>
gatedVars == <<vars, bound, stats>>

GTypeOK ==
  /\ TypeOK
  /\ bound \in [Nodes -> Bounds]
  /\ scored \in 1 .. NodeCount
  /\ skipped \in 0 .. NodeCount

\* Every valid estimate is a lower bound of the distance.
Sound == \A n \in Nodes : bound[n] # Invalid => bound[n] <= dist[n]

GInit ==
  /\ Init
  /\ bound \in [Nodes -> Bounds]
  /\ scored = 1 /\ skipped = 0

SoundInit == GInit /\ Sound

\* Mutant: the gate takes an estimate that equals the worst distance.
GateOnTies(p, node) ==
  /\ Full(p) /\ bound[node] # Invalid
  /\ bound[node] >= dist[Back(p)]

\* The estimate rules the node out of the pool.
Gate(p, node) ==
  /\ Full(p) /\ bound[node] # Invalid
  /\ bound[node] > dist[Back(p)]

SkipFresh ==
  /\ pc = "score" /\ fresh # <<>> /\ Gate(pool, Head(fresh))
  /\ skipped' = skipped + 1
  /\ NextFresh
  /\ UNCHANGED <<pool, scored>>

ScoreSurvivor ==
  /\ pc = "score" /\ fresh # <<>> /\ ~Gate(pool, Head(fresh))
  /\ ScoreFresh
  /\ scored' = scored + 1
  /\ UNCHANGED skipped

GNext ==
  /\ \/ Traverse /\ UNCHANGED stats
     \/ SkipFresh
     \/ ScoreSurvivor
  /\ UNCHANGED bound

GSpec     == GInit /\ [][GNext]_gatedVars
SoundSpec == SoundInit /\ [][GNext]_gatedVars

\* The search is one sequential function.
FairSoundSpec == SoundInit /\ [][GNext]_gatedVars /\ WF_gatedVars(GNext)

-----------------------------------------------------------------------------
(* Properties *)

\* With sound bounds the gate changes nothing but the work: the gated search
\* is step by step the plain search, with the same pool after every step.
SameAsPlainSearch == Spec
=============================================================================
