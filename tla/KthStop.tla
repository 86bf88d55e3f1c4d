------------------------------ MODULE KthStop ------------------------------
(***************************************************************************)
(* The k-th convergence stop of 02_diskann_fair/src/ours_diskann.rs        *)
(* (kth_stop).  At the end of a round the search stops as soon as the k-th *)
(* distance of the pool is at most the lower bound of every entry not yet  *)
(* expanded.  Here the stop records the answer the program would return,   *)
(* and the search goes on as it does with kth_stop off, so that the two    *)
(* answers can be compared.                                                *)
(***************************************************************************)
EXTENDS GatedSearch

CONSTANT K        \* k, the number of neighbours asked for; at most L

VARIABLE answer   \* the ids the stop returned, none while it has not fired

kthVars == <<gatedVars, answer>>

TopK == [i \in 1 .. K |-> pool[i].id]

\* An entry whose bound is unknown counts as infinitely far.
KthConverged ==
  /\ Len(pool) >= K
  /\ \A i \in 1 .. Len(pool) :
       pool[i].expanded \/ bound[pool[i].id] = Invalid
         \/ dist[pool[K].id] <= bound[pool[i].id]

KInit == GInit /\ Sound /\ answer = <<>>

KFinishRound ==
  /\ FinishRound
  /\ answer' = IF answer = <<>> /\ KthConverged THEN TopK ELSE answer
  /\ UNCHANGED stats

KNext ==
  /\ \/ KFinishRound
     \/ /\ Traverse /\ ~(pc = "visit" /\ frontier = <<>>)
        /\ UNCHANGED <<stats, answer>>
     \/ (SkipFresh \/ ScoreSurvivor) /\ UNCHANGED answer
  /\ UNCHANGED bound

KSpec == KInit /\ [][KNext]_kthVars

\* "Once the k-th pool distance is <= every unexpanded candidate's lower
\* bound, the top-k cannot change": the comment's claim, with every lower
\* bound that is known a true one.
TopKCannotChange == pc = "done" /\ answer # <<>> => TopK = answer
=============================================================================
