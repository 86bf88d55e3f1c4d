----------------------------- MODULE RobustPrune -----------------------------
(***************************************************************************)
(* robust_prune_4bit of Ours/core/hnswlib/vamana_prune.h: from the         *)
(* candidates for the neighbours of a node, closest first, keep those that *)
(* no kept one occludes, in passes under a growing alpha, until R are      *)
(* kept.  Distances are given as a table; only comparisons of their        *)
(* multiples matter.                                                       *)
(***************************************************************************)
EXTENDS Integers, Sequences, FiniteSets, SequencesExt

CONSTANTS
  R,            \* degree: how many neighbours a node may have
  AlphaLevels   \* the values of current_alpha, in units in which 1.0 is the first

ASSUME RAssumption == R \in Nat \ {0}
ASSUME AlphaAssumption ==
  /\ AlphaLevels \in Seq(Nat \ {0}) /\ AlphaLevels # <<>>
  /\ \A i \in 2 .. Len(AlphaLevels) : AlphaLevels[i - 1] < AlphaLevels[i]

\* prune_candidate_less, for the candidates of one source.
Less(dist, source, a, b) ==
  \/ dist[source][a] < dist[source][b]
  \/ dist[source][a] = dist[source][b] /\ a < b

\* The elements of S in an order, which is the set of its pairs.
Sorted(S, order) ==
  [i \in 1 .. Cardinality(S) |->
     CHOOSE c \in S : Cardinality({b \in S : <<b, c>> \in order}) = i - 1]

Nearness(dist, source, S) == {x \in S \X S : Less(dist, source, x[1], x[2])}

\* The candidates sorted, without duplicates and without the source.
Unique(dist, source, candidates) ==
  LET others == candidates \ {source} IN Sorted(others, Nearness(dist, source, others))

\* A kept neighbour is so close to the candidate that it stands for it.
Occluded(dist, source, alpha, selected, c) ==
  \E i \in DOMAIN selected : alpha * dist[c][selected[i]] <= AlphaLevels[1] * dist[source][c]

\* A candidate is kept while there is room, unless it is kept or occluded already.
Offer(dist, source, alpha, kept, c) ==
  IF Len(kept) = R \/ Contains(kept, c) \/ Occluded(dist, source, alpha, kept, c)
  THEN kept ELSE Append(kept, c)

\* Mutant: the bound is looked at before the pass, not before each candidate.
PassUnbounded(dist, source, alpha, unique, selected) ==
  LET kept[i \in 0 .. Len(unique)] ==
        IF i = 0 \/ Len(selected) = R THEN selected
        ELSE IF Contains(kept[i - 1], unique[i])
                \/ Occluded(dist, source, alpha, kept[i - 1], unique[i])
        THEN kept[i - 1] ELSE Append(kept[i - 1], unique[i])
  IN  kept[Len(unique)]

\* Mutant: only the neighbours kept by earlier passes occlude.
PassOccludesLate(dist, source, alpha, unique, selected) ==
  LET kept[i \in 0 .. Len(unique)] ==
        IF i = 0 THEN selected
        ELSE IF Len(kept[i - 1]) = R \/ Contains(kept[i - 1], unique[i])
                \/ Occluded(dist, source, alpha, selected, unique[i])
        THEN kept[i - 1] ELSE Append(kept[i - 1], unique[i])
  IN  kept[Len(unique)]

\* One pass over the candidates.
Pass(dist, source, alpha, unique, selected) ==
  LET kept[i \in 0 .. Len(unique)] ==
        IF i = 0 THEN selected ELSE Offer(dist, source, alpha, kept[i - 1], unique[i])
  IN  kept[Len(unique)]

\* Mutant: the last level of alpha is left out.
PrunedFirstLevelOnly(dist, source, candidates) ==
  LET unique == Unique(dist, source, candidates)
  IN  Pass(dist, source, AlphaLevels[1], unique, <<>>)

\* A pass for each level.
Pruned(dist, source, candidates) ==
  LET unique == Unique(dist, source, candidates)
      kept[l \in 0 .. Len(AlphaLevels)] ==
        IF l = 0 THEN <<>> ELSE Pass(dist, source, AlphaLevels[l], unique, kept[l - 1])
  IN  kept[Len(AlphaLevels)]
=============================================================================
