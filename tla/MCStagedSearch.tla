--------------------------- MODULE MCStagedSearch ---------------------------
(***************************************************************************)
(* One reader, used by a search of four records or by callers that ask for *)
(* whatever they like.                                                     *)
(*                                                                         *)
(* Pages have four bytes, and there is a layout of each kind: two records  *)
(* to a page, with all pages full or the last one half empty, one record   *)
(* to a page with bytes to spare, records of exactly a page, and records   *)
(* that take two pages, all of the second or half of it.  The search is of *)
(* two graphs; the lists hold more neighbours than a chunk and the pool    *)
(* have room for, and an id of no record.                                  *)
(***************************************************************************)
EXTENDS StagedSearch

MCLayouts ==
  {[count |-> 3, bytes |-> 2], [count |-> 2, bytes |-> 3],
   [count |-> 2, bytes |-> 4], [count |-> 2, bytes |-> 6], [count |-> 2, bytes |-> 8],
   [count |-> 4, bytes |-> 2], [count |-> 4, bytes |-> 6]}

MCGraphs ==
  {[n \in 0 .. 3 |-> CASE n = 0 -> a [] n = 1 -> <<3, 2>> [] OTHER -> <<0, 1>>] :
     a \in {<<1, 2, 3>>, <<3, 5, 1>>}}

MCDistances == {0, 1}
MCBounds    == {-1, 1}

\* The callers have the reader to themselves: no search is under way.
CallersInit ==
  /\ Init /\ layout.count < NodeCount
  /\ SearchInit /\ result = "callers"
  /\ graph = CHOOSE g \in MCGraphs : TRUE
  /\ dist = [n \in 0 .. 3 |-> 0] /\ bound = [n \in 0 .. 3 |-> -1]

\* The estimate of the start node is not looked at, and it is as far as can be.
SearchesInit == StagedInit /\ dist[0] = 1 /\ bound[0] = -1

CallersNext == result = "callers" /\ Next /\ UNCHANGED searchVars

MCNext == StagedNext \/ CallersNext

MCSpec == (SearchesInit \/ CallersInit) /\ [][MCNext]_stagedVars /\ WF_stagedVars(StagedNext)
=============================================================================
