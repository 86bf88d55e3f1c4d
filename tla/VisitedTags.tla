---------------------------- MODULE VisitedTags ----------------------------
(***************************************************************************)
(* The visited tags of SearchScratch (Ours/core/hnswlib/vamana_search.h)   *)
(* and VisitedScratch (02_diskann_fair/src/ours_diskann.rs): one array per *)
(* thread, used by every search the thread runs, on indexes of any size.   *)
(* A search takes a new tag instead of clearing the array; the tag is a    *)
(* 32-bit number, so that after 2^32 - 1 searches the array is cleared     *)
(* after all.  MaxTag stands for 2^32 - 1.                                 *)
(***************************************************************************)
EXTENDS Integers

CONSTANTS
  MaxTag,   \* the greatest tag
  MaxNodes  \* bound: nodes of the largest index

ASSUME MaxTagAssumption   == MaxTag \in Nat \ {0}
ASSUME MaxNodesAssumption == MaxNodes \in Nat

Ids == 0 .. MaxNodes - 1

VARIABLES
  size,      \* visited_tags.size()
  tags,      \* visited_tags
  current,   \* current_tag
  nodes,     \* node_count of the search in progress
  answer     \* what try_mark returned last

tagVars == <<size, tags, current, nodes, answer>>

TagsTypeOK ==
  /\ size \in 0 .. MaxNodes
  /\ tags \in [0 .. size - 1 -> 0 .. MaxTag]
  /\ current \in 0 .. MaxTag
  /\ nodes \in 0 .. size
  /\ answer \in {"none", "seen", "first"}

TagsInit ==
  /\ size = 0 /\ tags = [i \in 0 .. -1 |-> 0] /\ current = 0
  /\ nodes = 0 /\ answer = "none"

\* A tag that would overflow starts again at 1 on a cleared array.
NextTag(grown) ==
  IF current = MaxTag
  THEN tags' = [i \in DOMAIN grown |-> 0] /\ current' = 1
  ELSE tags' = grown /\ current' = current + 1

\* Mutant: the new places get the tag of the search that makes them.
ResetFillsWithTag(n) ==
  /\ size' = IF size < n THEN n ELSE size
  /\ NextTag([i \in 0 .. size' - 1 |-> IF i < size THEN tags[i] ELSE current + 1])
  /\ nodes' = n /\ answer' = "none"

\* reset: the array only ever grows; the new places have never been tagged.
Reset(n) ==
  /\ size' = IF size < n THEN n ELSE size
  /\ NextTag([i \in 0 .. size' - 1 |-> IF i < size THEN tags[i] ELSE 0])
  /\ nodes' = n /\ answer' = "none"

TryMark(id) ==
  /\ id < nodes
  /\ answer' = IF tags[id] = current THEN "seen" ELSE "first"
  /\ tags' = [tags EXCEPT ![id] = current]
  /\ UNCHANGED <<size, current, nodes>>

TagsNext ==
  \/ \E n \in 0 .. MaxNodes : Reset(n)
  \/ \E id \in Ids : TryMark(id)

TagsSpec == TagsInit /\ [][TagsNext]_tagVars

-----------------------------------------------------------------------------
(* Properties *)

\* The tags are a set of marks that every search finds empty, for all the
\* searches before it and however often the tag has wrapped.
Marks == INSTANCE MarkSet WITH marked <- {i \in 0 .. size - 1 : tags[i] = current}
MarksSpec == Marks!Spec

\* No tag is ahead of the current one: a tag of an earlier search, also of a
\* larger index, cannot be taken for a mark of a later one.
NoTagAhead == \A i \in 0 .. size - 1 : tags[i] <= current
=============================================================================
