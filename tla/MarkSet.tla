------------------------------ MODULE MarkSet ------------------------------
(***************************************************************************)
(* What a search wants of its visited scratch: a set of marks that is      *)
(* empty when the search begins, and an answer to "is this node met for    *)
(* the first time?" that marks it.                                         *)
(***************************************************************************)
CONSTANT Ids

VARIABLES
  marked,   \* the nodes marked by the search in progress
  answer    \* the last answer given, "none" since the last reset

markVars == <<marked, answer>>

Init == marked = {} /\ answer = "none"

Reset == marked' = {} /\ answer' = "none"

TryMark(id) ==
  /\ answer' = IF id \in marked THEN "seen" ELSE "first"
  /\ marked' = marked \cup {id}

Next == Reset \/ \E id \in Ids : TryMark(id)

Spec == Init /\ [][Next]_markVars
=============================================================================
