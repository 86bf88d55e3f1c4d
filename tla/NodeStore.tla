----------------------------- MODULE NodeStore -----------------------------
(***************************************************************************)
(* What a search wants of its graph: a request for the adjacency lists of  *)
(* a beam of nodes is answered once, with exactly the lists the graph file *)
(* holds for them, in the order of the request, or with an error.  A store *)
(* in memory fails only on a bad request or a bad record; one on disk may  *)
(* also fail because a read does.                                          *)
(***************************************************************************)
EXTENDS Sequences

CONSTANTS
  Ids,            \* node ids a search may ask for, valid or not
  Record(_),      \* the adjacency list the file holds for a node
  Valid(_)        \* the node is in the graph and its record is well formed

VARIABLES
  medium,   \* "memory" or "direct"
  asked,    \* the nodes of the request in progress, or of the last one
  status,   \* "busy" during a request, then "ok" or "error"; "none" before any
  lists     \* the lists returned

nodeStoreVars == <<medium, asked, status, lists>>

Init ==
  /\ medium \in {"memory", "direct"}
  /\ asked = <<>> /\ status = "none" /\ lists = <<>>

Ask ==
  /\ status # "busy"
  /\ asked' \in Seq(Ids)
  /\ status' = "busy" /\ lists' = <<>>
  /\ UNCHANGED medium

AnswerLists ==
  /\ status = "busy"
  /\ \A i \in DOMAIN asked : Valid(asked[i])
  /\ status' = "ok"
  /\ lists' = [i \in DOMAIN asked |-> Record(asked[i])]
  /\ UNCHANGED <<medium, asked>>

AnswerError ==
  /\ status = "busy"
  /\ medium = "direct" \/ \E i \in DOMAIN asked : ~Valid(asked[i])
  /\ status' = "error"
  /\ UNCHANGED <<medium, asked, lists>>

\* Another query begins.
Forget ==
  /\ status # "busy"
  /\ asked' = <<>> /\ status' = "none" /\ lists' = <<>>
  /\ UNCHANGED medium

Next == Ask \/ AnswerLists \/ AnswerError \/ Forget

Spec == Init /\ [][Next]_nodeStoreVars
=============================================================================
