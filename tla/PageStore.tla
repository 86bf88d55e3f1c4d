----------------------------- MODULE PageStore -----------------------------
(***************************************************************************)
(* What a page reader promises its callers (GraphPageCache, the payload    *)
(* readers): one request for a set of pages is answered once, either with  *)
(* every requested page holding the bytes of that page of the file, or     *)
(* with an error and no page at all.  How the pages are fetched (sorting,  *)
(* coalescing, asynchronous I/O, recovery of the AIO context) is not       *)
(* visible here.                                                           *)
(***************************************************************************)

CONSTANT Pages       \* page ids a caller may ask for, valid or not
CONSTANT FilePages   \* the pages the file has

VARIABLES
  request,    \* the pages asked for by the call in progress, or by the last one
  outcome,    \* "busy" during a call, then "ok" or "error"; "none" before any
  delivered   \* the page ids whose bytes the returned batch holds

pageStoreVars == <<request, outcome, delivered>>

Init ==
  /\ request = {}
  /\ outcome = "none"
  /\ delivered = {}

Ask ==
  /\ outcome # "busy"
  /\ request' \in SUBSET Pages
  /\ outcome' = "busy"
  /\ delivered' = {}

AnswerPages ==
  /\ outcome = "busy"
  /\ request \subseteq FilePages
  /\ outcome' = "ok"
  /\ delivered' = request
  /\ UNCHANGED request

AnswerError ==
  /\ outcome = "busy"
  /\ outcome' = "error"
  /\ UNCHANGED <<request, delivered>>

\* The reader is destroyed and, perhaps, another one is opened in its place.
Reopen ==
  /\ outcome # "busy"
  /\ request' = {}
  /\ outcome' = "none"
  /\ delivered' = {}

Next == Ask \/ AnswerPages \/ AnswerError \/ Reopen

Spec == Init /\ [][Next]_pageStoreVars
=============================================================================
