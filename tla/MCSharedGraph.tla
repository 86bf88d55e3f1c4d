--------------------------- MODULE MCSharedGraph ---------------------------
(***************************************************************************)
(* Build parameters are a name, which the files carry, and a batch size,   *)
(* which only the meta file carries.  R32 is built with two batch sizes,   *)
(* R64 always with the same.                                               *)
(***************************************************************************)
EXTENDS SharedGraph

MCStem(c) == c.name
MCConfigs == {[name |-> "R32", batch |-> 1], [name |-> "R32", batch |-> 2], [name |-> "R64", batch |-> 1]}
=============================================================================
