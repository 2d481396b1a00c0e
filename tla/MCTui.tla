--------------------------------- MODULE MCTui ---------------------------------
(* Instances of the operator's view for TLC. *)
EXTENDS TuiProperties

LogEvents == {"registered", "deregistered", "deleted"} \X Cards
=============================================================================
