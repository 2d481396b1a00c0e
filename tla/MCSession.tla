------------------------------ MODULE MCSession ------------------------------
(* Instances of a worker and its session for TLC. *)
EXTENDS SessionProperties

CONSTANTS task, view

\* A call that runs a subagent, and a call of that subagent.
ParentOf == [c \in Calls |-> IF c = view THEN task ELSE None]
=============================================================================
