---------------------------- MODULE MCDispatcher ----------------------------
(* Instances of the dispatcher for TLC. *)
EXTENDS DispatcherProperties

CONSTANTS a, e1, e2, e3, stop1, del1

\* Every event and delete is about card a.
AllOnA == [x \in Events \cup Deleters |-> a]
=============================================================================
