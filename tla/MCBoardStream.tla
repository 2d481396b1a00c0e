---------------------------- MODULE MCBoardStream ----------------------------
(* An instance of the event stream for TLC. *)
EXTENDS BoardStreamProperties

CONSTANTS p1
=============================================================================
