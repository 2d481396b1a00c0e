------------------------------ MODULE MCWorkDirs ------------------------------
(* Instances of the work directories for TLC. *)
EXTENDS WorkDirsProperties

CONSTANTS a1, a2, a

\* Both sessions are of one card.
CardOfSession == [s \in Sessions |-> a]

LeftIn == [k \in Cards |-> Contents \ {"cloning"}]
=============================================================================
