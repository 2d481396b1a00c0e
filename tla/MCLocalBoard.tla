---------------------------- MODULE MCLocalBoard ----------------------------
(* Instances of the built-in board for TLC. *)
EXTENDS LocalBoardProperties, FiniteSets

CONSTANTS k1, k2, plan, action, done, m1, m2, m3, n1, c1, c2

\* A card is on the board and is moved by the browser and twice by the agent;
\* another one is made and gets comments.
Ops == [c \in Calls |-> CASE c = n1 -> "create" [] c \in {c1, c2} -> "comment" [] OTHER -> "move"]
CallCards == [c \in Calls |-> IF c \in {n1, c1, c2} THEN k2 ELSE k1]
Targets == [c \in Calls |-> CASE c = m1 -> action [] c = m3 -> done [] OTHER -> plan]

\* Readings of one second, the second with more decimals than the first.
Readings ==
  <<[sec |-> 0, dec |-> <<5>>], [sec |-> 0, dec |-> <<5, 1>>], [sec |-> 0, dec |-> <<7>>]>>

\* A bound: a behaviour is followed until a second call fails.
OneFailure == Cardinality({c \in Calls : pc[c] = "failed"}) <= 1
=============================================================================
