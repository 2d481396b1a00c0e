------------------------------ MODULE MCRouting ------------------------------
(* Four roles, one of each category; five lists; three kanban blocks: plain, *)
(* with capitals and spaces, and with two roles of one name.                 *)
EXTENDS RoutingProperties, TLC

MCRoles == {"plan", "action", "review", "done"}
MCCategory == [r \in MCRoles |-> IF r = "review" THEN "wait" ELSE r]
Plain == [r \in MCRoles |-> [letters |-> r, capital |-> FALSE, spaced |-> FALSE]]
Styled == [Plain EXCEPT !["plan"].capital = TRUE, !["done"].spaced = TRUE]
Clashing == [Plain EXCEPT !["review"] = [letters |-> "done", capital |-> TRUE, spaced |-> TRUE]]
MCConfigs == {Plain, Styled, Clashing}
MCLetters == MCRoles \cup {"backlog"}
ListSymmetry == Permutations(Lists)

=============================================================================
