---------------------------- MODULE MCPlaybooks ----------------------------
(* Instances of the playbooks for TLC. *)
EXTENDS PlaybooksProperties, TLC

CONSTANTS worker, bug, review, notes, column, plain, links, typo, one, two, broken, fresh, known,
          w1, w2, c1

\* "plain" refers to nothing, "links" to a variable and another playbook,
\* "typo" to a variable nobody has defined.
References == [t \in Texts |-> CASE t = links -> {column, review}
                                 [] t = typo -> {"unknown"}
                                 [] OTHER -> {}]
Defaults == [k \in Skeletons |-> plain]
AtFirst == [f \in Files |-> CASE f = bug -> links [] f = review -> plain
                            [] f = notes -> plain [] OTHER -> NoText]

\* A rule that is broken for a fresh card, one that is true for every card, and one
\* for cards that are not fresh.
Never == [when |-> [x \in Signals |-> IF x = fresh THEN "error" ELSE "false"], prompts |-> <<review>>]
Bugs == [when |-> [x \in Signals |-> "true"], prompts |-> <<bug, notes>>]
Reviews == [when |-> [x \in Signals |-> IF x = fresh THEN "false" ELSE "true"], prompts |-> <<review>>]
RuleSets == [r \in Routers |-> CASE r = one -> <<Never, Bugs>>
                                 [] r = two -> <<Reviews, Bugs>>
                                 [] OTHER -> <<>>]

\* Both workers are of one card, and may be swapped.
CardsOf == [s \in Workers |-> c1]

SameCard == Permutations({w1, w2})
=============================================================================
