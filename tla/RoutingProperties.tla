-------------------------- MODULE RoutingProperties --------------------------
(* What the resolution of the board's lists and the default routes promise   *)
(* together: a card is handled by the list it is in.                         *)
EXTENDS Routing

\* What a list called n is for, by the kanban block alone.
CategoryOf(n) ==
  IF \E r \in Roles : NormaliseName(config[r]) = NormaliseName(n)
  THEN Category[CHOOSE r \in Roles : NormaliseName(config[r]) = NormaliseName(n)]
  ELSE "wait"

\* What happens to a card moved to, or created in, a list of category c.
Expected(type, c) ==
  CASE c \in {"plan", "action"} -> "dispatch"
    [] type = "updateCard" /\ c = "done" -> "terminate"
    [] type = "updateCard" /\ c \notin {"plan", "action", "done"} -> "notify_departure"
    [] OTHER -> "drop"

Listed == /\ last.ev.type \in {"updateCard", "createCard"}
          /\ last.ev.card = "valid"

\* As long as nobody changes the board, an event that carries the id of a list, its
\* name, or both has the effect its list stands for: the resolution at startup, the
\* view handed to the engine and the order of the default routes agree, whatever
\* the capitals and spaces.  An event that carries only a name is routed as
\* CategoryForListName says even later.  A name with space around it and no id is
\* the exception: the routes do not trim it.
RoutedByItsList ==
  Listed =>
     /\ renamed = {} /\ last.ev.id # NoList =>
          last.do = Expected(last.ev.type, CategoryOf(board[last.ev.id]))
     /\ last.ev.id = NoList /\ last.ev.name # Empty /\ ~last.ev.name.spaced =>
          last.do = Expected(last.ev.type, CategoryForListName(view, last.ev.name))

\* The categories the routes ask for; the lists and names that wait are those of no
\* other.
Deciding == {"plan", "action", "done"}

\* At startup a list that is planned, acted on or done had this name.
Claimed(n) == \E d \in Deciding : Lower(n) \in view.names[d]

\* Lists are known by their ids once the gateway runs.  Whatever users rename or
\* make, an event with the id of a list is routed by the category the id had at
\* startup (a list made since waits), unless the list now bears the name of one that
\* was to be planned, acted on or done: then it is routed for the one or the other,
\* and a move to the Done list ends the card's session all the same (the default
\* routes ask for the id or the name, moved_to_done first).
IdsSurviveRenames ==
  (Listed /\ last.ev.id # NoList) =>
     LET c == CategoryForListID(view, last.ev.id) IN
     /\ ~Claimed(last.ev.name) \/ (c = "done" /\ last.ev.type = "updateCard") =>
          last.do = Expected(last.ev.type, c)
     /\ last.do \in {Expected(last.ev.type, c),
                     Expected(last.ev.type, CategoryForListName(view, last.ev.name))}

\* A gateway that starts has given every list open at startup exactly one category,
\* and each role's category has that role's list: nothing is claimed twice, and no
\* list is left out (Resolve, kanban.go).
EveryListHasACategory ==
  phase = "running" =>
     /\ \A l \in DOMAIN board \ renamed :
          {c \in Categories : l \in view.ids[c]} = {CategoryOf(board[l])}
     /\ \A r \in Roles : \E l \in view.ids[Category[r]] :
          l \in renamed \/ NormaliseName(board[l]) = NormaliseName(config[r])
=============================================================================
