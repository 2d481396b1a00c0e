------------------------------- MODULE Routing -------------------------------
(***************************************************************************)
(* From the lists of the board to what happens to an event: the roles      *)
(* resolved at startup (src/internal/app/kanban/kanban.go, decode.go), the *)
(* route engine with the default routes (router/engine.go, defaults.go),   *)
(* and Dispatcher.evaluateRoute (dispatcher.go).                           *)
(*                                                                         *)
(* A name is a record of what comparing names can tell apart: its letters, *)
(* whether some are capital, and whether there is space around them.       *)
(***************************************************************************)
EXTENDS Naturals, Sequences, FiniteSets

CONSTANTS
  Roles,     \* role keys of the kanban block
  Category,  \* the category of each role
  Configs,   \* the names a kanban block may give the roles
  Lists,     \* ids of lists
  NoList,    \* the payload carries no list id
  Letters,   \* what names are made of
  NoName,    \* the letters of the empty name
  Renames    \* bound on the changes of the board after startup

Categories == {"plan", "action", "wait", "done"}

Names == [letters : Letters, capital : BOOLEAN, spaced : BOOLEAN]

ASSUME RoutingAssumption ==
  /\ Category \in [Roles -> Categories]
  /\ Configs \subseteq [Roles -> Names]
  /\ NoList \notin Lists /\ IsFiniteSet(Lists)
  /\ NoName \notin Letters
  /\ Renames \in Nat

Empty == [letters |-> NoName, capital |-> FALSE, spaced |-> FALSE]

TrimSpace(n) == [n EXCEPT !.spaced = FALSE]
Lower(n) == [n EXCEPT !.capital = FALSE]

NormaliseName(n) == Lower(TrimSpace(n))

-----------------------------------------------------------------------------
(* The kanban view.                                                        *)

\* Config.Validate: no two roles of one name.
Validate(cfg) == \A r, s \in Roles : NormaliseName(cfg[r]) = NormaliseName(cfg[s]) => r = s

Matches(cfg, board, r) ==
  {l \in DOMAIN board : NormaliseName(board[l]) = NormaliseName(cfg[r])}

\* Mutant of Resolvable: several lists of one name will do.
ResolvableAny(cfg, b) ==
  Validate(cfg) /\ \A r \in Roles : Matches(cfg, b, r) # {}

\* Resolve succeeds when every role has exactly one list.
Resolvable(cfg, board) ==
  Validate(cfg) /\ \A r \in Roles : Cardinality(Matches(cfg, board, r)) = 1

\* The resolved view: the list and the name of each role, and the lists and the
\* names of each category.  A list without a role counts as waiting.
Resolve(cfg, board) ==
  LET list == [r \in Roles |-> CHOOSE l \in Matches(cfg, board, r) : TRUE]
      unclaimed == DOMAIN board \ {list[r] : r \in Roles}
      of(c) == {r \in Roles : Category[r] = c}
  IN  [ids   |-> [c \in Categories |->
                   {list[r] : r \in of(c)} \cup IF c = "wait" THEN unclaimed ELSE {}],
       names |-> [c \in Categories |->
                   {NormaliseName(cfg[r]) : r \in of(c)}
                   \cup IF c = "wait" THEN {NormaliseName(board[l]) : l \in unclaimed} ELSE {}]]

Unknown == "unknown"

CategoryForListID(view, l) ==
  IF \E c \in Categories : l \in view.ids[c]
  THEN CHOOSE c \in Categories : l \in view.ids[c]
  ELSE Unknown

CategoryForListName(view, n) ==
  IF \E c \in Categories : NormaliseName(n) \in view.names[c]
  THEN CHOOSE c \in Categories : NormaliseName(n) \in view.names[c]
  ELSE Unknown

-----------------------------------------------------------------------------
(* The route engine.                                                       *)

\* An event names a list by its id, by its name, or by both.
Event(type, card, id, name, text) ==
  [type |-> type, card |-> card, id |-> id, name |-> name, text |-> text]

\* Mutant of In: the name is used as it comes.
InRaw(v, c, ev) == ev.id \in v.ids[c] \/ ev.name \in v.names[c]

\* Mutant of In: a name, when there is one, decides alone.
InByName(v, c, ev) ==
  IF ev.name # Empty THEN Lower(ev.name) \in v.names[c] ELSE ev.id \in v.ids[c]

\* contains(kanban.<c>_list_ids, id) || contains(kanban.<c>_lists, lower(name))
In(view, c, ev) == ev.id \in view.ids[c] \/ Lower(ev.name) \in view.names[c]

Route(when, do) == [when |-> when, do |-> do]

\* The default routes in their order, each with its condition on this event.
Routes(view, ev) ==
  LET update == ev.type = "updateCard"
      create == ev.type = "createCard"
      listed == ev.id # NoList \/ ev.name # Empty
  IN <<
    Route(ev.card = "none", "drop"),
    Route(ev.card = "invalid", "drop"),
    Route(update /\ ~listed, "drop"),
    Route(update /\ In(view, "done", ev), "terminate"),
    Route(update /\ In(view, "plan", ev), "dispatch"),
    Route(update /\ In(view, "action", ev), "dispatch"),
    Route(update /\ listed, "notify_departure"),
    Route(create /\ In(view, "plan", ev), "dispatch"),
    Route(create /\ In(view, "action", ev), "dispatch"),
    Route(create, "drop"),
    Route(ev.type = "commentCard" /\ ev.text = "agent", "drop"),
    Route(ev.type = "commentCard", "dispatch"),
    Route(ev.type = "deleteCard", "terminate"),
    Route(ev.type = "deleteComment", "drop"),
    Route(TRUE, "drop") >>

\* The first route whose condition holds decides.
Evaluate(routes) ==
  LET first == CHOOSE i \in DOMAIN routes :
                 routes[i].when /\ \A j \in 1..(i - 1) : ~routes[j].when
  IN  IF \E i \in DOMAIN routes : routes[i].when THEN routes[first].do ELSE "drop"

EvaluateRoute(view, ev) == Evaluate(Routes(view, ev))

-----------------------------------------------------------------------------
(* The gateway starts with the board as it is; the board may change later; *)
(* events name lists as they are called when the event happens.            *)

VARIABLES
  board,    \* the open lists and their names
  config,   \* the kanban block
  view,     \* the resolved view; empty before startup and when it failed
  phase,    \* "starting", "running" or "refused"
  renamed,  \* history: lists renamed or made since startup
  last      \* the event of this history and its route, or none yet

routingVars == <<board, config, view, phase, renamed, last>>

NoView == [ids |-> [c \in Categories |-> {}], names |-> [c \in Categories |-> {}]]
NoEvent == [ev |-> Event("none", "none", NoList, Empty, "human"), do |-> "drop"]

RoutingTypeOK ==
  /\ DOMAIN board \subseteq Lists
  /\ \A l \in DOMAIN board : board[l] \in Names
  /\ config \in Configs
  /\ \A c \in Categories : /\ view.ids[c] \subseteq Lists
                            /\ view.names[c] \subseteq {n \in Names : ~n.capital /\ ~n.spaced}
  /\ phase \in {"starting", "running", "refused"}
  /\ renamed \subseteq Lists
  /\ last.do \in {"drop", "dispatch", "terminate", "notify_departure"}

\* Any open lists under any names; at most one of them has capitals or spaces.
RoutingInit ==
  /\ \E open \in SUBSET Lists : \E letters \in [open -> Letters],
        l \in open, cap, sp \in BOOLEAN :
       board = [k \in open |-> [letters |-> letters[k],
                                capital |-> k = l /\ cap, spaced |-> k = l /\ sp]]
  /\ config \in Configs
  /\ view = NoView
  /\ phase = "starting"
  /\ renamed = {}
  /\ last = NoEvent

\* LoadAndResolve; main exits when a role has no list, or several.
LoadAndResolve ==
  /\ phase = "starting"
  /\ IF Resolvable(config, board)
     THEN phase' = "running" /\ view' = Resolve(config, board)
     ELSE phase' = "refused" /\ UNCHANGED view
  /\ UNCHANGED <<board, config, renamed, last>>

\* A user gives a list another name.
Rename(l, n) ==
  /\ phase = "running"
  /\ Cardinality(renamed) < Renames
  /\ n # board[l]
  /\ board' = [board EXCEPT ![l] = n]
  /\ renamed' = renamed \cup {l}
  /\ last = NoEvent
  /\ UNCHANGED <<config, view, phase, last>>

\* A user makes a list.
AddList(l, n) ==
  /\ phase = "running"
  /\ Cardinality(renamed) < Renames
  /\ l \in Lists \ DOMAIN board
  /\ board' = [k \in DOMAIN board \cup {l} |-> IF k = l THEN n ELSE board[k]]
  /\ renamed' = renamed \cup {l}
  /\ last = NoEvent
  /\ UNCHANGED <<config, view, phase, last>>

\* Evaluating an event leaves nothing behind, so one event ends each history.
Deliver(ev) ==
  /\ phase = "running"
  /\ last = NoEvent
  /\ last' = [ev |-> ev, do |-> EvaluateRoute(view, ev)]
  /\ UNCHANGED <<board, config, view, phase, renamed>>

ListEvents ==
  {Event(type, card, IF byId THEN l ELSE NoList, IF byName THEN board[l] ELSE Empty, "human") :
     type \in {"updateCard", "createCard"}, card \in {"valid", "invalid", "none"},
     l \in DOMAIN board, byId, byName \in BOOLEAN}

OtherEvents ==
  {Event(type, "valid", NoList, Empty, text) :
     type \in {"commentCard", "deleteCard", "deleteComment", "addLabelToCard"},
     text \in {"agent", "human"}}

RoutingNext ==
  \/ LoadAndResolve
  \/ \E l \in DOMAIN board, n \in Names : Rename(l, n)
  \/ \E l \in Lists, n \in Names : AddList(l, n)
  \/ \E ev \in ListEvents \cup OtherEvents : Deliver(ev)

RoutingSpec == RoutingInit /\ [][RoutingNext]_routingVars
=============================================================================
