---------------------------- MODULE BoardStream ----------------------------
(***************************************************************************)
(* How a change of the local board reaches the pages that show it:         *)
(* Store.signalChange, handler.broadcast and handler.handleEvents          *)
(* (src/internal/app/localboard/store.go, server.go), and the page's       *)
(* refresh and connect (ui.go).                                            *)
(*                                                                         *)
(* The board is seen as a version number.  A broadcast puts at most one    *)
(* token in a page's channel; a page that is told fetches the whole board. *)
(***************************************************************************)
EXTENDS Integers, Sequences, SequencesExt

CONSTANTS
  Pages,       \* open browser pages
  MaxVersion,  \* bound on the changes of the board
  MaxEvents,   \* bound on the events under way to a page
  MaxFetches   \* bound on the fetches of a page under way

ASSUME BoardStreamAssumption ==
  /\ MaxVersion \in Nat /\ MaxEvents \in Nat \ {0} /\ MaxFetches \in Nat \ {0}

VARIABLES
  version,  \* changes of the board so far
  signals,  \* changes whose signalChange is still to come
  link,     \* the page's EventSource
  token,    \* handler.clients: the registered channels, and the tokens in each
  events,   \* events written to the page that it has not seen
  fetches,  \* the page's fetches under way, oldest first: what each has read
  shown,    \* the version the page shows
  newest,   \* history: the newest version it was given
  failed,   \* history: did a fetch of the page fail?
  overtaken \* history: did a fetch's answer come after a newer one?

serverVars == <<version, signals, token>>
pageVars == <<shown, newest, failed, overtaken>>
streamVars == <<serverVars, link, events, fetches, pageVars>>

Unread == -1

StreamTypeOK ==
  /\ version \in 0..MaxVersion
  /\ signals \in 0..MaxVersion
  /\ link \in [Pages -> {"loading", "connecting", "open", "dead"}]
  /\ DOMAIN token \subseteq Pages
  /\ \A p \in DOMAIN token : token[p] \in 0..1
  /\ events \in [Pages -> 0..MaxEvents]
  /\ \A p \in Pages : /\ Len(fetches[p]) <= MaxFetches
                      /\ \A i \in DOMAIN fetches[p] : fetches[p][i] \in {Unread} \cup 0..version
  /\ shown \in [Pages -> {Unread} \cup 0..version]
  /\ newest \in [Pages -> {Unread} \cup 0..version]
  /\ failed \in [Pages -> BOOLEAN]
  /\ overtaken \in [Pages -> BOOLEAN]

\* A page begins with a refresh, and connects when it is done.
StreamInit ==
  /\ version = 0
  /\ signals = 0
  /\ link = [p \in Pages |-> "loading"]
  /\ token = <<>>
  /\ events = [p \in Pages |-> 0]
  /\ fetches = [p \in Pages |-> <<Unread>>]
  /\ shown = [p \in Pages |-> Unread]
  /\ newest = [p \in Pages |-> Unread]
  /\ failed = [p \in Pages |-> FALSE]
  /\ overtaken = [p \in Pages |-> FALSE]

-----------------------------------------------------------------------------
(* The store and the broadcast.                                            *)

\* CreateCard, MoveCard or addComment has written to the database ...
Commit ==
  /\ version < MaxVersion
  /\ version' = version + 1
  /\ signals' = signals + 1
  /\ UNCHANGED <<token, link, events, fetches, pageVars>>

\* ... and calls notify, which offers a token to every registered
\* channel; one that holds a token takes no second.
Broadcast ==
  /\ signals > 0
  /\ signals' = signals - 1
  /\ token' = [p \in DOMAIN token |-> 1]
  /\ UNCHANGED <<version, link, events, fetches, pageVars>>

-----------------------------------------------------------------------------
(* handleEvents, one call for each connection.                             *)

Set(p, n) == [q \in DOMAIN token \cup {p} |-> IF q = p THEN n ELSE token[q]]

Without(p) == [q \in DOMAIN token \ {p} |-> token[q]]

\* It makes and registers its channel, and then greets the page.
Register(p) ==
  /\ link[p] = "connecting"
  /\ p \notin DOMAIN token
  /\ token' = Set(p, 0)
  /\ UNCHANGED <<version, signals, link, events, fetches, pageVars>>

\* Mutant of Write: what arrives while the page fetches is dropped.
WriteOnce(p) ==
  /\ p \in DOMAIN token /\ token[p] > 0
  /\ events[p] < MaxEvents
  /\ token' = Set(p, 0)
  /\ events' = [events EXCEPT ![p] = IF Len(fetches[p]) > 0 THEN @ ELSE @ + 1]
  /\ UNCHANGED <<version, signals, link, fetches, pageVars>>

\* A token becomes an event.
Write(p) ==
  /\ p \in DOMAIN token /\ token[p] > 0
  /\ events[p] < MaxEvents
  /\ token' = Set(p, 0)
  /\ events' = [events EXCEPT ![p] = @ + 1]
  /\ UNCHANGED <<version, signals, link, fetches, pageVars>>

-----------------------------------------------------------------------------
(* The page.                                                               *)

\* refresh asks for /api/state.
Refresh(p) ==
  /\ Len(fetches[p]) < MaxFetches
  /\ fetches' = [fetches EXCEPT ![p] = Append(@, Unread)]

\* Mutant of Opened: only messages make the page refresh.
OpenedQuietly(p) ==
  /\ link[p] = "connecting"
  /\ p \in DOMAIN token
  /\ link' = [link EXCEPT ![p] = "open"]
  /\ UNCHANGED <<serverVars, events, fetches, pageVars>>

\* onopen: the greeting is there.
Opened(p) ==
  /\ link[p] = "connecting"
  /\ p \in DOMAIN token
  /\ link' = [link EXCEPT ![p] = "open"]
  /\ Refresh(p)
  /\ UNCHANGED <<serverVars, events, pageVars>>

\* onmessage.
Message(p) ==
  /\ link[p] = "open"
  /\ events[p] > 0
  /\ events' = [events EXCEPT ![p] = @ - 1]
  /\ Refresh(p)
  /\ UNCHANGED <<serverVars, link, pageVars>>

\* The user drops a card, comments or makes a card, and the page refreshes
\* when the call has returned.
Operate(p) ==
  /\ link[p] \in {"connecting", "open"}
  /\ Refresh(p)
  /\ UNCHANGED <<serverVars, link, events, pageVars>>

\* handleState reads the board.
Read(p, i) ==
  /\ fetches[p][i] = Unread
  /\ fetches' = [fetches EXCEPT ![p][i] = version]
  /\ UNCHANGED <<serverVars, link, events, pageVars>>

\* The page shows what a fetch brought.
Reply(p, i) ==
  /\ fetches[p][i] # Unread
  /\ shown' = [shown EXCEPT ![p] = fetches[p][i]]
  /\ newest' = [newest EXCEPT ![p] = IF fetches[p][i] > @ THEN fetches[p][i] ELSE @]
  /\ overtaken' = [overtaken EXCEPT ![p] = @ \/ fetches[p][i] < newest[p]]
  /\ fetches' = [fetches EXCEPT ![p] = RemoveAt(@, i)]
  /\ link' = [link EXCEPT ![p] = IF @ = "loading" THEN "connecting" ELSE @]
  /\ UNCHANGED <<serverVars, events, failed>>

\* A fetch fails and is not tried again; without the first one the page does
\* not even connect.
FetchFails(p, i) ==
  /\ fetches' = [fetches EXCEPT ![p] = RemoveAt(@, i)]
  /\ failed' = [failed EXCEPT ![p] = TRUE]
  /\ link' = [link EXCEPT ![p] = IF @ = "loading" THEN "dead" ELSE @]
  /\ UNCHANGED <<serverVars, events, shown, newest, overtaken>>

\* The connection breaks, its events and its channel are gone, and the
\* EventSource connects anew.
Disconnect(p) ==
  /\ link[p] \in {"connecting", "open"}
  /\ p \in DOMAIN token
  /\ link' = [link EXCEPT ![p] = "connecting"]
  /\ token' = Without(p)
  /\ events' = [events EXCEPT ![p] = 0]
  /\ UNCHANGED <<version, signals, fetches, pageVars>>

-----------------------------------------------------------------------------
Fetch(p) == \E i \in DOMAIN fetches[p] : Read(p, i) \/ Reply(p, i)

Stream(p) == Register(p) \/ Write(p) \/ Opened(p) \/ Message(p)

StreamNext ==
  \/ Commit \/ Broadcast
  \/ \E p \in Pages : \/ Stream(p) \/ Operate(p) \/ Fetch(p) \/ Disconnect(p)
                      \/ \E i \in DOMAIN fetches[p] : FetchFails(p, i)

StreamSpec == StreamInit /\ [][StreamNext]_streamVars

\* The notifier, the handlers and the pages go on, and fetches are answered.
FairStreamSpec ==
  /\ StreamSpec
  /\ WF_streamVars(Broadcast)
  /\ \A p \in Pages : WF_streamVars(Stream(p)) /\ WF_streamVars(Fetch(p))
=============================================================================
