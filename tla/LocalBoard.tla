----------------------------- MODULE LocalBoard -----------------------------
(***************************************************************************)
(* The built-in board: the calls of the browser and of the agent's tools   *)
(* (src/internal/app/trello_tools.go) on the SQLite store                  *)
(* (localboard/store.go), and the events the browser's calls send to the   *)
(* dispatcher (server.go, payload.go).                                     *)
(*                                                                         *)
(* Each call runs on a goroutine of its own and is a sequence of database  *)
(* statements, every one atomic.  Times are stored as RFC 3339 text and    *)
(* compared as text.                                                       *)
(***************************************************************************)
EXTENDS Naturals, SequencesExt

CONSTANTS
  Cards,     \* cards the calls are about
  Columns,   \* ids of the columns
  FirstCol,  \* the column a new card is put in
  NoColumn,  \* the column of a card that does not exist
  Calls,     \* calls of the browser and of the agent
  Human,     \* the browser's calls
  Op,        \* what a call asks for
  CardOf,    \* the card it names
  TargetOf,  \* the column it names
  Instants   \* the readings of the clock in their order: a second and its decimals

\* A reading that is not later: it is of an earlier second, or has decimals that
\* are smaller at the first difference, or are all the first of the other's.
NotLater(s, t) ==
  \/ s.sec < t.sec
  \/ /\ s.sec = t.sec
     /\ \/ IsPrefix(s.dec, t.dec)
        \/ \E i \in DOMAIN s.dec \cap DOMAIN t.dec :
             s.dec[i] < t.dec[i] /\ \A j \in 1..(i - 1) : s.dec[j] = t.dec[j]

ASSUME LocalBoardAssumption ==
  /\ FirstCol \in Columns /\ NoColumn \notin Columns
  /\ Human \subseteq Calls
  /\ Op \in [Calls -> {"create", "move", "comment"}]
  /\ CardOf \in [Calls -> Cards]
  /\ TargetOf \in [Calls -> Columns]
  /\ \A c \in Calls : Op[c] = "create" => c \in Human
  /\ \A c, d \in Calls : Op[c] = "create" /\ Op[d] = "create" /\ CardOf[c] = CardOf[d] => c = d
  /\ Instants \in Seq([sec : Nat, dec : Seq(0..9)]) /\ Len(Instants) > 0
  /\ \A i, j \in DOMAIN Instants : i < j => NotLater(Instants[i], Instants[j])

VARIABLES
  column,    \* cards.id_list
  comments,  \* the rows of comments: the call that made each, and when
  clock,     \* index of the clock's reading
  pc,        \* how far each call has come, or how it ended
  before,    \* the column each call's first GetCard returned
  stamp,     \* the reading of the clock each comment is given
  after,     \* the column its second read returned: after the change for the
             \* browser, before it for the agent's trello_card_move
  changes,   \* history, per card: the calls whose change is in the store, oldest first
  sent       \* history: the events dispatched

tables == <<column, comments>>
vars == <<tables, clock, pc, before, stamp, after, changes, sent>>

AnyColumn == Columns \cup {NoColumn}

Events == [call : Calls, listBefore : AnyColumn, idList : AnyColumn]

TypeOK ==
  /\ column \in [Cards -> AnyColumn]
  /\ comments \subseteq [call : Calls, at : 1..clock]
  /\ clock \in DOMAIN Instants
  /\ pc \in [Calls -> {"idle", "list", "change", "reread", "dispatch", "ok", "failed"}]
  /\ before \in [Calls -> AnyColumn]
  /\ stamp \in [Calls -> 1..clock]
  /\ after \in [Calls -> AnyColumn]
  /\ changes \in [Cards -> Seq(Calls)]
  /\ sent \subseteq Events

\* Cards that no call creates are on the board already.
Init ==
  /\ column = [k \in Cards |->
       IF \E c \in Calls : Op[c] = "create" /\ CardOf[c] = k THEN NoColumn ELSE FirstCol]
  /\ comments = {}
  /\ clock = 1
  /\ pc = [c \in Calls |-> "idle"]
  /\ before = [c \in Calls |-> NoColumn]
  /\ stamp = [c \in Calls |-> 1]
  /\ after = [c \in Calls |-> NoColumn]
  /\ changes = [k \in Cards |-> <<>>]
  /\ sent = {}

Goto(c, at, to) == pc[c] = at /\ pc' = [pc EXCEPT ![c] = to]

AgentMove(c) == Op[c] = "move" /\ c \notin Human

-----------------------------------------------------------------------------
(* The steps of a call.                                                    *)

\* GetCard: the card must be there, unless the call makes it.  Then the clock
\* is read, before the statement that writes what it says.  (Only the times of
\* comments matter here.)
Begin(c) ==
  /\ Goto(c, "idle", IF Op[c] # "create" /\ column[CardOf[c]] = NoColumn THEN "failed"
                     ELSE IF AgentMove(c) THEN "list" ELSE "change")
  /\ before' = [before EXCEPT ![c] = column[CardOf[c]]]
  /\ stamp' = [stamp EXCEPT ![c] = IF Op[c] = "comment" THEN clock ELSE @]
  /\ UNCHANGED <<tables, clock, after, changes, sent>>

\* trello_card_move: GetCardList; when it fails the first column is taken.
GetCardList(c) ==
  /\ Goto(c, "list", "change")
  /\ \E k \in {column[CardOf[c]], before[c]} : after' = [after EXCEPT ![c] = k]
  /\ UNCHANGED <<tables, clock, before, stamp, changes, sent>>

\* Mutant of NoMove: a card that somebody else has moved is left alone as well.
NoMoveIfMoved(c) ==
  /\ AgentMove(c) /\ (TargetOf[c] = before[c] \/ after[c] # before[c])
  /\ Goto(c, "change", "ok")
  /\ UNCHANGED <<tables, clock, before, stamp, after, changes, sent>>

\* The card was in the target column when it was read first: it is not moved.
NoMove(c) ==
  /\ AgentMove(c) /\ TargetOf[c] = before[c]
  /\ Goto(c, "change", "ok")
  /\ UNCHANGED <<tables, clock, before, stamp, after, changes, sent>>

\* After its change only a browser's call goes on, to tell the dispatcher.
Changed(c) ==
  /\ Goto(c, "change", IF c \in Human THEN "reread" ELSE "ok")
  /\ changes' = [changes EXCEPT ![CardOf[c]] = Append(@, c)]
  /\ UNCHANGED <<clock, before, stamp, after, sent>>

\* The INSERT of CreateCard.
CreateCard(c) ==
  /\ Op[c] = "create"
  /\ column' = [column EXCEPT ![CardOf[c]] = FirstCol]
  /\ Changed(c)
  /\ UNCHANGED comments

\* The UPDATE of MoveCard.
MoveCard(c) ==
  /\ Op[c] = "move" /\ (AgentMove(c) => TargetOf[c] # before[c])
  /\ column' = [column EXCEPT ![CardOf[c]] = TargetOf[c]]
  /\ Changed(c)
  /\ UNCHANGED comments

\* The INSERT of addComment.
AddComment(c) ==
  /\ Op[c] = "comment"
  /\ comments' = comments \cup {[call |-> c, at |-> stamp[c]]}
  /\ Changed(c)
  /\ UNCHANGED column

\* Mutant of Reread: a call whose card was moved on sends no event.
RereadUnlessMoved(c) ==
  /\ Goto(c, "reread", IF Op[c] = "move" /\ column[CardOf[c]] # TargetOf[c] THEN "ok" ELSE "dispatch")
  /\ after' = [after EXCEPT ![c] = IF Op[c] = "comment" THEN before[c] ELSE column[CardOf[c]]]
  /\ UNCHANGED <<tables, clock, before, stamp, changes, sent>>

\* A card that was made or moved is read again; a comment's card is not.
Reread(c) ==
  /\ Goto(c, "reread", "dispatch")
  /\ after' = [after EXCEPT ![c] = IF Op[c] = "comment" THEN before[c] ELSE column[CardOf[c]]]
  /\ UNCHANGED <<tables, clock, before, stamp, changes, sent>>

\* Mutant of Dispatch: the column before the move is taken from the later read.
DispatchReread(c) ==
  /\ Goto(c, "dispatch", "ok")
  /\ sent' = sent \cup {[call |-> c, listBefore |-> after[c], idList |-> after[c]]}
  /\ UNCHANGED <<tables, clock, before, stamp, after, changes>>

\* The event names the columns that were read.
Dispatch(c) ==
  /\ Goto(c, "dispatch", "ok")
  /\ sent' = sent \cup {[call |-> c, listBefore |-> before[c], idList |-> after[c]]}
  /\ UNCHANGED <<tables, clock, before, stamp, after, changes>>

\* The database fails, the page goes away and takes the request's context with
\* it, or the dispatcher refuses the event.  What was written stays.
Fail(c) ==
  /\ pc[c] \in {"list", "change", "reread", "dispatch"}
  /\ pc' = [pc EXCEPT ![c] = "failed"]
  /\ UNCHANGED <<tables, clock, before, stamp, after, changes, sent>>

Tick ==
  /\ clock < Len(Instants)
  /\ clock' = clock + 1
  /\ UNCHANGED <<tables, pc, before, stamp, after, changes, sent>>

Next ==
  \/ \E c \in Calls : \/ Begin(c) \/ GetCardList(c) \/ NoMove(c)
                      \/ CreateCard(c) \/ MoveCard(c) \/ AddComment(c)
                      \/ Reread(c) \/ Dispatch(c)
                      \/ Fail(c)
  \/ Tick

Spec == Init /\ [][Next]_vars

-----------------------------------------------------------------------------
(* Reading the comments of a card.                                         *)

\* Mutant of Text: time.RFC3339.
TextSeconds(t) == <<t.sec, 90>>

\* The characters of time.RFC3339Nano that differ between two readings: the
\* second, and then the decimals without trailing zeros, or nothing.
Text(t) ==
  <<t.sec>> \o (IF t.dec = <<>> THEN <<>> ELSE <<46>> \o [i \in DOMAIN t.dec |-> 48 + t.dec[i]])
            \o <<90>>

\* SQLite compares text byte by byte.
TextLess(s, t) ==
  \/ \E i \in DOMAIN s \cap DOMAIN t :
       /\ s[i] < t[i]
       /\ \A j \in 1..(i - 1) : s[j] = t[j]
  \/ /\ Len(s) < Len(t)
     /\ SubSeq(t, 1, Len(s)) = s

At(m) == Text(Instants[m.at])

CommentsOf(k) == {m \in comments : CardOf[m.call] = k}

\* The rows the query of GetLatestComment may return.
GetLatestComment(k) ==
  {m \in CommentsOf(k) : \A n \in CommentsOf(k) : ~TextLess(At(m), At(n))}

\* ListCommentsSince for the i-th reading of the clock.
ListCommentsSince(k, i) == {m \in CommentsOf(k) : TextLess(Text(Instants[i]), At(m))}
=============================================================================
