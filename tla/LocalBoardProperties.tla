------------------------ MODULE LocalBoardProperties ------------------------
(* What the built-in board promises the dispatcher and the agents. *)
EXTENDS LocalBoard

Stored(c) == Contains(changes[CardOf[c]], c)

\* Every event tells of one change that is in the store, once; and a call of the
\* browser that succeeded has told of its change, whatever other calls did to
\* the card meanwhile.
EventsMatchChanges ==
  /\ \A v \in sent : Stored(v.call)
  /\ \A v, w \in sent : v.call = w.call => v = w
  /\ \A c \in Human : pc[c] = "ok" => \E v \in sent : v.call = c

\* A move's event names a column its card was in before the move (the first one,
\* or the target of a move that is in the store before this one), and one it was
\* moved to by this call or by a later one.
MoveEventsTrue ==
  \A v \in sent : LET log == changes[CardOf[v.call]]
                      MovedTo(i, col) == Op[log[i]] = "move" /\ TargetOf[log[i]] = col
                  IN
    Op[v.call] = "move" =>
      \E n \in DOMAIN log :
        /\ log[n] = v.call
        /\ v.listBefore = FirstCol \/ \E i \in 1..(n - 1) : MovedTo(i, v.listBefore)
        /\ \E j \in n..Len(log) : MovedTo(j, v.idList)

\* An agent's trello_card_move that succeeded without moving the card was asked for
\* the column the card was in when the call began; and when its answer reads as a
\* move all the same, another call had moved the card there meanwhile.
AgentAnswersTrue ==
  \A c \in Calls : AgentMove(c) /\ pc[c] = "ok" /\ ~Stored(c) =>
    /\ before[c] = TargetOf[c]
    /\ after[c] # TargetOf[c] =>
         \E d \in Calls : /\ Stored(d) /\ CardOf[d] = CardOf[c]
                          /\ Op[d] = "move" /\ TargetOf[d] = after[c]

\* The comment GetLatestComment returns is the latest one, and ListCommentsSince
\* returns every comment made after the given time, unless the later time is of
\* the same second and has the earlier one's decimals and more.  (The doc,
\* trelloclient/client.go:101-102, says "every commentCard action posted strictly
\* after `since`": as text, "0.51Z" comes before "0.5Z".)
LatestUnlessPrefix ==
  LET SamePrefix(i, j) == /\ Instants[i].sec = Instants[j].sec
                          /\ IsPrefix(Instants[i].dec, Instants[j].dec)
  IN  \A k \in Cards :
        /\ \A m \in GetLatestComment(k) : \A n \in CommentsOf(k) :
             n.at > m.at => SamePrefix(m.at, n.at)
        /\ \A i \in 1..clock : \A m \in CommentsOf(k) \ ListCommentsSince(k, i) :
             m.at > i => SamePrefix(i, m.at)
=============================================================================
