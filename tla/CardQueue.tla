------------------------------ MODULE CardQueue ------------------------------
(***************************************************************************)
(* What the dispatcher promises for each card, without workers, handles or *)
(* channels: accepted events wait in one queue per card, are processed one *)
(* at a time in the order of their acceptance, and none is processed twice.*)
(* Events may be lost: one by one when they are offered, or the whole      *)
(* backlog when the card's worker ends.                                    *)
(***************************************************************************)
EXTENDS Sequences

CONSTANTS Cards, Events, CardOf, Nobody

VARIABLES
  offered,  \* events whose dispatch has been answered with success
  queue,    \* per card: accepted events nobody has started on
  busy      \* per card: the event being processed, or Nobody

vars == <<offered, queue, busy>>

Init ==
  /\ offered = {}
  /\ queue = [c \in Cards |-> <<>>]
  /\ busy = [c \in Cards |-> Nobody]

Offer(e) ==
  /\ e \notin offered
  /\ offered' = offered \cup {e}

\* The event joins the end of its card's queue.
Accept(e) ==
  /\ Offer(e)
  /\ queue' = [queue EXCEPT ![CardOf[e]] = Append(@, e)]
  /\ UNCHANGED busy

\* The event is accepted by a worker that will never look at it.
Lose(e) ==
  /\ Offer(e)
  /\ UNCHANGED <<queue, busy>>

\* The oldest waiting event of a card nobody is working on.
Begin(c) ==
  /\ busy[c] = Nobody
  /\ queue[c] # <<>>
  /\ busy' = [busy EXCEPT ![c] = Head(queue[c])]
  /\ queue' = [queue EXCEPT ![c] = Tail(@)]
  /\ UNCHANGED offered

End(c) ==
  /\ busy[c] # Nobody
  /\ busy' = [busy EXCEPT ![c] = Nobody]
  /\ UNCHANGED <<offered, queue>>

\* The card's worker ends: its event and its backlog go with it.
Abandon(c) ==
  /\ queue' = [queue EXCEPT ![c] = <<>>]
  /\ busy' = [busy EXCEPT ![c] = Nobody]
  /\ UNCHANGED offered

Next ==
  \/ \E e \in Events : Accept(e) \/ Lose(e)
  \/ \E c \in Cards : Begin(c) \/ End(c) \/ Abandon(c)

Spec == Init /\ [][Next]_vars
=============================================================================
