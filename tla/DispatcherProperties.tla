------------------------ MODULE DispatcherProperties ------------------------
(***************************************************************************)
(* What the dispatcher must guarantee, and what its comments claim.        *)
(***************************************************************************)
EXTENDS Dispatcher

\* The goroutine still reads its inbox.
InLoop(h) == wpc[h] \in {"select", "prepare", "clone", "create", "send"}

\* The goroutine has not yet removed the card's registry entry.
Running(h) == InLoop(h) \/ wpc[h] \in {"disconnect", "deregister"}

\* Some DeleteWorker call took a worker of card c out of the registry.
Torn(c) == \E k \in Deleters : CardOf[k] = c /\ held[k] # {}

Deleted(h) == \E k \in Deleters : h \in held[k]

-----------------------------------------------------------------------------
(* Safety.                                                                 *)

\* A card nobody deleted a worker of has at most one running worker, however
\* enqueues, terminations, failed session creations and Stop interleave
\* (enqueue's check-and-register against the deferred deregister).
SingleWorker ==
  \A g, h \in Handles :
    Running(g) /\ Running(h) /\ CardOf[g] = CardOf[h] /\ g # h => Torn(CardOf[g])

\* The registry never points at a worker that has finished: such an entry
\* would swallow every later event of the card, since only the worker's own
\* deferred deregister or DeleteWorker ever clears it.
RegistryLive ==
  \A c \in Cards : workers[c] # NoHandle =>
    Running(workers[c]) /\ CardOf[workers[c]] = c

\* An event is taken from an inbox at most once, by at most one worker, and
\* only if its Dispatch call reported success: no retry, no teardown and no
\* replacement of a worker hands it to a second session.
AtMostOnce ==
  \A g, h \in Handles : \A i \in 1..Len(taken[g]), j \in 1..Len(taken[h]) :
    /\ taken[g][i] = taken[h][j] => g = h /\ i = j
    /\ epc[taken[g][i]] = "ok"

\* Once Stop has returned no worker runs and no session is live, except on a
\* card DeleteWorker has touched; runner.Stop tears the SDK client down next.
StopQuiesces ==
  \A k \in Stoppers : kpc[k] = "returned" =>
    \A h \in Handles : Running(h) \/ session[h] => Torn(CardOf[h])

\* Who may have taken the directory of h's card away: a DeleteWorker call of the
\* card that wiped it, the agent of h itself, told to clean up, or, once a worker
\* of the card was deleted, the agent of another worker that was told to.
MayBeGone(h) ==
  \/ \E k \in Deleters : CardOf[k] = CardOf[h] /\ kpc[k] = "returned" /\ snap[k]
  \/ \E g \in Handles :
       /\ CardOf[g] = CardOf[h] /\ ToldToClean(g)
       /\ g = h \/ Torn(CardOf[h])

\* A live session without its work_dir is explained by one of those three: a
\* delete that has finished wiping, its own terminate notice, or a worker that
\* overlaps it since a delete.  In particular neither a reaped session, nor a
\* predecessor that ended by itself, nor a delete under way or failed leaves a
\* session without a directory (NewWorkerSession's MkdirAll, assembleTerminateNotice,
\* DeleteWorker's RemoveAll).
SessionHasWorkDir ==
  \A h \in Handles : session[h] => dir[CardOf[h]] \/ MayBeGone(h)

\* DeleteWorker wipes a work_dir only after the worker it deleted has let go
\* of it: its session is disconnected and its goroutine is done.
RemovesAfterDone ==
  [][\A k \in Deleters : kpc[k] = "remove" /\ kpc'[k] # "remove" =>
       \A h \in held[k] : wpc[h] = "done" /\ ~session[h]]_vars

-----------------------------------------------------------------------------
(* Why they hold: an inductive invariant.                                  *)

\* A running worker is registered, unless a delete took its card's entry.
RegisteredOrTorn ==
  \A h \in Handles : Running(h) => workers[CardOf[h]] = h \/ Torn(CardOf[h])

\* The handle an event would register does not exist before its enqueue.
FreshHandle ==
  \A e \in Events : epc[e] \in {"new", "lookup", "enqueue"} => wpc[e] = "none"

\* An event past its enqueue has a target.
HasTarget ==
  \A e \in Events : epc[e] = "push" => target[e] \in Handles

\* A session is live only between its creation and the deferred disconnect.
SessionScope ==
  \A h \in Handles : session[h] => wpc[h] \in {"select", "send", "disconnect"}

\* The directory exists from Prepare on, or somebody took it away.
WorkDirScope ==
  \A h \in Handles :
    wpc[h] \in {"clone", "create"} \/ session[h] => dir[CardOf[h]] \/ MayBeGone(h)

\* What the teardown calls know: only deletes remove directories, and only of
\* workers that are done.
CloserScope ==
  \A k \in Closers :
    /\ snap[k] => k \in Deleters /\ held[k] # {}
    /\ kpc[k] = "snapshot" => k \in Deleters
    /\ kpc[k] = "remove" => snap[k] /\ \A h \in held[k] : wpc[h] = "done"

\* Stop holds every worker that runs; after it none does.
StopScope ==
  \A k \in Stoppers :
    /\ kpc[k] \in {"shutdown", "returned"} => stopped
    /\ \A h \in Handles : Running(h) =>
         /\ kpc[k] = "shutdown" => h \in held[k] \/ Torn(CardOf[h])
         /\ kpc[k] = "returned" => Torn(CardOf[h])

\* Everything a worker ever accepted, in order.
Log(h) == taken[h] \o inbox[h]

\* Accepted events are answered with success and sit in one place.
LogUnique ==
  \A g, h \in Handles : \A i \in 1..Len(Log(g)), j \in 1..Len(Log(h)) :
    /\ epc[Log(g)[i]] = "ok"
    /\ Log(g)[i] = Log(h)[j] => g = h /\ i = j

\* The inductive invariant the safety theorems rest on: every running worker is
\* accounted for by the registry, a delete or Stop, every session and directory
\* by a worker, and every accepted event by one place in one worker's log.
IInv ==
  /\ TypeOK
  /\ RegistryLive
  /\ RegisteredOrTorn
  /\ FreshHandle
  /\ HasTarget
  /\ SessionScope
  /\ WorkDirScope
  /\ CloserScope
  /\ StopScope
  /\ LogUnique

-----------------------------------------------------------------------------
(* The dispatcher implements the per-card FIFO queue; once a worker of a   *)
(* card is deleted, the card counts as having no worker.                   *)

LiveWorkers(c) == {h \in Handles : CardOf[h] = c /\ InLoop(h)}
LiveWorker(c) == CHOOSE h \in LiveWorkers(c) : TRUE

\* "busy" with the message in hand, idle at the select.
InHand(h) == IF wpc[h] = "select" THEN NoHandle ELSE Current(h)

OfferedEvents == {e \in Events : epc[e] = "ok"}
QueueOf == [c \in Cards |->
  IF Torn(c) \/ LiveWorkers(c) = {} THEN <<>> ELSE inbox[LiveWorker(c)]]
BusyWith == [c \in Cards |->
  IF Torn(c) \/ LiveWorkers(c) = {} THEN NoHandle ELSE InHand(LiveWorker(c))]

Queue == INSTANCE CardQueue WITH
  Nobody <- NoHandle, offered <- OfferedEvents, queue <- QueueOf, busy <- BusyWith

\* Same-card events are processed one at a time, in acceptance order, each at
\* most once ("the same card is strictly FIFO", README.md:21), for as long as no
\* worker of the card is deleted.
ImplementsCardQueue == Queue!Spec

-----------------------------------------------------------------------------
(* Liveness, under FairSpec.                                               *)

\* Every Stop and DeleteWorker call returns, even when a worker sits in a
\* model turn that never ends or in front of a full inbox.
TeardownReturns ==
  \A k \in Closers : kpc[k] \in {"snapshot", "shutdown", "remove"} ~>
    kpc[k] \in {"returned", "failed"}

\* With a model that always ends its turns, a message accepted by a worker that
\* reads its inbox is taken, or that worker ends.
ModelAnswers ==
  \A h \in Handles : WF_vars(NewSession(h)) /\ WF_vars(SendAndWait(h))

Holds(s, e) == \E i \in 1..Len(s) : s[i] = e
AcceptedIsTaken ==
  ModelAnswers =>
    \A e \in Events, h \in Handles :
      Holds(inbox[h], e) /\ InLoop(h) ~> Holds(taken[h], e) \/ ~InLoop(h)

-----------------------------------------------------------------------------
(* Claims of the code's comments that the code does not keep.              *)

\* dispatcher.go:101-103: "Each card gets its own *copilot.Session and a single
\* goroutine".  Two workers of a card that nobody deleted never run together.
UndeletedWorkersAlone ==
  \A g, h \in Handles :
    Running(g) /\ Running(h) /\ CardOf[g] = CardOf[h] /\ ~Deleted(g) /\ ~Deleted(h)
      => g = h

\* dispatcher.go:320: "Only notify if a worker exists; do NOT spawn one for
\* departures."  No worker is started by the event of a card that left.  (The code does
\* not keep to it: the worker may end between the look-up and the enqueue.)
NoWorkerForDeparture == \A h \in Handles : wpc[h] # "none" => route[h] # "depart"

\* dispatcher.go:520-521: "Stop signals every per-card worker to exit and waits for
\* each goroutine to disconnect cleanly."  Even if the workers that a DeleteWorker call
\* took for itself are left to that call, Stop returns when no other one runs.  (The
\* code does not keep to it: a deleted worker may have unregistered a fresh one.)
StopWaitsForAll ==
  \A k \in Stoppers : kpc[k] = "returned" =>
    \A h \in Handles : Running(h) \/ session[h] => Deleted(h)
=============================================================================
