----------------------------- MODULE Dispatcher -----------------------------
(***************************************************************************)
(* The per-card worker dispatcher (src/internal/app/dispatcher.go).        *)
(*                                                                         *)
(* Many goroutines call Dispatch, one per webhook event.  Each card has at *)
(* most one registered worker handle: a bounded inbox, a kill channel, a   *)
(* context and a goroutine that takes messages from the inbox and hands    *)
(* them to one Copilot session.  Stop and DeleteWorker tear workers down.  *)
(* A step is what a goroutine does between two points where another one    *)
(* can interfere: a critical section of Dispatcher.mu, a channel           *)
(* operation, or a call that blocks.                                       *)
(*                                                                         *)
(* A handle is named by the event whose enqueue registered it, and a       *)
(* message by the event it carries, so both range over Events.             *)
(***************************************************************************)
EXTENDS Naturals, Sequences

CONSTANTS
  Cards,        \* Trello cards
  Events,       \* webhook events, one Dispatch goroutine each
  Stoppers,     \* goroutines that call Stop
  Deleters,     \* goroutines that call DeleteWorker
  CardOf,       \* the card an event or a DeleteWorker call is about
  InboxBuf,     \* capacity of a handle's inbox
  IdleReaping,  \* idleTimeout > 0
  NoHandle      \* "no worker"

ASSUME DispatcherAssumption ==
  /\ CardOf \in [Events \cup Deleters -> Cards]
  /\ InboxBuf \in Nat \ {0}
  /\ IdleReaping \in BOOLEAN
  /\ NoHandle \notin Events
  /\ Stoppers \cap Deleters = {}

Handles == Events
Closers == Stoppers \cup Deleters

VARIABLES
  workers,   \* Dispatcher.workers: the registered handle of each card
  stopped,   \* Dispatcher.stopped
  inbox,     \* contents of each handle's inbox channel
  signal,    \* "none", "kill" (kill closed), "cancel" (and context cancelled)
  wpc,       \* where each worker goroutine is
  taken,     \* history: the messages each worker took from its inbox
  session,   \* the worker holds a live session
  workDir,   \* the worker's tracker has recorded its work_dir
  dir,       \* the card's work_dir exists on disk
  route,     \* the decision taken for each event
  epc,       \* where each Dispatch call is, or what it returned
  target,    \* the handle an enqueue selected
  kpc,       \* where each Stop or DeleteWorker call is, or what it returned
  held,      \* the handles a Stop or DeleteWorker call tears down
  todo,      \* those it has not shut down yet
  closing,   \* the handle whose killOnce it is executing
  snap       \* DeleteWorker's snapshot: the tracker had a work_dir

registryVars == <<workers, stopped>>
workerVars   == <<wpc, taken, session, workDir, dir>>
eventVars    == <<route, epc, target>>
closerVars   == <<kpc, held, todo, closing, snap>>
vars == <<registryVars, inbox, signal, workerVars, eventVars, closerVars>>

Routes == {"drop", "dispatch", "depart", "terminate"}

WorkerPc == {"none", "select", "prepare", "clone", "create", "send",
             "disconnect", "deregister", "close", "done"}
EventPc == {"new", "lookup", "enqueue", "push",
            "ok", "dropped", "no_worker", "stopped", "deleted", "timeout"}
CloserPc == {"idle", "snapshot", "shutdown", "remove",
             "returned", "already", "not_found", "failed"}

RegistryType ==
  /\ workers \in [Cards -> Handles \cup {NoHandle}]
  /\ stopped \in BOOLEAN

InboxType ==
  /\ inbox \in [Handles -> Seq(Events)]
  /\ \A h \in Handles : Len(inbox[h]) <= InboxBuf

SignalType == signal \in [Handles -> {"none", "kill", "cancel"}]

WorkerType ==
  /\ wpc     \in [Handles -> WorkerPc]
  /\ taken   \in [Handles -> Seq(Events)]
  /\ session \in [Handles -> BOOLEAN]
  /\ workDir \in [Handles -> BOOLEAN]
  /\ dir     \in [Cards -> BOOLEAN]

EventType ==
  /\ route  \in [Events -> Routes \cup {"none"}]
  /\ epc    \in [Events -> EventPc]
  /\ target \in [Events -> Handles \cup {NoHandle}]

CloserType ==
  /\ kpc     \in [Closers -> CloserPc]
  /\ held    \in [Closers -> SUBSET Handles]
  /\ todo    \in [Closers -> SUBSET Handles]
  /\ closing \in [Closers -> Handles \cup {NoHandle}]
  /\ snap    \in [Closers -> BOOLEAN]

\* The type invariant; an inbox never exceeds its capacity.
TypeOK ==
  /\ RegistryType
  /\ InboxType
  /\ SignalType
  /\ WorkerType
  /\ EventType
  /\ CloserType

Init ==
  /\ workers = [c \in Cards |-> NoHandle]
  /\ stopped = FALSE
  /\ inbox   = [h \in Handles |-> <<>>]
  /\ signal  = [h \in Handles |-> "none"]
  /\ wpc     = [h \in Handles |-> "none"]
  /\ taken   = [h \in Handles |-> <<>>]
  /\ session = [h \in Handles |-> FALSE]
  /\ workDir = [h \in Handles |-> FALSE]
  /\ dir     = [c \in Cards |-> FALSE]
  /\ route   = [e \in Events |-> "none"]
  /\ epc     = [e \in Events |-> "new"]
  /\ target  = [e \in Events |-> NoHandle]
  /\ kpc     = [k \in Closers |-> "idle"]
  /\ held    = [k \in Closers |-> {}]
  /\ todo    = [k \in Closers |-> {}]
  /\ closing = [k \in Closers |-> NoHandle]
  /\ snap    = [k \in Closers |-> FALSE]

-----------------------------------------------------------------------------
(* Dispatch: route the event, then enqueue it on the card's worker.        *)

\* Evaluate the route.  A drop returns at once, a departure or a terminate
\* notice first looks for a worker, a plain event goes straight to enqueue.
Dispatch(e, r) ==
  /\ epc[e] = "new"
  /\ route' = [route EXCEPT ![e] = r]
  /\ epc' = [epc EXCEPT ![e] = CASE r = "drop"     -> "dropped"
                                 [] r = "dispatch" -> "enqueue"
                                 [] OTHER          -> "lookup"]
  /\ UNCHANGED <<registryVars, inbox, signal, workerVars, target, closerVars>>

\* Under mu: is a worker registered?  The lock is released before enqueue.
LookupWorker(e) ==
  /\ epc[e] = "lookup"
  /\ epc' = [epc EXCEPT ![e] = IF workers[CardOf[e]] = NoHandle
                               THEN "no_worker" ELSE "enqueue"]
  /\ UNCHANGED <<registryVars, inbox, signal, workerVars, route, target, closerVars>>

EnqueueStopped(e) ==
  /\ epc[e] = "enqueue"
  /\ stopped
  /\ epc' = [epc EXCEPT ![e] = "stopped"]
  /\ UNCHANGED <<registryVars, inbox, signal, workerVars, route, target, closerVars>>

\* Mutant of Enqueue: the stopped flag is not checked.
EnqueueWhenStopped(e) ==
  LET c == CardOf[e]
      h == IF workers[c] = NoHandle THEN e ELSE workers[c]
  IN  /\ epc[e] = "enqueue"
      /\ workers' = [workers EXCEPT ![c] = h]
      /\ wpc' = IF workers[c] = NoHandle THEN [wpc EXCEPT ![e] = "select"] ELSE wpc
      /\ target' = [target EXCEPT ![e] = h]
      /\ epc' = [epc EXCEPT ![e] = "push"]
      /\ UNCHANGED <<stopped, inbox, signal, taken, session, workDir, dir,
                     route, closerVars>>

\* Under mu: the registered handle, or a new one whose goroutine starts.
Enqueue(e) ==
  LET c == CardOf[e]
      new == workers[c] = NoHandle
      h == IF new THEN e ELSE workers[c]
  IN  /\ epc[e] = "enqueue"
      /\ ~stopped
      /\ workers' = [workers EXCEPT ![c] = h]
      /\ wpc' = IF new THEN [wpc EXCEPT ![e] = "select"] ELSE wpc
      /\ target' = [target EXCEPT ![e] = h]
      /\ epc' = [epc EXCEPT ![e] = "push"]
      /\ UNCHANGED <<stopped, inbox, signal, taken, session, workDir, dir,
                     route, closerVars>>

\* The three branches of enqueue's final select.
Push(e) ==
  /\ epc[e] = "push"
  /\ Len(inbox[target[e]]) < InboxBuf
  /\ inbox' = [inbox EXCEPT ![target[e]] = Append(@, e)]
  /\ epc' = [epc EXCEPT ![e] = "ok"]
  /\ UNCHANGED <<registryVars, signal, workerVars, route, target, closerVars>>

PushKilled(e) ==
  /\ epc[e] = "push"
  /\ signal[target[e]] # "none"
  /\ epc' = [epc EXCEPT ![e] = "deleted"]
  /\ UNCHANGED <<registryVars, inbox, signal, workerVars, route, target, closerVars>>

PushTimeout(e) ==
  /\ epc[e] = "push"
  /\ epc' = [epc EXCEPT ![e] = "timeout"]
  /\ UNCHANGED <<registryVars, inbox, signal, workerVars, route, target, closerVars>>

-----------------------------------------------------------------------------
(* runWorker: the goroutine of handle h.                                   *)

Goto(h, from, to) ==
  /\ wpc[h] = from
  /\ wpc' = [wpc EXCEPT ![h] = to]

\* Mutant of Receive: a worker whose session was reaped stops listening.
ReceiveUnlessReaped(h) ==
  /\ inbox[h] # <<>>
  /\ session[h] \/ taken[h] = <<>>
  /\ Goto(h, "select", IF session[h] THEN "send" ELSE "prepare")
  /\ taken' = [taken EXCEPT ![h] = Append(@, Head(inbox[h]))]
  /\ inbox' = [inbox EXCEPT ![h] = Tail(@)]
  /\ UNCHANGED <<registryVars, signal, session, workDir, dir, eventVars, closerVars>>

\* Take the next message; create the session first when there is none.
Receive(h) ==
  /\ inbox[h] # <<>>
  /\ Goto(h, "select", IF session[h] THEN "send" ELSE "prepare")
  /\ taken' = [taken EXCEPT ![h] = Append(@, Head(inbox[h]))]
  /\ inbox' = [inbox EXCEPT ![h] = Tail(@)]
  /\ UNCHANGED <<registryVars, signal, session, workDir, dir, eventVars, closerVars>>

\* The select sees the closed kill channel.
SeeKill(h) ==
  /\ signal[h] # "none"
  /\ Goto(h, "select", "disconnect")
  /\ UNCHANGED <<registryVars, inbox, signal, taken, session, workDir, dir,
                 eventVars, closerVars>>

\* The idle timer fires: drop the session, keep the goroutine.
IdleReap(h) ==
  /\ IdleReaping
  /\ session[h]
  /\ wpc[h] = "select"
  /\ session' = [session EXCEPT ![h] = FALSE]
  /\ UNCHANGED <<registryVars, inbox, signal, wpc, taken, workDir, dir,
                 eventVars, closerVars>>

\* Mutant of Prepare: the directory is not made.
PrepareNoMkdir(h) ==
  /\ Goto(h, "prepare", "clone")
  /\ UNCHANGED <<registryVars, inbox, signal, taken, session, workDir, dir,
                 eventVars, closerVars>>

\* NewWorkerSession: classify the card and make its directory ...
Prepare(h) ==
  /\ Goto(h, "prepare", "clone")
  /\ dir' = [dir EXCEPT ![CardOf[h]] = TRUE]
  /\ UNCHANGED <<registryVars, inbox, signal, taken, session, workDir, eventVars, closerVars>>

\* ... clone and run the hooks, which cannot fail it, and record the directory
\* in the tracker ...
RecordWorkDir(h) ==
  /\ Goto(h, "clone", "create")
  /\ workDir' = [workDir EXCEPT ![h] = TRUE]
  /\ UNCHANGED <<registryVars, inbox, signal, taken, session, dir, eventVars, closerVars>>

\* ... and create the session.
CreateSession(h) ==
  /\ Goto(h, "create", "send")
  /\ session' = [session EXCEPT ![h] = TRUE]
  /\ UNCHANGED <<registryVars, inbox, signal, taken, workDir, dir, eventVars, closerVars>>

\* Mutant of NewSessionFails: the worker leaves the registry before it is done.
NewSessionFailsUnregistered(h) ==
  /\ Goto(h, wpc[h], "disconnect")
  /\ wpc[h] \in {"prepare", "create"}
  /\ workers' = [workers EXCEPT ![CardOf[h]] = NoHandle]
  /\ UNCHANGED <<stopped, inbox, signal, taken, session, workDir, dir,
                 eventVars, closerVars>>

\* Making the directory or the session fails: the worker exits with the message
\* and its backlog.
NewSessionFails(h) ==
  /\ Goto(h, wpc[h], "disconnect")
  /\ wpc[h] \in {"prepare", "create"}
  /\ UNCHANGED <<registryVars, inbox, signal, taken, session, workDir, dir,
                 eventVars, closerVars>>

\* The message in hand.
Current(h) == taken[h][Len(taken[h])]

\* SendAndWait succeeds: a terminate notice ends the worker.
SendOk(h) ==
  /\ Goto(h, "send", IF route[Current(h)] = "terminate" THEN "disconnect" ELSE "select")
  /\ UNCHANGED <<registryVars, inbox, signal, taken, session, workDir, dir,
                 eventVars, closerVars>>

\* Mutant of SendFails: the failed message goes back to the inbox.
SendFailsRequeued(h) ==
  /\ Goto(h, "send", IF signal[h] = "cancel" THEN "disconnect" ELSE "select")
  /\ inbox' = [inbox EXCEPT ![h] = IF Len(@) < InboxBuf THEN Append(@, Current(h)) ELSE @]
  /\ UNCHANGED <<registryVars, signal, taken, session, workDir, dir, eventVars, closerVars>>

\* SendAndWait fails: only a cancelled context ends the worker.
SendFails(h) ==
  /\ Goto(h, "send", IF signal[h] = "cancel" THEN "disconnect" ELSE "select")
  /\ UNCHANGED <<registryVars, inbox, signal, taken, session, workDir, dir,
                 eventVars, closerVars>>

\* A terminate notice was among the messages h took.
ToldToClean(h) == \E i \in 1..Len(taken[h]) : route[taken[h][i]] = "terminate"

\* The notice asks the agent to delete its work_dir.  It may do so at any moment
\* while its session lives: a send that failed does not end the agent's turn.
AgentRemovesWorkDir(h) ==
  /\ session[h]
  /\ ToldToClean(h)
  /\ dir[CardOf[h]]
  /\ dir' = [dir EXCEPT ![CardOf[h]] = FALSE]
  /\ UNCHANGED <<registryVars, inbox, signal, wpc, taken, session, workDir,
                 eventVars, closerVars>>

\* The deferred calls, in the order they run.
Disconnect(h) ==
  /\ Goto(h, "disconnect", "deregister")
  /\ session' = [session EXCEPT ![h] = FALSE]
  /\ UNCHANGED <<registryVars, inbox, signal, taken, workDir, dir, eventVars, closerVars>>

\* Mutant of Deregister: the entry stays.
DeregisterSkipped(h) ==
  /\ Goto(h, "deregister", "close")
  /\ UNCHANGED <<registryVars, inbox, signal, taken, session, workDir, dir,
                 eventVars, closerVars>>

\* Deletes the card's entry, whichever handle it holds.
Deregister(h) ==
  /\ Goto(h, "deregister", "close")
  /\ workers' = [workers EXCEPT ![CardOf[h]] = NoHandle]
  /\ UNCHANGED <<stopped, inbox, signal, taken, session, workDir, dir,
                 eventVars, closerVars>>

CloseDone(h) ==
  /\ Goto(h, "close", "done")
  /\ UNCHANGED <<registryVars, inbox, signal, taken, session, workDir, dir,
                 eventVars, closerVars>>

-----------------------------------------------------------------------------
(* Stop and DeleteWorker.                                                  *)

Registered == {workers[c] : c \in Cards} \ {NoHandle}

\* Under mu: a second call returns at once, the first snapshots the registry.
Stop(k) ==
  /\ kpc[k] = "idle"
  /\ stopped' = TRUE
  /\ IF stopped
     THEN /\ kpc' = [kpc EXCEPT ![k] = "already"]
          /\ UNCHANGED <<held, todo>>
     ELSE /\ kpc' = [kpc EXCEPT ![k] = "shutdown"]
          /\ held' = [held EXCEPT ![k] = Registered]
          /\ todo' = [todo EXCEPT ![k] = Registered]
  /\ UNCHANGED <<workers, inbox, signal, workerVars, eventVars, closing, snap>>

\* Under mu: take the card's handle out of the registry.
DeleteWorker(k) ==
  LET h == workers[CardOf[k]]
  IN  /\ kpc[k] = "idle"
      /\ IF h = NoHandle
         THEN /\ kpc' = [kpc EXCEPT ![k] = "not_found"]
              /\ UNCHANGED <<held, todo>>
         ELSE /\ kpc' = [kpc EXCEPT ![k] = "snapshot"]
              /\ held' = [held EXCEPT ![k] = {h}]
              /\ todo' = [todo EXCEPT ![k] = {h}]
      /\ workers' = [workers EXCEPT ![CardOf[k]] = NoHandle]
      /\ UNCHANGED <<stopped, inbox, signal, workerVars, eventVars, closing, snap>>

\* DeleteWorker reads the tracker's work_dir before it shuts the worker down.
Snapshot(k) ==
  /\ kpc[k] = "snapshot"
  /\ snap' = [snap EXCEPT ![k] = \E h \in held[k] : workDir[h]]
  /\ kpc' = [kpc EXCEPT ![k] = "shutdown"]
  /\ UNCHANGED <<registryVars, inbox, signal, workerVars, eventVars, held, todo, closing>>

\* workerHandle.shutdown: whoever enters killOnce closes kill ...
CloseKill(k, h) ==
  /\ kpc[k] = "shutdown"
  /\ closing[k] = NoHandle
  /\ h \in todo[k]
  /\ signal[h] = "none"
  /\ signal' = [signal EXCEPT ![h] = "kill"]
  /\ closing' = [closing EXCEPT ![k] = h]
  /\ UNCHANGED <<registryVars, inbox, workerVars, eventVars, kpc, held, todo, snap>>

\* Mutant of CancelCtx: kill is closed but the context never cancelled.
KillWithoutCancel(k) ==
  /\ closing[k] # NoHandle
  /\ todo' = [todo EXCEPT ![k] = @ \ {closing[k]}]
  /\ closing' = [closing EXCEPT ![k] = NoHandle]
  /\ UNCHANGED <<registryVars, inbox, signal, workerVars, eventVars, kpc, held, snap>>

\* ... and then cancels the context.
CancelCtx(k) ==
  /\ closing[k] # NoHandle
  /\ signal' = [signal EXCEPT ![closing[k]] = "cancel"]
  /\ todo' = [todo EXCEPT ![k] = @ \ {closing[k]}]
  /\ closing' = [closing EXCEPT ![k] = NoHandle]
  /\ UNCHANGED <<registryVars, inbox, workerVars, eventVars, kpc, held, snap>>

\* Another caller is past killOnce: Do returns when that one has finished.
ShutdownTwice(k, h) ==
  /\ kpc[k] = "shutdown"
  /\ closing[k] = NoHandle
  /\ h \in todo[k]
  /\ signal[h] = "cancel"
  /\ todo' = [todo EXCEPT ![k] = @ \ {h}]
  /\ UNCHANGED <<registryVars, inbox, signal, workerVars, eventVars, kpc, held, closing, snap>>

\* Mutant of Await: the done channels are not waited for.
AwaitNothing(k) ==
  /\ kpc[k] = "shutdown"
  /\ todo[k] = {}
  /\ kpc' = [kpc EXCEPT ![k] = IF snap[k] THEN "remove" ELSE "returned"]
  /\ UNCHANGED <<registryVars, inbox, signal, workerVars, eventVars, held, todo, closing, snap>>

\* Every handle is shut down and every done channel is closed.
Await(k) ==
  /\ kpc[k] = "shutdown"
  /\ todo[k] = {}
  /\ \A h \in held[k] : wpc[h] = "done"
  /\ kpc' = [kpc EXCEPT ![k] = IF snap[k] THEN "remove" ELSE "returned"]
  /\ UNCHANGED <<registryVars, inbox, signal, workerVars, eventVars, held, todo, closing, snap>>

\* DeleteWorker wipes the work_dir; RemoveAll may fail and leave it.
RemoveWorkDir(k) ==
  /\ kpc[k] = "remove"
  /\ \/ /\ dir' = [dir EXCEPT ![CardOf[k]] = FALSE]
        /\ kpc' = [kpc EXCEPT ![k] = "returned"]
     \/ /\ dir' = dir
        /\ kpc' = [kpc EXCEPT ![k] = "failed"]
  /\ UNCHANGED <<registryVars, inbox, signal, wpc, taken, session, workDir,
                 eventVars, held, todo, closing, snap>>

-----------------------------------------------------------------------------
DispatchStep(e) ==
  \/ \E r \in Routes : Dispatch(e, r)
  \/ LookupWorker(e)
  \/ EnqueueStopped(e)
  \/ Enqueue(e)
  \/ Push(e)
  \/ PushKilled(e)
  \/ PushTimeout(e)

\* What the goroutine does by itself; the others wait for Trello, the file
\* system or the model.
LoopStep(h) == Receive(h) \/ SeeKill(h)
ExitStep(h) == Disconnect(h) \/ Deregister(h) \/ CloseDone(h)
NewSession(h) == Prepare(h) \/ RecordWorkDir(h) \/ CreateSession(h) \/ NewSessionFails(h)
SendAndWait(h) == SendOk(h) \/ SendFails(h)

WorkerStep(h) ==
  \/ LoopStep(h)
  \/ IdleReap(h)
  \/ NewSession(h)
  \/ SendAndWait(h)
  \/ AgentRemovesWorkDir(h)
  \/ ExitStep(h)

ShutdownStep(k) ==
  \/ \E h \in Handles : CloseKill(k, h) \/ ShutdownTwice(k, h)
  \/ CancelCtx(k)
  \/ Await(k)

DeleteStep(k) == Snapshot(k) \/ RemoveWorkDir(k)

CloserStep(k) ==
  \/ k \in Stoppers /\ Stop(k)
  \/ k \in Deleters /\ (DeleteWorker(k) \/ DeleteStep(k))
  \/ ShutdownStep(k)

Next ==
  \/ \E e \in Events : DispatchStep(e)
  \/ \E h \in Handles : WorkerStep(h)
  \/ \E k \in Closers : CloserStep(k)

Spec == Init /\ [][Next]_vars

(* Fairness: goroutines are scheduled; a Dispatch call reaches its deadline *)
(* (the server bounds it); a call made with a cancelled context returns.    *)
(* Nothing makes an event arrive, an operator delete, or an uncancelled     *)
(* SendAndWait or NewWorkerSession return.                                  *)
Fairness ==
  /\ \A e \in Events :
       /\ WF_vars(LookupWorker(e))
       /\ WF_vars(EnqueueStopped(e) \/ Enqueue(e))
       /\ WF_vars(Push(e) \/ PushKilled(e) \/ PushTimeout(e))
  /\ \A h \in Handles :
       /\ WF_vars(LoopStep(h))
       /\ WF_vars(ExitStep(h))
       /\ WF_vars(signal[h] = "cancel" /\ (NewSession(h) \/ SendAndWait(h)))
  /\ \A k \in Closers : WF_vars(ShutdownStep(k))
  /\ \A k \in Deleters : WF_vars(DeleteStep(k))

FairSpec == Spec /\ Fairness
=============================================================================
