------------------------------- MODULE Gateway -------------------------------
(***************************************************************************)
(* The way of a webhook delivery through the process: the HTTP handler     *)
(* (src/internal/app/server.go), the background call of Handle with its    *)
(* de-duplication and its audit copy (runner.go), and the start and the    *)
(* orderly shutdown of main.go around them.                                *)
(*                                                                         *)
(* Trello may deliver an action more than once; every delivery is handled  *)
(* by a goroutine of its own.  Dispatcher.Dispatch is seen from outside:   *)
(* it drops the event, fails, or puts it in its card's queue.              *)
(***************************************************************************)
EXTENDS Naturals, Sequences

CONSTANTS
  Deliveries,  \* POST requests Trello makes
  Actions,     \* Trello actions
  NoAction,    \* the body carries no action.id
  ActionOf,    \* the action a delivery carries
  Malformed,   \* deliveries whose body is not JSON
  TTL,         \* dedupTTL
  MaxTime      \* bound on the clock

ASSUME GatewayAssumption ==
  /\ NoAction \notin Actions
  /\ ActionOf \in [Deliveries -> Actions \cup {NoAction}]
  /\ Malformed \subseteq {d \in Deliveries : ActionOf[d] = NoAction}
  /\ TTL \in Nat
  /\ MaxTime \in Nat

VARIABLES
  phase,     \* how far main has come
  now,       \* the clock
  pc,        \* where each delivery is, or how it ended
  acks,      \* history: the deliveries answered 202, in order
  seen,      \* CopilotRunner.dedupSeen
  checked,   \* history: when each delivery was looked up in seen
  auditDir,  \* CopilotRunner.auditDir, 0 when empty
  dirs,      \* the audit directories on disk
  made,      \* history: how many were made
  removing,  \* the directory removeAuditDir took
  stuck,     \* history: directories RemoveAll could not remove
  late,      \* history: deliveries that made a directory after Stop forgot it
  stopped,   \* Dispatcher.stopped
  queue      \* history: the deliveries the dispatcher accepted, oldest first

dedupVars == <<seen, checked>>
auditVars == <<auditDir, dirs, made, removing, stuck, late>>
workVars  == <<stopped, queue>>
vars == <<phase, now, pc, acks, dedupVars, auditVars, workVars>>

Phases == {"starting", "serving", "draining", "stopping", "cleaning",
           "removing", "closing", "exited"}

InFlight == {"mark", "audit", "dispatch", "push"}
Ended == {"refused", "duplicate", "invalid", "accepted", "dropped", "failed"}

TypeOK ==
  /\ phase \in Phases
  /\ now \in 0..MaxTime
  /\ pc \in [Deliveries -> {"unsent", "handler"} \cup InFlight \cup Ended]
  /\ acks \in Seq(Deliveries)
  /\ DOMAIN seen \subseteq Actions
  /\ \A a \in DOMAIN seen : seen[a] \in 0..now
  /\ checked \in [Deliveries -> 0..now]
  /\ made \in Nat
  /\ dirs \subseteq 1..made
  /\ stuck \subseteq 0..made
  /\ late \subseteq Deliveries
  /\ auditDir \in 0..made
  /\ removing \in 0..made
  /\ stopped \in BOOLEAN
  /\ queue \in Seq(Deliveries)

Init ==
  /\ phase = "starting"
  /\ now = 0
  /\ pc = [d \in Deliveries |-> "unsent"]
  /\ acks = <<>>
  /\ seen = <<>>
  /\ checked = [d \in Deliveries |-> 0]
  /\ auditDir = 0
  /\ dirs = {}
  /\ made = 0
  /\ removing = 0
  /\ stuck = {}
  /\ late = {}
  /\ stopped = FALSE
  /\ queue = <<>>

Alive == phase # "exited"

\* Delivery d goes on while the process lives.
Goto(d, from, to) ==
  /\ Alive
  /\ pc[d] = from
  /\ pc' = [pc EXCEPT ![d] = to]

-----------------------------------------------------------------------------
(* The HTTP handler.                                                       *)

\* Until main installs the router the validation handler answers POST with 405;
\* once the shutdown has begun nobody listens.
Post(d) ==
  /\ phase \in {"starting", "serving"}
  /\ Goto(d, "unsent", IF phase = "serving" THEN "handler" ELSE "refused")
  /\ UNCHANGED <<phase, now, acks, dedupVars, auditVars, workVars>>

\* Too large, unreadable, or not signed with the shared secret.
Reject(d) ==
  /\ Goto(d, "handler", "refused")
  /\ UNCHANGED <<phase, now, acks, dedupVars, auditVars, workVars>>

\* 202, and a goroutine that calls Handle.
Accept(d) ==
  /\ Goto(d, "handler", "mark")
  /\ acks' = Append(acks, d)
  /\ UNCHANGED <<phase, now, dedupVars, auditVars, workVars>>

-----------------------------------------------------------------------------
(* CopilotRunner.Handle.                                                   *)

Fresh == {a \in DOMAIN seen : now <= seen[a] + TTL}

\* Mutant of MarkActionSeen: entries are dropped at the TTL, not after it.
MarkActionSeenEarlyPrune(d) ==
  LET a == ActionOf[d]
      fresh == {b \in DOMAIN seen : now < seen[b] + TTL}
      dup == a \in fresh
  IN  /\ Goto(d, "mark", IF dup THEN "duplicate" ELSE "audit")
      /\ a # NoAction
      /\ seen' = [b \in fresh \cup {a} |-> IF b \in fresh THEN seen[b] ELSE now]
      /\ checked' = [checked EXCEPT ![d] = now]
      /\ UNCHANGED <<phase, now, acks, auditVars, workVars>>

\* Mutant of MarkActionSeen: every sighting renews the entry.
MarkActionSeenRenewed(d) ==
  LET a == ActionOf[d]
      dup == a \in Fresh
  IN  /\ Goto(d, "mark", IF dup THEN "duplicate" ELSE "audit")
      /\ a # NoAction
      /\ seen' = [b \in Fresh \cup {a} |-> IF b = a THEN now ELSE seen[b]]
      /\ checked' = [checked EXCEPT ![d] = now]
      /\ UNCHANGED <<phase, now, acks, auditVars, workVars>>

\* Under dedupMu: drop the expired entries, then look the action up and enter
\* it.  The entry stays, whatever becomes of the delivery.
MarkActionSeen(d) ==
  LET a == ActionOf[d]
      dup == a \in Fresh
  IN  /\ Goto(d, "mark", IF dup THEN "duplicate" ELSE "audit")
      /\ a # NoAction
      /\ seen' = [b \in Fresh \cup {a} |-> IF b \in Fresh THEN seen[b] ELSE now]
      /\ checked' = [checked EXCEPT ![d] = now]
      /\ UNCHANGED <<phase, now, acks, auditVars, workVars>>

\* A body without an action id is never a duplicate; one that is not JSON
\* cannot be slimmed.
SkipMark(d) ==
  /\ ActionOf[d] = NoAction
  /\ Goto(d, "mark", IF d \in Malformed THEN "invalid" ELSE "audit")
  /\ UNCHANGED <<phase, now, acks, dedupVars, auditVars, workVars>>

\* Stop has taken the directory already.
Forgotten == phase \in {"removing", "closing"}

\* Mutant of WriteAuditCopy: every copy makes its own directory.
WriteAuditCopyFreshDir(d) ==
  /\ Goto(d, "audit", "dispatch")
  /\ made' = made + 1
  /\ auditDir' = made'
  /\ dirs' = dirs \cup {made'}
  /\ late' = IF Forgotten THEN late \cup {d} ELSE late
  /\ UNCHANGED <<phase, now, acks, dedupVars, removing, stuck, workVars>>

\* The copy goes into the process's audit directory, made on first use under
\* auditMu.  No failure of it is passed on.
WriteAuditCopy(d) ==
  /\ Goto(d, "audit", "dispatch")
  /\ \/ UNCHANGED auditVars
     \/ /\ auditDir = 0
        /\ made' = made + 1
        /\ auditDir' = made'
        /\ dirs' = dirs \cup {made'}
        /\ late' = IF Forgotten THEN late \cup {d} ELSE late
        /\ UNCHANGED <<removing, stuck>>
  /\ UNCHANGED <<phase, now, acks, dedupVars, workVars>>

\* Dispatcher.Dispatch: the route drops the event ...
Drop(d) ==
  /\ Goto(d, "dispatch", "dropped")
  /\ UNCHANGED <<phase, now, acks, dedupVars, auditVars, workVars>>

\* ... or enqueue looks at the stopped flag and picks a worker ...
Enqueue(d) ==
  /\ Goto(d, "dispatch", IF stopped THEN "failed" ELSE "push")
  /\ UNCHANGED <<phase, now, acks, dedupVars, auditVars, workVars>>

\* ... and hands it over ...
Push(d) ==
  /\ Goto(d, "push", "accepted")
  /\ queue' = Append(queue, d)
  /\ UNCHANGED <<phase, now, acks, dedupVars, auditVars, stopped>>

\* ... unless the worker is torn down or the deadline passes first.
PushFails(d) ==
  /\ Goto(d, "push", "failed")
  /\ UNCHANGED <<phase, now, acks, dedupVars, auditVars, workVars>>

-----------------------------------------------------------------------------
(* main: start, serve, and the deferred calls of the shutdown.             *)

Advance(from, to) ==
  /\ phase = from
  /\ phase' = to
  /\ UNCHANGED <<now, pc, acks, dedupVars>>

\* The tunnel is up and the webhook reconciled: install the router.
Serve == Advance("starting", "serving") /\ UNCHANGED <<auditVars, workVars>>

\* SIGINT, SIGTERM or the end of the TUI.
Signal == Advance("serving", "draining") /\ UNCHANGED <<auditVars, workVars>>

\* http.Server.Shutdown waits for the handlers, but at most ten seconds, and
\* not for the goroutines they started; runner.Stop first stops the dispatcher.
StopDispatcher ==
  /\ Advance("draining", "stopping")
  /\ stopped' = TRUE
  /\ UNCHANGED <<auditVars, queue>>

\* Every worker goroutine has finished.
DispatcherStopped == Advance("stopping", "cleaning") /\ UNCHANGED <<auditVars, workVars>>

\* Under auditMu: forget the directory.
TakeAuditDir ==
  /\ Advance("cleaning", IF auditDir = 0 THEN "closing" ELSE "removing")
  /\ removing' = auditDir
  /\ auditDir' = 0
  /\ UNCHANGED <<dirs, made, stuck, late, workVars>>

\* Outside it: os.RemoveAll, whose failure is only logged.
RemoveAuditDir ==
  /\ Advance("removing", "closing")
  /\ \/ dirs' = dirs \ {removing} /\ UNCHANGED stuck
     \/ stuck' = stuck \cup {removing} /\ UNCHANGED dirs
  /\ removing' = 0
  /\ UNCHANGED <<auditDir, made, late, workVars>>

\* The SDK client and the tunnel are stopped and main returns.
Exit == Advance("closing", "exited") /\ UNCHANGED <<auditVars, workVars>>

Tick ==
  /\ Alive
  /\ now < MaxTime
  /\ now' = now + 1
  /\ UNCHANGED <<phase, pc, acks, dedupVars, auditVars, workVars>>

-----------------------------------------------------------------------------
HandlerStep(d) == Post(d) \/ Reject(d) \/ Accept(d)

HandleStep(d) ==
  \/ MarkActionSeen(d) \/ SkipMark(d)
  \/ WriteAuditCopy(d)
  \/ Drop(d) \/ Enqueue(d) \/ Push(d) \/ PushFails(d)

ShutdownStep ==
  \/ StopDispatcher \/ DispatcherStopped
  \/ TakeAuditDir \/ RemoveAuditDir
  \/ Exit

Next ==
  \/ \E d \in Deliveries : HandlerStep(d) \/ HandleStep(d)
  \/ Serve \/ Signal \/ ShutdownStep
  \/ Tick

Spec == Init /\ [][Next]_vars
=============================================================================
