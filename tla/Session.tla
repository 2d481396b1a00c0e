------------------------------- MODULE Session -------------------------------
(***************************************************************************)
(* A worker and its Copilot session (src/internal/app/dispatcher.go): the  *)
(* worker sends one prompt at a time and waits for the session to become   *)
(* idle (SendAndWait); the session's events come on a goroutine of the     *)
(* SDK, to the callback that is registered while the worker waits, and     *)
(* from there to the tracker of Activity.tla.                              *)
(*                                                                         *)
(* The session is external: it works through its prompts, one turn each,   *)
(* makes tool calls, some of them by subagents, and is idle after a turn.  *)
(* It calls back one event at a time.  An unsubscribe does not wait for a  *)
(* callback that has begun.                                                *)
(***************************************************************************)
EXTENDS Activity, Naturals, Sequences

CONSTANTS
  Turns,      \* 1..n: the messages of the worker, in order
  MaxSessions \* bound on the sessions a worker creates

ASSUME SessionAssumption ==
  /\ Turns \subseteq Nat /\ 0 \notin Turns
  /\ MaxSessions \in Nat
  /\ None \notin Happenings

VARIABLES
  pc,         \* "between" turns, "subscribed", "waiting", or leaving:
              \* "leaving", "disconnected", "marked", "closed"
  turn,       \* the latest turn that began
  results,    \* how SendAndWait ended for each turn
  subscribed, \* the callback of the current SendAndWait is registered
  done,       \* its channel done is closed
  sawErr,     \* and its sawErr
  cancelled,  \* the worker's context is cancelled
  sessions,   \* history: how many sessions were created
  open,       \* the latest of them is connected
  todo,       \* the prompts it accepted and has not begun
  current,    \* the turn it is at, or 0
  running,    \* its tool calls that run
  used,       \* and those it has made
  callback,   \* the event in a callback, and the turn whose callback it is
  finished,   \* history: turns the session completed
  lost,       \* history: turns accepted by a Send that returned an error
  begun,      \* history: the calls recorded as started and not as completed, since
              \* the tracker forgot all; each with the label shown at its start
  late        \* history: an event was recorded after the session was given up

worker  == <<pc, turn, results, cancelled, sessions, open>>
wait    == <<subscribed, done, sawErr>>
sdk     == <<todo, current, running, used>>
history == <<finished, lost, begun, late>>
vars == <<worker, wait, sdk, callback, history, trackerVars>>

NoCallback == [event |-> None, turn |-> 0]

TypeOK ==
  /\ state \in {"starting", "thinking", "running_tool", "waiting_permission",
                "idle", "error", "disconnected"}
  /\ currentTool \in Labels
  /\ DOMAIN toolCallNames \subseteq Calls
  /\ \A c \in DOMAIN toolCallNames : toolCallNames[c] \in Labels
  /\ subagentNames \subseteq Calls
  /\ logFile \in BOOLEAN
  /\ pc \in {"between", "subscribed", "waiting", "leaving", "disconnected", "marked", "closed"}
  /\ turn \in Turns \cup {0}
  /\ results \in [Turns -> {"none", "ok", "error", "unsent", "cancelled"}]
  /\ {subscribed, done, sawErr, cancelled, open, late} \subseteq BOOLEAN
  /\ sessions \in 0..MaxSessions
  /\ todo \in Seq(Turns)
  /\ current \in Turns \cup {0}
  /\ {running, used} \subseteq SUBSET Calls
  /\ DOMAIN begun \subseteq Calls
  /\ \A c \in DOMAIN begun : begun[c] \in Labels
  /\ callback.event \in Happenings \cup {None}
  /\ callback.turn \in Turns \cup {0}
  /\ {finished, lost} \subseteq SUBSET Turns

Init ==
  /\ TrackerInit
  /\ pc = "between"
  /\ turn = 0
  /\ results = [t \in Turns |-> "none"]
  /\ subscribed = FALSE
  /\ done = FALSE
  /\ sawErr = FALSE
  /\ cancelled = FALSE
  /\ sessions = 0
  /\ open = FALSE
  /\ todo = <<>>
  /\ current = 0
  /\ running = {}
  /\ used = {}
  /\ callback = NoCallback
  /\ finished = {}
  /\ lost = {}
  /\ begun = <<>>
  /\ late = FALSE

Goto(from, to) == pc = from /\ pc' = to

-----------------------------------------------------------------------------
(* The worker.                                                             *)

\* A message, and no session: one is created.
NewSession ==
  /\ pc = "between" /\ ~open /\ turn + 1 \in Turns
  /\ sessions < MaxSessions
  /\ sessions' = sessions + 1
  /\ open' = TRUE
  /\ todo' = <<>> /\ current' = 0 /\ running' = {} /\ used' = {}
  /\ UNCHANGED <<pc, turn, results, cancelled, wait, callback, history, trackerVars>>

\* Mutant of Subscribe: the callback of the turn before goes on being used.
SubscribeOnce ==
  /\ Goto("between", "subscribed")
  /\ open /\ turn + 1 \in Turns
  /\ turn' = turn + 1
  /\ subscribed' = (turn = 0) /\ done' = FALSE /\ sawErr' = FALSE
  /\ UNCHANGED <<results, cancelled, sessions, open, sdk, callback, history, trackerVars>>

\* SendAndWait registers its callback, and then sends.
Subscribe ==
  /\ Goto("between", "subscribed")
  /\ open /\ turn + 1 \in Turns
  /\ turn' = turn + 1
  /\ subscribed' = TRUE /\ done' = FALSE /\ sawErr' = FALSE
  /\ UNCHANGED <<results, cancelled, sessions, open, sdk, callback, history, trackerVars>>

Send ==
  /\ Goto("subscribed", "waiting")
  /\ ~cancelled
  /\ todo' = Append(todo, turn)
  /\ UNCHANGED <<turn, results, cancelled, sessions, open, wait, current, running, used,
                 callback, history, trackerVars>>

\* SendAndWait returns: the deferred unsubscribe, and back in runWorker, which
\* leaves only if its context is cancelled.
Return(result) ==
  /\ results' = [results EXCEPT ![turn] = result]
  /\ subscribed' = FALSE
  /\ pc' = IF result # "ok" /\ cancelled THEN "leaving" ELSE "between"
  /\ UNCHANGED <<turn, cancelled, sessions, open, done, sawErr, callback>>

\* The prompt may have arrived all the same.
SendFails ==
  /\ pc = "subscribed"
  /\ \/ todo' = Append(todo, turn) /\ lost' = lost \cup {turn}
     \/ UNCHANGED <<todo, lost>>
  /\ Return("unsent")
  /\ UNCHANGED <<current, running, used, finished, begun, late, trackerVars>>

\* Mutant of Idle: the wait ends with any error as well.
IdleOrError ==
  /\ pc = "waiting"
  /\ done \/ sawErr
  /\ Return("ok")
  /\ UNCHANGED <<sdk, history, trackerVars>>

Idle ==
  /\ pc = "waiting" /\ done
  /\ Return(IF sawErr THEN "error" ELSE "ok")
  /\ UNCHANGED <<sdk, history, trackerVars>>

ContextDone ==
  /\ pc = "waiting" /\ cancelled
  /\ Return("cancelled")
  /\ UNCHANGED <<sdk, history, trackerVars>>

\* DeleteWorker or Stop.
Cancel ==
  /\ ~cancelled /\ pc # "closed"
  /\ cancelled' = TRUE
  /\ UNCHANGED <<pc, turn, results, sessions, open, wait, sdk, callback, history, trackerVars>>

\* The idle timer: the session is given up and the worker stays.
Reap ==
  /\ pc = "between" /\ open
  /\ open' = FALSE
  /\ begun' = <<>>
  /\ MarkSessionIdleReaped
  /\ UNCHANGED <<pc, turn, results, cancelled, sessions, wait, sdk, callback, finished,
                 lost, late>>

\* kill, a terminate message, the end of the inbox, or no session could be made.
Leave ==
  /\ Goto("between", "leaving")
  /\ UNCHANGED <<turn, results, cancelled, sessions, open, wait, sdk, callback, history,
                 trackerVars>>

\* Mutant of Disconnect: without a session there is nothing to note.
DisconnectUnmarked ==
  /\ Goto("leaving", IF open THEN "disconnected" ELSE "marked")
  /\ open' = FALSE
  /\ UNCHANGED <<turn, results, cancelled, sessions, wait, sdk, callback, history, trackerVars>>

\* The deferred calls, last first.
Disconnect ==
  /\ Goto("leaving", "disconnected")
  /\ open' = FALSE
  /\ UNCHANGED <<turn, results, cancelled, sessions, wait, sdk, callback, history, trackerVars>>

Mark ==
  /\ Goto("disconnected", "marked")
  /\ MarkDisconnected
  /\ begun' = <<>>
  /\ UNCHANGED <<turn, results, cancelled, sessions, open, wait, sdk, callback, finished,
                 lost, late>>

Close ==
  /\ Goto("marked", "closed")
  /\ CloseLog
  /\ UNCHANGED <<turn, results, cancelled, sessions, open, wait, sdk, callback, history>>

-----------------------------------------------------------------------------
(* The session, and its callbacks.                                         *)

\* An event that nobody has subscribed to is gone.
Emit(e) ==
  /\ open /\ callback = NoCallback
  /\ callback' = IF subscribed THEN [event |-> e, turn |-> turn] ELSE NoCallback
  /\ UNCHANGED <<worker, wait, lost, begun, late, trackerVars>>

BeginTurn ==
  /\ current = 0 /\ todo # <<>>
  /\ current' = Head(todo)
  /\ todo' = Tail(todo)
  /\ Emit(Happening("user_message", None))
  /\ UNCHANGED <<running, used, finished>>

StartCall(c) ==
  /\ current # 0 /\ c \notin used
  /\ Parent[c] \in running \cup {None}
  /\ running' = running \cup {c}
  /\ used' = used \cup {c}
  /\ Emit(Happening("tool_start", c))
  /\ UNCHANGED <<todo, current, finished>>

EndCall(c) ==
  /\ c \in running
  /\ \A k \in running : Parent[k] # c
  /\ running' = running \ {c}
  /\ Emit(Happening("tool_complete", c))
  /\ UNCHANGED <<todo, current, used, finished>>

\* A subagent starts and ends while the call that asked for it runs.  The event
\* may come after the first call of the subagent.
Subagent(c) ==
  /\ c \in running
  /\ \E k \in Calls : Parent[k] = c
  /\ Emit(Happening(IF c \in subagentNames THEN "subagent_complete" ELSE "subagent_start", c))
  /\ UNCHANGED <<sdk, finished>>

Remark ==
  /\ current # 0
  /\ \E kind \in {"permission", "permitted", "error"} : Emit(Happening(kind, None))
  /\ UNCHANGED <<sdk, finished>>

EndTurn ==
  /\ current # 0 /\ running = {}
  /\ finished' = finished \cup {current}
  /\ current' = 0
  /\ Emit(Happening("idle", None))
  /\ UNCHANGED <<todo, running, used>>

\* The callback: the tracker records the event, and SendAndWait takes note of
\* the end of the turn or of an error, if the callback is still its own.
Callback ==
  LET e == callback.event
      mine == subscribed /\ callback.turn = turn
  IN
  /\ callback # NoCallback
  /\ callback' = NoCallback
  /\ RecordEvent(e)
  /\ done' = (done \/ (mine /\ e.kind = "idle"))
  /\ sawErr' = (sawErr \/ (mine /\ e.kind = "error"))
  /\ begun' = CASE e.kind = "tool_start" -> With(begun, e.call, newest'.label)
                [] e.kind = "tool_complete" -> Without(begun, e.call)
                [] OTHER -> begun
  /\ late' = (late \/ ~open)
  /\ UNCHANGED <<worker, subscribed, sdk, finished, lost>>

-----------------------------------------------------------------------------
Worker == NewSession \/ Subscribe \/ Send \/ Idle \/ ContextDone

Leaving == Disconnect \/ Mark \/ Close

\* What brings the session's turn to its end.
Session == BeginTurn \/ EndTurn \/ (\E c \in Calls : EndCall(c))

Next ==
  \/ Worker \/ SendFails \/ Cancel \/ Reap \/ Leave \/ Leaving
  \/ Session \/ Callback
  \/ \E c \in Calls : StartCall(c) \/ Subagent(c)
  \/ Remark

Spec == Init /\ [][Next]_vars

\* The goroutines of the worker and of the callbacks run; the session answers every
\* prompt it accepted, sooner or later, whatever it remarks before (what the code
\* relies on: SendAndWait has no time limit of its own).
Fairness ==
  /\ WF_vars(Worker) /\ WF_vars(Leaving) /\ WF_vars(Callback)
  /\ SF_vars(BeginTurn) /\ SF_vars(EndTurn) /\ \A c \in Calls : SF_vars(EndCall(c))

FairSpec == Spec /\ Fairness
=============================================================================
