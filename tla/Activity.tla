------------------------------- MODULE Activity -------------------------------
(***************************************************************************)
(* What the operator is told of one worker: the tracker of                 *)
(* src/internal/app/activity.go, fed with the events of the worker's       *)
(* Copilot session.  Here are its steps; Session.tla says when they        *)
(* happen.  Each is one critical section of the tracker's lock.  The ring  *)
(* buffer of entries is that of Ring.tla; only its newest entry is kept.   *)
(***************************************************************************)
CONSTANTS
  Calls,   \* ids of tool calls
  Parent,  \* the call whose subagent made a call, or None
  None

ASSUME ActivityAssumption ==
  /\ None \notin Calls
  /\ Parent \in [Calls -> Calls \cup {None}]

VARIABLES
  state,         \* WorkerStatus.State
  currentTool,   \* the label in WorkerStatus.CurrentTool
  toolCallNames, \* the labels of the calls that run
  subagentNames, \* the calls whose subagent is known by name
  logFile,       \* the activity log is open, and so on disk
  newest         \* the newest entry: what happened, and the label it was given

trackerVars == <<state, currentTool, toolCallNames, subagentNames, logFile, newest>>

\* A label is the name of a tool, here that of its call, with the tag of the
\* subagent that made the call: no tag, "[sub:?]" or "[sub:<name>]".
Labels == [tool : Calls \cup {None}, tag : {"", "?", "named"}]
NoLabel == [tool |-> None, tag |-> ""]

Plain == {"session_start", "user_message", "assistant_message", "permission",
          "permitted", "error", "idle", "session_shutdown"}
OfCalls == {"tool_start", "tool_complete", "subagent_start", "subagent_complete"}

\* The events of a session.
Happenings == [kind : Plain, call : {None}] \cup [kind : OfCalls, call : Calls]
Happening(kind, c) == [kind |-> kind, call |-> c]

Entry(what, label) == [what |-> what, label |-> label]
NoEntry == Entry(None, NoLabel)

TrackerInit ==
  /\ state = "starting"
  /\ currentTool = NoLabel
  /\ toolCallNames = <<>>
  /\ subagentNames = {}
  /\ logFile = TRUE
  /\ newest = NoEntry

Tag(c) == IF Parent[c] = None THEN "" ELSE IF Parent[c] \in subagentNames THEN "named" ELSE "?"

NextState(kind) ==
  CASE kind \in {"session_start", "user_message", "permitted", "tool_complete"} -> "thinking"
    [] kind = "permission" -> "waiting_permission"
    [] kind = "tool_start" -> "running_tool"
    [] kind = "error" -> "error"
    [] kind = "idle" -> "idle"
    [] kind = "session_shutdown" -> "disconnected"
    [] OTHER -> state

With(f, c, label) == [x \in DOMAIN f \cup {c} |-> IF x = c THEN label ELSE f[x]]
Without(f, c) == [x \in DOMAIN f \ {c} |-> f[x]]

\* Mutant of CompletedLabel: a call that completes is taken to be the one that
\* started last.
CompletedLabelOfCurrent(c) ==
  IF currentTool.tag = "" THEN [currentTool EXCEPT !.tag = Tag(c)] ELSE currentTool

\* The label a call got when it started; a call that was not seen to start gets
\* the current one.  What has no tag is given one.
CompletedLabel(c) ==
  LET label == IF c \in DOMAIN toolCallNames THEN toolCallNames[c] ELSE currentTool
  IN  IF label.tag = "" THEN [label EXCEPT !.tag = Tag(c)] ELSE label

LabelOf(e) ==
  CASE e.kind = "tool_start" -> [tool |-> e.call, tag |-> Tag(e.call)]
    [] e.kind = "tool_complete" -> CompletedLabel(e.call)
    [] OTHER -> NoLabel

RecordEvent(e) ==
  /\ state' = NextState(e.kind)
  /\ newest' = Entry(e, LabelOf(e))
  /\ currentTool' = CASE e.kind = "tool_start" -> LabelOf(e)
                      [] e.kind \in {"tool_complete", "idle"} -> NoLabel
                      [] OTHER -> currentTool
  /\ toolCallNames' = CASE e.kind = "tool_start" -> With(toolCallNames, e.call, LabelOf(e))
                        [] e.kind = "tool_complete" -> Without(toolCallNames, e.call)
                        [] OTHER -> toolCallNames
  /\ subagentNames' = CASE e.kind = "subagent_start" -> subagentNames \cup {e.call}
                        [] e.kind = "subagent_complete" -> subagentNames \ {e.call}
                        [] OTHER -> subagentNames
  /\ UNCHANGED logFile

MarkDisconnected ==
  /\ state' = "disconnected"
  /\ toolCallNames' = <<>>
  /\ subagentNames' = {}
  /\ newest' = Entry(Happening("session_shutdown", None), NoLabel)
  /\ UNCHANGED <<currentTool, logFile>>

MarkSessionIdleReaped ==
  /\ state' = "disconnected"
  /\ currentTool' = NoLabel
  /\ toolCallNames' = <<>>
  /\ subagentNames' = {}
  /\ newest' = Entry(Happening("session_idle_reaped", None), NoLabel)
  /\ UNCHANGED logFile

\* The file is closed and removed.
CloseLog ==
  /\ logFile' = FALSE
  /\ UNCHANGED <<state, currentTool, toolCallNames, subagentNames, newest>>
=============================================================================
