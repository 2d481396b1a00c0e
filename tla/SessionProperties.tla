-------------------------- MODULE SessionProperties --------------------------
(* What the worker and the operator may conclude from a session's events. *)
EXTENDS Session

\* SendAndWait returns without an error only when the session has completed its
\* prompt, unless the answer to an earlier Send was lost: then the idle of that
\* turn may be taken for this one's.
AnsweredIsFinished ==
  \A t \in Turns : results[t] = "ok" => t \in finished \/ \E u \in lost : u < t

\* A call that was shown as started, and that completes before the session is given
\* up, is shown as completed under the same label, tool and subagent's tag, whatever
\* other calls, turns and subagents began, ended or got a name in between
\* (ActivityTracker.RecordEvent keeps the label for that, toolCallNames).
LabelsTrue ==
  [][\A c \in DOMAIN begun :
       newest'.what = Happening("tool_complete", c) /\ newest' # newest
         => newest'.label = begun[c]]_vars

\* What a comment says (activity.go:257): a call that started before its subagent
\* was known is decorated with the subagent's name when it completes.  It is not:
\* its label has the tag "[sub:?]" from its start, and is left as it is.
LateNamesShown ==
  \A c \in Calls :
    newest.what = Happening("tool_complete", c) /\ Parent[c] \in subagentNames
      => newest.label.tag = "named"

\* The activity log is removed at the worker's end and not before the tracker has
\* noted that end (a callback that was still under way may have the last word),
\* and nothing is left in the tracker's tables.
LogClosedLast ==
  [][logFile /\ ~logFile' /\ ~late =>
       /\ state' = "disconnected"
       /\ newest'.what = Happening("session_shutdown", None)
       /\ toolCallNames' = <<>> /\ subagentNames' = {}]_vars

\* A worker does not wait forever: it hears of the end of its turn.
WaitEnds == pc = "waiting" ~> pc # "waiting"
=============================================================================
