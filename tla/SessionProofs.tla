----------------------------- MODULE SessionProofs -----------------------------
(***************************************************************************)
(* What the events of a session tell its worker and the operator is true,  *)
(* for any number of turns, calls and sessions.                            *)
(***************************************************************************)
EXTENDS SessionProperties, TLAPS

\* An answer to an earlier prompt was lost.
LostBefore(t) == \E u \in lost : u < t

\* The callback under way is that of the current SendAndWait and tells of an idle.
IdleComes == callback.turn = turn /\ callback.event # None /\ callback.event.kind = "idle"

\* Unless an answer was lost, the session has no prompt but the one the worker
\* waits for, and the end of its turn is the only one the worker hears of.
InStep ==
  ~LostBefore(turn) =>
    /\ pc = "between" /\ turn \notin lost => todo = <<>> /\ current = 0
    /\ pc = "subscribed" => todo = <<>> /\ current = 0 /\ ~done /\ ~IdleComes
    /\ pc = "waiting" =>
         \/ todo = <<turn>> /\ current = 0 /\ ~done /\ ~IdleComes
         \/ todo = <<>> /\ current = turn /\ ~done /\ ~IdleComes
         \/ todo = <<>> /\ current = 0 /\ turn \in finished

\* Turns begin in order, and answers are lost at their end.
TurnsInOrder ==
  /\ pc \in {"subscribed", "waiting"} => turn \in Turns /\ turn \notin lost
  /\ \A t \in lost : t <= turn
  /\ callback.turn <= turn
  /\ pc = "waiting" /\ done => turn \in finished \/ LostBefore(turn)

\* The tracker keeps the labels that were shown, and only a call that no subagent
\* made is without a tag.
LabelsOwn ==
  /\ toolCallNames = begun
  /\ \A c \in DOMAIN begun : begun[c].tag = "" => Parent[c] = None

\* After Mark nothing is recorded but by a callback that was under way.
Marked ==
  /\ pc \in {"disconnected", "marked", "closed"} => ~open
  /\ pc = "marked" /\ ~late =>
       /\ state = "disconnected" /\ newest.what = Happening("session_shutdown", None)
       /\ toolCallNames = <<>> /\ subagentNames = {}

\* What is in a callback is an event.
CallbackIs == callback = NoCallback \/ callback \in [event : Happenings, turn : Turns \cup {0}]

IInv ==
  TypeOK /\ CallbackIs /\ InStep /\ TurnsInOrder /\ LabelsOwn /\ Marked /\ AnsweredIsFinished

USE DEF Goto

-----------------------------------------------------------------------------
(* The steps, by what they leave alone.                                    *)

\* The worker's steps, but those that record something.
WorkerStep ==
  NewSession \/ Subscribe \/ Send \/ Idle \/ ContextDone \/ SendFails \/ Cancel \/ Leave \/ Disconnect

\* The session's steps.
SessionStep ==
  BeginTurn \/ EndTurn \/ (\E c \in Calls : EndCall(c) \/ StartCall(c) \/ Subagent(c)) \/ Remark

\* TypeOK, by who writes what.
TypeTracker ==
  /\ state \in {"starting", "thinking", "running_tool", "waiting_permission",
                "idle", "error", "disconnected"}
  /\ currentTool \in Labels
  /\ DOMAIN toolCallNames \subseteq Calls
  /\ \A c \in DOMAIN toolCallNames : toolCallNames[c] \in Labels
  /\ subagentNames \subseteq Calls
  /\ logFile \in BOOLEAN

TypeWorker ==
  /\ pc \in {"between", "subscribed", "waiting", "leaving", "disconnected", "marked", "closed"}
  /\ turn \in Turns \cup {0}
  /\ results \in [Turns -> {"none", "ok", "error", "unsent", "cancelled"}]
  /\ cancelled \in BOOLEAN /\ open \in BOOLEAN
  /\ sessions \in 0..MaxSessions

TypeWait ==
  /\ subscribed \in BOOLEAN /\ done \in BOOLEAN /\ sawErr \in BOOLEAN
  /\ callback.event \in Happenings \cup {None}
  /\ callback.turn \in Turns \cup {0}

TypeSdk ==
  /\ todo \in Seq(Turns)
  /\ current \in Turns \cup {0}
  /\ running \subseteq Calls /\ used \subseteq Calls

TypeHistory ==
  /\ finished \subseteq Turns /\ lost \subseteq Turns
  /\ DOMAIN begun \subseteq Calls /\ \A c \in DOMAIN begun : begun[c] \in Labels
  /\ late \in BOOLEAN

LEMMA TypeParts == TypeOK <=> TypeTracker /\ TypeWorker /\ TypeWait /\ TypeSdk /\ TypeHistory
BY DEF TypeOK, TypeTracker, TypeWorker, TypeWait, TypeSdk, TypeHistory

LEMMA TypePartsNext ==
  TypeOK' <=> TypeTracker' /\ TypeWorker' /\ TypeWait' /\ TypeSdk' /\ TypeHistory'
BY DEF TypeOK, TypeTracker, TypeWorker, TypeWait, TypeSdk, TypeHistory

LEMMA HappeningsAre ==
  /\ \A k \in Plain : Happening(k, None) \in Happenings
  /\ \A k \in OfCalls, c \in Calls : Happening(k, c) \in Happenings
BY DEF Happening, Happenings

\* A turn that has begun to be sent is one of the worker's.
InTurn == pc \in {"subscribed", "waiting"} => turn \in Turns

\* The session's steps put events into the callback.
LEMMA SessionEmits == SessionStep => \E e \in Happenings : Emit(e)
<1>1. {"user_message", "permission", "permitted", "error", "idle"} \subseteq Plain
  BY DEF Plain
<1>2. {"tool_start", "tool_complete", "subagent_start", "subagent_complete"} \subseteq OfCalls
  BY DEF OfCalls
<1>3. ASSUME BeginTurn \/ EndTurn \/ Remark PROVE \E e \in Happenings : Emit(e)
  BY <1>1, <1>3, HappeningsAre DEF BeginTurn, EndTurn, Remark
<1>4. ASSUME NEW c \in Calls, EndCall(c) \/ StartCall(c) \/ Subagent(c)
      PROVE  \E e \in Happenings : Emit(e)
  BY <1>2, <1>4, HappeningsAre DEF EndCall, StartCall, Subagent
<1> QED
  BY <1>3, <1>4 DEF SessionStep

\* The worker's own steps leave the tracker alone.
LEMMA TypeWorkerStep == TypeOK /\ InTurn /\ WorkerStep => TypeOK'
<1> SUFFICES ASSUME TypeOK, InTurn, WorkerStep PROVE TypeOK'
  OBVIOUS
<1>1. TypeTracker /\ TypeWorker /\ TypeWait /\ TypeSdk /\ TypeHistory
  BY TypeParts
<1>2. UNCHANGED <<trackerVars, callback, finished, begun, late>>
  BY DEF WorkerStep, NewSession, Subscribe, Send, Idle, ContextDone, SendFails, Cancel, Leave,
     Disconnect, Return, history
<1>3. TypeTracker'
  BY <1>1, <1>2 DEF TypeTracker, trackerVars
<1>4. TypeWorker'
  <2>1. ASSUME NEW r \in {"none", "ok", "error", "unsent", "cancelled"}, Return(r)
        PROVE  TypeWorker'
    BY <1>1, <2>1 DEF TypeWorker, Return
  <2>2. CASE Idle \/ ContextDone \/ SendFails
    BY <2>1, <2>2 DEF Idle, ContextDone, SendFails
  <2>3. CASE NewSession
    <3>1. sessions' \in 0..MaxSessions
      BY <1>1, <2>3, SessionAssumption DEF SessionAssumption, TypeWorker, NewSession
    <3> QED
      BY <1>1, <2>3, <3>1 DEF TypeWorker, NewSession
  <2>4. CASE Subscribe \/ Send \/ Cancel \/ Leave \/ Disconnect
    BY <1>1, <2>4 DEF TypeWorker, Subscribe, Send, Cancel, Leave, Disconnect
  <2> QED
    BY <2>2, <2>3, <2>4 DEF WorkerStep
<1>5. TypeWait'
  BY <1>1, <1>2 DEF TypeWait, WorkerStep, NewSession, Subscribe, Send, Idle, ContextDone, SendFails,
     Cancel, Leave, Disconnect, Return, wait
<1>6. pc = "subscribed" => turn \in Turns /\ Append(todo, turn) \in Seq(Turns)
  BY <1>1 DEF InTurn, TypeSdk
<1>7. TypeSdk'
  <2>1. current' \in Turns \cup {0} /\ running' \subseteq Calls /\ used' \subseteq Calls
    BY <1>1 DEF TypeSdk, WorkerStep, NewSession, Subscribe, Send, Idle, ContextDone, SendFails,
       Cancel, Leave, Disconnect, Return, sdk
  <2>2. todo' = todo \/ todo' = <<>> \/ (pc = "subscribed" /\ todo' = Append(todo, turn))
    BY DEF WorkerStep, NewSession, Subscribe, Send, Idle, ContextDone, SendFails, Cancel, Leave,
       Disconnect, Return, sdk
  <2>3. todo \in Seq(Turns) /\ <<>> \in Seq(Turns)
    BY <1>1 DEF TypeSdk
  <2>4. todo' \in Seq(Turns)
    BY <1>6, <2>2, <2>3
  <2> QED
    BY <2>1, <2>4 DEF TypeSdk
<1>8. TypeHistory'
  <2>1. lost' = lost \/ (pc = "subscribed" /\ lost' = lost \cup {turn})
    BY DEF WorkerStep, NewSession, Subscribe, Send, Idle, ContextDone, SendFails, Cancel, Leave,
       Disconnect, Return, history
  <2> QED
    BY <1>1, <1>2, <1>6, <2>1 DEF TypeHistory
<1> QED
  BY <1>3, <1>4, <1>5, <1>7, <1>8, TypePartsNext

\* The session's steps write its own state and the callback.
LEMMA TypeSessionStep == TypeOK /\ SessionStep => TypeOK'
<1> SUFFICES ASSUME TypeOK, SessionStep PROVE TypeOK'
  OBVIOUS
<1>1. TypeTracker /\ TypeWorker /\ TypeWait /\ TypeSdk /\ TypeHistory
  BY TypeParts
<1>2. UNCHANGED <<trackerVars, worker, wait, lost, begun, late>>
  BY DEF SessionStep, BeginTurn, EndTurn, EndCall, StartCall, Subagent, Remark, Emit
<1>3. TypeTracker' /\ TypeWorker'
  BY <1>1, <1>2 DEF TypeTracker, TypeWorker, trackerVars, worker
<1>4. \E e \in Happenings : Emit(e)
  BY SessionEmits
<1>5. TypeWait'
  BY <1>1, <1>2, <1>4 DEF TypeWait, TypeWorker, Emit, NoCallback, wait
<1>6. TypeSdk' /\ finished' \subseteq Turns
  BY <1>1 DEF TypeSdk, TypeHistory, SessionStep, BeginTurn, EndTurn, EndCall, StartCall, Subagent,
     Remark, sdk
<1>7. TypeHistory'
  BY <1>1, <1>2, <1>6 DEF TypeHistory
<1> QED
  BY <1>3, <1>5, <1>6, <1>7, TypePartsNext

LEMMA LabelsAre ==
  ASSUME TypeTracker, NEW e \in Happenings
  PROVE  LabelOf(e) \in Labels /\ NoLabel \in Labels
<1>1. NoLabel \in Labels
  BY DEF NoLabel, Labels
<1>2. \A c \in Calls : Tag(c) \in {"", "?", "named"} /\ [tool |-> c, tag |-> Tag(c)] \in Labels
  BY DEF Tag, Labels
<1>3. \A c \in Calls : CompletedLabel(c) \in Labels
  BY <1>2 DEF CompletedLabel, Labels, TypeTracker
<1>4. e.kind \in OfCalls => e.call \in Calls
  BY DEF Happenings, Plain, OfCalls
<1> QED
  BY <1>1, <1>2, <1>3, <1>4 DEF LabelOf, OfCalls

\* An event changes the tables in one place.
LEMMA TablesAfter ==
  ASSUME TypeTracker, NEW e \in Happenings, RecordEvent(e)
  PROVE  /\ e.kind = "tool_start" =>
              /\ e.call \in Calls
              /\ DOMAIN toolCallNames' = DOMAIN toolCallNames \cup {e.call}
              /\ \A d \in DOMAIN toolCallNames' :
                   toolCallNames'[d] = IF d = e.call THEN LabelOf(e) ELSE toolCallNames[d]
         /\ e.kind = "tool_complete" =>
              /\ e.call \in Calls
              /\ DOMAIN toolCallNames' = DOMAIN toolCallNames \ {e.call}
              /\ \A d \in DOMAIN toolCallNames' : toolCallNames'[d] = toolCallNames[d]
         /\ e.kind \notin {"tool_start", "tool_complete"} => toolCallNames' = toolCallNames
<1>1. e.kind \in OfCalls => e.call \in Calls
  BY DEF Happenings, Plain, OfCalls
<1>2. e.kind = "tool_start" => toolCallNames' = With(toolCallNames, e.call, LabelOf(e))
  BY DEF RecordEvent
<1>3. e.kind = "tool_complete" => toolCallNames' = Without(toolCallNames, e.call)
  BY DEF RecordEvent
<1>4. e.kind \notin {"tool_start", "tool_complete"} => toolCallNames' = toolCallNames
  BY DEF RecordEvent
<1>5. DOMAIN With(toolCallNames, e.call, LabelOf(e)) = DOMAIN toolCallNames \cup {e.call}
      /\ \A d \in DOMAIN toolCallNames \cup {e.call} :
           With(toolCallNames, e.call, LabelOf(e))[d]
             = IF d = e.call THEN LabelOf(e) ELSE toolCallNames[d]
  BY DEF With
<1>6. DOMAIN Without(toolCallNames, e.call) = DOMAIN toolCallNames \ {e.call}
      /\ \A d \in DOMAIN toolCallNames \ {e.call} :
           Without(toolCallNames, e.call)[d] = toolCallNames[d]
  BY DEF Without
<1>7. CASE e.kind = "tool_start"
  BY <1>1, <1>2, <1>5, <1>7 DEF OfCalls
<1>8. CASE e.kind = "tool_complete"
  BY <1>1, <1>3, <1>6, <1>8 DEF OfCalls
<1> QED
  BY <1>4, <1>7, <1>8

LEMMA TrackerAfter ==
  ASSUME TypeTracker, NEW e \in Happenings, RecordEvent(e)
  PROVE  TypeTracker'
<1>1. LabelOf(e) \in Labels /\ NoLabel \in Labels
  BY LabelsAre
<1>2. currentTool' \in Labels
  BY <1>1 DEF RecordEvent, TypeTracker
<1>3. state' \in {"starting", "thinking", "running_tool", "waiting_permission",
                  "idle", "error", "disconnected"}
  BY DEF RecordEvent, NextState, TypeTracker
<1>4. subagentNames' \subseteq Calls
  BY DEF RecordEvent, TypeTracker, Happenings, Plain, OfCalls
<1>5. /\ DOMAIN toolCallNames' \subseteq Calls
      /\ \A c \in DOMAIN toolCallNames' : toolCallNames'[c] \in Labels
  <2>0. DOMAIN toolCallNames \subseteq Calls /\ \A c \in DOMAIN toolCallNames : toolCallNames[c] \in Labels
    BY DEF TypeTracker
  <2>1. CASE e.kind = "tool_start"
    <3>1. /\ e.call \in Calls
          /\ DOMAIN toolCallNames' = DOMAIN toolCallNames \cup {e.call}
          /\ \A d \in DOMAIN toolCallNames' :
               toolCallNames'[d] = IF d = e.call THEN LabelOf(e) ELSE toolCallNames[d]
      BY <2>1, TablesAfter
    <3> QED
      BY <1>1, <2>0, <3>1
  <2>2. CASE e.kind = "tool_complete"
    BY <2>2, TablesAfter DEF TypeTracker
  <2>3. CASE e.kind \notin {"tool_start", "tool_complete"}
    BY <2>3, TablesAfter DEF TypeTracker
  <2> QED
    BY <2>1, <2>2, <2>3
<1>6. logFile' \in BOOLEAN
  BY DEF RecordEvent, TypeTracker
<1> QED
  BY <1>2, <1>3, <1>4, <1>5, <1>6 DEF TypeTracker

\* So do the tables of labels, when a call starts or completes.
LEMMA TableAfter ==
  ASSUME NEW f, DOMAIN f \subseteq Calls, \A d \in DOMAIN f : f[d] \in Labels,
         NEW c \in Calls, NEW label \in Labels
  PROVE  /\ DOMAIN With(f, c, label) \subseteq Calls
         /\ \A d \in DOMAIN With(f, c, label) : With(f, c, label)[d] \in Labels
         /\ DOMAIN Without(f, c) \subseteq Calls
         /\ \A d \in DOMAIN Without(f, c) : Without(f, c)[d] \in Labels
<1>1. DOMAIN With(f, c, label) = DOMAIN f \cup {c}
      /\ \A d \in DOMAIN f \cup {c} : With(f, c, label)[d] = IF d = c THEN label ELSE f[d]
  BY DEF With
<1>2. DOMAIN Without(f, c) = DOMAIN f \ {c}
      /\ \A d \in DOMAIN f \ {c} : Without(f, c)[d] = f[d]
  BY DEF Without
<1> QED
  BY <1>1, <1>2

LEMMA TypeTrackerStep == TypeOK /\ CallbackIs /\ (Reap \/ Mark \/ Close \/ Callback) => TypeOK'
<1> SUFFICES ASSUME TypeOK, CallbackIs, Reap \/ Mark \/ Close \/ Callback PROVE TypeOK'
  OBVIOUS
<1>1. TypeTracker /\ TypeWorker /\ TypeWait /\ TypeSdk /\ TypeHistory
  BY TypeParts
<1>2. CASE Reap \/ Mark \/ Close
  <2>1. TypeTracker'
    <3>1. NoLabel \in Labels
      BY DEF NoLabel, Labels
    <3>2. toolCallNames' \in {toolCallNames, <<>>} /\ currentTool' \in {currentTool, NoLabel}
          /\ state' \in {state, "disconnected"} /\ subagentNames' \in {subagentNames, {}}
          /\ logFile' \in {logFile, FALSE}
      BY <1>2 DEF Reap, Mark, Close, MarkSessionIdleReaped, MarkDisconnected, CloseLog
    <3>3. DOMAIN toolCallNames' \subseteq Calls
          /\ \A c \in DOMAIN toolCallNames' : toolCallNames'[c] \in Labels
      <4>1. CASE toolCallNames' = <<>>
        BY <4>1
      <4>2. CASE toolCallNames' = toolCallNames
        BY <1>1, <4>2 DEF TypeTracker
      <4> QED
        BY <3>2, <4>1, <4>2
    <3> QED
      BY <1>1, <3>1, <3>2, <3>3 DEF TypeTracker
  <2>2. TypeWorker'
    BY <1>1, <1>2 DEF TypeWorker, Reap, Mark, Close
  <2>3. UNCHANGED <<wait, sdk, callback, finished, lost, late>> 
        /\ begun' \in {begun, <<>>}
    BY <1>2 DEF Reap, Mark, Close, history
  <2>4. TypeWait' /\ TypeSdk' /\ TypeHistory'
    <3>1. CASE begun' = <<>>
      BY <1>1, <2>3, <3>1 DEF TypeWait, TypeSdk, TypeHistory, wait, sdk
    <3>2. CASE begun' = begun
      BY <1>1, <2>3, <3>2 DEF TypeWait, TypeSdk, TypeHistory, wait, sdk
    <3> QED
      BY <2>3, <3>1, <3>2
  <2> QED
    BY <2>1, <2>2, <2>4, TypePartsNext
<1>3. CASE Callback
  <2>1. callback.event \in Happenings /\ RecordEvent(callback.event)
    BY <1>3 DEF Callback, CallbackIs
  <2>2. TypeTracker'
    BY <1>1, <2>1, TrackerAfter
  <2>3. UNCHANGED <<worker, subscribed, sdk, finished, lost>>
    BY <1>3 DEF Callback
  <2>4. TypeWorker' /\ TypeSdk'
    BY <1>1, <2>3 DEF TypeWorker, TypeSdk, worker, sdk
  <2>5. TypeWait'
    BY <1>1, <1>3, <2>3 DEF TypeWait, Callback, NoCallback
  <2>6. callback.event.kind \in OfCalls => callback.event.call \in Calls
    BY <2>1 DEF Happenings, Plain, OfCalls
  <2>7. late' \in BOOLEAN
    BY <1>1, <1>3 DEF TypeHistory, TypeWorker, Callback
  <2>8. DOMAIN begun' \subseteq Calls /\ \A c \in DOMAIN begun' : begun'[c] \in Labels
    <3> DEFINE e == callback.event
    <3>1. newest'.label \in Labels
      BY <1>1, <2>1, LabelsAre DEF RecordEvent, Entry
    <3>2. /\ e.kind = "tool_start" => begun' = With(begun, e.call, newest'.label)
          /\ e.kind = "tool_complete" => begun' = Without(begun, e.call)
          /\ e.kind \notin {"tool_start", "tool_complete"} => begun' = begun
      BY <1>3 DEF Callback
    <3>3. DOMAIN begun \subseteq Calls /\ \A c \in DOMAIN begun : begun[c] \in Labels
      BY <1>1 DEF TypeHistory
    <3>4. e.kind \in {"tool_start", "tool_complete"} => e.call \in Calls
      BY <2>6 DEF OfCalls
    <3> HIDE DEF e
    <3>5. CASE e.kind = "tool_start"
      BY <3>1, <3>2, <3>3, <3>4, <3>5, TableAfter
    <3>6. CASE e.kind = "tool_complete"
      BY <3>1, <3>2, <3>3, <3>4, <3>6, TableAfter
    <3> QED
      BY <3>2, <3>3, <3>5, <3>6
  <2>9. TypeHistory'
    BY <1>1, <2>3, <2>7, <2>8 DEF TypeHistory
  <2> QED
    BY <2>2, <2>4, <2>5, <2>9, TypePartsNext
<1> QED
  BY <1>2, <1>3

LEMMA StepsAre == Next => WorkerStep \/ SessionStep \/ Reap \/ Mark \/ Close \/ Callback
BY DEF Next, Worker, Leaving, Session, WorkerStep, SessionStep

LEMMA CallbackStep == TypeOK /\ CallbackIs /\ [Next]_vars => CallbackIs'
<1> SUFFICES ASSUME TypeOK, CallbackIs, [Next]_vars PROVE CallbackIs'
  OBVIOUS
<1>1. ASSUME callback' \in {callback, NoCallback} PROVE CallbackIs'
  BY <1>1 DEF CallbackIs, NoCallback
<1>2. CASE WorkerStep \/ Reap \/ Mark \/ Close \/ Callback \/ UNCHANGED vars
  BY <1>1, <1>2 DEF WorkerStep, NewSession, Subscribe, Send, Idle, ContextDone, SendFails, Cancel,
     Leave, Disconnect, Return, Reap, Mark, Close, Callback, vars
<1>3. CASE SessionStep
  <2>1. PICK e \in Happenings : Emit(e)
    BY <1>3, SessionEmits
  <2>2. turn \in Turns \cup {0}
    BY DEF TypeOK
  <2>3. callback' = NoCallback \/ callback' = [event |-> e, turn |-> turn]
    BY <2>1 DEF Emit
  <2> QED
    BY <2>2, <2>3 DEF CallbackIs, NoCallback
<1> QED
  BY <1>2, <1>3, StepsAre

-----------------------------------------------------------------------------
(* The labels, and the end of the log.                                     *)

LEMMA LabelsStep ==
  TypeOK /\ CallbackIs /\ LabelsOwn /\ [Next]_vars => LabelsOwn'
<1> SUFFICES ASSUME TypeOK, CallbackIs, LabelsOwn, [Next]_vars PROVE LabelsOwn'
  OBVIOUS
<1>1. CASE UNCHANGED <<toolCallNames, begun>>
  BY <1>1 DEF LabelsOwn
<1>2. CASE WorkerStep \/ SessionStep \/ Close \/ UNCHANGED vars
  <2>1. UNCHANGED <<toolCallNames, begun>>
    BY <1>2 DEF WorkerStep, NewSession, Subscribe, Send, Idle, ContextDone, SendFails, Cancel, Leave,
       Disconnect, SessionStep, BeginTurn, EndTurn, EndCall, StartCall, Subagent, Remark, Emit, Close,
       CloseLog, vars, history, trackerVars
  <2> QED
    BY <1>1, <2>1
<1>3. CASE Reap \/ Mark
  <2>1. toolCallNames' = <<>> /\ begun' = <<>> /\ DOMAIN begun' = {}
    BY <1>3 DEF Reap, Mark, MarkDisconnected, MarkSessionIdleReaped
  <2> QED
    BY <2>1 DEF LabelsOwn
<1>4. CASE Callback
  <2> DEFINE e == callback.event
  <2>1. e \in Happenings /\ RecordEvent(e)
    BY <1>4 DEF Callback, CallbackIs
  <2>2. TypeTracker
    BY TypeParts
  <2>3. /\ e.kind = "tool_start" => begun' = With(begun, e.call, LabelOf(e))
        /\ e.kind = "tool_complete" => begun' = Without(begun, e.call)
        /\ e.kind \notin {"tool_start", "tool_complete"} => begun' = begun
    BY <1>4, <2>1 DEF Callback, RecordEvent, Entry
  <2>4. /\ e.kind = "tool_start" => toolCallNames' = With(toolCallNames, e.call, LabelOf(e))
        /\ e.kind = "tool_complete" => toolCallNames' = Without(toolCallNames, e.call)
        /\ e.kind \notin {"tool_start", "tool_complete"} => toolCallNames' = toolCallNames
    BY <2>1 DEF RecordEvent
  <2> HIDE DEF e
  <2>5. toolCallNames' = begun'
    BY <2>3, <2>4 DEF LabelsOwn
  <2>6. CASE e.kind = "tool_start"
    <3>1. LabelOf(e).tag = "" => Parent[e.call] = None
      BY <2>6 DEF LabelOf, Tag
    <3>2. DOMAIN begun' = DOMAIN begun \cup {e.call}
          /\ \A d \in DOMAIN begun' : begun'[d] = IF d = e.call THEN LabelOf(e) ELSE begun[d]
      BY <2>3, <2>6 DEF With
    <3> QED
      BY <2>5, <3>1, <3>2 DEF LabelsOwn
  <2>7. CASE e.kind = "tool_complete"
    <3>1. DOMAIN begun' = DOMAIN begun \ {e.call}
          /\ \A d \in DOMAIN begun' : begun'[d] = begun[d]
      BY <2>3, <2>7 DEF Without
    <3> QED
      BY <2>5, <3>1 DEF LabelsOwn
  <2>8. CASE e.kind \notin {"tool_start", "tool_complete"}
    BY <2>3, <2>5, <2>8 DEF LabelsOwn
  <2> QED
    BY <2>6, <2>7, <2>8
<1> QED
  BY <1>2, <1>3, <1>4, StepsAre

LEMMA MarkedStep == TypeOK /\ Marked /\ [Next]_vars => Marked'
<1> SUFFICES ASSUME TypeOK, Marked, [Next]_vars PROVE Marked'
  OBVIOUS
<1>1. CASE WorkerStep
  <2>1. pc' # "marked" \/ UNCHANGED <<trackerVars, late, pc, open>>
    BY <1>1 DEF WorkerStep, NewSession, Subscribe, Send, Idle, ContextDone, SendFails, Cancel, Leave,
       Disconnect, Return, history
  <2>2. pc' \in {"disconnected", "marked", "closed"} => ~open'
    BY <1>1 DEF Marked, WorkerStep, NewSession, Subscribe, Send, Idle, ContextDone, SendFails, Cancel,
       Leave, Disconnect, Return
  <2> QED
    BY <2>1, <2>2 DEF Marked, trackerVars
<1>2. CASE SessionStep \/ UNCHANGED vars
  <2>1. UNCHANGED <<trackerVars, late, pc, open>>
    <3>1. CASE SessionStep
      BY <3>1, SessionEmits DEF Emit, worker
    <3> QED
      BY <1>2, <3>1 DEF vars, worker, history
  <2> QED
    BY <2>1 DEF Marked, trackerVars
<1>3. CASE Reap \/ Close
  BY <1>3 DEF Marked, Reap, Close
<1>4. CASE Mark
  BY <1>4 DEF Marked, Mark, MarkDisconnected, Entry
<1>5. CASE Callback
  <2>1. UNCHANGED <<pc, open>> /\ (~open => late')
    BY <1>5 DEF Callback, worker
  <2> QED
    BY <2>1 DEF Marked
<1> QED
  BY <1>1, <1>2, <1>3, <1>4, <1>5, StepsAre

-----------------------------------------------------------------------------
(* The turns: who waits for what.                                          *)

Waited == InStep /\ TurnsInOrder

\* Turns are numbers, and those lost or heard of are not in the future.
LEMMA TurnsAreNumbers ==
  TypeOK /\ TurnsInOrder =>
    /\ turn \in Nat /\ callback.turn \in Nat /\ lost \subseteq Nat
    /\ callback.turn <= turn /\ \A t \in lost : t <= turn
<1> SUFFICES ASSUME TypeOK, TurnsInOrder
             PROVE  /\ turn \in Nat /\ callback.turn \in Nat /\ lost \subseteq Nat
                    /\ callback.turn <= turn /\ \A t \in lost : t <= turn
  OBVIOUS
<1>1. turn \in Turns \cup {0} /\ callback.turn \in Turns \cup {0} /\ lost \subseteq Turns
  BY TypeParts DEF TypeWorker, TypeWait, TypeHistory
<1>2. Turns \subseteq Nat /\ \A x \in Turns \cup {0} : x \in Nat
  BY SessionAssumption DEF SessionAssumption
<1>3. callback.turn <= turn /\ \A t \in lost : t <= turn
  BY DEF TurnsInOrder
<1>4. turn \in Nat /\ callback.turn \in Nat
  BY <1>1, <1>2, Zenon
<1>5. lost \subseteq Nat
  BY <1>1, <1>2
<1> QED
  BY <1>3, <1>4, <1>5

\* What InStep and TurnsInOrder look at.
waitVars == <<pc, turn, todo, current, done, callback, finished, lost>>

LEMMA WaitedUnchanged == Waited /\ UNCHANGED waitVars => Waited'
BY DEF Waited, InStep, TurnsInOrder, LostBefore, IdleComes, waitVars

\* The worker leaves the wait, or the loop.
LEMMA WaitedLeaving ==
  Waited /\ UNCHANGED <<turn, lost, callback>> /\ pc' \notin {"between", "subscribed", "waiting"}
    => Waited'
BY DEF Waited, InStep, TurnsInOrder, LostBefore

LEMMA WaitedSubscribe == TypeOK /\ Waited /\ Subscribe => Waited'
<1> SUFFICES ASSUME TypeOK, Waited, Subscribe PROVE Waited'
  OBVIOUS
<1>1. /\ turn \in Nat /\ callback.turn \in Nat /\ lost \subseteq Nat
      /\ callback.turn <= turn /\ \A t \in lost : t <= turn
  BY TurnsAreNumbers DEF Waited
<1>2. /\ pc = "between" /\ pc' = "subscribed" /\ turn' = turn + 1 /\ turn' \in Turns /\ ~done'
      /\ UNCHANGED <<todo, current, callback, finished, lost>>
  BY DEF Subscribe, sdk, history
<1>3. TurnsInOrder'
  BY <1>1, <1>2 DEF TurnsInOrder
<1>4. ~IdleComes'
  BY <1>1, <1>2 DEF IdleComes
<1>5. ~LostBefore(turn)' => ~LostBefore(turn) /\ turn \notin lost
  BY <1>1, <1>2 DEF LostBefore
<1>6. InStep'
  BY <1>2, <1>4, <1>5 DEF Waited, InStep
<1> QED
  BY <1>3, <1>6 DEF Waited

LEMMA WaitedSend == TypeOK /\ Waited /\ Send => Waited'
<1> SUFFICES ASSUME TypeOK, Waited, Send PROVE Waited'
  OBVIOUS
<1>1. /\ pc = "subscribed" /\ pc' = "waiting" /\ todo' = Append(todo, turn)
      /\ UNCHANGED <<turn, current, done, callback, finished, lost>>
  BY DEF Send, wait, history
<1>2. turn \in Turns /\ todo \in Seq(Turns)
  BY <1>1 DEF TypeOK, Waited, TurnsInOrder
<1>3. todo = <<>> => todo' = <<turn>>
  BY <1>1, <1>2
<1>4. ~LostBefore(turn)' => todo = <<>> /\ current = 0 /\ ~done /\ ~IdleComes
  BY <1>1 DEF Waited, InStep, LostBefore
<1>5. IdleComes' <=> IdleComes
  BY <1>1 DEF IdleComes
<1>6. InStep'
  BY <1>1, <1>3, <1>4, <1>5 DEF InStep
<1>7. done => LostBefore(turn)
  BY <1>1 DEF Waited, InStep
<1>8. TurnsInOrder'
  BY <1>1, <1>2, <1>7 DEF Waited, TurnsInOrder, LostBefore
<1> QED
  BY <1>6, <1>8 DEF Waited

LEMMA WaitedSendFails == TypeOK /\ Waited /\ SendFails => Waited'
<1> SUFFICES ASSUME TypeOK, Waited, SendFails PROVE Waited'
  OBVIOUS
<1>1. /\ pc = "subscribed" /\ pc' \in {"between", "leaving"}
      /\ UNCHANGED <<turn, current, done, callback, finished>>
      /\ (todo' = todo /\ lost' = lost) \/ lost' = lost \cup {turn}
  BY DEF SendFails, Return
<1>2. /\ turn \in Nat /\ lost \subseteq Nat /\ ~(turn < turn) /\ turn <= turn
      /\ lost \subseteq lost' /\ lost' \subseteq lost \cup {turn}
  <2>1. turn \in Nat /\ lost \subseteq Nat
    BY TurnsAreNumbers DEF Waited
  <2> QED
    BY <1>1, <2>1
<1>3. TurnsInOrder'
  BY <1>1, <1>2 DEF Waited, TurnsInOrder
<1>4. LostBefore(turn)' <=> LostBefore(turn)
  BY <1>1, <1>2 DEF LostBefore
<1>5. turn \notin lost' => todo' = todo
  BY <1>1
<1>6. InStep'
  BY <1>1, <1>4, <1>5 DEF Waited, InStep
<1> QED
  BY <1>3, <1>6 DEF Waited

LEMMA WaitedIdle == TypeOK /\ Waited /\ Idle => Waited'
<1> SUFFICES ASSUME TypeOK, Waited, Idle PROVE Waited'
  OBVIOUS
<1>1. /\ pc = "waiting" /\ done /\ pc' \in {"between", "leaving"}
      /\ UNCHANGED <<turn, todo, current, done, callback, finished, lost>>
  BY DEF Idle, Return, sdk, history
<1>2. LostBefore(turn)' <=> LostBefore(turn)
  BY <1>1 DEF LostBefore
<1>3. InStep'
  BY <1>1, <1>2 DEF Waited, InStep
<1>4. TurnsInOrder'
  BY <1>1 DEF Waited, TurnsInOrder
<1> QED
  BY <1>3, <1>4 DEF Waited

LEMMA WaitedSession == TypeOK /\ Waited /\ SessionStep => Waited'
<1> SUFFICES ASSUME TypeOK, Waited, SessionStep PROVE Waited'
  OBVIOUS
<1>1. PICK e \in Happenings : Emit(e)
  BY SessionEmits
<1>2. UNCHANGED <<pc, turn, lost, done>> /\ LostBefore(turn)' = LostBefore(turn)
  BY <1>1 DEF Emit, worker, wait, LostBefore
<1>3. callback = NoCallback /\ callback' \in {NoCallback, [event |-> e, turn |-> turn]}
  BY <1>1 DEF Emit
<1>4. finished \subseteq finished'
  BY DEF SessionStep, BeginTurn, EndTurn, EndCall, StartCall, Subagent, Remark, sdk
<1>5. TurnsInOrder'
  <2>1. callback'.turn <= turn
    BY <1>3, TurnsAreNumbers DEF NoCallback, Waited
  <2> QED
    BY <1>2, <1>4, <2>1 DEF Waited, TurnsInOrder
<1>6. ~EndTurn => ~IdleComes'
  <2>1. ASSUME NEW k \in {"user_message", "permission", "permitted", "error"}, NEW c,
               Emit(Happening(k, c))
        PROVE  ~IdleComes'
    BY <2>1 DEF Emit, Happening, NoCallback, IdleComes
  <2>2. ASSUME NEW k \in OfCalls, NEW c, Emit(Happening(k, c))
        PROVE  ~IdleComes'
    BY <2>2 DEF Emit, Happening, NoCallback, IdleComes, OfCalls
  <2>3. CASE BeginTurn \/ Remark
    BY <2>1, <2>3 DEF BeginTurn, Remark
  <2>4. ASSUME NEW c \in Calls, EndCall(c) \/ StartCall(c) \/ Subagent(c)
        PROVE  ~IdleComes'
    BY <2>2, <2>4 DEF EndCall, StartCall, Subagent, OfCalls
  <2> QED
    BY <2>3, <2>4 DEF SessionStep
<1>7. CASE BeginTurn
  <2>1. current = 0 /\ todo # <<>> /\ current' = Head(todo) /\ todo' = Tail(todo)
        /\ finished' = finished
    BY <1>7 DEF BeginTurn
  <2>2. todo = <<turn>> => current' = turn /\ todo' = <<>>
    BY <2>1
  <2>3. ~IdleComes'
    BY <1>6, <1>7, <2>1 DEF BeginTurn, EndTurn
  <2>4. InStep'
    BY <1>2, <2>1, <2>2, <2>3 DEF Waited, InStep
  <2> QED
    BY <1>5, <2>4 DEF Waited
<1>8. CASE EndTurn
  <2>1. current # 0 /\ current' = 0 /\ todo' = todo /\ finished' = finished \cup {current}
    BY <1>8 DEF EndTurn
  <2>2. InStep'
    BY <1>2, <2>1 DEF Waited, InStep
  <2> QED
    BY <1>5, <2>2 DEF Waited
<1>9. CASE ~BeginTurn /\ ~EndTurn
  <2>1. UNCHANGED <<todo, current, finished>>
    BY <1>9 DEF SessionStep, EndCall, StartCall, Subagent, Remark, sdk
  <2>2. ~IdleComes'
    BY <1>6, <1>9
  <2>3. InStep'
    BY <1>2, <2>1, <2>2 DEF Waited, InStep
  <2> QED
    BY <1>5, <2>3 DEF Waited
<1> QED
  BY <1>7, <1>8, <1>9

LEMMA WaitedCallback == TypeOK /\ CallbackIs /\ Waited /\ Callback => Waited'
<1> SUFFICES ASSUME TypeOK, CallbackIs, Waited, Callback PROVE Waited'
  OBVIOUS
<1>1. /\ UNCHANGED <<pc, turn, todo, current, finished, lost>> /\ callback' = NoCallback
      /\ LostBefore(turn)' = LostBefore(turn)
  BY DEF Callback, worker, sdk, LostBefore
<1>2. ~IdleComes'
  BY <1>1 DEF IdleComes, NoCallback
<1>3. callback.event # None
  BY SessionAssumption DEF SessionAssumption, Callback, CallbackIs
<1>4. done' => done \/ IdleComes
  BY <1>3 DEF Callback, IdleComes
<1>5. InStep'
  BY <1>1, <1>2, <1>4 DEF Waited, InStep
<1>6. pc = "waiting" /\ done' => turn \in finished \/ LostBefore(turn)
  BY <1>4 DEF Waited, InStep, TurnsInOrder
<1>7. callback'.turn <= turn'
  BY <1>1, TurnsAreNumbers DEF NoCallback, Waited
<1>8. TurnsInOrder'
  BY <1>1, <1>6, <1>7 DEF Waited, TurnsInOrder
<1> QED
  BY <1>5, <1>8 DEF Waited

LEMMA WaitedStep == TypeOK /\ CallbackIs /\ Waited /\ [Next]_vars => Waited'
<1> SUFFICES ASSUME TypeOK, CallbackIs, Waited, [Next]_vars PROVE Waited'
  OBVIOUS
<1>1. CASE NewSession
  <2>1. UNCHANGED <<pc, turn, done, callback, finished, lost>> /\ todo' = <<>> /\ current' = 0
        /\ pc = "between"
    BY <1>1 DEF NewSession, wait, history
  <2> QED
    BY <2>1 DEF Waited, InStep, TurnsInOrder
<1>2. CASE Subscribe \/ Send \/ SendFails \/ Idle
  BY <1>2, WaitedSubscribe, WaitedSend, WaitedSendFails, WaitedIdle
<1>3. CASE ContextDone
  <2>1. UNCHANGED <<turn, lost, callback>> /\ pc' = "leaving"
    BY <1>3 DEF ContextDone, Return, history
  <2> QED
    BY <2>1, WaitedLeaving
<1>4. CASE Leave \/ Disconnect \/ Mark \/ Close
  <2>1. UNCHANGED <<turn, lost, callback>> /\ pc' \notin {"between", "subscribed", "waiting"}
    BY <1>4 DEF Leave, Disconnect, Mark, Close, history
  <2> QED
    BY <2>1, WaitedLeaving
<1>5. CASE Cancel \/ Reap \/ UNCHANGED vars
  <2>1. UNCHANGED waitVars
    BY <1>5 DEF Cancel, Reap, vars, worker, wait, sdk, history, waitVars
  <2> QED
    BY <2>1, WaitedUnchanged
<1>6. CASE SessionStep \/ Callback
  BY <1>6, WaitedSession, WaitedCallback
<1> QED
  BY <1>1, <1>2, <1>3, <1>4, <1>5, <1>6, StepsAre DEF WorkerStep

LEMMA AnsweredStep == TypeOK /\ Waited /\ AnsweredIsFinished /\ [Next]_vars => AnsweredIsFinished'
<1> SUFFICES ASSUME TypeOK, Waited, AnsweredIsFinished, [Next]_vars PROVE AnsweredIsFinished'
  OBVIOUS
<1>1. finished \subseteq finished' /\ lost \subseteq lost'
  BY DEF Next, Worker, Leaving, Session, NewSession, Subscribe, Send, Idle, ContextDone, SendFails,
     Cancel, Leave, Disconnect, Return, Reap, Mark, Close, Callback, BeginTurn, EndTurn, EndCall,
     StartCall, Subagent, Remark, Emit, sdk, history, vars
<1>2. CASE UNCHANGED results
  BY <1>1, <1>2 DEF AnsweredIsFinished
<1>3. CASE Idle
  <2>1. turn \in finished \/ LostBefore(turn)
    BY <1>3 DEF Idle, Waited, TurnsInOrder
  <2>2. \A t \in Turns : results'[t] = "ok" => t = turn \/ results[t] = "ok"
    BY <1>3 DEF Idle, Return, TypeOK
  <2> QED
    BY <1>1, <2>1, <2>2 DEF AnsweredIsFinished, LostBefore
<1>4. CASE SendFails \/ ContextDone
  <2>1. \A t \in Turns : results'[t] = "ok" => results[t] = "ok"
    BY <1>4 DEF SendFails, ContextDone, Return, TypeOK
  <2> QED
    BY <1>1, <2>1 DEF AnsweredIsFinished
<1>5. ~Idle /\ ~SendFails /\ ~ContextDone => UNCHANGED results
  <2>1. SessionStep => UNCHANGED results
    BY SessionEmits DEF Emit, worker
  <2> QED
    BY <2>1, StepsAre DEF WorkerStep, NewSession, Subscribe, Send, Cancel, Leave, Disconnect, Reap, Mark,
       Close, Callback, worker, vars
<1> QED
  BY <1>2, <1>3, <1>4, <1>5

-----------------------------------------------------------------------------
(* The invariant, and what follows.                                        *)

LEMMA InitIInv == Init => IInv
<1> SUFFICES ASSUME Init PROVE IInv
  OBVIOUS
<1>1. TypeOK
  <2>1. TypeTracker
    <3>1. DOMAIN toolCallNames = {}
      BY DEF Init, TrackerInit
    <3>2. NoLabel \in Labels
      BY DEF NoLabel, Labels
    <3> QED
      BY <3>1, <3>2 DEF Init, TrackerInit, TypeTracker
  <2>2. TypeWorker
    <3>1. results \in [Turns -> {"none", "ok", "error", "unsent", "cancelled"}]
      BY DEF Init
    <3>2. sessions \in 0..MaxSessions
      BY SessionAssumption DEF SessionAssumption, Init
    <3> QED
      BY <3>1, <3>2 DEF Init, TypeWorker
  <2>4. TypeWait
    BY DEF Init, TypeWait, NoCallback
  <2>5. TypeHistory
    <3>1. DOMAIN begun = {}
      BY DEF Init
    <3> QED
      BY <3>1 DEF Init, TypeHistory
  <2>3. TypeSdk
    BY DEF Init, TypeSdk
  <2> QED
    BY <2>1, <2>2, <2>3, <2>4, <2>5, TypeParts
<1>2. CallbackIs /\ InStep /\ TurnsInOrder /\ Marked
  BY DEF Init, CallbackIs, InStep, TurnsInOrder, Marked, NoCallback
<1>3. LabelsOwn /\ AnsweredIsFinished
  BY DEF Init, TrackerInit, LabelsOwn, AnsweredIsFinished
<1> QED
  BY <1>1, <1>2, <1>3 DEF IInv

\* The invariant is inductive.
THEOREM Inductive == Spec => []IInv
<1>1. IInv /\ [Next]_vars => IInv'
  <2> SUFFICES ASSUME IInv, [Next]_vars PROVE IInv'
    OBVIOUS
  <2>1. TypeOK /\ CallbackIs /\ Waited /\ LabelsOwn /\ Marked /\ AnsweredIsFinished /\ InTurn
    BY DEF IInv, Waited, TurnsInOrder, InTurn
  <2>2. TypeOK'
    <3>1. CASE UNCHANGED vars
      BY <2>1, <3>1 DEF TypeOK, vars, worker, wait, sdk, history, trackerVars
    <3>2. CASE Next
      BY <2>1, <3>2, StepsAre, TypeWorkerStep, TypeSessionStep, TypeTrackerStep
    <3> QED
      BY <3>1, <3>2
  <2>3. CallbackIs' /\ LabelsOwn' /\ Marked'
    BY <2>1, CallbackStep, LabelsStep, MarkedStep
  <2>4. Waited' /\ AnsweredIsFinished'
    BY <2>1, WaitedStep, AnsweredStep
  <2> QED
    BY <2>2, <2>3, <2>4 DEF IInv, Waited
<1> QED
  BY <1>1, InitIInv, PTL DEF Spec

\* The type invariant.
THEOREM TypeCorrect == Spec => []TypeOK
<1>1. IInv => TypeOK
  BY DEF IInv
<1> QED
  BY <1>1, Inductive, PTL

\* SendAndWait (dispatcher.go:672) answers for a prompt that the session completed,
\* or after one whose answer was lost.
THEOREM AnswersAreTrue == Spec => []AnsweredIsFinished
<1>1. IInv => AnsweredIsFinished
  BY DEF IInv
<1> QED
  BY <1>1, Inductive, PTL

\* RecordEvent (activity.go:249): a call that completes is shown with the label it
\* was shown with at its start, the subagent's tag included.
THEOREM LabelsAreTrue == Spec => LabelsTrue
<1> DEFINE SameLabel ==
      \A c \in DOMAIN begun :
        newest'.what = Happening("tool_complete", c) /\ newest' # newest => newest'.label = begun[c]
<1>1. IInv /\ [Next]_vars => [SameLabel]_vars
  <2> SUFFICES ASSUME IInv, Next, NEW c \in DOMAIN begun, newest' # newest,
                      newest'.what = Happening("tool_complete", c)
               PROVE  newest'.label = begun[c]
    OBVIOUS
  <2>1. newest'.what.kind = "tool_complete" /\ newest'.what.call = c
    BY DEF Happening
  <2>2. CASE Callback
    <3> DEFINE e == callback.event
    <3>1. newest'.what = e /\ newest'.label = LabelOf(e)
      BY <2>2 DEF Callback, RecordEvent, Entry
    <3>2. LabelOf(e) = CompletedLabel(c)
      BY <2>1, <3>1 DEF LabelOf
    <3>3. c \in DOMAIN toolCallNames /\ toolCallNames[c] = begun[c]
      BY DEF IInv, LabelsOwn
    <3>4. begun[c] \in Labels /\ (begun[c].tag = "" => Tag(c) = "")
      BY TypeParts DEF IInv, LabelsOwn, TypeHistory, Tag
    <3>5. CompletedLabel(c) = begun[c]
      BY <3>3, <3>4 DEF CompletedLabel, Labels
    <3> QED
      BY <3>1, <3>2, <3>5
  <2>3. CASE Reap \/ Mark
    <3>1. newest'.what.kind \in {"session_shutdown", "session_idle_reaped"}
      BY <2>3 DEF Reap, Mark, MarkDisconnected, MarkSessionIdleReaped, Entry, Happening
    <3> QED
      BY <2>1, <3>1
  <2>4. CASE WorkerStep \/ SessionStep \/ Close
    <3>1. WorkerStep => newest' = newest
      BY DEF WorkerStep, NewSession, Subscribe, Send, Idle, ContextDone, SendFails, Cancel, Leave,
         Disconnect, trackerVars
    <3>2. SessionStep => newest' = newest
      BY SessionEmits DEF Emit, trackerVars
    <3> QED
      BY <2>4, <3>1, <3>2 DEF Close, CloseLog
  <2> QED
    BY <2>2, <2>3, <2>4, StepsAre
<1> QED
  BY <1>1, Inductive, PTL DEF Spec, LabelsTrue

\* runWorker's deferred calls (dispatcher.go:397): the log goes after the tracker
\* has noted the end.
THEOREM LogGoesLast == Spec => LogClosedLast
<1> DEFINE ClosedLast ==
      logFile /\ ~logFile' /\ ~late =>
       /\ state' = "disconnected"
       /\ newest'.what = Happening("session_shutdown", None)
       /\ toolCallNames' = <<>> /\ subagentNames' = {}
<1>1. IInv /\ [Next]_vars => [ClosedLast]_vars
  <2> SUFFICES ASSUME IInv, Next, logFile, ~logFile', ~late
               PROVE  /\ state' = "disconnected"
                      /\ newest'.what = Happening("session_shutdown", None)
                      /\ toolCallNames' = <<>> /\ subagentNames' = {}
    OBVIOUS
  <2>1. CASE Close
    BY <2>1 DEF Close, CloseLog, IInv, Marked
  <2>2. SessionStep => UNCHANGED logFile
    BY SessionEmits DEF Emit, trackerVars
  <2>3. ~Close => UNCHANGED logFile
    BY <2>2, StepsAre DEF WorkerStep, NewSession, Subscribe, Send, Idle, ContextDone, SendFails, Cancel,
       Leave, Disconnect, Reap, Mark, Callback, RecordEvent, MarkDisconnected, MarkSessionIdleReaped,
       trackerVars
  <2> QED
    BY <2>1, <2>3
<1> QED
  BY <1>1, Inductive, PTL DEF Spec, LogClosedLast
====
