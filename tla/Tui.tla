---------------------------------- MODULE Tui ----------------------------------
(***************************************************************************)
(* The operator's full-screen view (src/internal/app/tui.go) beside the    *)
(* dispatcher it looks at: the list of workers and the selected row, taken *)
(* once a second, the dialog before a deletion, and the deletion that runs *)
(* in the background.  Of the dispatcher there is what the view can see:   *)
(* the registry, whether a worker has recorded its directory, and the      *)
(* global event log, a ring buffer.                                        *)
(*                                                                         *)
(* Messages are handled one at a time, the keys among them in any order    *)
(* the operator likes; the dispatcher goes on meanwhile.                   *)
(***************************************************************************)
EXTENDS Ring, FiniteSets

CONSTANTS
  Cards,  \* numbers, in the order ListCards sorts by
  None

ASSUME TuiAssumption ==
  /\ Cards \subseteq Nat
  /\ None \notin Cards
  /\ Event = {"registered", "deregistered", "deleted"} \X Cards

VARIABLES
  registered, \* cards in Dispatcher.workers
  hasDir,     \* of these, the cards whose tracker knows the work directory
  deletion,   \* the DeleteWorker in the background: "none", "called", "waiting", "deleted", "failed"
  target,     \* its card
  ui,         \* "idle", "snapshot" in the middle of refresh, or "over"
  workers,    \* tuiModel.workers, the cards only
  selectedIdx,
  selStatus,  \* the card and the directory of tuiModel.selStatus
  selOK,
  focus,      \* on the list of workers or elsewhere
  modal,      \* confirmDelete: deleteCardID and deleteWorkDir, None without a dialog
  deleteInFlight,
  moved       \* history: the selection moved since the status was taken

registry == <<registered, hasDir, ringVars>>
job      == <<deletion, target>>
list     == <<workers, selectedIdx, selStatus, selOK, moved>>
dialog   == <<modal, deleteInFlight>>
vars == <<registry, job, ui, list, focus, dialog>>

\* What the view knows of a worker: its card and its directory, which is the
\* card's own or not yet recorded.
Status == [card : Cards \cup {None}, dir : Cards \cup {None}]
NoStatus == [card |-> None, dir |-> None]

TypeOK ==
  /\ RingTypeOK
  /\ registered \subseteq Cards /\ hasDir \subseteq registered
  /\ deletion \in {"none", "called", "waiting", "deleted", "failed"}
  /\ target \in Cards \cup {None}
  /\ ui \in {"idle", "snapshot", "over"}
  /\ workers \in Seq(Cards)
  /\ selectedIdx \in Nat
  /\ selStatus \in Status
  /\ selOK \in BOOLEAN
  /\ focus \in BOOLEAN
  /\ modal \in Status \cup {None}
  /\ deleteInFlight \in BOOLEAN
  /\ moved \in BOOLEAN

Init ==
  /\ RingInit
  /\ registered = {}
  /\ hasDir = {}
  /\ deletion = "none"
  /\ target = None
  /\ ui = "idle"
  /\ workers = <<>>
  /\ selectedIdx = 0
  /\ selStatus = NoStatus
  /\ selOK = FALSE
  /\ focus = TRUE
  /\ modal = None
  /\ deleteInFlight = FALSE
  /\ moved = FALSE

-----------------------------------------------------------------------------
(* The dispatcher.                                                         *)

Register(k) ==
  /\ k \notin registered
  /\ registered' = registered \cup {k}
  /\ Record(<<"registered", k>>)
  /\ UNCHANGED <<hasDir, job, ui, list, focus, dialog>>

\* SetWorkDir, when the session is created.
SetWorkDir(k) ==
  /\ k \in registered \ hasDir
  /\ hasDir' = hasDir \cup {k}
  /\ UNCHANGED <<registered, ringVars, job, ui, list, focus, dialog>>

\* A worker ends.  One that was deleted takes the entry of a newer one with it.
Deregister(k) ==
  /\ k \in registered \/ (deletion = "waiting" /\ target = k)
  /\ registered' = registered \ {k}
  /\ hasDir' = hasDir \ {k}
  /\ Record(<<"deregistered", k>>)
  /\ UNCHANGED <<job, ui, list, focus, dialog>>

\* DeleteWorker finds the worker and forgets it, or there is none any more.
DeleteWorker ==
  /\ deletion = "called"
  /\ deletion' = IF target \in registered THEN "waiting" ELSE "failed"
  /\ registered' = registered \ {target}
  /\ hasDir' = hasDir \ {target}
  /\ UNCHANGED <<ringVars, target, ui, list, focus, dialog>>

\* The worker is done, and its directory removed.
DeleteReturns ==
  /\ deletion = "waiting"
  /\ deletion' = "deleted"
  /\ Record(<<"deleted", target>>)
  /\ UNCHANGED <<registered, hasDir, target, ui, list, focus, dialog>>

-----------------------------------------------------------------------------
(* Update: the clock's tick.                                               *)

Sorted(S) == CHOOSE s \in [1..Cardinality(S) -> S] :
               \A i, j \in 1..Cardinality(S) : i < j => s[i] < s[j]

Greater(a, b) == IF a >= b THEN a ELSE b

\* refresh, first half.
ListCards ==
  /\ ui = "idle" /\ ui' = "snapshot"
  /\ workers' = Sorted(registered)
  /\ selectedIdx' = IF selectedIdx >= Len(workers') THEN Greater(0, Len(workers') - 1)
                                                    ELSE selectedIdx
  /\ UNCHANGED <<registry, job, selStatus, selOK, moved, focus, dialog>>

Selected == workers[selectedIdx + 1]

Taken(k) == [card |-> k, dir |-> IF k \in hasDir THEN k ELSE None]

InRange == selectedIdx < Len(workers)

\* Mutant of Snapshot: an answer that there is no such worker keeps what is shown.
SnapshotIfThere ==
  /\ ui = "snapshot" /\ ui' = "idle"
  /\ selOK' = InRange
  /\ selStatus' = IF InRange /\ Selected \in registered THEN Taken(Selected) ELSE selStatus
  /\ moved' = FALSE
  /\ UNCHANGED <<registry, job, workers, selectedIdx, focus, dialog>>

\* refresh, second half: the worker may have gone since it was listed.
Snapshot ==
  /\ ui = "snapshot" /\ ui' = "idle"
  /\ selOK' = (InRange /\ Selected \in registered)
  /\ selStatus' = IF ~InRange THEN selStatus
                  ELSE IF Selected \in registered THEN Taken(Selected) ELSE NoStatus
  /\ moved' = FALSE
  /\ UNCHANGED <<registry, job, workers, selectedIdx, focus, dialog>>

-----------------------------------------------------------------------------
(* Update: the keys.                                                       *)

Key == ui = "idle" /\ UNCHANGED <<registry, selStatus, selOK, workers>>

Tab ==
  /\ Key /\ modal = None
  /\ focus' \in BOOLEAN
  /\ UNCHANGED <<job, ui, selectedIdx, moved, dialog>>

\* j and k.
MoveSelection ==
  /\ Key /\ modal = None /\ focus
  /\ \/ selectedIdx < Len(workers) - 1 /\ selectedIdx' = selectedIdx + 1
     \/ selectedIdx > 0 /\ selectedIdx' = selectedIdx - 1
  /\ moved' = TRUE
  /\ UNCHANGED <<job, ui, focus, dialog>>

\* d: the card is the selected row's, the directory that of the status taken last.
OpenDeleteConfirm ==
  /\ Key /\ modal = None
  /\ selOK /\ workers # <<>> /\ ~deleteInFlight
  /\ modal' = [card |-> Selected, dir |-> selStatus.dir]
  /\ UNCHANGED <<job, ui, selectedIdx, moved, focus, deleteInFlight>>

Cancel ==
  /\ Key /\ modal # None
  /\ modal' = None
  /\ UNCHANGED <<job, ui, selectedIdx, moved, focus, deleteInFlight>>

\* y: a command in the background calls DeleteWorker.
Confirm ==
  /\ Key /\ modal # None
  /\ modal' = None
  /\ deleteInFlight' = TRUE
  /\ deletion' = "called"
  /\ target' = modal.card
  /\ UNCHANGED <<ui, selectedIdx, moved, focus>>

\* Mutant of DeleteResult: an error leaves the flag set.
DeleteResultWithoutError ==
  /\ Key /\ deletion \in {"deleted", "failed"}
  /\ deletion' = "none"
  /\ target' = None
  /\ deleteInFlight' = (deletion = "failed")
  /\ UNCHANGED <<ui, selectedIdx, moved, focus, modal>>

\* Not a key: the message of the finished command.
DeleteResult ==
  /\ Key /\ deletion \in {"deleted", "failed"}
  /\ deletion' = "none"
  /\ target' = None
  /\ deleteInFlight' = FALSE
  /\ UNCHANGED <<ui, selectedIdx, moved, focus, modal>>

\* q outside of the dialog, or the end of the process.
Quit ==
  /\ ui = "idle" /\ ui' = "over"
  /\ UNCHANGED <<registry, job, list, focus, dialog>>

Operator == Tab \/ MoveSelection \/ OpenDeleteConfirm \/ Cancel \/ Confirm \/ Quit

Next ==
  \/ \E k \in Cards : Register(k) \/ SetWorkDir(k) \/ Deregister(k)
  \/ DeleteWorker \/ DeleteReturns
  \/ ListCards \/ Snapshot
  \/ Operator
  \/ DeleteResult

Spec == Init /\ [][Next]_vars

\* The command runs, a deleted worker comes to its end, and messages are handled.
Fairness ==
  /\ WF_vars(DeleteWorker) /\ WF_vars(DeleteReturns)
  /\ WF_vars(Snapshot) /\ SF_vars(DeleteResult)

FairSpec == Spec /\ Fairness
=============================================================================
