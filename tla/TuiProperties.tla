----------------------------- MODULE TuiProperties -----------------------------
(* What the operator may rely on. *)
EXTENDS Tui

\* A dialog shows the directory of the card it asks about, or none while the worker
\* has not recorded it.  Only one that is opened after the selection has moved and
\* before the next tick shows that of the card selected before (tui.go:242-244).
DialogTrue ==
  [][modal = None /\ modal' # None /\ ~moved => modal'.dir \in {modal'.card, None}]_vars

\* The footer tells the operator how each deletion ended, and the next one becomes
\* possible, as long as the view is open.
DeletionReported == deleteInFlight ~> (~deleteInFlight \/ ui = "over")
=============================================================================
