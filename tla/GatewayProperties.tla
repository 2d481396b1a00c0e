-------------------------- MODULE GatewayProperties --------------------------
(***************************************************************************)
(* What the gateway promises for deliveries and audit directories, and     *)
(* what its documents claim.                                               *)
(***************************************************************************)
EXTENDS Gateway

\* Deliveries that got past the de-duplication.
Passed == {d \in Deliveries : pc[d] \in {"audit", "dispatch", "push", "accepted", "dropped", "failed"}}

SameAction(c, d) == ActionOf[c] = ActionOf[d] /\ ActionOf[c] # NoAction

\* Two deliveries of one action are both let through only when more than the
\* TTL lies between them, however Trello repeats and the goroutines interleave.
OncePerWindow ==
  \A c, d \in Passed :
    SameAction(c, d) /\ c # d /\ checked[c] <= checked[d] => checked[c] + TTL < checked[d]

\* A delivery is dropped as a duplicate only because another one of its action
\* was let through at most the TTL before: no action is dropped altogether.
DuplicateHasOriginal ==
  \A d \in Deliveries : pc[d] = "duplicate" =>
    \E c \in Passed : /\ SameAction(c, d)
                      /\ checked[c] <= checked[d]
                      /\ checked[d] <= checked[c] + TTL

\* What the process leaves behind when it exits: an audit directory the file
\* system would not let go, and otherwise at most the one that an acknowledged
\* delivery, still in Handle, made after Stop had forgotten the directory.
\* Concurrent first uses and a use during the removal orphan no other.
AuditDirAccounted ==
  phase = "exited" =>
    \A a \in dirs : a \in stuck \/ (a = auditDir /\ late # {})

-----------------------------------------------------------------------------
(* Why they hold: an inductive invariant.                                  *)

\* A delivery that was let through still has its action's entry, unless its
\* window has closed.
PassedIsRemembered ==
  \A d \in Passed : ActionOf[d] # NoAction =>
    \/ checked[d] + TTL < now
    \/ ActionOf[d] \in DOMAIN seen /\ checked[d] <= seen[ActionOf[d]]

\* Every entry was made by a delivery that was let through.
EntryHasOriginal ==
  \A a \in DOMAIN seen :
    \E c \in Passed : ActionOf[c] = a /\ checked[c] = seen[a]

\* A directory on disk is the current one, the one Stop is removing, or stuck.
DirsKnown == dirs \subseteq {auditDir, removing} \cup stuck

\* Once Stop has forgotten the directory, a current one is a late delivery's.
LateMade == auditDir # 0 /\ (Forgotten \/ ~Alive) => late # {}

\* removeAuditDir holds a directory only between its two steps.
RemovalUnderway == removing # 0 <=> phase = "removing"

\* The inductive invariant of the de-duplication.
DedupInv ==
  /\ PassedIsRemembered
  /\ EntryHasOriginal
  /\ OncePerWindow
  /\ DuplicateHasOriginal

\* The whole inductive invariant.
GInv ==
  /\ TypeOK
  /\ DedupInv
  /\ DirsKnown
  /\ LateMade
  /\ RemovalUnderway

-----------------------------------------------------------------------------
(* Claims that the code does not keep.                                     *)

Position(s, d) == CHOOSE i \in 1..Len(s) : s[i] = d

\* README.md:21: "the same card is strictly FIFO".  Deliveries, here
\* all about one card, reach its worker in the order they were acknowledged.
QueuedInOrder ==
  \A i, j \in 1..Len(queue) : i < j => Position(acks, queue[i]) < Position(acks, queue[j])

\* runner.go:96-98: "the directory is removed by Stop so audit copies do not pile
\* up across process restarts".  A process that has exited leaves none, but what
\* the file system would not let go.  (The code does not keep to it: a delivery still
\* being handled makes a new one.)
AuditDirGone == phase = "exited" => dirs \subseteq stuck
=============================================================================
