----------------------------- MODULE RecentEvents -----------------------------
(* What a log of recent events promises its reader: the newest Size events,  *)
(* oldest first.                                                             *)
EXTENDS Naturals, Sequences

CONSTANTS
  Event,
  Size  \* positive

VARIABLE recent

RecentInit == recent = <<>>

Note(e) ==
  recent' = IF Len(recent) < Size THEN Append(recent, e) ELSE Append(Tail(recent), e)

RecentNext == \E e \in Event : Note(e)

RecentSpec == RecentInit /\ [][RecentNext]_recent
=============================================================================
