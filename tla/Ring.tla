--------------------------------- MODULE Ring ---------------------------------
(***************************************************************************)
(* The ring buffer of GlobalEventLog (src/internal/app/globallog.go), and  *)
(* of ActivityTracker (activity.go), which repeats it.  The slots are      *)
(* numbered from 0 as in the code; an append is one step, under the lock.  *)
(***************************************************************************)
EXTENDS Integers, Sequences

CONSTANTS
  Event,    \* the entries
  RingSize

ASSUME RingAssumption == RingSize \in Nat \ {0}

VARIABLES
  entries,  \* the slots filled so far, from slot 0
  head      \* the slot written next once all are filled

ringVars == <<entries, head>>

RingTypeOK ==
  /\ entries \in Seq(Event)
  /\ Len(entries) <= RingSize
  /\ head \in 0..(RingSize - 1)

RingInit == entries = <<>> /\ head = 0

\* Mutant of Record: the slot after the oldest is overwritten.
RecordLate(e) ==
  IF Len(entries) < RingSize
  THEN entries' = Append(entries, e) /\ UNCHANGED head
  ELSE /\ head' = (head + 1) % RingSize
       /\ entries' = [entries EXCEPT ![head' + 1] = e]

Record(e) ==
  IF Len(entries) < RingSize
  THEN entries' = Append(entries, e) /\ UNCHANGED head
  ELSE /\ entries' = [entries EXCEPT ![head + 1] = e]
       /\ head' = (head + 1) % RingSize

\* The entries, oldest first.
Entries ==
  IF Len(entries) < RingSize THEN entries
  ELSE [i \in 1..Len(entries) |->
         entries[IF i + head <= Len(entries) THEN i + head ELSE i + head - Len(entries)]]

RingNext == \E e \in Event : Record(e)

RingSpec == RingInit /\ [][RingNext]_ringVars

Window == INSTANCE RecentEvents WITH Size <- RingSize, recent <- Entries

\* The reader of a log sees the newest events, oldest first.
KeepsNewest == Window!RecentSpec
=============================================================================
