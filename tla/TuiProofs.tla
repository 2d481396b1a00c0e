------------------------------- MODULE TuiProofs -------------------------------
(***************************************************************************)
(* The operator's view and the log it shows: the ring buffer keeps the     *)
(* newest events for every size, and the view's dialogs and deletions are  *)
(* what they say, whatever the workers do and the operator types.          *)
(***************************************************************************)
EXTENDS TuiProperties, FiniteSetTheorems, WellFoundedInduction, TLAPS

-----------------------------------------------------------------------------
(* The ring buffer.                                                        *)

\* A log that is not full yet has not wrapped.
RingInv ==
  /\ RingTypeOK
  /\ Len(entries) < RingSize => head = 0

\* An append keeps the ring's state well-formed.
LEMMA RecordKeeps ==
  ASSUME RingInv, NEW e \in Event, Record(e)
  PROVE  RingInv'
<1>1. CASE Len(entries) < RingSize
  <2>1. entries' = Append(entries, e) /\ head' = head
    BY <1>1 DEF Record
  <2> QED
    BY <2>1, <1>1, RingAssumption DEF RingInv, RingTypeOK, RingAssumption
<1>2. CASE ~(Len(entries) < RingSize)
  <2>1. /\ entries' = [entries EXCEPT ![head + 1] = e]
        /\ head' = (head + 1) % RingSize
    BY <1>2 DEF Record
  <2>2. Len(entries) = RingSize
    BY <1>2, RingAssumption DEF RingInv, RingTypeOK, RingAssumption
  <2>3. entries' \in Seq(Event) /\ Len(entries') = Len(entries)
    <3>1. entries \in Seq(Event) /\ head + 1 \in 1..Len(entries)
      BY <2>2, RingAssumption DEF RingInv, RingTypeOK, RingAssumption
    <3> QED
      BY <2>1, <3>1
  <2>4. head' \in 0..(RingSize - 1)
    BY <2>1, RingAssumption DEF RingInv, RingTypeOK, RingAssumption
  <2> QED
    BY <2>2, <2>3, <2>4, RingAssumption DEF RingInv, RingTypeOK, RingAssumption
<1> QED
  BY <1>1, <1>2

\* The ring's state is well-formed: Record keeps head inside the slots.
THEOREM RingInvariant == RingSpec => []RingInv
<1>1. RingInit => RingInv
  BY RingAssumption DEF RingAssumption, RingInit, RingInv, RingTypeOK
<1>2. RingInv /\ [RingNext]_ringVars => RingInv'
  BY RecordKeeps DEF RingNext, RingInv, RingTypeOK, ringVars
<1> QED
  BY <1>1, <1>2, PTL DEF RingSpec

\* Reading the ring oldest first after an append gives what was there before,
\* without its oldest entry when the ring was full, and the new entry last:
\* appendEntry and entriesChronological agree across the wrap.
THEOREM RecordIsNote == ASSUME RingInv, NEW e \in Event, Record(e)
                        PROVE  Window!Note(e)
<1>1. CASE Len(entries) < RingSize
  <2>1. entries' = Append(entries, e) /\ head' = head /\ head = 0
    BY <1>1 DEF Record, RingInv
  <2>2. Entries = entries
    BY <1>1 DEF Entries
  <2>3. Len(entries') = Len(entries) + 1
    BY <2>1 DEF RingInv, RingTypeOK
  <2>4. Entries' = entries'
    <3>1. CASE Len(entries') < RingSize
      BY <3>1 DEF Entries
    <3>2. CASE ~(Len(entries') < RingSize)
      <4>1. Entries' = [i \in 1..Len(entries') |-> entries'[i]]
        <5>1. \A i \in 1..Len(entries') : i + head' <= Len(entries') /\ i + head' = i
          BY <2>1, <2>3 DEF RingInv, RingTypeOK
        <5> QED
          BY <5>1, <3>2 DEF Entries
      <4>2. entries' \in Seq(Event)
        BY <2>1 DEF RingInv, RingTypeOK
      <4> QED
        BY <4>1, <4>2
    <3> QED
      BY <3>1, <3>2
  <2> QED
    BY <2>1, <2>2, <2>4, <1>1 DEF Window!Note
<1>2. CASE ~(Len(entries) < RingSize)
  <2> DEFINE n == RingSize
             slot(i, h) == IF i + h <= n THEN i + h ELSE i + h - n
  <2>1. n \in Nat \ {0} /\ Len(entries) = n /\ entries \in Seq(Event) /\ head \in 0..(n - 1)
    BY <1>2, RingAssumption DEF RingInv, RingTypeOK, RingAssumption
  <2>2. /\ entries' = [entries EXCEPT ![head + 1] = e]
        /\ head' = IF head = n - 1 THEN 0 ELSE head + 1
    <3>1. /\ entries' = [entries EXCEPT ![head + 1] = e]
          /\ head' = (head + 1) % n
      BY <1>2 DEF Record
    <3>2. CASE head = n - 1
      BY <3>1, <3>2, <2>1
    <3>3. CASE head # n - 1
      BY <3>1, <3>3, <2>1
    <3> QED
      BY <3>2, <3>3
  <2>3. Len(entries') = n /\ entries' \in Seq(Event)
    BY <2>1, <2>2
  <2>4. Entries = [i \in 1..n |-> entries[slot(i, head)]]
    BY <2>1, <1>2 DEF Entries
  <2>5. Entries' = [i \in 1..n |-> entries'[slot(i, head')]]
    BY <2>1, <2>3 DEF Entries
  <2>6. Entries \in Seq(Event) /\ Len(Entries) = n
    <3>1. \A i \in 1..n : slot(i, head) \in 1..n
      BY <2>1
    <3>2. \A i \in 1..n : entries[slot(i, head)] \in Event
      BY <3>1, <2>1
    <3> HIDE DEF slot
    <3> QED
      BY <3>2, <2>4, <2>1
  <2> DEFINE tail == Tail(Entries)
             shifted == Append(tail, e)
  <2>7. /\ Len(tail) = n - 1
        /\ \A i \in 1..(n - 1) : tail[i] = Entries[i + 1]
    BY <2>6, <2>1
  <2>8. /\ shifted \in Seq(Event) /\ Len(shifted) = n
        /\ \A i \in 1..(n - 1) : shifted[i] = Entries[i + 1]
        /\ shifted[n] = e
    BY <2>6, <2>7, <2>1
  <2>9. \A i \in 1..n : Entries'[i] = shifted[i]
    <3> SUFFICES ASSUME NEW i \in 1..n PROVE Entries'[i] = shifted[i]
      OBVIOUS
    <3>1. Entries'[i] = entries'[slot(i, head')]
      BY <2>5
    <3>2. CASE i = n
      <4>1. slot(n, head') = head + 1
        BY <2>1, <2>2
      <4> QED
        BY <4>1, <3>1, <3>2, <2>1, <2>2, <2>8
    <3>3. CASE i # n
      <4>1. /\ slot(i, head') = slot(i + 1, head)
            /\ slot(i, head') \in 1..n
            /\ slot(i, head') # head + 1
        BY <2>1, <2>2, <3>3
      <4>2. entries'[slot(i, head')] = entries[slot(i + 1, head)]
        <5> HIDE DEF slot
        <5> QED
          BY <4>1, <2>1, <2>2
      <4>3. Entries[i + 1] = entries[slot(i + 1, head)]
        BY <2>4, <2>1, <3>3
      <4> QED
        BY <3>1, <3>3, <4>2, <4>3, <2>1, <2>8
    <3> QED
      BY <3>2, <3>3
  <2>10. Entries' \in Seq(Event) /\ Len(Entries') = n
    <3>1. \A i \in 1..n : shifted[i] \in Event
      BY <2>8, <2>1
    <3>2. Entries' = [i \in 1..n |-> shifted[i]]
      BY <2>9, <2>5
    <3> HIDE DEF shifted
    <3> QED
      BY <3>1, <3>2, <2>1
  <2>11. Entries' = shifted
    <3> HIDE DEF shifted
    <3> QED
      BY <2>8, <2>9, <2>10
  <2> QED
    BY <2>11, <2>6, <1>2 DEF Window!Note
<1> QED
  BY <1>1, <1>2

\* Every step of the ring is a note in the log of recent events.
LEMMA RingStepIsNote == RingInv /\ [RingNext]_ringVars => [Window!RecentNext]_Entries
<1> SUFFICES ASSUME RingInv, [RingNext]_ringVars PROVE [Window!RecentNext]_Entries
  OBVIOUS
<1>1. CASE UNCHANGED ringVars
  BY <1>1 DEF ringVars, Entries
<1>2. ASSUME NEW e \in Event, Record(e) PROVE Window!RecentNext
  BY <1>2, RecordIsNote DEF Window!RecentNext
<1> QED
  BY <1>1, <1>2 DEF RingNext

\* The ring buffer implements the log of recent events, whatever its size.
THEOREM RingRefines == RingSpec => KeepsNewest
<1>1. RingInit => Window!RecentInit
  BY RingAssumption DEF RingInit, RingAssumption, Window!RecentInit, Entries
<1> QED
  BY <1>1, RingStepIsNote, RingInvariant, PTL DEF RingSpec, KeepsNewest, Window!RecentSpec

-----------------------------------------------------------------------------
(* The list of workers: a finite set of numbers has a sorted enumeration.  *)

\* A set of naturals has a least element, unless it is empty.
LEMMA Least ==
  ASSUME NEW T, T \subseteq Nat, T # {}
  PROVE  \E x \in T : \A y \in T : x <= y
<1> DEFINE R == OpToRel(<, Nat)
<1>1. \A x, y \in Nat : x < y => <<x, y>> \in R
  BY DEF OpToRel
<1>2. IsWellFoundedOn(R, Nat)
  BY NatLessThanWellFounded, Zenon
<1> HIDE DEF R
<1>3. PICK x \in T : \A y \in T : ~(<<y, x>> \in R)
  BY <1>2, WFMin
<1>4. \A y \in T : x <= y
  <2> TAKE y \in T
  <2>1. x \in Nat /\ y \in Nat /\ ~(y < x)
    BY <1>1, <1>3
  <2> QED
    BY <2>1
<1> QED
  BY <1>4

IsSorted(s, S) ==
  /\ s \in [1..Cardinality(S) -> S]
  /\ \A i, j \in 1..Cardinality(S) : i < j => s[i] < s[j]

\* The least element, and the others in order after it.
LEMMA SortedOfRest ==
  ASSUME NEW S, S \subseteq Nat, IsFiniteSet(S), NEW m \in S, \A y \in S : m <= y,
         NEW r, IsSorted(r, S \ {m})
  PROVE  \E s : IsSorted(s, S)
<1> DEFINE n == Cardinality(S)
           s == [i \in 1..n |-> IF i = 1 THEN m ELSE r[i - 1]]
<1>1. n \in Nat /\ Cardinality(S \ {m}) = n - 1
  BY FS_CardinalityType, FS_RemoveElement
<1>2. /\ \A i \in 1..(n - 1) : r[i] \in S /\ r[i] # m
      /\ \A i, j \in 1..(n - 1) : i < j => r[i] < r[j]
  BY <1>1 DEF IsSorted
<1> HIDE DEF n
<1>3. \A i \in 1..n : i = 1 \/ i - 1 \in 1..(n - 1)
  BY <1>1
<1>4. s \in [1..n -> S]
  BY <1>2, <1>3
<1>5. ASSUME NEW i \in 1..n, NEW j \in 1..n, i < j PROVE s[i] < s[j]
  <2>1. j # 1 /\ j - 1 \in 1..(n - 1)
    BY <1>1, <1>5
  <2>2. s[j] = r[j - 1]
    BY <2>1
  <2>3. CASE i = 1
    <3>1. s[i] = m
      BY <2>3
    <3>2. r[j - 1] \in S /\ r[j - 1] # m
      BY <1>2, <2>1
    <3>3. m \in Nat /\ r[j - 1] \in Nat /\ m <= r[j - 1]
      BY <3>2
    <3> QED
      BY <2>2, <3>1, <3>2, <3>3
  <2>4. CASE i # 1
    <3>1. i - 1 \in 1..(n - 1) /\ i - 1 < j - 1
      BY <1>3, <1>5, <2>4
    <3>2. s[i] = r[i - 1]
      BY <2>4
    <3> QED
      BY <1>2, <2>1, <2>2, <3>1, <3>2
  <2> QED
    BY <2>3, <2>4
<1> HIDE DEF s
<1>6. IsSorted(s, S)
  BY <1>4, <1>5 DEF IsSorted, n
<1> QED
  BY <1>6

\* Every finite set of numbers can be sorted: a least size at which one could not
\* be would be that of a set whose rest can be.
LEMMA SortedExists ==
  ASSUME NEW S, S \subseteq Nat, IsFiniteSet(S)
  PROVE  \E s : IsSorted(s, S)
<1> DEFINE Small(A) == A \subseteq Nat /\ IsFiniteSet(A)
           T == {n \in Nat : \E A \in SUBSET Nat : Small(A) /\ Cardinality(A) = n /\ ~(\E s : IsSorted(s, A))}
<1>1. SUFFICES ASSUME T # {} PROVE FALSE
  BY FS_CardinalityType
<1>2. PICK n \in T : \A y \in T : n <= y
  BY <1>1, Least
<1>3. PICK A \in SUBSET Nat : Small(A) /\ Cardinality(A) = n /\ ~(\E s : IsSorted(s, A))
  BY <1>2
<1>4. CASE A = {}
  <2>1. Cardinality(A) = 0
    BY <1>4, FS_EmptySet
  <2>2. IsSorted([i \in 1..0 |-> i], A)
    BY <1>4, <2>1 DEF IsSorted
  <2> QED
    BY <1>3, <2>2
<1>5. CASE A # {}
  <2>1. PICK m \in A : \A y \in A : m <= y
    BY <1>5, Least
  <2>2. /\ IsFiniteSet(A \ {m}) /\ Cardinality(A \ {m}) = n - 1
    BY <1>3, <2>1, FS_RemoveElement
  <2>3. n - 1 \in Nat
    BY <2>2, FS_CardinalityType
  <2>4. n - 1 \notin T
    BY <1>2, <2>3
  <2>5. \E r : IsSorted(r, A \ {m})
    BY <1>3, <2>2, <2>3, <2>4
  <2> QED
    BY <1>3, <2>1, <2>5, SortedOfRest
<1> QED
  BY <1>4, <1>5

LEMMA SortedIs ==
  ASSUME NEW S, S \subseteq Nat, IsFiniteSet(S)
  PROVE  /\ IsSorted(Sorted(S), S)
         /\ Sorted(S) \in Seq(S) /\ Len(Sorted(S)) = Cardinality(S)
<1>1. \E s \in [1..Cardinality(S) -> S] : \A i, j \in 1..Cardinality(S) : i < j => s[i] < s[j]
  BY SortedExists DEF IsSorted
<1>2. IsSorted(Sorted(S), S)
  BY <1>1 DEF Sorted, IsSorted
<1>3. Cardinality(S) \in Nat
  BY FS_CardinalityType
<1>4. Sorted(S) \in [1..Cardinality(S) -> S]
  BY <1>2 DEF IsSorted
<1> QED
  BY <1>2, <1>3, <1>4

-----------------------------------------------------------------------------
(* The view.                                                               *)

\* The registry the view looks at.
RegistryOK ==
  /\ registered \subseteq Cards /\ IsFiniteSet(registered)
  /\ hasDir \subseteq registered

\* There is one deletion at a time: none is under way while a dialog asks for the
\* next, and the flag is set exactly while one is.
OneDeletion ==
  /\ deletion \in {"none", "called", "waiting", "deleted", "failed"}
  /\ target \in Cards \cup {None}
  /\ deleteInFlight \in BOOLEAN
  /\ deletion # "none" => deleteInFlight /\ target \in Cards
  /\ deletion = "none" => ~deleteInFlight
  /\ modal # None => ~deleteInFlight

\* The list is sorted, and the selected row is one of it.
ListOK ==
  /\ workers \in Seq(Cards)
  /\ \A i, j \in 1..Len(workers) : i < j => workers[i] < workers[j]
  /\ selectedIdx \in Nat
  /\ workers = <<>> => selectedIdx = 0
  /\ workers # <<>> => selectedIdx < Len(workers)

ScreenOK ==
  /\ ui \in {"idle", "snapshot", "over"}
  /\ selStatus \in Status
  /\ selOK \in BOOLEAN
  /\ focus \in BOOLEAN
  /\ modal \in Status \cup {None}
  /\ modal # None => modal.card \in Cards
  /\ moved \in BOOLEAN

\* Until the selection moves, the status taken last is that of the selected row.
StatusIsSelected ==
  ui = "idle" /\ selOK /\ ~moved =>
    selStatus.card = Selected /\ selStatus.dir \in {Selected, None}

TuiInv == RingInv /\ RegistryOK /\ OneDeletion /\ ListOK /\ ScreenOK /\ StatusIsSelected

LEMMA TuiInvTypes == TuiInv => TypeOK
BY DEF TuiInv, TypeOK, RingInv, RegistryOK, OneDeletion, ListOK, ScreenOK

LEMMA TuiInit == Init => TuiInv
<1> SUFFICES ASSUME Init PROVE TuiInv
  OBVIOUS
<1>1. RingInv
  BY RingAssumption DEF RingAssumption, Init, RingInit, RingInv, RingTypeOK
<1>2. RegistryOK
  BY FS_EmptySet DEF Init, RegistryOK
<1>3. OneDeletion /\ StatusIsSelected
  BY DEF Init, OneDeletion, StatusIsSelected
<1>4. ListOK
  BY DEF Init, ListOK
<1>5. ScreenOK
  BY DEF Init, ScreenOK, Status, NoStatus
<1> QED
  BY <1>1, <1>2, <1>3, <1>4, <1>5 DEF TuiInv

\* The log is written by the dispatcher, with events about cards, and by nobody else.
LEMMA TuiRecords ==
  ASSUME TuiInv, [Next]_vars
  PROVE  [RingNext]_ringVars
<1>1. CASE \E k \in Cards : Register(k) \/ Deregister(k)
  <2>1. PICK k \in Cards : Record(<<"registered", k>>) \/ Record(<<"deregistered", k>>)
    BY <1>1 DEF Register, Deregister
  <2>2. <<"registered", k>> \in Event /\ <<"deregistered", k>> \in Event
    BY TuiAssumption DEF TuiAssumption
  <2> QED
    BY <2>1, <2>2 DEF RingNext
<1>2. CASE DeleteReturns
  <2>1. Record(<<"deleted", target>>) /\ target \in Cards
    BY <1>2 DEF DeleteReturns, TuiInv, OneDeletion
  <2>2. <<"deleted", target>> \in Event
    BY <2>1, TuiAssumption DEF TuiAssumption
  <2> QED
    BY <2>1, <2>2 DEF RingNext
<1>3. CASE \E k \in Cards : SetWorkDir(k)
  BY <1>3 DEF SetWorkDir
<1>4. CASE DeleteWorker \/ ListCards \/ Snapshot \/ Operator \/ DeleteResult \/ UNCHANGED vars
  BY <1>4 DEF DeleteWorker, ListCards, Snapshot, DeleteResult, Operator, Key, Tab, MoveSelection,
     OpenDeleteConfirm, Cancel, Confirm, Quit, registry, vars
<1> QED
  BY <1>1, <1>2, <1>3, <1>4 DEF Next

LEMMA TuiRing == ASSUME TuiInv, [Next]_vars PROVE RingInv'
<1>1. RingInv /\ [RingNext]_ringVars
  BY TuiRecords DEF TuiInv
<1> QED
  BY <1>1, RecordKeeps DEF RingNext, RingInv, RingTypeOK, ringVars

LEMMA TuiRegistry == ASSUME TuiInv, [Next]_vars PROVE RegistryOK'
<1>1. registered \subseteq Cards /\ IsFiniteSet(registered) /\ hasDir \subseteq registered
  BY DEF TuiInv, RegistryOK
<1>2. CASE \E k \in Cards : Register(k)
  <2>1. PICK k \in Cards : registered' = registered \cup {k} /\ hasDir' = hasDir
    BY <1>2 DEF Register
  <2>2. IsFiniteSet(registered \cup {k})
    BY <1>1, FS_AddElement
  <2> QED
    BY <1>1, <2>1, <2>2 DEF RegistryOK
<1>3. CASE \E k \in Cards : SetWorkDir(k)
  BY <1>1, <1>3 DEF SetWorkDir, RegistryOK
<1>4. CASE (\E k \in Cards : Deregister(k)) \/ DeleteWorker
  <2>1. PICK k : registered' = registered \ {k} /\ hasDir' = hasDir \ {k}
    BY <1>4 DEF Deregister, DeleteWorker
  <2>2. IsFiniteSet(registered \ {k})
    BY <1>1, FS_Subset
  <2> QED
    BY <1>1, <2>1, <2>2 DEF RegistryOK
<1>5. CASE DeleteReturns \/ ListCards \/ Snapshot \/ Operator \/ DeleteResult \/ UNCHANGED vars
  <2>1. registered' = registered /\ hasDir' = hasDir
    BY <1>5 DEF DeleteReturns, ListCards, Snapshot, DeleteResult, Operator, Key, Tab, MoveSelection,
       OpenDeleteConfirm, Cancel, Confirm, Quit, registry, vars
  <2> QED
    BY <1>1, <2>1 DEF RegistryOK
<1> QED
  BY <1>2, <1>3, <1>4, <1>5 DEF Next

LEMMA TuiDeletion == ASSUME TuiInv, [Next]_vars PROVE OneDeletion'
<1>1. OneDeletion /\ (modal # None => modal.card \in Cards)
  BY DEF TuiInv, ScreenOK
<1>2. CASE DeleteWorker \/ DeleteReturns
  BY <1>1, <1>2 DEF DeleteWorker, DeleteReturns, OneDeletion, dialog
<1>3. CASE DeleteResult
  BY <1>1, <1>3 DEF DeleteResult, OneDeletion
<1>4. CASE OpenDeleteConfirm \/ Cancel
  BY <1>1, <1>4 DEF OpenDeleteConfirm, Cancel, OneDeletion, job
<1>5. CASE Confirm
  BY <1>1, <1>5 DEF Confirm, OneDeletion
<1>6. CASE \/ \E k \in Cards : Register(k) \/ SetWorkDir(k) \/ Deregister(k)
           \/ ListCards \/ Snapshot \/ Tab \/ MoveSelection \/ Quit \/ UNCHANGED vars
  <2>1. UNCHANGED <<deletion, target, deleteInFlight, modal>>
    BY <1>6 DEF Register, SetWorkDir, Deregister, ListCards, Snapshot, Tab, MoveSelection, Quit,
       vars, job, dialog
  <2> QED
    BY <1>1, <2>1 DEF OneDeletion
<1> QED
  BY <1>2, <1>3, <1>4, <1>5, <1>6 DEF Next, Operator

LEMMA TuiList == ASSUME TuiInv, [Next]_vars PROVE ListOK'
<1>1. ListOK
  BY DEF TuiInv
<1>2. CASE ListCards
  <2>1. /\ workers' = Sorted(registered)
        /\ selectedIdx' = IF selectedIdx >= Len(workers') THEN Greater(0, Len(workers') - 1)
                                                          ELSE selectedIdx
    BY <1>2 DEF ListCards
  <2>2. registered \subseteq Cards /\ registered \subseteq Nat /\ IsFiniteSet(registered)
    BY TuiAssumption DEF TuiAssumption, TuiInv, RegistryOK
  <2>3. /\ IsSorted(Sorted(registered), registered)
        /\ Sorted(registered) \in Seq(registered)
        /\ Len(Sorted(registered)) = Cardinality(registered)
    BY <2>2, SortedIs
  <2>4. workers' \in Seq(Cards)
    <3>1. Cardinality(registered) \in Nat /\ workers' \in [1..Cardinality(registered) -> registered]
      BY <2>1, <2>2, <2>3, FS_CardinalityType DEF IsSorted
    <3>2. workers' \in [1..Cardinality(registered) -> Cards]
      BY <2>2, <3>1
    <3> QED
      BY <3>1, <3>2
  <2>5. \A i, j \in 1..Len(workers') : i < j => workers'[i] < workers'[j]
    BY <2>1, <2>3, Zenon DEF IsSorted
  <2>6. selectedIdx \in Nat /\ Len(workers') \in Nat /\ (workers' = <<>> <=> Len(workers') = 0)
    BY <1>1, <2>4 DEF ListOK
  <2>7. /\ selectedIdx' \in Nat
        /\ Len(workers') = 0 => selectedIdx' = 0
        /\ Len(workers') # 0 => selectedIdx' < Len(workers')
    BY <2>1, <2>6 DEF Greater
  <2> QED
    BY <2>4, <2>5, <2>6, <2>7 DEF ListOK
<1>3. CASE MoveSelection
  <2>1. /\ workers' = workers
        /\ \/ selectedIdx < Len(workers) - 1 /\ selectedIdx' = selectedIdx + 1
           \/ selectedIdx > 0 /\ selectedIdx' = selectedIdx - 1
    BY <1>3 DEF MoveSelection, Key
  <2>2. selectedIdx \in Nat /\ Len(workers) \in Nat /\ (workers = <<>> <=> Len(workers) = 0)
    BY <1>1 DEF ListOK
  <2>3. selectedIdx' \in Nat /\ workers # <<>> /\ selectedIdx' < Len(workers)
    BY <1>1, <2>1, <2>2 DEF ListOK
  <2> QED
    BY <1>1, <2>1, <2>3 DEF ListOK
<1>4. CASE \/ \E k \in Cards : Register(k) \/ SetWorkDir(k) \/ Deregister(k)
           \/ DeleteWorker \/ DeleteReturns \/ Snapshot
           \/ Tab \/ OpenDeleteConfirm \/ Cancel \/ Confirm \/ Quit \/ DeleteResult \/ UNCHANGED vars
  <2>1. UNCHANGED <<workers, selectedIdx>>
    BY <1>4 DEF Register, SetWorkDir, Deregister, DeleteWorker, DeleteReturns, Snapshot, Key, Tab,
       OpenDeleteConfirm, Cancel, Confirm, Quit, DeleteResult, vars, list
  <2> QED
    BY <1>1, <2>1 DEF ListOK
<1> QED
  BY <1>2, <1>3, <1>4 DEF Next, Operator

\* Whom the selected row names.
LEMMA SelectedIsACard ==
  ASSUME ListOK, workers # <<>>
  PROVE  Selected \in Cards
<1>1. selectedIdx + 1 \in 1..Len(workers) /\ workers \in Seq(Cards)
  BY DEF ListOK
<1> QED
  BY <1>1 DEF Selected

LEMMA TuiScreen == ASSUME TuiInv, [Next]_vars PROVE ScreenOK'
<1>1. ScreenOK /\ ListOK /\ RegistryOK
  BY DEF TuiInv
<1>2. CASE Snapshot
  <2>1. UNCHANGED <<focus, modal>> /\ ui' = "idle" /\ moved' = FALSE /\ selOK' \in BOOLEAN
    BY <1>2 DEF Snapshot, dialog
  <2>2. selStatus' \in Status
    <3>1. \/ selStatus' = selStatus
          \/ selStatus' = NoStatus
          \/ Selected \in registered /\ selStatus' = Taken(Selected)
      BY <1>2 DEF Snapshot
    <3>2. NoStatus \in Status
      BY DEF NoStatus, Status
    <3>3. Selected \in registered => Taken(Selected) \in Status
      BY <1>1 DEF Taken, Status, RegistryOK
    <3> QED
      BY <1>1, <3>1, <3>2, <3>3 DEF ScreenOK
  <2> QED
    BY <1>1, <2>1, <2>2 DEF ScreenOK
<1>3. CASE OpenDeleteConfirm
  <2>1. /\ modal' = [card |-> Selected, dir |-> selStatus.dir] /\ workers # <<>>
        /\ UNCHANGED <<ui, selStatus, selOK, focus, moved>>
    BY <1>3 DEF OpenDeleteConfirm, Key
  <2>2. Selected \in Cards /\ selStatus.dir \in Cards \cup {None}
    BY <1>1, <2>1, SelectedIsACard DEF ScreenOK, Status
  <2>3. modal' \in Status /\ modal'.card \in Cards
    BY <2>1, <2>2 DEF Status
  <2> QED
    BY <1>1, <2>1, <2>3 DEF ScreenOK
<1>4. CASE Cancel \/ Confirm
  BY <1>1, <1>4 DEF Cancel, Confirm, Key, ScreenOK
<1>5. CASE ListCards \/ Quit
  BY <1>1, <1>5 DEF ListCards, Quit, dialog, list, ScreenOK
<1>6. CASE Tab \/ MoveSelection
  BY <1>1, <1>6 DEF Tab, MoveSelection, Key, dialog, ScreenOK
<1>7. CASE \/ \E k \in Cards : Register(k) \/ SetWorkDir(k) \/ Deregister(k)
           \/ DeleteWorker \/ DeleteReturns \/ DeleteResult \/ UNCHANGED vars
  <2>1. UNCHANGED <<ui, selStatus, selOK, focus, modal, moved>>
    BY <1>7 DEF Register, SetWorkDir, Deregister, DeleteWorker, DeleteReturns, DeleteResult, Key,
       vars, dialog, list
  <2> QED
    BY <1>1, <2>1 DEF ScreenOK
<1> QED
  BY <1>2, <1>3, <1>4, <1>5, <1>6, <1>7 DEF Next, Operator

LEMMA TuiStatus == ASSUME TuiInv, [Next]_vars PROVE StatusIsSelected'
<1>1. StatusIsSelected
  BY DEF TuiInv
<1>2. CASE Snapshot
  <2> SUFFICES ASSUME selOK'
               PROVE  selStatus'.card = Selected' /\ selStatus'.dir \in {Selected', None}
    BY DEF StatusIsSelected
  <2>1. selStatus' = Taken(Selected)
    BY <1>2 DEF Snapshot
  <2>2. Selected' = Selected
    BY <1>2 DEF Snapshot, Selected
  <2> QED
    BY <2>1, <2>2 DEF Taken
<1>3. CASE ListCards \/ Quit
  BY <1>3 DEF ListCards, Quit, StatusIsSelected
<1>4. CASE MoveSelection
  BY <1>4 DEF MoveSelection, StatusIsSelected
<1>5. CASE \/ \E k \in Cards : Register(k) \/ SetWorkDir(k) \/ Deregister(k)
           \/ DeleteWorker \/ DeleteReturns
           \/ Tab \/ OpenDeleteConfirm \/ Cancel \/ Confirm \/ DeleteResult \/ UNCHANGED vars
  <2>1. UNCHANGED <<ui, workers, selectedIdx, selStatus, selOK, moved>>
    BY <1>5 DEF Register, SetWorkDir, Deregister, DeleteWorker, DeleteReturns, Key, Tab,
       OpenDeleteConfirm, Cancel, Confirm, DeleteResult, vars, list
  <2> QED
    BY <1>1, <2>1 DEF StatusIsSelected, Selected
<1> QED
  BY <1>2, <1>3, <1>4, <1>5 DEF Next, Operator

LEMMA TuiInductive == TuiInv /\ [Next]_vars => TuiInv'
BY TuiRing, TuiRegistry, TuiDeletion, TuiList, TuiScreen, TuiStatus DEF TuiInv

\* The view is well-formed, its selected row is in its list, the status it shows is
\* that of the selected row until the selection moves, and one deletion is under way
\* at a time: refresh, moveSelection, openDeleteConfirm and executeDelete.
THEOREM TuiInvariant == Spec => [](TypeOK /\ TuiInv)
<1> QED
  BY TuiInit, TuiInductive, TuiInvTypes, PTL DEF Spec

\* A dialog opened before the selection moved shows the directory of the card it
\* asks about, whatever workers come and go between a tick and the key
\* (openDeleteConfirm takes the card from the list and the directory from the
\* status).
THEOREM TuiDialogTrue == Spec => DialogTrue
<1>1. TuiInv /\ [Next]_vars =>
        [modal = None /\ modal' # None /\ ~moved => modal'.dir \in {modal'.card, None}]_vars
  <2> SUFFICES ASSUME TuiInv, [Next]_vars, modal = None, modal' # None, ~moved
               PROVE  modal'.dir \in {modal'.card, None}
    OBVIOUS
  <2>1. OpenDeleteConfirm
    BY DEF Next, Register, SetWorkDir, Deregister, DeleteWorker, DeleteReturns, ListCards, Snapshot,
       Operator, Tab, MoveSelection, Cancel, Confirm, Quit, DeleteResult, vars, dialog
  <2>2. /\ modal' = [card |-> Selected, dir |-> selStatus.dir]
        /\ ui = "idle" /\ selOK
    BY <2>1 DEF OpenDeleteConfirm, Key
  <2>3. selStatus.dir \in {Selected, None}
    BY <2>2 DEF TuiInv, StatusIsSelected
  <2> QED
    BY <2>2, <2>3
<1> QED
  BY <1>1, TuiInit, TuiInductive, PTL DEF Spec, DialogTrue

\* The view's log of the dispatcher's events shows the newest ones, oldest first,
\* for every size of the ring: GlobalEventLog as the running system writes it.
THEOREM TuiLog == Spec => KeepsNewest
<1>1. Init => Window!RecentInit
  BY RingAssumption DEF Init, RingInit, RingAssumption, Window!RecentInit, Entries
<1>2. TuiInv /\ [Next]_vars => [Window!RecentNext]_Entries
  BY TuiRecords, RingStepIsNote DEF TuiInv
<1> QED
  BY <1>1, <1>2, TuiInit, TuiInductive, PTL DEF Spec, KeepsNewest, Window!RecentSpec
=============================================================================
