--------------------------- MODULE LocalBoardProofs ---------------------------
(***************************************************************************)
(* The events and answers about the cards of the built-in board are true,  *)
(* for any number of cards, columns and concurrent calls; and every change *)
(* of the board reaches every page that is connected.                      *)
(***************************************************************************)
EXTENDS LocalBoardProperties, BoardStreamProperties, SequenceTheorems, TLAPS

\* The log of a card holds calls about it, and its column is the target of the
\* latest move in the log, or the first column.
LogsTrue ==
  \A k \in Cards :
    /\ \A i \in DOMAIN changes[k] : CardOf[changes[k][i]] = k
    /\ \/ column[k] = NoColumn /\ changes[k] = <<>>
       \/ column[k] = FirstCol /\ \A i \in DOMAIN changes[k] : Op[changes[k][i]] # "move"
       \/ \E j \in DOMAIN changes[k] :
            /\ Op[changes[k][j]] = "move" /\ column[k] = TargetOf[changes[k][j]]
            /\ \A i \in DOMAIN changes[k] : i > j => Op[changes[k][i]] # "move"

\* How far a call has come, and what it has left behind.
CallTrue(c) ==
  /\ pc[c] \in {"idle", "list", "change"} => ~Stored(c)
  /\ pc[c] \in {"reread", "dispatch"} => c \in Human /\ Stored(c)
  /\ pc[c] = "list" => AgentMove(c)
  /\ pc[c] = "ok" /\ c \in Human => Stored(c) /\ \E v \in sent : v.call = c

\* A call finds its card, and a card is made by one call.
CardThere(c) ==
  /\ pc[c] \notin {"idle", "failed"} /\ Op[c] # "create" => column[CardOf[c]] # NoColumn
  /\ pc[c] \in {"idle", "change"} /\ Op[c] = "create" => column[CardOf[c]] = NoColumn

\* Another call in the log has moved the card of c to this column.
MovedTo(c, col) ==
  \E d \in Calls \ {c} : CardOf[d] = CardOf[c] /\ Stored(d) /\ Op[d] = "move" /\ col = TargetOf[d]

\* A call in the log, before c if c is there, has moved the card of c to this column.
MovedBefore(c, col) ==
  \E i \in DOMAIN changes[CardOf[c]] :
    /\ Op[changes[CardOf[c]][i]] = "move" /\ col = TargetOf[changes[CardOf[c]][i]]
    /\ \A j \in DOMAIN changes[CardOf[c]] : changes[CardOf[c]][j] = c => i < j

\* Call c, or one later in the log, has moved its card to this column.
MovedSince(c, col) ==
  \E j \in DOMAIN changes[CardOf[c]] : \E i \in 1..j :
    /\ changes[CardOf[c]][i] = c
    /\ Op[changes[CardOf[c]][j]] = "move" /\ col = TargetOf[changes[CardOf[c]][j]]

\* What a move has read is where its card was.
ReadsTrue(c) ==
  Op[c] = "move" =>
    /\ pc[c] \notin {"idle", "failed"} => before[c] = FirstCol \/ MovedBefore(c, before[c])
    /\ pc[c] = "dispatch" => MovedSince(c, after[c])
    /\ AgentMove(c) /\ pc[c] \in {"change", "ok"} => after[c] = before[c] \/ MovedTo(c, after[c])
    /\ AgentMove(c) /\ pc[c] = "ok" /\ ~Stored(c) => before[c] = TargetOf[c]

SentTrue ==
  /\ \A v \in sent : pc[v.call] = "ok" /\ Stored(v.call)
  /\ \A v, w \in sent : v.call = w.call => v = w

\* What the event of a move says.
ToldTrue ==
  \A v \in sent : Op[v.call] = "move" =>
    /\ v.listBefore = FirstCol \/ MovedBefore(v.call, v.listBefore)
    /\ MovedSince(v.call, v.idList)

IInv ==
  /\ TypeOK
  /\ LogsTrue
  /\ \A c \in Calls : CallTrue(c) /\ CardThere(c) /\ ReadsTrue(c)
  /\ SentTrue
  /\ ToldTrue

USE DEF Goto

-----------------------------------------------------------------------------
(* The logs grow.                                                          *)

LEMMA AppendFacts ==
  ASSUME NEW S, NEW q \in Seq(S), NEW x \in S
  PROVE  /\ Append(q, x) \in Seq(S)
         /\ DOMAIN Append(q, x) = DOMAIN q \cup {Len(q) + 1}
         /\ \A i \in DOMAIN q : Append(q, x)[i] = q[i]
         /\ Append(q, x)[Len(q) + 1] = x
         /\ DOMAIN q = 1..Len(q) /\ Len(q) \in Nat
OBVIOUS

\* The steps of a call, without and with a change.
QuietStep(c) ==
  Begin(c) \/ GetCardList(c) \/ NoMove(c) \/ Reread(c) \/ Dispatch(c) \/ Fail(c)

ChangeStep(c) == CreateCard(c) \/ MoveCard(c) \/ AddComment(c)

\* What a change does to the log of its card.
LEMMA ChangeFacts ==
  ASSUME TypeOK, NEW c \in Calls, ChangeStep(c)
  PROVE  /\ pc[c] = "change" /\ pc'[c] \in {"reread", "ok"} /\ (pc'[c] = "reread" <=> c \in Human)
         /\ \A d \in Calls : d # c => pc'[d] = pc[d]
         /\ changes'[CardOf[c]] = Append(changes[CardOf[c]], c)
         /\ \A k \in Cards : k # CardOf[c] => changes'[k] = changes[k] /\ column'[k] = column[k]
         /\ UNCHANGED <<clock, before, stamp, after, sent>>
         /\ CardOf[c] \in Cards /\ changes[CardOf[c]] \in Seq(Calls)
<1>1. CardOf[c] \in Cards /\ changes[CardOf[c]] \in Seq(Calls)
  BY LocalBoardAssumption DEF LocalBoardAssumption, TypeOK
<1>2. Changed(c)
  BY DEF ChangeStep, CreateCard, MoveCard, AddComment
<1>3. \A k \in Cards : k # CardOf[c] => column'[k] = column[k]
  BY <1>1 DEF TypeOK, ChangeStep, CreateCard, MoveCard, AddComment
<1> QED
  BY <1>1, <1>2, <1>3 DEF Changed, TypeOK

LEMMA QuietFacts ==
  ASSUME TypeOK, NEW c \in Calls, QuietStep(c)
  PROVE  /\ UNCHANGED <<tables, clock, changes>>
         /\ \A d \in Calls : d # c => pc'[d] = pc[d] /\ before'[d] = before[d] /\ after'[d] = after[d]
BY DEF TypeOK, QuietStep, Begin, GetCardList, NoMove, Reread, Dispatch, Fail

LEMMA LogsGrow ==
  ASSUME TypeOK, NEW c \in Calls, ChangeStep(c)
  PROVE  /\ \A k \in Cards : \A i \in DOMAIN changes[k] :
              i \in DOMAIN changes'[k] /\ changes'[k][i] = changes[k][i]
         /\ \A d \in Calls : Stored(d)' <=> Stored(d) \/ d = c
<1> DEFINE k == CardOf[c]
<1>1. /\ changes'[k] = Append(changes[k], c) /\ k \in Cards /\ changes[k] \in Seq(Calls)
      /\ \A l \in Cards : l # k => changes'[l] = changes[l]
  BY ChangeFacts
<1>2. /\ DOMAIN changes'[k] = DOMAIN changes[k] \cup {Len(changes[k]) + 1}
      /\ \A i \in DOMAIN changes[k] : changes'[k][i] = changes[k][i]
      /\ changes'[k][Len(changes[k]) + 1] = c
  BY <1>1, AppendFacts
<1>3. \A d \in Calls : Stored(d) <=> \E i \in DOMAIN changes[CardOf[d]] : changes[CardOf[d]][i] = d
  <2>1. ASSUME NEW d \in Calls
        PROVE  changes[CardOf[d]] \in Seq(Calls)
    <3>1. CardOf[d] \in Cards
      BY LocalBoardAssumption DEF LocalBoardAssumption
    <3> QED
      BY <3>1 DEF TypeOK
  <2> QED
    BY <2>1 DEF Stored, Contains
<1>4. \A d \in Calls : Stored(d)' <=> \E i \in DOMAIN changes'[CardOf[d]] : changes'[CardOf[d]][i] = d
  <2>1. ASSUME NEW d \in Calls
        PROVE  changes'[CardOf[d]] \in Seq(Calls)
    <3>1. CardOf[d] \in Cards
      BY LocalBoardAssumption DEF LocalBoardAssumption
    <3>2. CASE CardOf[d] = k
      <4>1. changes'[k] \in Seq(Calls)
        BY <1>1, AppendFacts
      <4> QED
        BY <3>2, <4>1
    <3>3. CASE CardOf[d] # k
      BY <1>1, <3>1, <3>3 DEF TypeOK
    <3> QED
      BY <3>2, <3>3
  <2> QED
    BY <2>1 DEF Stored, Contains
<1> HIDE DEF k
<1>5. \A l \in Cards : \A i \in DOMAIN changes[l] : i \in DOMAIN changes'[l] /\ changes'[l][i] = changes[l][i]
  BY <1>1, <1>2
<1>6. ASSUME NEW d \in Calls PROVE Stored(d)' <=> Stored(d) \/ d = c
  <2>1. CardOf[d] \in Cards
    BY LocalBoardAssumption DEF LocalBoardAssumption
  <2>2. Stored(d) => Stored(d)'
    BY <1>3, <1>4, <1>5, <2>1
  <2>3. Stored(c)'
    BY <1>2, <1>4 DEF k
  <2>4. Stored(d)' => Stored(d) \/ d = c
    <3>1. SUFFICES ASSUME NEW i \in DOMAIN changes'[CardOf[d]], changes'[CardOf[d]][i] = d
                   PROVE  Stored(d) \/ d = c
      BY <1>4
    <3>2. CASE CardOf[d] = k /\ i = Len(changes[k]) + 1
      BY <1>2, <3>1, <3>2
    <3>3. CASE CardOf[d] = k /\ i \in DOMAIN changes[k]
      <4>1. changes[CardOf[d]][i] = d /\ i \in DOMAIN changes[CardOf[d]]
        BY <1>2, <3>1, <3>3
      <4> QED
        BY <1>3, <4>1
    <3>4. CASE CardOf[d] # k
      <4>1. changes'[CardOf[d]] = changes[CardOf[d]]
        BY <1>1, <2>1, <3>4
      <4> QED
        BY <1>3, <3>1, <4>1
    <3> QED
      BY <1>2, <3>1, <3>2, <3>3, <3>4
  <2> QED
    BY <2>2, <2>3, <2>4
<1> QED
  BY <1>5, <1>6

LEMMA TypeStep == TypeOK /\ [Next]_vars => TypeOK'
<1> SUFFICES ASSUME TypeOK, [Next]_vars PROVE TypeOK'
  OBVIOUS
<1>1. CASE UNCHANGED vars
  BY <1>1 DEF vars, tables, TypeOK
<1>2. CASE Tick
  <2>1. clock' = clock + 1 /\ clock \in Nat /\ clock' \in DOMAIN Instants
    BY <1>2, LocalBoardAssumption DEF LocalBoardAssumption, TypeOK, Tick
  <2>2. \A n \in 1..clock : n \in 1..clock'
    BY <2>1
  <2>3. UNCHANGED <<column, comments, pc, before, stamp, after, changes, sent>>
    BY <1>2 DEF Tick, tables
  <2> QED
    BY <2>1, <2>2, <2>3 DEF TypeOK, Events
<1>3. ASSUME NEW c \in Calls, QuietStep(c) PROVE TypeOK'
  <2>1. CardOf[c] \in Cards /\ clock \in 1..clock /\ column[CardOf[c]] \in AnyColumn
    BY LocalBoardAssumption DEF LocalBoardAssumption, TypeOK
  <2>2. UNCHANGED <<column, comments, clock, changes>>
    BY <1>3, QuietFacts DEF tables
  <2>3. pc' \in [Calls -> {"idle", "list", "change", "reread", "dispatch", "ok", "failed"}]
    BY <1>3 DEF TypeOK, QuietStep, Begin, GetCardList, NoMove, Reread, Dispatch, Fail
  <2>4. before' \in [Calls -> AnyColumn] /\ after' \in [Calls -> AnyColumn]
    BY <1>3, <2>1 DEF TypeOK, QuietStep, Begin, GetCardList, NoMove, Reread, Dispatch, Fail
  <2>5. stamp' \in [Calls -> 1..clock]
    BY <1>3, <2>1 DEF TypeOK, QuietStep, Begin, GetCardList, NoMove, Reread, Dispatch, Fail
  <2>6. sent' \subseteq Events
    BY <1>3, <2>1 DEF TypeOK, QuietStep, Begin, GetCardList, NoMove, Reread, Dispatch, Fail, Events
  <2> QED
    BY <2>2, <2>3, <2>4, <2>5, <2>6 DEF TypeOK
<1>4. ASSUME NEW c \in Calls, ChangeStep(c) PROVE TypeOK'
  <2>1. column' \in [Cards -> AnyColumn]
    BY <1>4, LocalBoardAssumption DEF LocalBoardAssumption, TypeOK, ChangeStep, CreateCard, MoveCard,
       AddComment, AnyColumn
  <2>2. comments' \subseteq [call : Calls, at : 1..clock]
    BY <1>4 DEF TypeOK, ChangeStep, CreateCard, MoveCard, AddComment
  <2>3. /\ pc' \in [Calls -> {"idle", "list", "change", "reread", "dispatch", "ok", "failed"}]
        /\ changes' = [changes EXCEPT ![CardOf[c]] = Append(@, c)]
    BY <1>4 DEF TypeOK, ChangeStep, CreateCard, MoveCard, AddComment, Changed
  <2>4. changes' \in [Cards -> Seq(Calls)]
    <3>1. Append(changes[CardOf[c]], c) \in Seq(Calls)
      BY <1>4, ChangeFacts, AppendFacts
    <3> QED
      BY <2>3, <3>1 DEF TypeOK
  <2> QED
    BY <1>4, <2>1, <2>2, <2>3, <2>4, ChangeFacts DEF TypeOK
<1> QED
  BY <1>1, <1>2, <1>3, <1>4 DEF Next, QuietStep, ChangeStep

-----------------------------------------------------------------------------
(* The column of a card is what its log says.                              *)

\* The two ways a change leaves the column of its card.
LEMMA ChangedColumn ==
  ASSUME IInv, NEW c \in Calls, ChangeStep(c)
  PROVE  \/ Op[c] = "create" /\ changes[CardOf[c]] = <<>> /\ column'[CardOf[c]] = FirstCol
         \/ /\ Op[c] = "move" /\ column'[CardOf[c]] = TargetOf[c]
            /\ column[CardOf[c]] # NoColumn
         \/ /\ Op[c] = "comment" /\ column'[CardOf[c]] = column[CardOf[c]]
            /\ column[CardOf[c]] # NoColumn
<1>1. CardOf[c] \in Cards /\ pc[c] = "change" /\ column \in [Cards -> AnyColumn]
  BY ChangeFacts DEF IInv, TypeOK
<1>2. CASE CreateCard(c)
  <2>1. Op[c] = "create" /\ column'[CardOf[c]] = FirstCol
    BY <1>1, <1>2 DEF CreateCard
  <2>2. column[CardOf[c]] = NoColumn
    BY <1>1, <2>1 DEF IInv, CardThere
  <2>3. \A d \in Calls : TargetOf[d] # NoColumn /\ FirstCol # NoColumn
    BY LocalBoardAssumption DEF LocalBoardAssumption
  <2>4. \A j \in DOMAIN changes[CardOf[c]] : changes[CardOf[c]][j] \in Calls
    BY <1>1 DEF IInv, TypeOK
  <2> QED
    BY <1>1, <2>1, <2>2, <2>3, <2>4 DEF IInv, LogsTrue
<1>3. CASE MoveCard(c)
  BY <1>1, <1>3 DEF MoveCard, IInv, CardThere
<1>4. CASE AddComment(c)
  BY <1>1, <1>4 DEF AddComment, IInv, CardThere
<1> QED
  BY <1>2, <1>3, <1>4 DEF ChangeStep

LEMMA LogsStep ==
  ASSUME IInv, NEW c \in Calls, ChangeStep(c)
  PROVE  LogsTrue'
<1> DEFINE k == CardOf[c]
           old == changes[k]
           new == changes'[k]
<1>1. /\ new = Append(old, c) /\ k \in Cards /\ old \in Seq(Calls)
      /\ \A l \in Cards : l # k => changes'[l] = changes[l] /\ column'[l] = column[l]
  BY ChangeFacts DEF IInv
<1>2. /\ DOMAIN new = DOMAIN old \cup {Len(old) + 1}
      /\ \A i \in DOMAIN old : new[i] = old[i]
      /\ new[Len(old) + 1] = c
      /\ DOMAIN old = 1..Len(old) /\ Len(old) \in Nat
  BY <1>1, AppendFacts
<1>3. \A l \in Cards :
        /\ \A i \in DOMAIN changes[l] : CardOf[changes[l][i]] = l
        /\ \/ column[l] = NoColumn /\ changes[l] = <<>>
           \/ column[l] = FirstCol /\ \A i \in DOMAIN changes[l] : Op[changes[l][i]] # "move"
           \/ \E j \in DOMAIN changes[l] :
                /\ Op[changes[l][j]] = "move" /\ column[l] = TargetOf[changes[l][j]]
                /\ \A i \in DOMAIN changes[l] : i > j => Op[changes[l][i]] # "move"
  BY DEF IInv, LogsTrue
<1>4. \A i \in DOMAIN new : CardOf[new[i]] = k
  <2> HIDE DEF old, new
  <2>1. \A i \in DOMAIN old : CardOf[old[i]] = k
    BY <1>1, <1>3 DEF old
  <2> QED
    BY <1>2, <2>1 DEF k
<1>5. \/ column'[k] = FirstCol /\ \A i \in DOMAIN new : Op[new[i]] # "move"
      \/ \E j \in DOMAIN new :
           /\ Op[new[j]] = "move" /\ column'[k] = TargetOf[new[j]]
           /\ \A i \in DOMAIN new : i > j => Op[new[i]] # "move"
  <2>1. CASE Op[c] = "create" /\ old = <<>> /\ column'[k] = FirstCol
    BY <1>2, <2>1
  <2>2. CASE Op[c] = "move" /\ column'[k] = TargetOf[c]
    <3> HIDE DEF old, new
    <3>1. \A i \in DOMAIN new : ~(i > Len(old) + 1)
      BY <1>2
    <3> QED
      BY <1>2, <2>2, <3>1
  <2>3. CASE Op[c] = "comment" /\ column'[k] = column[k] /\ column[k] # NoColumn
    <3>1. CASE column[k] = FirstCol /\ \A i \in DOMAIN old : Op[old[i]] # "move"
      <4> HIDE DEF old, new, k
      <4> QED
        BY <1>2, <2>3, <3>1
    <3>2. CASE \E j \in DOMAIN old :
                 /\ Op[old[j]] = "move" /\ column[k] = TargetOf[old[j]]
                 /\ \A i \in DOMAIN old : i > j => Op[old[i]] # "move"
      <4> HIDE DEF old, new, k
      <4> QED
        BY <1>2, <2>3, <3>2
    <3> QED
      BY <1>1, <1>3, <2>3, <3>1, <3>2
  <2> QED
    BY <2>1, <2>2, <2>3, ChangedColumn
<1>6. ASSUME NEW l \in Cards, l # k
      PROVE  /\ \A i \in DOMAIN changes'[l] : CardOf[changes'[l][i]] = l
             /\ \/ column'[l] = NoColumn /\ changes'[l] = <<>>
                \/ column'[l] = FirstCol /\ \A i \in DOMAIN changes'[l] : Op[changes'[l][i]] # "move"
                \/ \E j \in DOMAIN changes'[l] :
                     /\ Op[changes'[l][j]] = "move" /\ column'[l] = TargetOf[changes'[l][j]]
                     /\ \A i \in DOMAIN changes'[l] : i > j => Op[changes'[l][i]] # "move"
  <2>1. changes'[l] = changes[l] /\ column'[l] = column[l]
    BY <1>1, <1>6
  <2> HIDE DEF k
  <2> QED
    BY <1>3, <2>1
<1> HIDE DEF k
<1> QED
  BY <1>4, <1>5, <1>6 DEF LogsTrue

-----------------------------------------------------------------------------
(* What the calls have read.                                               *)

\* The column of a card that is there is the first one, or one that a call in the
\* log has moved it to; it is the first one as long as no call has moved it.
LEMMA WhereCardIs ==
  ASSUME IInv, NEW k \in Cards, column[k] # NoColumn
  PROVE  \/ column[k] = FirstCol /\ \A d \in Calls : CardOf[d] = k /\ Stored(d) => Op[d] # "move"
         \/ \E d \in Calls : CardOf[d] = k /\ Stored(d) /\ Op[d] = "move" /\ column[k] = TargetOf[d]
<1>1. changes[k] \in Seq(Calls) /\ \A i \in DOMAIN changes[k] : changes[k][i] \in Calls
  BY DEF IInv, TypeOK
<1>2. \A d \in Calls : CardOf[d] = k => (Stored(d) <=> \E i \in DOMAIN changes[k] : changes[k][i] = d)
  BY <1>1 DEF Stored, Contains
<1>3. \A i \in DOMAIN changes[k] : CardOf[changes[k][i]] = k
  BY DEF IInv, LogsTrue
<1>4. \/ column[k] = FirstCol /\ \A i \in DOMAIN changes[k] : Op[changes[k][i]] # "move"
      \/ \E j \in DOMAIN changes[k] : Op[changes[k][j]] = "move" /\ column[k] = TargetOf[changes[k][j]]
  BY DEF IInv, LogsTrue
<1> QED
  BY <1>1, <1>2, <1>3, <1>4

\* A call that is in the log reads a column its card was moved to by it or later.
LEMMA ReadsItsMove ==
  ASSUME IInv, NEW c \in Calls, Stored(c), Op[c] = "move"
  PROVE  MovedSince(c, column[CardOf[c]])
<1> DEFINE k == CardOf[c]
           log == changes[k]
<1>1. k \in Cards /\ log \in Seq(Calls)
  BY LocalBoardAssumption DEF LocalBoardAssumption, IInv, TypeOK
<1>2. PICK i \in DOMAIN log : log[i] = c
  BY <1>1 DEF Stored, Contains
<1>3. PICK j \in DOMAIN log :
        /\ Op[log[j]] = "move" /\ column[k] = TargetOf[log[j]]
        /\ \A n \in DOMAIN log : n > j => Op[log[n]] # "move"
  BY <1>1, <1>2 DEF IInv, LogsTrue
<1>4. i \in 1..j
  BY <1>1, <1>2, <1>3
<1> QED
  BY <1>2, <1>3, <1>4 DEF MovedSince

\* Calls that stay where they are keep what is true of them when a log grows.
LEMMA KeepsReads ==
  ASSUME IInv, NEW c \in Calls, ChangeStep(c), NEW d \in Calls, NEW col
  PROVE  /\ MovedTo(d, col) => MovedTo(d, col)'
         /\ MovedBefore(d, col) => MovedBefore(d, col)'
         /\ MovedSince(d, col) => MovedSince(d, col)'
<1>1. /\ \A k \in Cards : \A i \in DOMAIN changes[k] :
           i \in DOMAIN changes'[k] /\ changes'[k][i] = changes[k][i]
      /\ \A e \in Calls : Stored(e) => Stored(e)'
  BY LogsGrow DEF IInv
<1>2. MovedTo(d, col) => MovedTo(d, col)'
  BY <1>1 DEF MovedTo
<1>3. MovedSince(d, col) => MovedSince(d, col)'
  <2>1. CardOf[d] \in Cards /\ changes[CardOf[d]] \in Seq(Calls)
    BY LocalBoardAssumption DEF LocalBoardAssumption, IInv, TypeOK
  <2>2. \A j \in DOMAIN changes[CardOf[d]] : 1..j \subseteq DOMAIN changes[CardOf[d]]
    BY <2>1
  <2> QED
    BY <1>1, <2>1, <2>2 DEF MovedSince
<1>4. MovedBefore(d, col) => MovedBefore(d, col)'
  <2> DEFINE log == changes[CardOf[d]]
  <2>1. CardOf[d] \in Cards /\ log \in Seq(Calls)
    BY LocalBoardAssumption DEF LocalBoardAssumption, IInv, TypeOK
  <2>2. SUFFICES ASSUME NEW i \in DOMAIN log, Op[log[i]] = "move", col = TargetOf[log[i]],
                        \A j \in DOMAIN log : log[j] = d => i < j
                 PROVE  MovedBefore(d, col)'
    BY DEF MovedBefore
  <2>3. \A j \in DOMAIN log' \ DOMAIN log : i < j
    <3>1. CASE CardOf[d] # CardOf[c]
      <4>1. log' = log
        BY <2>1, <3>1, ChangeFacts DEF IInv
      <4> QED
        BY <4>1
    <3>2. CASE CardOf[d] = CardOf[c]
      <4>1. log' = Append(log, c)
        BY <3>2, ChangeFacts DEF IInv
      <4> HIDE DEF log
      <4>2. c \in Calls /\ DOMAIN log' = DOMAIN log \cup {Len(log) + 1} /\ DOMAIN log = 1..Len(log) /\ Len(log) \in Nat
        BY <2>1, <4>1, AppendFacts
      <4> QED
        BY <4>2
    <3> QED
      BY <3>1, <3>2
  <2>4. \A j \in DOMAIN log : j \in DOMAIN log' /\ log'[j] = log[j]
    BY <1>1, <2>1
  <2> QED
    BY <2>2, <2>3, <2>4 DEF MovedBefore
<1> QED
  BY <1>2, <1>3, <1>4

LEMMA ChangeKeeps ==
  ASSUME IInv, NEW c \in Calls, ChangeStep(c)
  PROVE  IInv'
<1>1. /\ pc[c] = "change" /\ pc'[c] \in {"reread", "ok"} /\ (pc'[c] = "reread" <=> c \in Human)
      /\ \A d \in Calls : d # c => pc'[d] = pc[d]
      /\ \A k \in Cards : k # CardOf[c] => column'[k] = column[k]
      /\ UNCHANGED <<before, after, sent>>
  BY ChangeFacts DEF IInv
<1>2. \A d \in Calls : Stored(d)' <=> Stored(d) \/ d = c
  BY LogsGrow DEF IInv
<1>3. \A d \in Calls : CardOf[d] \in Cards
  BY LocalBoardAssumption DEF LocalBoardAssumption
<1>4. column'[CardOf[c]] # NoColumn /\ (column[CardOf[c]] = NoColumn <=> Op[c] = "create")
  <2>1. FirstCol # NoColumn /\ TargetOf[c] # NoColumn
    BY LocalBoardAssumption DEF LocalBoardAssumption
  <2> QED
    BY <1>1, <2>1, ChangedColumn DEF IInv, CardThere
<1>5. ASSUME NEW d \in Calls PROVE CallTrue(d)'
  <2>1. CallTrue(d)
    BY DEF IInv
  <2>2. AgentMove(d)' <=> AgentMove(d)
    BY DEF AgentMove
  <2> QED
    BY <1>1, <1>2, <2>1, <2>2 DEF CallTrue
<1>6. ASSUME NEW d \in Calls PROVE CardThere(d)'
  <2>1. CardThere(d) /\ CardThere(c)
    BY DEF IInv
  <2>2. CASE CardOf[d] # CardOf[c]
    BY <1>1, <1>3, <2>1, <2>2 DEF CardThere
  <2>3. CASE CardOf[d] = CardOf[c] /\ d # c
    <3>1. ~(pc[d] \in {"idle", "change"} /\ Op[d] = "create")
      <4>1. Op[c] = "create" => Op[d] # "create"
        BY <2>3, LocalBoardAssumption DEF LocalBoardAssumption
      <4> QED
        BY <1>4, <2>1, <2>3, <4>1 DEF CardThere
    <3> QED
      BY <1>1, <1>4, <2>3, <3>1 DEF CardThere
  <2>4. CASE d = c
    BY <1>1, <1>4, <2>4 DEF CardThere
  <2> QED
    BY <2>2, <2>3, <2>4
<1>7. ASSUME NEW d \in Calls PROVE ReadsTrue(d)'
  <2>1. ReadsTrue(d)
    BY DEF IInv
  <2>2. /\ MovedBefore(d, before[d]) => MovedBefore(d, before[d])'
        /\ MovedTo(d, after[d]) => MovedTo(d, after[d])'
        /\ MovedSince(d, after[d]) => MovedSince(d, after[d])'
    BY <1>1, KeepsReads
  <2>3. Stored(d)' <=> Stored(d) \/ d = c
    BY <1>2
  <2>4. AgentMove(d)' <=> AgentMove(d)
    BY DEF AgentMove
  <2>5. d = c => pc[d] = "change" /\ pc'[d] \in {"reread", "ok"}
    BY <1>1
  <2>6. d # c => pc'[d] = pc[d]
    BY <1>1
  <2>7. before'[d] = before[d] /\ after'[d] = after[d]
    BY <1>1
  <2> QED
    BY <2>1, <2>2, <2>3, <2>4, <2>5, <2>6, <2>7 DEF ReadsTrue
<1>8. SentTrue'
  <2>1. \A v \in sent : v.call \in Calls /\ pc[v.call] = "ok" /\ Stored(v.call)
    BY DEF IInv, SentTrue, TypeOK, Events
  <2> QED
    BY <1>1, <1>2, <2>1 DEF IInv, SentTrue
<1>9. ToldTrue'
  <2>1. ASSUME NEW v \in sent, Op[v.call] = "move"
        PROVE  /\ v.listBefore = FirstCol \/ MovedBefore(v.call, v.listBefore)'
               /\ MovedSince(v.call, v.idList)'
    <3>1. /\ v.call \in Calls /\ MovedSince(v.call, v.idList)
          /\ v.listBefore = FirstCol \/ MovedBefore(v.call, v.listBefore)
      BY <2>1 DEF IInv, ToldTrue, TypeOK, Events
    <3>2. /\ MovedBefore(v.call, v.listBefore) => MovedBefore(v.call, v.listBefore)'
          /\ MovedSince(v.call, v.idList) => MovedSince(v.call, v.idList)'
      BY <3>1, KeepsReads
    <3> QED
      BY <3>1, <3>2
  <2> QED
    BY <1>1, <2>1 DEF ToldTrue, MovedBefore, MovedSince
<1>10. TypeOK'
  BY TypeStep DEF IInv, Next, ChangeStep
<1> QED
  BY <1>5, <1>6, <1>7, <1>8, <1>9, <1>10, LogsStep DEF IInv

\* A step without a change disturbs nobody but its own call.
LEMMA QuietOthers ==
  ASSUME IInv, NEW c \in Calls, QuietStep(c), NEW d \in Calls \ {c},
         sent \subseteq sent'
  PROVE  CallTrue(d)' /\ CardThere(d)' /\ ReadsTrue(d)'
<1>1. /\ UNCHANGED <<column, changes>>
      /\ pc'[d] = pc[d] /\ before'[d] = before[d] /\ after'[d] = after[d]
  BY QuietFacts DEF IInv, tables
<1>2. CallTrue(d)'
  BY <1>1 DEF IInv, CallTrue, Stored, AgentMove
<1>3. CardThere(d)'
  BY <1>1 DEF IInv, CardThere
<1>4. ReadsTrue(d)'
  BY <1>1 DEF IInv, ReadsTrue, MovedTo, MovedBefore, MovedSince, Stored, AgentMove
<1> QED
  BY <1>2, <1>3, <1>4

\* What a step without a change has to show.
LEMMA QuietEnough ==
  ASSUME IInv, NEW c \in Calls, QuietStep(c), sent \subseteq sent',
         CallTrue(c)', CardThere(c)', ReadsTrue(c)', SentTrue', ToldTrue'
  PROVE  IInv'
<1>1. UNCHANGED <<column, changes>>
  BY QuietFacts DEF IInv, tables
<1>2. LogsTrue'
  BY <1>1 DEF IInv, LogsTrue
<1>3. TypeOK'
  BY TypeStep DEF IInv, Next, QuietStep
<1> QED
  BY <1>2, <1>3, QuietOthers DEF IInv

\* Only Dispatch sends an event.
LEMMA NothingSent ==
  ASSUME IInv, NEW c \in Calls, QuietStep(c), sent' = sent, pc[c] # "ok"
  PROVE  SentTrue' /\ ToldTrue'
<1>1. UNCHANGED changes /\ \A d \in Calls : d # c => pc'[d] = pc[d]
  BY QuietFacts DEF IInv
<1>2. \A v \in sent : v.call \in Calls /\ v.call # c
  BY DEF IInv, SentTrue, TypeOK, Events
<1>3. SentTrue'
  BY <1>1, <1>2 DEF IInv, SentTrue, Stored
<1>4. ToldTrue'
  BY <1>1 DEF IInv, ToldTrue, MovedBefore, MovedSince
<1> QED
  BY <1>3, <1>4

LEMMA BeginKeeps ==
  ASSUME IInv, NEW c \in Calls, Begin(c)
  PROVE  IInv'
<1>1. /\ QuietStep(c) /\ sent' = sent /\ pc[c] = "idle"
      /\ UNCHANGED <<column, changes>> /\ CardOf[c] \in Cards
  BY LocalBoardAssumption DEF LocalBoardAssumption, QuietStep, Begin, tables
<1>2. /\ pc'[c] \in {"failed", "list", "change"} /\ before'[c] = column[CardOf[c]]
      /\ pc'[c] = "list" <=> (AgentMove(c) /\ pc'[c] # "failed")
      /\ Op[c] # "create" /\ pc'[c] # "failed" => column[CardOf[c]] # NoColumn
  BY DEF IInv, TypeOK, Begin, AgentMove
<1>3. ~Stored(c)
  BY <1>1 DEF IInv, CallTrue
<1>4. CallTrue(c)'
  BY <1>1, <1>2, <1>3 DEF CallTrue, Stored, AgentMove
<1>5. CardThere(c)'
  BY <1>1, <1>2 DEF IInv, CardThere
<1>6. Op[c] = "move" /\ pc'[c] # "failed" => before'[c] = FirstCol \/ MovedBefore(c, before'[c])
  <2>1. changes[CardOf[c]] \in Seq(Calls)
    BY <1>1 DEF IInv, TypeOK
  <2>2. \A i \in DOMAIN changes[CardOf[c]] : changes[CardOf[c]][i] # c
    BY <1>3, <2>1 DEF Stored, Contains
  <2> QED
    BY <1>1, <1>2, <2>2 DEF IInv, LogsTrue, MovedBefore
<1>7. ReadsTrue(c)'
  BY <1>1, <1>2, <1>6 DEF ReadsTrue, MovedBefore, Stored, AgentMove
<1> QED
  BY <1>1, <1>4, <1>5, <1>7, QuietEnough, NothingSent

LEMMA GetCardListKeeps ==
  ASSUME IInv, NEW c \in Calls, GetCardList(c)
  PROVE  IInv'
<1>1. /\ QuietStep(c) /\ sent' = sent /\ pc[c] = "list" /\ pc'[c] = "change"
      /\ UNCHANGED <<column, changes, before>> /\ CardOf[c] \in Cards
      /\ after'[c] \in {column[CardOf[c]], before[c]}
  BY LocalBoardAssumption DEF LocalBoardAssumption, QuietStep, GetCardList, tables, IInv, TypeOK
<1>2. AgentMove(c) /\ Op[c] = "move" /\ ~Stored(c) /\ column[CardOf[c]] # NoColumn
  BY <1>1 DEF IInv, CallTrue, CardThere, AgentMove
<1>3. before[c] = FirstCol \/ MovedBefore(c, before[c])
  BY <1>1, <1>2 DEF IInv, ReadsTrue
<1>4. after'[c] = before[c] \/ MovedTo(c, after'[c])
  <2>1. \/ column[CardOf[c]] = FirstCol /\ before[c] = FirstCol
        \/ MovedTo(c, column[CardOf[c]])
    <3>1. changes[CardOf[c]] \in Seq(Calls)
      BY <1>1 DEF IInv, TypeOK
    <3>2. ASSUME NEW i \in DOMAIN changes[CardOf[c]], Op[changes[CardOf[c]][i]] = "move"
          PROVE  \E d \in Calls : CardOf[d] = CardOf[c] /\ Stored(d) /\ Op[d] = "move"
      <4>1. changes[CardOf[c]][i] \in Calls /\ CardOf[changes[CardOf[c]][i]] = CardOf[c]
        BY <1>1, <3>1 DEF IInv, LogsTrue
      <4>2. Stored(changes[CardOf[c]][i])
        BY <3>1, <4>1 DEF Stored, Contains
      <4> QED
        BY <3>2, <4>1, <4>2
    <3>3. MovedBefore(c, before[c]) => \E d \in Calls : CardOf[d] = CardOf[c] /\ Stored(d) /\ Op[d] = "move"
      BY <3>2 DEF MovedBefore
    <3> QED
      BY <1>1, <1>2, <1>3, <3>3, WhereCardIs DEF MovedTo
  <2> QED
    BY <1>1, <2>1
<1>5. CallTrue(c)' /\ CardThere(c)'
  BY <1>1, <1>2 DEF CallTrue, CardThere, Stored
<1>6. ReadsTrue(c)'
  BY <1>1, <1>3, <1>4 DEF ReadsTrue, MovedTo, MovedBefore, Stored, AgentMove
<1> QED
  BY <1>1, <1>5, <1>6, QuietEnough, NothingSent

LEMMA NoMoveKeeps ==
  ASSUME IInv, NEW c \in Calls, NoMove(c)
  PROVE  IInv'
<1>1. /\ QuietStep(c) /\ sent' = sent /\ pc[c] = "change" /\ pc'[c] = "ok"
      /\ UNCHANGED <<column, changes, before, after>>
      /\ AgentMove(c) /\ TargetOf[c] = before[c]
  BY DEF QuietStep, NoMove, tables, IInv, TypeOK
<1>2. CallTrue(c)' /\ CardThere(c)'
  BY <1>1 DEF IInv, CallTrue, CardThere, Stored, AgentMove
<1>3. ReadsTrue(c)'
  BY <1>1 DEF IInv, ReadsTrue, MovedTo, MovedBefore, Stored, AgentMove
<1> QED
  BY <1>1, <1>2, <1>3, QuietEnough, NothingSent

LEMMA RereadKeeps ==
  ASSUME IInv, NEW c \in Calls, Reread(c)
  PROVE  IInv'
<1>1. /\ QuietStep(c) /\ sent' = sent /\ pc[c] = "reread" /\ pc'[c] = "dispatch"
      /\ UNCHANGED <<column, changes, before>>
      /\ Op[c] = "move" => after'[c] = column[CardOf[c]]
  BY DEF QuietStep, Reread, tables, IInv, TypeOK
<1>2. c \in Human /\ Stored(c)
  BY <1>1 DEF IInv, CallTrue
<1>3. CallTrue(c)' /\ CardThere(c)'
  BY <1>1, <1>2 DEF IInv, CallTrue, CardThere, Stored, AgentMove
<1>4. Op[c] = "move" => MovedSince(c, after'[c])
  BY <1>1, <1>2, ReadsItsMove
<1>5. ReadsTrue(c)'
  BY <1>1, <1>2, <1>4 DEF IInv, ReadsTrue, MovedTo, MovedBefore, MovedSince, Stored, AgentMove
<1> QED
  BY <1>1, <1>3, <1>5, QuietEnough, NothingSent

LEMMA FailKeeps ==
  ASSUME IInv, NEW c \in Calls, Fail(c)
  PROVE  IInv'
<1>1. /\ QuietStep(c) /\ sent' = sent /\ pc[c] # "ok" /\ pc'[c] = "failed"
  BY DEF QuietStep, Fail, IInv, TypeOK
<1>2. CallTrue(c)' /\ CardThere(c)' /\ ReadsTrue(c)'
  BY <1>1 DEF CallTrue, CardThere, ReadsTrue
<1> QED
  BY <1>1, <1>2, QuietEnough, NothingSent

LEMMA DispatchKeeps ==
  ASSUME IInv, NEW c \in Calls, Dispatch(c)
  PROVE  IInv'
<1> DEFINE e == [call |-> c, listBefore |-> before[c], idList |-> after[c]]
<1>1. /\ QuietStep(c) /\ sent' = sent \cup {e} /\ pc[c] = "dispatch" /\ pc'[c] = "ok"
      /\ UNCHANGED <<column, changes, before, after>>
      /\ \A d \in Calls : d # c => pc'[d] = pc[d]
  BY DEF QuietStep, Dispatch, tables, IInv, TypeOK
<1>2. c \in Human /\ Stored(c) /\ e.call = c /\ e.listBefore = before[c] /\ e.idList = after[c]
  BY <1>1 DEF IInv, CallTrue
<1>3. Op[c] = "move" => /\ before[c] = FirstCol \/ MovedBefore(c, before[c])
                        /\ MovedSince(c, after[c])
  BY <1>1 DEF IInv, ReadsTrue
<1> HIDE DEF e
<1>4. CallTrue(c)' /\ CardThere(c)'
  BY <1>1, <1>2 DEF IInv, CallTrue, CardThere, Stored, AgentMove
<1>5. ReadsTrue(c)'
  BY <1>1, <1>2 DEF IInv, ReadsTrue, MovedTo, MovedBefore, Stored, AgentMove
<1>6. \A v \in sent : v.call \in Calls /\ v.call # c
  BY <1>1 DEF IInv, SentTrue, TypeOK, Events
<1>7. SentTrue'
  BY <1>1, <1>2, <1>6 DEF IInv, SentTrue, Stored
<1>8. ToldTrue'
  <2>1. \A v \in sent' : v \in sent \/ v = e
    BY <1>1
  <2>2. \A v \in sent : Op[v.call] = "move" =>
          /\ v.listBefore = FirstCol \/ MovedBefore(v.call, v.listBefore)
          /\ MovedSince(v.call, v.idList)
    BY DEF IInv, ToldTrue
  <2> QED
    BY <1>1, <1>2, <1>3, <2>1, <2>2 DEF ToldTrue, MovedBefore, MovedSince
<1> QED
  BY <1>1, <1>4, <1>5, <1>7, <1>8, QuietEnough

-----------------------------------------------------------------------------

LEMMA InitInv == Init => IInv
<1> SUFFICES ASSUME Init PROVE IInv
  OBVIOUS
<1>1. TypeOK
  <2>1. 1 \in DOMAIN Instants
    BY LocalBoardAssumption DEF LocalBoardAssumption
  <2> QED
    BY <2>1, LocalBoardAssumption DEF LocalBoardAssumption, Init, TypeOK, AnyColumn
<1>2. ASSUME NEW k \in Cards
      PROVE  changes[k] = <<>> /\ DOMAIN changes[k] = 1..0
  <2>1. changes = [l \in Cards |-> <<>>]
    BY DEF Init
  <2>2. changes[k] = <<>>
    BY <2>1
  <2>3. changes[k] \in Seq(Calls) /\ Len(changes[k]) = 0
    BY <2>2
  <2> QED
    BY <2>2, <2>3
<1>3. \A c \in Calls : CardOf[c] \in Cards
  BY LocalBoardAssumption DEF LocalBoardAssumption
<1>4. \A c \in Calls : ~Stored(c)
  BY <1>2, <1>3 DEF Stored, Contains
<1>5. LogsTrue
  <2>1. \A k \in Cards : column[k] \in {NoColumn, FirstCol}
    BY DEF Init
  <2>2. \A k \in Cards : \A i \in DOMAIN changes[k] : FALSE
    BY <1>2
  <2> QED
    BY <1>2, <2>1, <2>2 DEF LogsTrue
<1>6. \A c \in Calls : CallTrue(c) /\ CardThere(c) /\ ReadsTrue(c)
  BY <1>3, <1>4 DEF Init, CallTrue, CardThere, ReadsTrue
<1>7. SentTrue /\ ToldTrue
  BY DEF Init, SentTrue, ToldTrue
<1> QED
  BY <1>1, <1>5, <1>6, <1>7 DEF IInv

LEMMA StepInv == IInv /\ [Next]_vars => IInv'
<1> SUFFICES ASSUME IInv, [Next]_vars PROVE IInv'
  OBVIOUS
<1>1. CASE Tick \/ UNCHANGED vars
  <2>1. UNCHANGED <<column, changes, pc, before, after, sent>>
    BY <1>1 DEF Tick, tables, vars
  <2>2. TypeOK'
    BY TypeStep DEF IInv
  <2>3. LogsTrue' /\ SentTrue' /\ ToldTrue'
    BY <2>1 DEF IInv, LogsTrue, SentTrue, ToldTrue, MovedBefore, MovedSince, Stored
  <2>4. ASSUME NEW c \in Calls PROVE CallTrue(c)' /\ CardThere(c)' /\ ReadsTrue(c)'
    BY <2>1 DEF IInv, CallTrue, CardThere, ReadsTrue, Stored, MovedTo, MovedBefore, MovedSince, AgentMove
  <2> QED
    BY <2>2, <2>3, <2>4 DEF IInv
<1>2. ASSUME NEW c \in Calls, QuietStep(c) PROVE IInv'
  BY <1>2, BeginKeeps, GetCardListKeeps, NoMoveKeeps, RereadKeeps, DispatchKeeps, FailKeeps
     DEF QuietStep
<1>3. ASSUME NEW c \in Calls, ChangeStep(c) PROVE IInv'
  BY <1>3, ChangeKeeps
<1> QED
  BY <1>1, <1>2, <1>3 DEF Next, QuietStep, ChangeStep

\* What each call knows of the store is true in every reachable state.
THEOREM Inductive == Spec => []IInv
<1> QED
  BY InitInv, StepInv, PTL DEF Spec

\* The state of the store and of its calls is well-formed.
THEOREM TypeCorrect == Spec => []TypeOK
<1>1. IInv => TypeOK
  BY DEF IInv
<1> QED
  BY <1>1, Inductive, PTL

\* Every event tells of one change in the store, and every successful call of the
\* browser has told of its change.
THEOREM EventsAreChanges == Spec => []EventsMatchChanges
<1>1. IInv => EventsMatchChanges
  BY LocalBoardAssumption DEF LocalBoardAssumption, IInv, SentTrue, CallTrue, EventsMatchChanges
<1> QED
  BY <1>1, Inductive, PTL

\* A move's event names a column the card was in before the move, and one it was
\* moved to by the call or by a later one, however the calls on the card interleave.
THEOREM MoveEventsAreTrue == Spec => []MoveEventsTrue
<1>1. IInv => MoveEventsTrue
  <2> SUFFICES ASSUME IInv, NEW v \in sent, Op[v.call] = "move"
               PROVE  LET log == changes[CardOf[v.call]]
                          Moved(i, col) == Op[log[i]] = "move" /\ TargetOf[log[i]] = col
                      IN  \E n \in DOMAIN log :
                            /\ log[n] = v.call
                            /\ \/ v.listBefore = FirstCol
                               \/ \E i \in 1..(n - 1) : Moved(i, v.listBefore)
                            /\ \E j \in n..Len(log) : Moved(j, v.idList)
    BY DEF MoveEventsTrue
  <2> DEFINE log == changes[CardOf[v.call]]
  <2>1. v.call \in Calls /\ CardOf[v.call] \in Cards /\ log \in Seq(Calls)
    BY LocalBoardAssumption DEF LocalBoardAssumption, IInv, TypeOK, Events
  <2>2. PICK j \in DOMAIN log : \E i \in 1..j :
          log[i] = v.call /\ Op[log[j]] = "move" /\ v.idList = TargetOf[log[j]]
    BY DEF IInv, ToldTrue, MovedSince
  <2>3. PICK n \in 1..j : log[n] = v.call /\ Op[log[j]] = "move" /\ v.idList = TargetOf[log[j]]
    BY <2>2
  <2>4. n \in DOMAIN log /\ j \in n..Len(log)
    BY <2>1, <2>2, <2>3
  <2>5. v.listBefore = FirstCol \/ \E i \in DOMAIN log :
          /\ Op[log[i]] = "move" /\ v.listBefore = TargetOf[log[i]]
          /\ \A m \in DOMAIN log : log[m] = v.call => i < m
    BY DEF IInv, ToldTrue, MovedBefore
  <2>6. v.listBefore = FirstCol \/ \E i \in 1..(n - 1) :
          Op[log[i]] = "move" /\ v.listBefore = TargetOf[log[i]]
    <3>1. ASSUME NEW i \in DOMAIN log, \A m \in DOMAIN log : log[m] = v.call => i < m
          PROVE  i \in 1..(n - 1)
      <4>1. i < n
        BY <2>3, <2>4, <3>1
      <4>2. DOMAIN log = 1..Len(log) /\ Len(log) \in Nat
        BY <2>1
      <4> HIDE DEF log
      <4> QED
        BY <2>4, <4>1, <4>2
    <3> QED
      BY <2>5, <3>1
  <2> QED
    BY <2>3, <2>4, <2>6
<1> QED
  BY <1>1, Inductive, PTL

\* trello_card_move leaves only a card alone that was where it was asked to be, and
\* an answer that reads otherwise names a column another call had moved it to.
THEOREM AgentAnswersAreTrue == Spec => []AgentAnswersTrue
<1>1. IInv => AgentAnswersTrue
  <2> SUFFICES ASSUME IInv, NEW c \in Calls, AgentMove(c), pc[c] = "ok", ~Stored(c)
               PROVE  /\ before[c] = TargetOf[c]
                      /\ after[c] # TargetOf[c] =>
                           \E d \in Calls : /\ Stored(d) /\ CardOf[d] = CardOf[c]
                                            /\ Op[d] = "move" /\ TargetOf[d] = after[c]
    BY DEF AgentAnswersTrue
  <2>1. Op[c] = "move" /\ ReadsTrue(c)
    BY DEF IInv, AgentMove
  <2> QED
    BY <2>1 DEF ReadsTrue, MovedTo
<1> QED
  BY <1>1, Inductive, PTL

-----------------------------------------------------------------------------
(* The order of the texts.                                                 *)

Reading == [sec : Nat, dec : Seq(0..9)]

LEMMA Prepended ==
  ASSUME NEW q \in Seq(Nat), NEW x \in Nat
  PROVE  /\ <<x>> \o q \in Seq(Nat) /\ Len(<<x>> \o q) = Len(q) + 1
         /\ (<<x>> \o q)[1] = x
         /\ \A i \in 1..Len(q) : (<<x>> \o q)[i + 1] = q[i]
OBVIOUS

\* The characters of a text, one by one.
LEMMA TextShape ==
  ASSUME NEW q \in Seq(Nat), NEW x \in Nat
  PROVE  LET text == <<x>> \o (<<46>> \o q) \o <<90>>
         IN  /\ DOMAIN text = 1..(Len(q) + 3)
             /\ text[1] = x /\ text[2] = 46
             /\ \A i \in 1..Len(q) : text[i + 2] = q[i]
<1> DEFINE dot == <<46>> \o q
           all == <<x>> \o dot
           text == all \o <<90>>
<1>1. /\ dot \in Seq(Nat) /\ Len(dot) = Len(q) + 1 /\ dot[1] = 46
      /\ \A i \in 1..Len(q) : dot[i + 1] = q[i]
  BY Prepended
<1> HIDE DEF dot
<1>2. /\ all \in Seq(Nat) /\ Len(all) = Len(dot) + 1 /\ all[1] = x
      /\ \A i \in 1..Len(dot) : all[i + 1] = dot[i]
  BY <1>1, Prepended
<1> HIDE DEF all
<1>3. /\ Len(text) = Len(all) + 1 /\ DOMAIN text = 1..(Len(all) + 1)
      /\ \A i \in 1..Len(all) : text[i] = all[i]
  BY <1>2
<1> HIDE DEF text
<1>4. Len(all) = Len(q) + 2 /\ Len(q) \in Nat
  BY <1>1, <1>2
<1>5. text[1] = x /\ text[2] = 46
  <2>1. all[1 + 1] = dot[1]
    BY <1>1, <1>2, <1>4
  <2> QED
    BY <1>1, <1>2, <1>3, <1>4, <2>1
<1>6. ASSUME NEW i \in 1..Len(q) PROVE text[i + 2] = q[i]
  <2>1. i + 1 \in 1..Len(dot) /\ i + 2 \in 1..Len(all) /\ (i + 1) + 1 = i + 2
    BY <1>1, <1>4
  <2>2. all[(i + 1) + 1] = dot[i + 1]
    BY <1>2, <2>1
  <2> QED
    BY <1>1, <1>3, <2>1, <2>2
<1>7. DOMAIN text = 1..(Len(q) + 3)
  BY <1>3, <1>4
<1> QED
  BY <1>5, <1>6, <1>7 DEF text, all, dot
\* What the text of a reading with decimals looks like.
LEMMA TextWithDecimals ==
  ASSUME NEW t \in Reading, t.dec # <<>>
  PROVE  /\ DOMAIN Text(t) = 1..(Len(t.dec) + 3)
         /\ Text(t)[1] = t.sec /\ Text(t)[2] = 46
         /\ \A i \in 1..Len(t.dec) : Text(t)[i + 2] = 48 + t.dec[i]
<1> DEFINE digits == [i \in DOMAIN t.dec |-> 48 + t.dec[i]]
<1>1. t.sec \in Nat /\ t.dec \in Seq(0..9)
  BY DEF Reading
<1>2. digits \in Seq(Nat) /\ Len(digits) = Len(t.dec) /\ \A i \in 1..Len(t.dec) : digits[i] = 48 + t.dec[i]
  <2>1. DOMAIN t.dec = 1..Len(t.dec) /\ Len(t.dec) \in Nat
    BY <1>1
  <2>2. ASSUME NEW i \in 1..Len(t.dec) PROVE t.dec[i] \in 0..9
    BY <1>1
  <2>3. digits \in [1..Len(t.dec) -> Nat]
    BY <2>1, <2>2
  <2>4. \A i \in 1..Len(t.dec) : digits[i] = 48 + t.dec[i]
    BY <2>1
  <2> HIDE DEF digits
  <2>5. digits \in Seq(Nat) /\ Len(digits) = Len(t.dec)
    BY <2>1, <2>3
  <2> QED
    BY <2>4, <2>5
<1>3. Text(t) = <<t.sec>> \o (<<46>> \o digits) \o <<90>>
  BY DEF Text
<1> HIDE DEF digits
<1> DEFINE text == <<t.sec>> \o (<<46>> \o digits) \o <<90>>
<1>4. /\ DOMAIN text = 1..(Len(digits) + 3)
      /\ text[1] = t.sec /\ text[2] = 46
      /\ \A i \in 1..Len(digits) : text[i + 2] = digits[i]
  BY <1>1, <1>2, TextShape
<1>5. Text(t) = text
  BY <1>3
<1> HIDE DEF text
<1> QED
  BY <1>2, <1>4, <1>5

\* The first character is the second, whatever the decimals.
LEMMA TextStarts ==
  ASSUME NEW t \in Reading
  PROVE  1 \in DOMAIN Text(t) /\ Text(t)[1] = t.sec
<1>1. CASE t.dec # <<>>
  <2>1. Len(t.dec) \in Nat
    BY DEF Reading
  <2> QED
    BY <1>1, <2>1, TextWithDecimals
<1>2. CASE t.dec = <<>>
  BY <1>2 DEF Text, Reading
<1> QED
  BY <1>1, <1>2

\* Text compares as time does, unless the later decimals only go on where the
\* earlier ones end.
LEMMA TextInOrder ==
  ASSUME NEW s \in Reading, NEW t \in Reading, NotLater(s, t)
  PROVE  TextLess(Text(s), Text(t)) \/ (s.sec = t.sec /\ IsPrefix(s.dec, t.dec))
<1>1. CASE s.sec < t.sec
  BY <1>1, TextStarts DEF TextLess
<1>2. ASSUME s.sec = t.sec,
             NEW i \in DOMAIN s.dec \cap DOMAIN t.dec, s.dec[i] < t.dec[i],
             \A j \in 1..(i - 1) : s.dec[j] = t.dec[j]
      PROVE  TextLess(Text(s), Text(t))
  <2>1. /\ s.dec \in Seq(0..9) /\ t.dec \in Seq(0..9)
        /\ DOMAIN s.dec = 1..Len(s.dec) /\ Len(s.dec) \in Nat
        /\ DOMAIN t.dec = 1..Len(t.dec) /\ Len(t.dec) \in Nat
        /\ s.dec[i] \in Nat /\ t.dec[i] \in Nat
    <3>1. s.dec \in Seq(0..9) /\ t.dec \in Seq(0..9)
      BY DEF Reading
    <3>2. /\ DOMAIN s.dec = 1..Len(s.dec) /\ Len(s.dec) \in Nat
          /\ DOMAIN t.dec = 1..Len(t.dec) /\ Len(t.dec) \in Nat
      BY <3>1
    <3>3. i \in 1..Len(s.dec) /\ i \in 1..Len(t.dec)
      BY <3>2
    <3>4. s.dec[i] \in 0..9
      BY <3>1, <3>3
    <3>5. t.dec[i] \in 0..9
      BY <3>1, <3>3
    <3> QED
      BY <3>1, <3>2, <3>4, <3>5
  <2>2. s.dec # <<>> /\ t.dec # <<>>
    BY <1>2, <2>1
  <2>3. i + 2 \in DOMAIN Text(s) \cap DOMAIN Text(t) /\ Text(s)[i + 2] < Text(t)[i + 2]
    <3>1. i \in 1..Len(s.dec) /\ i \in 1..Len(t.dec)
      BY <2>1
    <3>2. Text(s)[i + 2] = 48 + s.dec[i] /\ Text(t)[i + 2] = 48 + t.dec[i]
      BY <2>2, <3>1, TextWithDecimals
    <3>3. i + 2 \in 1..(Len(s.dec) + 3) /\ i + 2 \in 1..(Len(t.dec) + 3)
      BY <2>1, <3>1
    <3>4. 48 + s.dec[i] < 48 + t.dec[i]
      BY <1>2, <2>1
    <3> QED
      BY <2>2, <3>2, <3>3, <3>4, TextWithDecimals
  <2>4. ASSUME NEW j \in 1..((i + 2) - 1) PROVE Text(s)[j] = Text(t)[j]
    <3>1. CASE j \in {1, 2}
      BY <1>2, <2>2, <3>1, TextWithDecimals
    <3>2. CASE j \notin {1, 2}
      <4>1. j - 2 \in 1..(i - 1) /\ j - 2 \in 1..Len(s.dec) /\ j - 2 \in 1..Len(t.dec) /\ (j - 2) + 2 = j
        BY <1>2, <2>1, <3>2
      <4>2. Text(s)[(j - 2) + 2] = 48 + s.dec[j - 2] /\ Text(t)[(j - 2) + 2] = 48 + t.dec[j - 2]
        BY <2>2, <4>1, TextWithDecimals
      <4> QED
        BY <1>2, <4>1, <4>2
    <3> QED
      BY <3>1, <3>2
  <2> QED
    BY <2>3, <2>4 DEF TextLess
<1> QED
  BY <1>1, <1>2 DEF NotLater

\* The latest comment is the one GetLatestComment returns, and none made after the
\* given time is missing from ListCommentsSince, but for the texts that go on where
\* the earlier one's decimals end (store.go keeps times as RFC3339Nano text).
THEOREM LatestIsLatest == Spec => []LatestUnlessPrefix
<1>1. IInv => LatestUnlessPrefix
  <2> SUFFICES ASSUME IInv PROVE LatestUnlessPrefix
    OBVIOUS
  <2>1. \A i, j \in DOMAIN Instants : i < j =>
          \/ TextLess(Text(Instants[i]), Text(Instants[j]))
          \/ Instants[i].sec = Instants[j].sec /\ IsPrefix(Instants[i].dec, Instants[j].dec)
    <3>1. \A i \in DOMAIN Instants : Instants[i] \in Reading
      <4>1. Instants \in Seq(Reading)
        BY LocalBoardAssumption DEF LocalBoardAssumption, Reading
      <4> QED
        BY <4>1
    <3>2. \A i, j \in DOMAIN Instants : i < j => NotLater(Instants[i], Instants[j])
      BY LocalBoardAssumption DEF LocalBoardAssumption
    <3> QED
      BY <3>1, <3>2, TextInOrder
  <2>2. \A i \in 1..clock : i \in DOMAIN Instants
    BY LocalBoardAssumption DEF LocalBoardAssumption, IInv, TypeOK
  <2>3. \A m \in comments : m.at \in 1..clock
    BY DEF IInv, TypeOK
  <2>4. ASSUME NEW k \in Cards, NEW m \in GetLatestComment(k), NEW n \in CommentsOf(k), n.at > m.at
        PROVE  Instants[m.at].sec = Instants[n.at].sec /\ IsPrefix(Instants[m.at].dec, Instants[n.at].dec)
    <3>1. ~TextLess(Text(Instants[m.at]), Text(Instants[n.at]))
      BY <2>4 DEF GetLatestComment, At
    <3>2. m.at \in 1..clock /\ n.at \in 1..clock /\ m.at < n.at
      BY <2>3, <2>4 DEF GetLatestComment, CommentsOf, IInv, TypeOK
    <3> QED
      BY <2>1, <2>2, <3>1, <3>2
  <2>5. ASSUME NEW k \in Cards, NEW i \in 1..clock, NEW m \in CommentsOf(k) \ ListCommentsSince(k, i),
               m.at > i
        PROVE  Instants[i].sec = Instants[m.at].sec /\ IsPrefix(Instants[i].dec, Instants[m.at].dec)
    <3>1. ~TextLess(Text(Instants[i]), Text(Instants[m.at]))
      BY <2>5 DEF ListCommentsSince, At
    <3>2. m.at \in 1..clock /\ i < m.at
      BY <2>3, <2>5 DEF CommentsOf, IInv, TypeOK
    <3> QED
      BY <2>1, <2>2, <3>1, <3>2
  <2> QED
    BY <2>4, <2>5 DEF LatestUnlessPrefix
<1> QED
  BY <1>1, Inductive, PTL

-----------------------------------------------------------------------------
(* The event stream.                                                       *)

Versions == {Unread} \cup 0..version

\* What a page's fetches are: a sequence of versions read, none of them to come.
FetchesType ==
  /\ fetches \in [Pages -> Seq(Int)]
  /\ \A p \in Pages : Len(fetches[p]) <= MaxFetches
  /\ \A p \in Pages : \A i \in DOMAIN fetches[p] : fetches[p][i] \in Versions

\* A page that is connected has its channel; at most one broadcast is outstanding
\* for each change.
StreamInv ==
  /\ StreamTypeOK /\ FetchesType
  /\ signals <= version
  /\ \A p \in Pages : link[p] = "open" => p \in DOMAIN token
  /\ EveryChangeComes

\* Appending to a sequence of integers.
LEMMA AppendInts ==
  ASSUME NEW s \in Seq(Int), NEW x \in Int
  PROVE  /\ Append(s, x) \in Seq(Int) /\ Len(Append(s, x)) = Len(s) + 1
         /\ DOMAIN Append(s, x) = 1..(Len(s) + 1) /\ DOMAIN s = 1..Len(s) /\ Len(s) \in Nat
         /\ \A i \in 1..Len(s) : Append(s, x)[i] = s[i]
         /\ Append(s, x)[Len(s) + 1] = x
OBVIOUS

\* RemoveAt takes one entry out and keeps every other.
LEMMA RemoveAtInts ==
  ASSUME NEW s \in Seq(Int), NEW i \in DOMAIN s
  PROVE  /\ RemoveAt(s, i) \in Seq(Int) /\ Len(RemoveAt(s, i)) = Len(s) - 1
         /\ \A k \in DOMAIN RemoveAt(s, i) : \E j \in DOMAIN s : RemoveAt(s, i)[k] = s[j]
         /\ \A j \in DOMAIN s : j # i => \E k \in DOMAIN RemoveAt(s, i) : RemoveAt(s, i)[k] = s[j]
<1> DEFINE n == Len(s)
           a == SubSeq(s, 1, i - 1)
           b == SubSeq(s, i + 1, n)
           r == a \o b
<1>1. n \in Nat /\ DOMAIN s = 1..n /\ i \in 1..n /\ \A k \in 1..n : s[k] \in Int
  OBVIOUS
<1>2. RemoveAt(s, i) = r
  BY DEF RemoveAt
<1> HIDE DEF n
<1>3. /\ a \in Seq(Int) /\ Len(a) = i - 1
      /\ \A k \in 1..(i - 1) : a[k] = s[k]
  <2>1. 1 \in Int /\ i - 1 \in Int /\ \A k \in 1..(i - 1) : s[k] \in Int
    BY <1>1
  <2>2. /\ a \in Seq(Int) /\ Len(a) = IF 1 <= i - 1 THEN (i - 1) - 1 + 1 ELSE 0
        /\ \A k \in 1..((i - 1) - 1 + 1) : a[k] = s[1 + k - 1]
    BY <2>1, SubSeqProperties
  <2> HIDE DEF a
  <2> QED
    BY <1>1, <2>2
<1>4. /\ b \in Seq(Int) /\ Len(b) = n - i
      /\ \A k \in 1..(n - i) : b[k] = s[k + i]
  <2>1. i + 1 \in Int /\ n \in Int /\ \A k \in (i + 1)..n : s[k] \in Int
    BY <1>1
  <2>2. /\ b \in Seq(Int) /\ Len(b) = IF i + 1 <= n THEN n - (i + 1) + 1 ELSE 0
        /\ \A k \in 1..(n - (i + 1) + 1) : b[k] = s[(i + 1) + k - 1]
    BY <2>1, SubSeqProperties
  <2> HIDE DEF b
  <2>3. n - (i + 1) + 1 = n - i /\ ((IF i + 1 <= n THEN n - (i + 1) + 1 ELSE 0) = n - i)
    BY <1>1
  <2>4. \A k \in 1..(n - i) : (i + 1) + k - 1 = k + i
    BY <1>1
  <2> QED
    BY <2>2, <2>3, <2>4
<1> HIDE DEF a, b
<1>5. /\ r \in Seq(Int) /\ Len(r) = n - 1 /\ DOMAIN r = 1..(n - 1)
      /\ \A k \in 1..(n - 1) : r[k] = IF k <= i - 1 THEN a[k] ELSE b[k - (i - 1)]
  <2>1. /\ r \in Seq(Int) /\ Len(r) = Len(a) + Len(b)
        /\ \A k \in 1..(Len(a) + Len(b)) : r[k] = IF k <= Len(a) THEN a[k] ELSE b[k - Len(a)]
    <3>1. a \in Seq(Int) /\ b \in Seq(Int)
      BY <1>3, <1>4
    <3> QED
      BY <3>1, ConcatProperties, Zenon
  <2> HIDE DEF r
  <2>2. Len(a) = i - 1 /\ Len(b) = n - i
    BY <1>3, <1>4
  <2>3. (i - 1) + (n - i) = n - 1
    BY <1>1
  <2>4. DOMAIN r = 1..Len(r)
    BY <2>1
  <2>5. /\ Len(r) = n - 1
        /\ \A k \in 1..(n - 1) : r[k] = IF k <= i - 1 THEN a[k] ELSE b[k - (i - 1)]
    BY <2>1, <2>2, <2>3, Zenon
  <2> QED
    BY <2>1, <2>4, <2>5, Zenon
<1> HIDE DEF r
\* Each entry of the result, and where it was.
<1>6. \A k \in 1..(n - 1) : r[k] = IF k < i THEN s[k] ELSE s[k + 1]
  <2> SUFFICES ASSUME NEW k \in 1..(n - 1) PROVE r[k] = IF k < i THEN s[k] ELSE s[k + 1]
    OBVIOUS
  <2>1. CASE k < i
    <3>1. k <= i - 1 /\ k \in 1..(i - 1)
      BY <1>1, <2>1
    <3> QED
      BY <1>3, <1>5, <2>1, <3>1
  <2>2. CASE ~(k < i)
    <3>1. ~(k <= i - 1) /\ k - (i - 1) \in 1..(n - i) /\ (k - (i - 1)) + i = k + 1
      BY <1>1, <2>2
    <3>2. r[k] = b[k - (i - 1)]
      BY <1>5, <3>1
    <3>3. b[k - (i - 1)] = s[(k - (i - 1)) + i]
      BY <1>4, <3>1
    <3> QED
      BY <2>2, <3>1, <3>2, <3>3
  <2> QED
    BY <2>1, <2>2
<1>7. ASSUME NEW k \in DOMAIN r PROVE \E j \in DOMAIN s : r[k] = s[j]
  <2>1. k \in 1..(n - 1)
    BY <1>5, Zenon
  <2>2. k \in 1..n /\ k + 1 \in 1..n
    BY <1>1, <2>1
  <2>3. k \in DOMAIN s /\ k + 1 \in DOMAIN s
    BY <1>1, <2>2, Zenon
  <2>4. r[k] = IF k < i THEN s[k] ELSE s[k + 1]
    BY <1>6, <2>1, Zenon
  <2> QED
    BY <2>3, <2>4, Zenon
<1>8. ASSUME NEW j \in DOMAIN s, j # i PROVE \E k \in DOMAIN r : r[k] = s[j]
  <2>1. CASE j < i
    <3>1. j \in 1..(n - 1)
      BY <1>1, <2>1
    <3> QED
      BY <1>5, <1>6, <2>1, <3>1
  <2>2. CASE ~(j < i)
    <3>1. j - 1 \in 1..(n - 1) /\ ~(j - 1 < i) /\ (j - 1) + 1 = j
      BY <1>1, <1>8, <2>2
    <3>2. r[j - 1] = s[(j - 1) + 1]
      BY <1>6, <3>1
    <3> QED
      BY <1>5, <3>1, <3>2
  <2> QED
    BY <2>1, <2>2
<1> QED
  BY <1>2, <1>5, <1>7, <1>8 DEF n

-----------------------------------------------------------------------------
(* What is under way to a page.                                            *)

\* Something will make page p fetch the current version, or has.
Coming(p) ==
  \/ newest[p] = version
  \/ \E i \in DOMAIN fetches[p] : fetches[p][i] \in {Unread, version}
  \/ events[p] > 0
  \/ p \in DOMAIN token /\ token[p] > 0
  \/ signals > 0

Heard(p) == link[p] = "open" => p \in DOMAIN token /\ (failed[p] \/ Coming(p))

LEMMA StreamInvIs ==
  StreamInv <=> /\ StreamTypeOK /\ FetchesType
                /\ signals <= version
                /\ \A p \in Pages : Heard(p)
BY DEF StreamInv, EveryChangeComes, Heard, Coming

LEMMA StreamInvNext ==
  ASSUME StreamTypeOK', FetchesType', signals' <= version', \A p \in Pages : Heard(p)'
  PROVE  StreamInv'
BY DEF StreamInv, EveryChangeComes, Heard, Coming

LEMMA StreamInitInv == StreamInit => StreamInv
<1> SUFFICES ASSUME StreamInit PROVE StreamInv
  OBVIOUS
<1>1. FetchesType /\ signals <= version
  BY BoardStreamAssumption DEF BoardStreamAssumption, StreamInit, FetchesType, Versions, Unread
<1>2. StreamTypeOK
  BY BoardStreamAssumption DEF BoardStreamAssumption, StreamInit, StreamTypeOK, Unread
<1>3. EveryChangeComes /\ \A p \in Pages : link[p] = "open" => p \in DOMAIN token
  BY DEF StreamInit, EveryChangeComes
<1> QED
  BY <1>1, <1>2, <1>3 DEF StreamInv

\* The server's steps.
LEMMA CommitStep ==
  ASSUME StreamInv, Commit
  PROVE  StreamInv'
<1>1. /\ UNCHANGED <<token, link, events, fetches, shown, newest, failed, overtaken>>
      /\ version' = version + 1 /\ signals' = signals + 1
      /\ version \in Nat /\ signals \in Nat /\ version' <= MaxVersion /\ MaxVersion \in Nat
      /\ signals <= version
  BY BoardStreamAssumption
  DEF BoardStreamAssumption, StreamInv, StreamTypeOK, Commit, pageVars
<1>2. \A v \in {Unread} \cup 0..version : v \in {Unread} \cup 0..version'
  BY <1>1
<1>3. FetchesType'
  BY <1>1, <1>2 DEF StreamInv, FetchesType, Versions
<1>4. version' \in 0..MaxVersion /\ signals' \in 0..MaxVersion /\ signals' <= version' /\ signals' > 0
  BY <1>1
<1>5. shown' \in [Pages -> {Unread} \cup 0..version'] /\ newest' \in [Pages -> {Unread} \cup 0..version']
  BY <1>1, <1>2 DEF StreamInv, StreamTypeOK
<1>6. StreamTypeOK'
  BY <1>1, <1>2, <1>4, <1>5 DEF StreamInv, StreamTypeOK
<1>7. \A p \in Pages : Heard(p)'
  BY <1>1, <1>4, StreamInvIs DEF Heard, Coming
<1> QED
  BY <1>3, <1>4, <1>6, <1>7, StreamInvIs, StreamInvNext

LEMMA BroadcastStep ==
  ASSUME StreamInv, Broadcast
  PROVE  StreamInv'
<1>1. /\ UNCHANGED <<version, link, events, fetches, shown, newest, failed, overtaken>>
      /\ signals' = signals - 1 /\ signals > 0 /\ signals \in Nat
      /\ token' = [p \in DOMAIN token |-> 1]
  BY DEF Broadcast, pageVars, StreamInv, StreamTypeOK
<1>2. FetchesType' /\ signals' <= version'
  BY <1>1, BoardStreamAssumption DEF BoardStreamAssumption, StreamInv, StreamTypeOK, FetchesType, Versions
<1>3. signals' \in 0..MaxVersion
  BY <1>1, BoardStreamAssumption DEF BoardStreamAssumption, StreamInv, StreamTypeOK
<1>4. DOMAIN token' = DOMAIN token /\ \A p \in DOMAIN token' : token'[p] = 1
  BY <1>1
<1>5. StreamTypeOK'
  BY <1>1, <1>3, <1>4 DEF StreamInv, StreamTypeOK
<1>6. \A p \in Pages : Heard(p)'
  BY <1>1, <1>4, StreamInvIs DEF Heard, Coming
<1> QED
  BY <1>2, <1>5, <1>6, StreamInvIs, StreamInvNext

\* A step of one page leaves the others as they are.
Apart(p) ==
  \A q \in Pages : q # p =>
    /\ link'[q] = link[q] /\ events'[q] = events[q] /\ fetches'[q] = fetches[q]
    /\ newest'[q] = newest[q] /\ failed'[q] = failed[q]
    /\ q \in DOMAIN token' <=> q \in DOMAIN token
    /\ q \in DOMAIN token => token'[q] = token[q]

LEMMA ApartKeeps ==
  ASSUME NEW p \in Pages, Apart(p), UNCHANGED <<version, signals>>, \A q \in Pages : Heard(q), Heard(p)'
  PROVE  \A q \in Pages : Heard(q)'
<1> SUFFICES ASSUME NEW q \in Pages, q # p PROVE Heard(q)'
  OBVIOUS
<1>1. /\ link'[q] = link[q] /\ events'[q] = events[q] /\ fetches'[q] = fetches[q]
      /\ newest'[q] = newest[q] /\ failed'[q] = failed[q]
      /\ q \in DOMAIN token' <=> q \in DOMAIN token
      /\ q \in DOMAIN token => token'[q] = token[q]
  BY DEF Apart
<1>2. Heard(q)
  OBVIOUS
<1> QED
  BY <1>1, <1>2 DEF Heard, Coming

\* A step that sets one entry of a function of the pages.
LEMMA PutOne ==
  ASSUME NEW S, NEW f \in [Pages -> S], NEW p \in Pages, NEW v \in S
  PROVE  /\ [f EXCEPT ![p] = v] \in [Pages -> S] /\ [f EXCEPT ![p] = v][p] = v
         /\ \A q \in Pages : q # p => [f EXCEPT ![p] = v][q] = f[q]
OBVIOUS

\* handleEvents and the end of a connection.
LEMMA ConnectionStep ==
  ASSUME StreamInv, NEW p \in Pages, Register(p) \/ Write(p) \/ Disconnect(p)
  PROVE  StreamInv'
<1>1. UNCHANGED <<version, signals, fetches, shown, newest, failed, overtaken>>
  BY DEF Register, Write, Disconnect, pageVars
<1>2. FetchesType' /\ signals' <= version'
  BY <1>1 DEF StreamInv, FetchesType, Versions
<1>3. CASE Register(p)
  <2>1. /\ UNCHANGED <<link, events>> /\ link[p] = "connecting"
        /\ DOMAIN token' = DOMAIN token \cup {p} /\ token'[p] = 0
        /\ \A q \in DOMAIN token : q # p => token'[q] = token[q]
    BY <1>3 DEF Register, Set
  <2>2. StreamTypeOK'
    BY <1>1, <2>1 DEF StreamInv, StreamTypeOK
  <2>3. Apart(p) /\ Heard(p)'
    BY <1>1, <2>1 DEF Apart, Heard
  <2> QED
    BY <1>1, <1>2, <2>2, <2>3, ApartKeeps, StreamInvIs, StreamInvNext
<1>4. CASE Write(p)
  <2>1. /\ UNCHANGED link /\ p \in DOMAIN token
        /\ DOMAIN token' = DOMAIN token /\ token'[p] = 0
        /\ \A q \in DOMAIN token : q # p => token'[q] = token[q]
    BY <1>4 DEF Write, Set
  <2>2. /\ events' \in [Pages -> 0..MaxEvents] /\ events'[p] > 0
        /\ \A q \in Pages : q # p => events'[q] = events[q]
    <3>1. events \in [Pages -> 0..MaxEvents] /\ MaxEvents \in Nat
      BY BoardStreamAssumption DEF BoardStreamAssumption, StreamInv, StreamTypeOK
    <3>2. events[p] < MaxEvents /\ events' = [events EXCEPT ![p] = events[p] + 1]
      BY <1>4 DEF Write
    <3>3. events[p] + 1 \in 0..MaxEvents /\ events[p] + 1 > 0
      BY <3>1, <3>2
    <3>4. /\ events' \in [Pages -> 0..MaxEvents] /\ events'[p] = events[p] + 1
          /\ \A q \in Pages : q # p => events'[q] = events[q]
      BY <3>1, <3>2, <3>3, PutOne, Zenon
    <3> QED
      BY <3>3, <3>4, Zenon
  <2>3. StreamTypeOK'
    <3>1. \A q \in DOMAIN token' : token'[q] \in 0..1
      BY <2>1 DEF StreamInv, StreamTypeOK
    <3> QED
      BY <1>1, <2>1, <2>2, <3>1 DEF StreamInv, StreamTypeOK
  <2>4. Apart(p) /\ Heard(p)'
    BY <1>1, <2>1, <2>2 DEF Apart, Heard, Coming
  <2> QED
    BY <1>1, <1>2, <2>3, <2>4, ApartKeeps, StreamInvIs, StreamInvNext
<1>5. CASE Disconnect(p)
  <2>1. /\ DOMAIN token' = DOMAIN token \ {p}
        /\ \A q \in DOMAIN token : q # p => token'[q] = token[q]
    BY <1>5 DEF Disconnect, Without
  <2>2. /\ events' \in [Pages -> 0..MaxEvents]
        /\ \A q \in Pages : q # p => events'[q] = events[q]
    BY <1>5, BoardStreamAssumption DEF BoardStreamAssumption, Disconnect, StreamInv, StreamTypeOK
  <2>3. /\ link' \in [Pages -> {"loading", "connecting", "open", "dead"}] /\ link'[p] = "connecting"
        /\ \A q \in Pages : q # p => link'[q] = link[q]
    BY <1>5 DEF Disconnect, StreamInv, StreamTypeOK
  <2>4. StreamTypeOK'
    BY <1>1, <2>1, <2>2, <2>3 DEF StreamInv, StreamTypeOK
  <2>5. Apart(p) /\ Heard(p)'
    BY <1>1, <2>1, <2>2, <2>3 DEF Apart, Heard
  <2> QED
    BY <1>1, <1>2, <2>4, <2>5, ApartKeeps, StreamInvIs, StreamInvNext
<1> QED
  BY <1>3, <1>4, <1>5

\* A page that refreshes has a fetch under way that reads what is to come.
LEMMA RefreshFacts ==
  ASSUME StreamInv, NEW p \in Pages, Refresh(p), version' = version
  PROVE  /\ FetchesType'
         /\ \E i \in DOMAIN fetches'[p] : fetches'[p][i] = Unread
         /\ \A q \in Pages : q # p => fetches'[q] = fetches[q]
<1>1. /\ fetches \in [Pages -> Seq(Int)] /\ fetches[p] \in Seq(Int) /\ Unread \in Int
      /\ Len(fetches[p]) < MaxFetches /\ MaxFetches \in Nat
      /\ fetches' = [fetches EXCEPT ![p] = Append(fetches[p], Unread)]
  BY BoardStreamAssumption DEF BoardStreamAssumption, StreamInv, FetchesType, Refresh, Unread
<1> DEFINE s == Append(fetches[p], Unread)
<1>2. /\ s \in Seq(Int) /\ Len(s) = Len(fetches[p]) + 1 /\ DOMAIN s = 1..(Len(fetches[p]) + 1)
      /\ DOMAIN fetches[p] = 1..Len(fetches[p]) /\ Len(fetches[p]) \in Nat
      /\ \A i \in 1..Len(fetches[p]) : s[i] = fetches[p][i]
      /\ s[Len(fetches[p]) + 1] = Unread
  BY <1>1, AppendInts
<1>3. fetches' = [fetches EXCEPT ![p] = s]
  BY <1>1
<1> HIDE DEF s
<1>4. /\ fetches' \in [Pages -> Seq(Int)] /\ fetches'[p] = s
      /\ \A q \in Pages : q # p => fetches'[q] = fetches[q]
  BY <1>1, <1>2, <1>3
<1>5. \A i \in DOMAIN s : s[i] \in Versions
  BY <1>2 DEF StreamInv, FetchesType, Versions
<1>6. Versions' = Versions
  BY DEF Versions
<1>7. FetchesType'
  <2>1. Len(s) <= MaxFetches
    BY <1>1, <1>2
  <2> QED
    BY <1>4, <1>5, <1>6, <2>1 DEF StreamInv, FetchesType
<1>8. \E i \in DOMAIN s : s[i] = Unread
  BY <1>2
<1> QED
  BY <1>4, <1>7, <1>8

LEMMA RefreshStep ==
  ASSUME StreamInv, NEW p \in Pages, Opened(p) \/ Message(p) \/ Operate(p)
  PROVE  StreamInv'
<1>1. UNCHANGED <<version, signals, token, shown, newest, failed, overtaken>> /\ Refresh(p)
  BY DEF Opened, Message, Operate, serverVars, pageVars
<1>2. /\ FetchesType'
      /\ \E i \in DOMAIN fetches'[p] : fetches'[p][i] = Unread
      /\ \A q \in Pages : q # p => fetches'[q] = fetches[q]
  BY <1>1, RefreshFacts
<1>3. /\ link' \in [Pages -> {"loading", "connecting", "open", "dead"}]
      /\ \A q \in Pages : q # p => link'[q] = link[q]
      /\ link'[p] = "open" => p \in DOMAIN token
  BY DEF Opened, Message, Operate, StreamInv, StreamTypeOK
<1>4. /\ events' \in [Pages -> 0..MaxEvents]
      /\ \A q \in Pages : q # p => events'[q] = events[q]
  <2>1. events \in [Pages -> 0..MaxEvents] /\ MaxEvents \in Nat
    BY BoardStreamAssumption DEF BoardStreamAssumption, StreamInv, StreamTypeOK
  <2>2. CASE UNCHANGED events
    BY <2>1, <2>2
  <2>3. CASE Message(p)
    <3>1. events[p] \in 0..MaxEvents /\ events[p] > 0 /\ events' = [events EXCEPT ![p] = events[p] - 1]
      BY <2>1, <2>3 DEF Message
    <3>2. events[p] - 1 \in 0..MaxEvents
      BY <2>1, <3>1
    <3> QED
      BY <2>1, <3>1, <3>2, PutOne, Zenon
  <2> QED
    BY <2>2, <2>3 DEF Opened, Operate
<1>5. Apart(p) /\ Heard(p)'
  BY <1>1, <1>2, <1>3, <1>4 DEF Apart, Heard, Coming
<1>6. signals' <= version'
  BY <1>1 DEF StreamInv
<1>7. StreamTypeOK'
  <2>1. \A q \in Pages : /\ Len(fetches'[q]) <= MaxFetches
                         /\ \A i \in DOMAIN fetches'[q] : fetches'[q][i] \in {Unread} \cup 0..version'
    BY <1>2 DEF FetchesType, Versions
  <2> QED
    BY <1>1, <1>3, <1>4, <2>1 DEF StreamInv, StreamTypeOK
<1> QED
  BY <1>1, <1>2, <1>5, <1>6, <1>7, ApartKeeps, StreamInvIs, StreamInvNext

\* handleState answers with the current version.
LEMMA ReadStep ==
  ASSUME StreamInv, NEW p \in Pages, NEW i \in DOMAIN fetches[p], Read(p, i)
  PROVE  StreamInv'
<1>1. /\ UNCHANGED <<version, signals, token, link, events, shown, newest, failed, overtaken>>
      /\ fetches' = [fetches EXCEPT ![p][i] = version]
  BY DEF Read, serverVars, pageVars
<1>2. /\ fetches \in [Pages -> Seq(Int)] /\ fetches[p] \in Seq(Int) /\ version \in Int
      /\ version \in Versions
  BY BoardStreamAssumption DEF BoardStreamAssumption, StreamInv, StreamTypeOK, FetchesType, Versions
<1> DEFINE s == [fetches[p] EXCEPT ![i] = version]
<1>3. s \in Seq(Int) /\ Len(s) = Len(fetches[p]) /\ DOMAIN s = DOMAIN fetches[p]
  BY <1>2
<1>4. s[i] = version /\ \A j \in DOMAIN fetches[p] : j # i => s[j] = fetches[p][j]
  BY <1>2
<1>5. fetches' = [fetches EXCEPT ![p] = s]
  BY <1>1
<1> HIDE DEF s
<1>6. fetches'[p] = s /\ fetches' \in [Pages -> Seq(Int)] /\ \A q \in Pages : q # p => fetches'[q] = fetches[q]
  BY <1>2, <1>3, <1>5
<1>7. Versions' = Versions
  BY <1>1 DEF Versions
<1>8. \A j \in DOMAIN s : s[j] \in Versions
  BY <1>2, <1>3, <1>4 DEF StreamInv, FetchesType
<1>9. FetchesType'
  BY <1>3, <1>6, <1>7, <1>8 DEF StreamInv, FetchesType
<1>10. StreamTypeOK' /\ signals' <= version'
  BY <1>1, <1>9 DEF StreamInv, StreamTypeOK, FetchesType, Versions
<1>11. Apart(p) /\ Heard(p)'
  <2>1. Heard(p)
    BY StreamInvIs
  <2> QED
    BY <1>1, <1>3, <1>4, <1>6, <2>1 DEF Apart, Heard, Coming
<1> QED
  BY <1>1, <1>9, <1>10, <1>11, ApartKeeps, StreamInvIs, StreamInvNext

\* A fetch that is over, answered or failed, leaves the others under way.
LEMMA DoneFacts ==
  ASSUME StreamInv, NEW p \in Pages, NEW i \in DOMAIN fetches[p], version' = version,
         fetches' = [fetches EXCEPT ![p] = RemoveAt(fetches[p], i)]
  PROVE  /\ FetchesType'
         /\ \A q \in Pages : q # p => fetches'[q] = fetches[q]
         /\ \A j \in DOMAIN fetches[p] : j # i =>
              \E k \in DOMAIN fetches'[p] : fetches'[p][k] = fetches[p][j]
<1>1. /\ fetches \in [Pages -> Seq(Int)] /\ fetches[p] \in Seq(Int)
      /\ Len(fetches[p]) <= MaxFetches /\ MaxFetches \in Nat /\ Len(fetches[p]) \in Nat
      /\ \A j \in DOMAIN fetches[p] : fetches[p][j] \in Versions
  BY BoardStreamAssumption DEF BoardStreamAssumption, StreamInv, FetchesType
<1> DEFINE s == RemoveAt(fetches[p], i)
<1>2. /\ s \in Seq(Int) /\ Len(s) = Len(fetches[p]) - 1
      /\ \A k \in DOMAIN s : \E j \in DOMAIN fetches[p] : s[k] = fetches[p][j]
      /\ \A j \in DOMAIN fetches[p] : j # i => \E k \in DOMAIN s : s[k] = fetches[p][j]
  BY <1>1, RemoveAtInts
<1>3. fetches' = [fetches EXCEPT ![p] = s]
  OBVIOUS
<1> HIDE DEF s
<1>4. fetches'[p] = s /\ fetches' \in [Pages -> Seq(Int)] /\ \A q \in Pages : q # p => fetches'[q] = fetches[q]
  BY <1>1, <1>2, <1>3
<1>5. \A k \in DOMAIN s : s[k] \in Versions
  BY <1>1, <1>2
<1>6. Len(s) <= MaxFetches
  BY <1>1, <1>2
<1>7. Versions' = Versions
  BY DEF Versions
<1>8. FetchesType'
  BY <1>4, <1>5, <1>6, <1>7 DEF StreamInv, FetchesType
<1> QED
  BY <1>2, <1>4, <1>8

\* The page shows what a fetch brought; the newest it was given does not go back.
LEMMA ReplyStep ==
  ASSUME StreamInv, NEW p \in Pages, NEW i \in DOMAIN fetches[p], Reply(p, i)
  PROVE  StreamInv'
<1> DEFINE v == fetches[p][i]
<1>1. /\ UNCHANGED <<version, signals, token, events, failed>>
      /\ fetches' = [fetches EXCEPT ![p] = RemoveAt(fetches[p], i)]
      /\ v # Unread
  BY DEF Reply, serverVars
<1>2. /\ FetchesType'
      /\ \A q \in Pages : q # p => fetches'[q] = fetches[q]
      /\ \A j \in DOMAIN fetches[p] : j # i =>
           \E k \in DOMAIN fetches'[p] : fetches'[p][k] = fetches[p][j]
  BY <1>1, DoneFacts
<1>3. v \in 0..version /\ version \in Nat /\ v \in {Unread} \cup 0..version
  BY <1>1 DEF StreamInv, FetchesType, Versions, StreamTypeOK
<1>4. newest[p] \in {Unread} \cup 0..version /\ Unread = -1
  BY DEF StreamInv, StreamTypeOK, Unread
<1>5. /\ shown' = [shown EXCEPT ![p] = v]
      /\ newest' = [newest EXCEPT ![p] = IF v > newest[p] THEN v ELSE newest[p]]
      /\ overtaken' = [overtaken EXCEPT ![p] = overtaken[p] \/ v < newest[p]]
      /\ link' = [link EXCEPT ![p] = IF link[p] = "loading" THEN "connecting" ELSE link[p]]
  BY DEF Reply
<1> HIDE DEF v
<1>6. shown' \in [Pages -> {Unread} \cup 0..version']
  BY <1>1, <1>3, <1>5 DEF StreamInv, StreamTypeOK
<1>7. /\ newest' \in [Pages -> {Unread} \cup 0..version']
      /\ \A q \in Pages : q # p => newest'[q] = newest[q]
      /\ newest'[p] = IF v > newest[p] THEN v ELSE newest[p]
  BY <1>1, <1>3, <1>5 DEF StreamInv, StreamTypeOK
<1>8. overtaken' \in [Pages -> BOOLEAN]
  <2>1. (overtaken[p] \/ v < newest[p]) \in BOOLEAN
    OBVIOUS
  <2>2. overtaken \in [Pages -> BOOLEAN]
    BY DEF StreamInv, StreamTypeOK
  <2> DEFINE o == overtaken[p] \/ v < newest[p]
  <2>3. o \in BOOLEAN /\ overtaken' = [overtaken EXCEPT ![p] = o]
    BY <1>5, <2>1
  <2> HIDE DEF o
  <2> QED
    BY <2>2, <2>3
<1>9. /\ link' \in [Pages -> {"loading", "connecting", "open", "dead"}]
      /\ \A q \in Pages : q # p => link'[q] = link[q]
      /\ link'[p] = "open" => link[p] = "open"
  BY <1>5 DEF StreamInv, StreamTypeOK
<1>10. StreamTypeOK' /\ signals' <= version'
  BY <1>1, <1>2, <1>6, <1>7, <1>8, <1>9 DEF StreamInv, StreamTypeOK, FetchesType, Versions
<1>11. Apart(p)
  BY <1>1, <1>2, <1>7, <1>9 DEF Apart
\* The answer is either the current version, or the page has another hope.
<1>12. ASSUME Coming(p) PROVE Coming(p)'
  <2>1. CASE newest[p] = version
    <3>1. newest'[p] = version'
      BY <1>1, <1>3, <1>4, <1>7, <2>1
    <3> QED
      BY <3>1 DEF Coming
  <2>2. CASE \E j \in DOMAIN fetches[p] : fetches[p][j] \in {Unread, version}
    <3>1. PICK j \in DOMAIN fetches[p] : fetches[p][j] \in {Unread, version}
      BY <2>2
    <3>2. CASE j = i
      <4>1. v = version
        BY <1>1, <3>1, <3>2 DEF v
      <4>2. newest'[p] = version'
        BY <1>1, <1>3, <1>4, <1>7, <4>1
      <4> QED
        BY <4>2 DEF Coming
    <3>3. CASE j # i
      <4>1. \E k \in DOMAIN fetches'[p] : fetches'[p][k] = fetches[p][j]
        BY <1>2, <3>3
      <4> QED
        BY <1>1, <3>1, <4>1 DEF Coming, Unread
    <3> QED
      BY <3>2, <3>3
  <2>3. CASE events[p] > 0 \/ (p \in DOMAIN token /\ token[p] > 0) \/ signals > 0
    BY <1>1, <2>3 DEF Coming
  <2> QED
    BY <1>12, <2>1, <2>2, <2>3 DEF Coming
<1>13. Heard(p)'
  <2>1. Heard(p)
    BY StreamInvIs
  <2> QED
    BY <1>1, <1>9, <1>12, <2>1 DEF Heard
<1> QED
  BY <1>1, <1>2, <1>10, <1>11, <1>13, ApartKeeps, StreamInvIs, StreamInvNext

\* A page one of whose fetches failed is promised nothing more.
LEMMA FetchFailsStep ==
  ASSUME StreamInv, NEW p \in Pages, NEW i \in DOMAIN fetches[p], FetchFails(p, i)
  PROVE  StreamInv'
<1>1. /\ UNCHANGED <<version, signals, token, events, shown, newest, overtaken>>
      /\ fetches' = [fetches EXCEPT ![p] = RemoveAt(fetches[p], i)]
  BY DEF FetchFails, serverVars
<1>2. FetchesType' /\ \A q \in Pages : q # p => fetches'[q] = fetches[q]
  BY <1>1, DoneFacts
<1>3. /\ failed' \in [Pages -> BOOLEAN] /\ failed'[p] = TRUE
      /\ \A q \in Pages : q # p => failed'[q] = failed[q]
  BY DEF FetchFails, StreamInv, StreamTypeOK
<1>4. /\ link' \in [Pages -> {"loading", "connecting", "open", "dead"}]
      /\ \A q \in Pages : q # p => link'[q] = link[q]
      /\ link'[p] = "open" => link[p] = "open"
  BY DEF FetchFails, StreamInv, StreamTypeOK
<1>5. StreamTypeOK' /\ signals' <= version'
  BY <1>1, <1>2, <1>3, <1>4 DEF StreamInv, StreamTypeOK, FetchesType, Versions
<1>6. Apart(p)
  BY <1>1, <1>2, <1>3, <1>4 DEF Apart
<1>7. Heard(p)'
  <2>1. Heard(p)
    BY StreamInvIs
  <2> QED
    BY <1>1, <1>3, <1>4, <2>1 DEF Heard
<1> QED
  BY <1>1, <1>2, <1>5, <1>6, <1>7, ApartKeeps, StreamInvIs, StreamInvNext

LEMMA StreamInvStep == StreamInv /\ [StreamNext]_streamVars => StreamInv'
<1> SUFFICES ASSUME StreamInv, [StreamNext]_streamVars PROVE StreamInv'
  OBVIOUS
<1>1. CASE Commit
  BY <1>1, CommitStep
<1>2. CASE Broadcast
  BY <1>2, BroadcastStep
<1>3. CASE \E p \in Pages : Stream(p) \/ Operate(p) \/ Disconnect(p)
  BY <1>3, ConnectionStep, RefreshStep DEF Stream
<1>4. CASE \E p \in Pages : Fetch(p)
  <2>1. PICK p \in Pages : \E i \in DOMAIN fetches[p] : Read(p, i) \/ Reply(p, i)
    BY <1>4 DEF Fetch
  <2> QED
    BY <2>1, ReadStep, ReplyStep
<1>5. CASE \E p \in Pages : \E i \in DOMAIN fetches[p] : FetchFails(p, i)
  BY <1>5, FetchFailsStep
<1>6. CASE UNCHANGED streamVars
  BY <1>6
  DEF StreamInv, StreamTypeOK, FetchesType, Versions, EveryChangeComes, streamVars, serverVars, pageVars
<1> QED
  BY <1>1, <1>2, <1>3, <1>4, <1>5, <1>6 DEF StreamNext

\* The stream's variables keep their types, a connected page has its channel, and
\* no change is lost on its way: what handleEvents, broadcast and the page do to
\* version, token, events and fetches.
THEOREM StreamInvariant == StreamSpec => []StreamInv
<1> QED
  BY StreamInitInv, StreamInvStep, PTL DEF StreamSpec

\* Every change reaches every connected page none of whose fetches failed, or is
\* still under way to it, however many pages and changes there are
\* (signalChange, broadcast, handleEvents and the page's refresh).
THEOREM StreamEveryChange == StreamSpec => []EveryChangeComes
<1>1. StreamInv => EveryChangeComes
  BY DEF StreamInv
<1> QED
  BY <1>1, StreamInvariant, PTL
=============================================================================
