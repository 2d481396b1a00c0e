-------------------------- MODULE DispatcherProofs --------------------------
(***************************************************************************)
(* The dispatcher's safety properties hold for every set of cards, events, *)
(* Stop and DeleteWorker calls and every inbox capacity, and the           *)
(* dispatcher implements the queue of each card.                           *)
(***************************************************************************)
EXTENDS DispatcherProperties, SequenceTheorems, TLAPS

(***************************************************************************)
(* Two facts about sequences.                                              *)
(***************************************************************************)

LEMMA ConcatAppend ==
  ASSUME NEW S, NEW s \in Seq(S), NEW t \in Seq(S), NEW x \in S
  PROVE  s \o Append(t, x) = Append(s \o t, x)
BY AppendIsConcat, ConcatAssociative, ConcatProperties, IsASeq

LEMMA ConcatHeadTail ==
  ASSUME NEW S, NEW s \in Seq(S), NEW t \in Seq(S), t # <<>>
  PROVE  Append(s, Head(t)) \o Tail(t) = s \o t
<1> DEFINE l == Append(s, Head(t)) \o Tail(t)
           r == s \o t
<1>1. Head(t) = t[1] /\ Head(t) \in S /\ Tail(t) \in Seq(S) /\ Len(t) >= 1 /\ Len(Tail(t)) = Len(t) - 1
  OBVIOUS
<1>2. \A i \in 1..Len(Tail(t)) : Tail(t)[i] = t[i + 1]
  BY HeadTailProperties
<1>3. l \in Seq(S) /\ r \in Seq(S) /\ Len(l) = Len(s) + Len(t) /\ Len(r) = Len(s) + Len(t)
  BY <1>1
<1>4. ASSUME NEW i \in 1..Len(l) PROVE l[i] = r[i]
  BY <1>1, <1>2, <1>3
<1>5. QED
  BY <1>3, <1>4, SeqEqual

(***************************************************************************)
(* Type correctness.                                                       *)
(***************************************************************************)

LEMMA TypeInit == Init => TypeOK
<1> SUFFICES ASSUME Init PROVE TypeOK
  OBVIOUS
<1> USE DEF Init, Handles, Closers
<1>1. RegistryType /\ SignalType /\ WorkerType
  <2>1. <<>> \in Seq(Events)
    OBVIOUS
  <2>2. WorkerType
    BY <2>1 DEF WorkerType, WorkerPc
  <2>3. QED
    BY <2>2 DEF RegistryType, SignalType
<1>2. EventType /\ CloserType
  BY DEF EventType, EventPc, CloserType, CloserPc
<1>3. InboxType
  <2>1. \A h \in Handles : inbox[h] = <<>> /\ Len(inbox[h]) = 0
    OBVIOUS
  <2>2. QED
    BY <2>1, DispatcherAssumption DEF InboxType, DispatcherAssumption
<1>4. QED
  BY <1>1, <1>2, <1>3 DEF TypeOK

\* A group of variables that does not change keeps its type.
LEMMA TypeFrame ==
  /\ RegistryType /\ UNCHANGED registryVars => RegistryType'
  /\ InboxType /\ UNCHANGED inbox => InboxType'
  /\ SignalType /\ UNCHANGED signal => SignalType'
  /\ WorkerType /\ UNCHANGED workerVars => WorkerType'
  /\ EventType /\ UNCHANGED eventVars => EventType'
  /\ CloserType /\ UNCHANGED closerVars => CloserType'
<1>1. RegistryType /\ UNCHANGED registryVars => RegistryType'
  BY DEF RegistryType, registryVars
<1>2. InboxType /\ UNCHANGED inbox => InboxType'
  BY DEF InboxType
<1>3. SignalType /\ UNCHANGED signal => SignalType'
  BY DEF SignalType
<1>4. WorkerType /\ UNCHANGED workerVars => WorkerType'
  BY DEF WorkerType, workerVars
<1>5. EventType /\ UNCHANGED eventVars => EventType'
  BY DEF EventType, eventVars
<1>6. CloserType /\ UNCHANGED closerVars => CloserType'
  BY DEF CloserType, closerVars
<1>7. QED
  BY <1>1, <1>2, <1>3, <1>4, <1>5, <1>6

LEMMA TypeDispatchStep ==
  ASSUME TypeOK, NEW e \in Events, DispatchStep(e), HasTarget
  PROVE  TypeOK'
<1> USE TypeFrame DEF TypeOK
<1>1. ASSUME NEW r \in Routes, Dispatch(e, r)
      PROVE  TypeOK'
  <2>1. EventType'
    BY <1>1 DEF Dispatch, EventType, EventPc, Routes
  <2>2. QED
    BY <1>1, <2>1 DEF Dispatch
<1>2. CASE LookupWorker(e)
  <2>1. EventType'
    BY <1>2 DEF LookupWorker, EventType, EventPc
  <2>2. QED
    BY <1>2, <2>1 DEF LookupWorker
<1>3. CASE EnqueueStopped(e)
  <2>1. EventType'
    BY <1>3 DEF EnqueueStopped, EventType, EventPc
  <2>2. QED
    BY <1>3, <2>1 DEF EnqueueStopped
<1>4. CASE Enqueue(e)
  <2> DEFINE c == CardOf[e]
             h == IF workers[c] = NoHandle THEN e ELSE workers[c]
  <2>1. c \in Cards /\ h \in Handles
    BY DispatcherAssumption DEF DispatcherAssumption, RegistryType, Handles
  <2>2. RegistryType'
    BY <1>4, <2>1 DEF Enqueue, RegistryType
  <2>3. EventType'
    BY <1>4, <2>1 DEF Enqueue, EventType, EventPc
  <2>4. WorkerType'
    BY <1>4 DEF Enqueue, WorkerType, WorkerPc, Handles
  <2>5. QED
    BY <1>4, <2>2, <2>3, <2>4 DEF Enqueue
<1>5. CASE Push(e)
  <2>1. target[e] \in Handles
    BY <1>5 DEF Push, HasTarget
  <2>2. InboxType'
    BY <1>5, <2>1, DispatcherAssumption DEF Push, InboxType, DispatcherAssumption
  <2>3. EventType'
    BY <1>5 DEF Push, EventType, EventPc
  <2>4. QED
    BY <1>5, <2>2, <2>3 DEF Push
<1>6. CASE PushKilled(e)
  <2>1. EventType'
    BY <1>6 DEF PushKilled, EventType, EventPc
  <2>2. QED
    BY <1>6, <2>1 DEF PushKilled
<1>7. CASE PushTimeout(e)
  <2>1. EventType'
    BY <1>7 DEF PushTimeout, EventType, EventPc
  <2>2. QED
    BY <1>7, <2>1 DEF PushTimeout
<1>8. QED
  BY <1>1, <1>2, <1>3, <1>4, <1>5, <1>6, <1>7 DEF DispatchStep

LEMMA TypeWorkerStep ==
  ASSUME TypeOK, NEW h \in Handles, WorkerStep(h)
  PROVE  TypeOK'
<1> USE TypeFrame DEF TypeOK, Goto
<1>1. CASE Receive(h)
  <2>1. inbox[h] \in Seq(Events) /\ inbox[h] # <<>>
    BY <1>1 DEF Receive, InboxType
  <2>2. InboxType'
    BY <1>1, <2>1, DispatcherAssumption DEF Receive, InboxType, DispatcherAssumption
  <2>3. taken' \in [Handles -> Seq(Events)]
    BY <1>1, <2>1 DEF Receive, WorkerType
  <2>4. wpc' \in [Handles -> WorkerPc]
    BY <1>1 DEF Receive, WorkerType, WorkerPc
  <2>5. WorkerType'
    BY <1>1, <2>3, <2>4 DEF Receive, WorkerType
  <2>6. QED
    BY <1>1, <2>2, <2>5 DEF Receive
<1>2. CASE SeeKill(h)
  <2>1. WorkerType'
    BY <1>2 DEF SeeKill, WorkerType, WorkerPc
  <2>2. QED
    BY <1>2, <2>1 DEF SeeKill
<1>3. CASE IdleReap(h)
  <2>1. WorkerType'
    BY <1>3 DEF IdleReap, WorkerType
  <2>2. QED
    BY <1>3, <2>1 DEF IdleReap
<1>4. CASE Prepare(h)
  <2>1. WorkerType'
    BY <1>4 DEF Prepare, WorkerType, WorkerPc
  <2>2. QED
    BY <1>4, <2>1 DEF Prepare
<1>4a. CASE RecordWorkDir(h)
  <2>1. WorkerType'
    BY <1>4a DEF RecordWorkDir, WorkerType, WorkerPc
  <2>2. QED
    BY <1>4a, <2>1 DEF RecordWorkDir
<1>5. CASE CreateSession(h)
  <2>1. WorkerType'
    BY <1>5 DEF CreateSession, WorkerType, WorkerPc
  <2>2. QED
    BY <1>5, <2>1 DEF CreateSession
<1>6. CASE NewSessionFails(h)
  <2>1. WorkerType'
    BY <1>6 DEF NewSessionFails, WorkerType, WorkerPc
  <2>2. QED
    BY <1>6, <2>1 DEF NewSessionFails
<1>7. CASE SendOk(h)
  <2>1. WorkerType'
    BY <1>7 DEF SendOk, WorkerType, WorkerPc
  <2>2. QED
    BY <1>7, <2>1 DEF SendOk
<1>8. CASE SendFails(h)
  <2>1. WorkerType'
    BY <1>8 DEF SendFails, WorkerType, WorkerPc
  <2>2. QED
    BY <1>8, <2>1 DEF SendFails
<1>9. CASE Disconnect(h)
  <2>1. WorkerType'
    BY <1>9 DEF Disconnect, WorkerType, WorkerPc
  <2>2. QED
    BY <1>9, <2>1 DEF Disconnect
<1>10. CASE Deregister(h)
  <2>1. WorkerType'
    BY <1>10 DEF Deregister, WorkerType, WorkerPc
  <2>2. RegistryType'
    BY <1>10 DEF Deregister, RegistryType
  <2>3. QED
    BY <1>10, <2>1, <2>2 DEF Deregister
<1>11. CASE CloseDone(h)
  <2>1. WorkerType'
    BY <1>11 DEF CloseDone, WorkerType, WorkerPc
  <2>2. QED
    BY <1>11, <2>1 DEF CloseDone
<1>12. CASE AgentRemovesWorkDir(h)
  <2>1. WorkerType'
    BY <1>12 DEF AgentRemovesWorkDir, WorkerType
  <2>2. QED
    BY <1>12, <2>1 DEF AgentRemovesWorkDir
<1>13. QED
  BY <1>1, <1>2, <1>3, <1>4, <1>4a, <1>5, <1>6, <1>7, <1>8, <1>9, <1>10, <1>11, <1>12
  DEF WorkerStep, LoopStep, NewSession, SendAndWait, ExitStep

LEMMA TypeCloserStep ==
  ASSUME TypeOK, NEW k \in Closers, CloserStep(k)
  PROVE  TypeOK'
<1> USE TypeFrame DEF TypeOK
<1>1. CASE Stop(k)
  <2>1. Registered \in SUBSET Handles
    BY DEF Registered, RegistryType
  <2>2. CloserType'
    <3>1. kpc' \in [Closers -> CloserPc]
      BY <1>1 DEF Stop, CloserType, CloserPc
    <3>2. held' \in [Closers -> SUBSET Handles] /\ todo' \in [Closers -> SUBSET Handles]
      BY <1>1, <2>1 DEF Stop, CloserType
    <3>3. QED
      BY <1>1, <3>1, <3>2 DEF Stop, CloserType
  <2>3. RegistryType'
    BY <1>1 DEF Stop, RegistryType
  <2>4. QED
    BY <1>1, <2>2, <2>3 DEF Stop
<1>2. CASE k \in Deleters /\ DeleteWorker(k)
  <2>0. CardOf[k] \in Cards
    BY <1>2, DispatcherAssumption DEF DispatcherAssumption
  <2>1. workers[CardOf[k]] # NoHandle => {workers[CardOf[k]]} \in SUBSET Handles
    BY <2>0 DEF RegistryType
  <2>2. CloserType'
    <3>1. kpc' \in [Closers -> CloserPc]
      BY <1>2 DEF DeleteWorker, CloserType, CloserPc
    <3>2. held' \in [Closers -> SUBSET Handles] /\ todo' \in [Closers -> SUBSET Handles]
      BY <1>2, <2>1 DEF DeleteWorker, CloserType
    <3>3. QED
      BY <1>2, <3>1, <3>2 DEF DeleteWorker, CloserType
  <2>3. RegistryType'
    BY <1>2 DEF DeleteWorker, RegistryType
  <2>4. QED
    BY <1>2, <2>2, <2>3 DEF DeleteWorker
<1>3. CASE Snapshot(k)
  <2>1. CloserType'
    BY <1>3 DEF Snapshot, CloserType, CloserPc
  <2>2. QED
    BY <1>3, <2>1 DEF Snapshot
<1>4. CASE RemoveWorkDir(k)
  <2>1. CloserType' /\ WorkerType'
    BY <1>4 DEF RemoveWorkDir, CloserType, CloserPc, WorkerType
  <2>2. QED
    BY <1>4, <2>1 DEF RemoveWorkDir
<1>5. ASSUME NEW h \in Handles, CloseKill(k, h)
      PROVE  TypeOK'
  <2>1. SignalType'
    BY <1>5 DEF CloseKill, SignalType
  <2>2. CloserType'
    BY <1>5 DEF CloseKill, CloserType
  <2>3. QED
    BY <1>5, <2>1, <2>2 DEF CloseKill
<1>6. CASE CancelCtx(k)
  <2>1. SignalType'
    BY <1>6 DEF CancelCtx, SignalType
  <2>2. CloserType'
    BY <1>6 DEF CancelCtx, CloserType
  <2>3. QED
    BY <1>6, <2>1, <2>2 DEF CancelCtx
<1>7. ASSUME NEW h \in Handles, ShutdownTwice(k, h)
      PROVE  TypeOK'
  <2>1. CloserType'
    BY <1>7 DEF ShutdownTwice, CloserType
  <2>2. QED
    BY <1>7, <2>1 DEF ShutdownTwice
<1>8. CASE Await(k)
  <2>1. CloserType'
    BY <1>8 DEF Await, CloserType, CloserPc
  <2>2. QED
    BY <1>8, <2>1 DEF Await
<1>9. QED
  BY <1>1, <1>2, <1>3, <1>4, <1>5, <1>6, <1>7, <1>8 DEF CloserStep, DeleteStep, ShutdownStep

(***************************************************************************)
(* The inductive invariant.                                                *)
(***************************************************************************)

\* The part of IInv about the registry, the workers and the teardown calls.
Core ==
  /\ RegistryLive /\ RegisteredOrTorn
  /\ SessionScope
  /\ CloserScope /\ StopScope

LEMMA CoreFrame ==
  Core /\ UNCHANGED <<registryVars, wpc, session, kpc, held, snap>> => Core'
BY DEF Core, RegistryLive, RegisteredOrTorn, SessionScope, CloserScope,
       StopScope, Running, InLoop, Torn, registryVars

LEMMA FreshFrame ==
  FreshHandle /\ HasTarget /\ UNCHANGED <<wpc, epc, target>> => FreshHandle' /\ HasTarget'
BY DEF FreshHandle, HasTarget

LEMMA LogType ==
  ASSUME TypeOK, NEW h \in Handles
  PROVE  /\ taken[h] \in Seq(Events) /\ inbox[h] \in Seq(Events) /\ Log(h) \in Seq(Events)
         /\ Len(Log(h)) = Len(taken[h]) + Len(inbox[h])
BY DEF TypeOK, InboxType, WorkerType, Log

\* What a worker took is the front of its log.
LEMMA TakenIsLogged ==
  ASSUME TypeOK, NEW h \in Handles, NEW i \in 1..Len(taken[h])
  PROVE  i \in 1..Len(Log(h)) /\ Log(h)[i] = taken[h][i]
<1>1. taken[h] \in Seq(Events) /\ inbox[h] \in Seq(Events)
  BY LogType
<1>2. \A s, t \in Seq(Events) : \A n \in 1..Len(s) : n \in 1..Len(s \o t) /\ (s \o t)[n] = s[n]
  OBVIOUS
<1>3. QED
  BY <1>1, <1>2 DEF Log

\* Logs that keep their contents stay unique while no answer is withdrawn.
LEMMA LogFrame ==
  ASSUME LogUnique,
         \A h \in Handles : Log(h)' = Log(h),
         \A g \in Handles : \A i \in 1..Len(Log(g)) : epc[Log(g)[i]] = "ok" => epc'[Log(g)[i]] = "ok"
  PROVE  LogUnique'
BY DEF LogUnique

LEMMA LogSame ==
  UNCHANGED <<taken, inbox>> => \A h \in Handles : Log(h)' = Log(h)
BY DEF Log

\* Push appends to the log, Receive leaves it as it is.
LEMMA LogAppend ==
  ASSUME TypeOK, NEW h \in Handles, NEW e \in Events
  PROVE  taken[h] \o Append(inbox[h], e) = Append(Log(h), e)
<1>1. taken[h] \in Seq(Events) /\ inbox[h] \in Seq(Events)
  BY LogType
<1>2. QED
  <2>1. \A s \in Seq(Events), t \in Seq(Events) : s \o Append(t, e) = Append(s \o t, e)
    BY ConcatAppend
  <2>2. QED
    BY <1>1, <2>1 DEF Log

LEMMA LogTake ==
  ASSUME TypeOK, NEW h \in Handles, inbox[h] # <<>>
  PROVE  Append(taken[h], Head(inbox[h])) \o Tail(inbox[h]) = Log(h)
<1>1. taken[h] \in Seq(Events) /\ inbox[h] \in Seq(Events)
  BY LogType
<1>2. QED
  BY <1>1, ConcatHeadTail DEF Log

\* Every logged event was answered with success.
LEMMA LogOk ==
  ASSUME TypeOK, LogUnique, NEW h \in Handles, NEW i \in 1..Len(Log(h))
  PROVE  Log(h)[i] \in Events /\ epc[Log(h)[i]] = "ok"
<1>1. Log(h) \in Seq(Events)
  BY LogType
<1>2. QED
  BY <1>1 DEF LogUnique

\* A new worker appears only where none is registered and Stop has not begun.
LEMMA CoreEnqueue ==
  ASSUME IInv, NEW e \in Events, Enqueue(e)
  PROVE  Core'
<1> USE DEF IInv
<1>1. /\ CardOf[e] \in Cards
      /\ wpc[e] = "none"
      /\ ~stopped
      /\ stopped' = stopped
      /\ UNCHANGED <<session, dir, kpc, held, snap>>
  BY DispatcherAssumption DEF Enqueue, DispatcherAssumption, FreshHandle, closerVars
<1>2. CASE workers[CardOf[e]] # NoHandle
  <2>1. workers' = workers /\ wpc' = wpc
    BY <1>2 DEF Enqueue, TypeOK, RegistryType
  <2>2. QED
    BY <2>1, CoreFrame DEF Core, Enqueue, registryVars, closerVars
<1>3. CASE workers[CardOf[e]] = NoHandle
  <2>1. /\ workers' = [workers EXCEPT ![CardOf[e]] = e]
        /\ wpc' = [wpc EXCEPT ![e] = "select"]
    BY <1>3 DEF Enqueue
  <2>2. \A h \in Handles : h # e => wpc'[h] = wpc[h]
    BY <2>1 DEF TypeOK, WorkerType
  <2>3. wpc'[e] = "select" /\ Running(e)'
    BY <2>1 DEF TypeOK, WorkerType, Running, InLoop, Handles
  <2>4. \A c \in Cards : Torn(c)' = Torn(c)
    BY <1>1 DEF Torn
  <2>5. \A h \in Handles : h # e => Running(h)' = Running(h)
    BY <2>2 DEF Running, InLoop
  <2>6. \A h \in Handles : CardOf[h] \in Cards
    BY DispatcherAssumption DEF DispatcherAssumption, Handles
  <2>7. RegistryLive'
    BY <1>1, <2>1, <2>3, <2>5, <2>6 DEF RegistryLive, TypeOK, RegistryType
  <2>8. RegisteredOrTorn'
    BY <1>1, <1>3, <2>1, <2>3, <2>4, <2>5, <2>6, DispatcherAssumption
    DEF RegisteredOrTorn, TypeOK, RegistryType, DispatcherAssumption, Handles
  <2>9. SessionScope'
    BY <1>1, <2>2, <2>3, <2>4, <2>6 DEF SessionScope
  <2>10. CloserScope'
    BY <1>1, <2>2 DEF CloserScope, TypeOK, CloserType
  <2>11. StopScope'
    BY <1>1 DEF StopScope
  <2>12. QED
    BY <2>7, <2>8, <2>9, <2>10, <2>11 DEF Core
<1>4. QED
  BY <1>2, <1>3

\* What may have taken a directory away stays known: a message keeps its route
\* once it is taken, and a finished delete stays finished.
LEMMA GoneFrame ==
  ASSUME NEW h \in Handles, MayBeGone(h), TypeOK, CloserScope,
         \A k \in Closers : kpc[k] = "returned" => kpc'[k] = "returned" /\ snap'[k] = snap[k],
         Torn(CardOf[h]) => Torn(CardOf[h])',
         \A g \in Handles : ToldToClean(g) => ToldToClean(g)'
  PROVE  MayBeGone(h)'
BY DEF MayBeGone, Closers

LEMMA ToldFrame ==
  ASSUME TypeOK, NEW g \in Handles, ToldToClean(g), UNCHANGED route,
         \/ taken'[g] = taken[g]
         \/ \E x \in Events : taken'[g] = Append(taken[g], x)
  PROVE  ToldToClean(g)'
<1>1. taken[g] \in Seq(Events)
  BY LogType
<1>2. CASE taken'[g] = taken[g]
  BY <1>2 DEF ToldToClean
<1>3. ASSUME NEW x \in Events, taken'[g] = Append(taken[g], x)
      PROVE  ToldToClean(g)'
  <2>1. \A i \in 1..Len(taken[g]) : i \in 1..Len(taken'[g]) /\ taken'[g][i] = taken[g][i]
    BY <1>1, <1>3
  <2>2. QED
    BY <2>1 DEF ToldToClean
<1>4. QED
  BY <1>2, <1>3

LEMMA WorkDirDispatchStep ==
  ASSUME IInv, NEW e \in Events, DispatchStep(e)
  PROVE  WorkDirScope'
<1> USE DEF IInv
<1>1. UNCHANGED <<taken, session, dir, closerVars>>
  BY DEF DispatchStep, Dispatch, LookupWorker, EnqueueStopped, Enqueue, Push, PushKilled,
         PushTimeout, workerVars
<1>2. \A h \in Handles : wpc'[h] \in {"clone", "create"} => wpc[h] \in {"clone", "create"}
  <2>1. CASE Enqueue(e)
    BY <2>1 DEF Enqueue, TypeOK, WorkerType
  <2>2. CASE ~Enqueue(e)
    BY <2>2 DEF DispatchStep, Dispatch, LookupWorker, EnqueueStopped, Push, PushKilled,
                PushTimeout, workerVars
  <2>3. QED
    BY <2>1, <2>2
<1>3. \A d \in Events : epc[d] = "ok" => route'[d] = route[d]
  BY DEF DispatchStep, Dispatch, LookupWorker, EnqueueStopped, Enqueue, Push, PushKilled,
         PushTimeout, TypeOK, EventType
<1>4. ASSUME NEW g \in Handles, ToldToClean(g)
      PROVE  ToldToClean(g)'
  <2>1. \A i \in 1..Len(taken[g]) : epc[taken[g][i]] = "ok" /\ taken[g][i] \in Events
    BY TakenIsLogged, LogOk, LogType
  <2>2. QED
    BY <1>1, <1>3, <1>4, <2>1 DEF ToldToClean
<1>5. \A h \in Handles : MayBeGone(h) => MayBeGone(h)'
  BY <1>1, <1>4, GoneFrame DEF closerVars, Torn
<1>6. QED
  BY <1>1, <1>2, <1>5 DEF WorkDirScope

LEMMA IInvDispatchStep ==
  ASSUME IInv, NEW e \in Events, DispatchStep(e)
  PROVE  IInv'
<1>1. TypeOK'
  BY TypeDispatchStep DEF IInv
<1>2. Core'
  <2>1. CASE Enqueue(e)
    BY <2>1, CoreEnqueue
  <2>2. CASE ~Enqueue(e)
    <3>1. UNCHANGED <<registryVars, wpc, session, dir, closerVars>>
      BY <2>2 DEF DispatchStep, Dispatch, LookupWorker, EnqueueStopped, Push, PushKilled,
                  PushTimeout, workerVars
    <3>2. QED
      BY <3>1, CoreFrame DEF IInv, Core, closerVars
  <2>3. QED
    BY <2>1, <2>2
<1>3. FreshHandle' /\ HasTarget'
  <2>1. CASE Enqueue(e)
    <3>1. epc' = [epc EXCEPT ![e] = "push"] /\ epc[e] = "enqueue"
      BY <2>1 DEF Enqueue
    <3>2. \A h \in Handles : h # e => wpc'[h] = wpc[h]
      BY <2>1 DEF Enqueue, IInv, TypeOK, WorkerType
    <3>3. CardOf[e] \in Cards
      BY DispatcherAssumption DEF DispatcherAssumption
    <3>4. target'[e] \in Handles /\ \A d \in Events : d # e => target'[d] = target[d]
      BY <2>1, <3>3 DEF Enqueue, IInv, TypeOK, EventType, RegistryType, Handles
    <3>5. QED
      BY <3>1, <3>2, <3>4 DEF IInv, TypeOK, EventType, FreshHandle, HasTarget, Handles
  <2>2. CASE ~Enqueue(e)
    BY <2>2 DEF IInv, TypeOK, EventType, FreshHandle, HasTarget, workerVars, Routes,
                DispatchStep, Dispatch, LookupWorker, EnqueueStopped, Push, PushKilled, PushTimeout
  <2>3. QED
    BY <2>1, <2>2
<1>4. LogUnique'
  <2>1. CASE Push(e)
    <3>1. PICK t \in Handles : t = target[e]
      BY <2>1 DEF Push, IInv, HasTarget
    <3>2. inbox' = [inbox EXCEPT ![t] = Append(inbox[t], e)] /\ taken' = taken
      BY <2>1, <3>1 DEF Push, workerVars
    <3>3. \A h \in Handles : h # t => Log(h)' = Log(h)
      BY <3>1, <3>2 DEF Log, IInv, TypeOK, InboxType
    <3>4. Log(t)' = Append(Log(t), e)
      <4>1. Log(t)' = taken[t] \o Append(inbox[t], e)
        BY <3>1, <3>2 DEF Log, IInv, TypeOK, InboxType
      <4>2. QED
        BY <4>1, LogAppend DEF IInv
    <3>5. \A h \in Handles : \A i \in 1..Len(Log(h)) : Log(h)[i] # e
      BY <2>1, LogOk DEF Push, IInv
    <3>6. epc' = [epc EXCEPT ![e] = "ok"] /\ epc \in [Events -> EventPc]
      BY <2>1 DEF Push, IInv, TypeOK, EventType
    <3>7. \A h \in Handles : Log(h) \in Seq(Events)
      BY LogType DEF IInv
    <3>8. /\ Len(Log(t)') = Len(Log(t)) + 1
          /\ Log(t)'[Len(Log(t)) + 1] = e
          /\ \A i \in 1..Len(Log(t)) : Log(t)'[i] = Log(t)[i]
      BY <3>1, <3>4, <3>7
    <3>9. ASSUME NEW g \in Handles, NEW i \in 1..Len(Log(g)')
          PROVE  IF g = t /\ i = Len(Log(t)) + 1
                 THEN Log(g)'[i] = e
                 ELSE i \in 1..Len(Log(g)) /\ Log(g)'[i] = Log(g)[i]
      BY <3>1, <3>3, <3>7, <3>8
    <3>10. ASSUME NEW g \in Handles, NEW i \in 1..Len(Log(g)')
           PROVE  epc'[Log(g)'[i]] = "ok"
      BY <3>6, <3>9, LogOk DEF IInv
    <3>11. ASSUME NEW g \in Handles, NEW i \in 1..Len(Log(g)'),
                  NEW h \in Handles, NEW j \in 1..Len(Log(h)'),
                  Log(g)'[i] = Log(h)'[j]
           PROVE  g = h /\ i = j
      <4> DEFINE Last(f, n) == f = t /\ n = Len(Log(t)) + 1
      <4>1. CASE Last(g, i) /\ Last(h, j)
        BY <4>1
      <4>2. CASE Last(g, i) /\ ~Last(h, j)
        BY <4>2, <3>5, <3>9, <3>11
      <4>3. CASE ~Last(g, i) /\ Last(h, j)
        BY <4>3, <3>5, <3>9, <3>11
      <4>4. CASE ~Last(g, i) /\ ~Last(h, j)
        <5>1. /\ i \in 1..Len(Log(g)) /\ j \in 1..Len(Log(h))
              /\ Log(g)[i] = Log(h)[j]
          BY <4>4, <3>9, <3>11
        <5>2. QED
          BY <5>1 DEF LogUnique, IInv
      <4>5. QED
        BY <4>1, <4>2, <4>3, <4>4
    <3>12. QED
      BY <3>10, <3>11 DEF LogUnique
  <2>2. CASE ~Push(e)
    <3>1. UNCHANGED <<taken, inbox>>
      BY <2>2 DEF DispatchStep, Dispatch, LookupWorker, EnqueueStopped, Enqueue, PushKilled,
                  PushTimeout, workerVars
    <3>2. \A d \in Events : epc[d] = "ok" => epc'[d] = "ok"
      BY <2>2 DEF DispatchStep, Dispatch, LookupWorker, EnqueueStopped, Enqueue, PushKilled,
                  PushTimeout, IInv, TypeOK, EventType
    <3>3. QED
      BY <3>1, <3>2, LogFrame, LogSame, LogOk DEF IInv
  <2>3. QED
    BY <2>1, <2>2
<1>5. WorkDirScope'
  BY WorkDirDispatchStep
<1>6. QED
  BY <1>1, <1>2, <1>3, <1>4, <1>5 DEF IInv, Core

\* While the same workers run, the registry and Stop see no difference.
LEMMA RunningFrame ==
  ASSUME RegistryLive, RegisteredOrTorn, StopScope,
         \A g \in Handles : Running(g)' = Running(g),
         UNCHANGED <<registryVars, closerVars>>, TypeOK
  PROVE  RegistryLive' /\ RegisteredOrTorn' /\ StopScope'
<1>1. \A c \in Cards : Torn(c)' = Torn(c)
  BY DEF Torn, closerVars
<1>2. \A g \in Handles : CardOf[g] \in Cards
  BY DispatcherAssumption DEF DispatcherAssumption, Handles
<1>3. RegistryLive'
  BY DEF RegistryLive, TypeOK, RegistryType, registryVars
<1>4. RegisteredOrTorn'
  BY <1>1, <1>2 DEF RegisteredOrTorn, registryVars
<1>5. StopScope'
  BY <1>1, <1>2 DEF StopScope, registryVars, closerVars
<1>6. QED
  BY <1>3, <1>4, <1>5

LEMMA DoneFrame ==
  ASSUME CloserScope, TypeOK, UNCHANGED closerVars,
         \A g \in Handles : wpc[g] = "done" => wpc'[g] = "done"
  PROVE  CloserScope'
BY DEF CloserScope, TypeOK, CloserType, closerVars

\* A worker that goes from one place to another leaves the others where they are.
LEMMA GotoOnly ==
  ASSUME TypeOK, NEW h \in Handles, NEW from, NEW to, Goto(h, from, to)
  PROVE  /\ wpc[h] = from /\ wpc'[h] = to
         /\ \A g \in Handles : g # h => wpc'[g] = wpc[g]
BY DEF Goto, TypeOK, WorkerType

\* The steps of a running worker before its deferred deregister.
EarlyStep(h) ==
  \/ LoopStep(h) \/ IdleReap(h) \/ NewSession(h) \/ SendAndWait(h)
  \/ AgentRemovesWorkDir(h) \/ Disconnect(h)

LEMMA EarlyStepRuns ==
  ASSUME TypeOK, SessionScope, NEW h \in Handles, EarlyStep(h)
  PROVE  /\ Running(h) /\ Running(h)'
         /\ wpc[h] \notin {"none", "done"}
         /\ \A g \in Handles : g # h => wpc'[g] = wpc[g]
         /\ UNCHANGED <<registryVars, eventVars, closerVars>>
<1> USE GotoOnly DEF Running, InLoop
<1>1. CASE Receive(h)
  BY <1>1 DEF Receive
<1>2. CASE SeeKill(h)
  BY <1>2 DEF SeeKill
<1>3. CASE IdleReap(h)
  BY <1>3 DEF IdleReap
<1>4. CASE Prepare(h)
  BY <1>4 DEF Prepare
<1>4a. CASE RecordWorkDir(h)
  BY <1>4a DEF RecordWorkDir
<1>5. CASE CreateSession(h)
  BY <1>5 DEF CreateSession
<1>6. CASE NewSessionFails(h)
  BY <1>6 DEF NewSessionFails
<1>7. CASE SendOk(h)
  BY <1>7 DEF SendOk
<1>8. CASE SendFails(h)
  BY <1>8 DEF SendFails
<1>9. CASE Disconnect(h)
  BY <1>9 DEF Disconnect
<1>10. CASE AgentRemovesWorkDir(h)
  BY <1>10 DEF AgentRemovesWorkDir, SessionScope
<1>11. QED
  BY <1>1, <1>2, <1>3, <1>4, <1>4a, <1>5, <1>6, <1>7, <1>8, <1>9, <1>10
  DEF EarlyStep, LoopStep, NewSession, SendAndWait

LEMMA EarlyStepScopes ==
  ASSUME TypeOK, SessionScope, NEW h \in Handles, EarlyStep(h)
  PROVE  SessionScope'
<1>1. \A g \in Handles : g # h => wpc'[g] = wpc[g]
  BY EarlyStepRuns
<1> USE <1>1, GotoOnly DEF SessionScope, TypeOK, WorkerType
<1>4. CASE Receive(h)
  <2>1. /\ wpc[h] = "select"
        /\ wpc'[h] = IF session[h] THEN "send" ELSE "prepare"
        /\ session' = session
    BY <1>4 DEF Receive
  <2>2. QED
    BY <2>1
<1>5. CASE SeeKill(h)
  BY <1>5 DEF SeeKill
<1>6. CASE IdleReap(h)
  <2>1. /\ wpc' = wpc
        /\ \A g \in Handles : session'[g] => session[g]
    BY <1>6 DEF IdleReap
  <2>2. QED
    BY <2>1
<1>7. CASE Prepare(h)
  <2>1. wpc[h] = "prepare" /\ wpc'[h] = "clone" /\ session' = session
    BY <1>7 DEF Prepare
  <2>2. QED
    BY <2>1
<1>7a. CASE RecordWorkDir(h)
  <2>1. wpc'[h] = "create" /\ wpc[h] = "clone" /\ session' = session
    BY <1>7a DEF RecordWorkDir
  <2>2. QED
    BY <2>1
<1>8. CASE CreateSession(h)
  <2>1. /\ wpc[h] = "create" /\ wpc'[h] = "send"
        /\ session' = [session EXCEPT ![h] = TRUE]
    BY <1>8 DEF CreateSession
  <2>2. QED
    BY <2>1
<1>9. CASE NewSessionFails(h)
  <2>1. wpc'[h] = "disconnect" /\ wpc[h] \in {"prepare", "create"} /\ session' = session
    BY <1>9 DEF NewSessionFails
  <2>2. QED
    BY <2>1
<1>10. CASE SendOk(h)
  <2>1. wpc[h] = "send" /\ wpc'[h] \in {"disconnect", "select"} /\ session' = session
    BY <1>10 DEF SendOk
  <2>2. QED
    BY <2>1
<1>11. CASE SendFails(h)
  <2>1. wpc[h] = "send" /\ wpc'[h] \in {"disconnect", "select"} /\ session' = session
    BY <1>11 DEF SendFails
  <2>2. QED
    BY <2>1
<1>12. CASE Disconnect(h)
  <2>1. /\ wpc[h] = "disconnect" /\ wpc'[h] = "deregister"
        /\ session' = [session EXCEPT ![h] = FALSE]
    BY <1>12 DEF Disconnect
  <2>2. QED
    BY <2>1
<1>13. CASE AgentRemovesWorkDir(h)
  BY <1>13 DEF AgentRemovesWorkDir
<1>14. QED
  BY <1>13, <1>4, <1>5, <1>6, <1>7, <1>7a, <1>8, <1>9, <1>10, <1>11, <1>12
  DEF EarlyStep, LoopStep, NewSession, SendAndWait

\* The deferred deregister runs before the worker counts as finished, and while
\* its card's entry still holds it or a delete emptied it.
LEMMA CoreDeregister ==
  ASSUME IInv, NEW h \in Handles, Deregister(h)
  PROVE  Core'
<1> DEFINE c == CardOf[h]
<1> USE DEF IInv
<1>1. /\ c \in Cards
      /\ \A g \in Handles : CardOf[g] \in Cards
      /\ NoHandle \notin Handles
  BY DispatcherAssumption DEF DispatcherAssumption, Handles
<1>2. /\ wpc[h] = "deregister" /\ wpc'[h] = "close"
      /\ \A g \in Handles : g # h => wpc'[g] = wpc[g]
  BY GotoOnly DEF Deregister
<1>3. /\ workers' = [workers EXCEPT ![c] = NoHandle]
      /\ UNCHANGED <<stopped, session, dir, kpc, held, snap>>
  BY DEF Deregister, closerVars
<1>4. \A d \in Cards : Torn(d)' = Torn(d)
  BY <1>3 DEF Torn
<1>5. /\ Running(h) /\ ~Running(h)'
      /\ \A g \in Handles : g # h => Running(g)' = Running(g)
  BY <1>2 DEF Running, InLoop
<1>6. workers[c] = h \/ Torn(c)
  BY <1>5 DEF RegisteredOrTorn
<1>7. RegistryLive'
  BY <1>1, <1>3, <1>5 DEF RegistryLive, TypeOK, RegistryType
<1>8. RegisteredOrTorn'
  <2> SUFFICES ASSUME NEW g \in Handles, Running(g)'
               PROVE  workers'[CardOf[g]] = g \/ Torn(CardOf[g])'
    BY DEF RegisteredOrTorn
  <2>1. g # h /\ Running(g)
    BY <1>5
  <2>2. workers[CardOf[g]] = g \/ Torn(CardOf[g])
    BY <2>1 DEF RegisteredOrTorn
  <2>3. CASE CardOf[g] = c
    BY <1>1, <1>4, <1>6, <2>1, <2>2, <2>3
  <2>4. CASE CardOf[g] # c
    BY <1>1, <1>3, <1>4, <2>2, <2>4 DEF TypeOK, RegistryType
  <2>5. QED
    BY <2>3, <2>4
<1>9. SessionScope'
  BY <1>1, <1>2, <1>3, <1>4 DEF SessionScope
<1>10. CloserScope'
  BY <1>2, <1>3 DEF CloserScope, TypeOK, CloserType
<1>11. StopScope'
  BY <1>1, <1>3, <1>4, <1>5 DEF StopScope
<1>12. QED
  BY <1>7, <1>8, <1>9, <1>10, <1>11 DEF Core

LEMMA CoreCloseDone ==
  ASSUME IInv, NEW h \in Handles, CloseDone(h)
  PROVE  Core'
<1> USE DEF IInv
<1>1. /\ wpc[h] = "close" /\ wpc'[h] = "done"
      /\ \A g \in Handles : g # h => wpc'[g] = wpc[g]
  BY GotoOnly DEF CloseDone
<1>2. UNCHANGED <<registryVars, session, dir, closerVars>>
  BY DEF CloseDone
<1>3. \A g \in Handles : Running(g)' = Running(g)
  BY <1>1 DEF Running, InLoop
<1>4. RegistryLive' /\ RegisteredOrTorn' /\ StopScope'
  BY <1>2, <1>3, RunningFrame
<1>5. CloserScope'
  BY <1>1, <1>2, DoneFrame
<1>6. \A c \in Cards : Torn(c)' = Torn(c)
  BY <1>2 DEF Torn, closerVars
<1>7. SessionScope'
  BY <1>1, <1>2, <1>6, DispatcherAssumption
  DEF SessionScope, DispatcherAssumption, Handles
<1>8. QED
  BY <1>4, <1>5, <1>7 DEF Core

LEMMA CoreEarlyStep ==
  ASSUME IInv, NEW h \in Handles, EarlyStep(h)
  PROVE  Core'
<1> USE DEF IInv
<1>1. /\ Running(h) /\ Running(h)'
      /\ wpc[h] \notin {"none", "done"}
      /\ \A g \in Handles : g # h => wpc'[g] = wpc[g]
      /\ UNCHANGED <<registryVars, eventVars, closerVars>>
  BY EarlyStepRuns
<1>2. \A g \in Handles : Running(g)' = Running(g)
  BY <1>1 DEF Running, InLoop
<1>3. RegistryLive' /\ RegisteredOrTorn' /\ StopScope'
  BY <1>1, <1>2, RunningFrame
<1>4. CloserScope'
  BY <1>1, DoneFrame
<1>5. SessionScope'
  BY EarlyStepScopes
<1>6. QED
  BY <1>3, <1>4, <1>5 DEF Core

\* Receive moves the oldest message to the taken ones; no other step of a worker
\* touches either.
LEMMA LogWorkerStep ==
  ASSUME TypeOK, NEW h \in Handles, WorkerStep(h)
  PROVE  \A g \in Handles : Log(g)' = Log(g)
<1>1. CASE Receive(h)
  <2>1. /\ inbox[h] # <<>>
        /\ taken' = [taken EXCEPT ![h] = Append(taken[h], Head(inbox[h]))]
        /\ inbox' = [inbox EXCEPT ![h] = Tail(inbox[h])]
    BY <1>1 DEF Receive
  <2>2. \A g \in Handles : g # h => Log(g)' = Log(g)
    BY <2>1 DEF Log, TypeOK, WorkerType, InboxType
  <2>3. Log(h)' = Append(taken[h], Head(inbox[h])) \o Tail(inbox[h])
    BY <2>1 DEF Log, TypeOK, WorkerType, InboxType
  <2>4. QED
    BY <2>1, <2>2, <2>3, LogTake
<1>2. CASE ~Receive(h)
  <2>1. UNCHANGED <<taken, inbox>>
    BY <1>2 DEF WorkerStep, LoopStep, SeeKill, IdleReap, NewSession, Prepare, RecordWorkDir,
      CreateSession, NewSessionFails, SendAndWait, SendOk, SendFails,
      AgentRemovesWorkDir, ExitStep, Disconnect, Deregister, CloseDone
  <2>2. QED
    BY <2>1, LogSame
<1>3. QED
  BY <1>1, <1>2

\* A worker's step changes no other worker and deletes none.
LEMMA OneWorkerMoves ==
  ASSUME IInv, NEW h \in Handles, WorkerStep(h)
  PROVE  /\ \A g \in Handles : g # h => /\ wpc'[g] = wpc[g] /\ inbox'[g] = inbox[g]
                                       /\ taken'[g] = taken[g]
         /\ UNCHANGED <<closerVars, epc, route>>
<1>1. UNCHANGED <<closerVars, epc, route>>
  BY DEF WorkerStep, LoopStep, NewSession, SendAndWait, ExitStep, Receive, SeeKill, IdleReap,
         Prepare, RecordWorkDir, CreateSession, NewSessionFails, SendOk, SendFails,
         AgentRemovesWorkDir, Disconnect, Deregister, CloseDone, eventVars
<1>2. \A g \in Handles : g # h => wpc'[g] = wpc[g]
  <2>1. CASE EarlyStep(h)
    BY <2>1, EarlyStepRuns DEF IInv
  <2>2. CASE Deregister(h) \/ CloseDone(h)
    BY <2>2, GotoOnly DEF Deregister, CloseDone, IInv
  <2> QED
    BY <2>1, <2>2 DEF WorkerStep, EarlyStep, ExitStep
<1>3. \A g \in Handles : g # h => inbox'[g] = inbox[g] /\ taken'[g] = taken[g]
  <2>1. CASE Receive(h)
    BY <2>1 DEF Receive, IInv, TypeOK, WorkerType, InboxType
  <2>2. CASE ~Receive(h)
    BY <2>2 DEF WorkerStep, LoopStep, NewSession, SendAndWait, ExitStep, SeeKill, IdleReap,
                Prepare, RecordWorkDir, CreateSession, NewSessionFails, SendOk, SendFails,
                AgentRemovesWorkDir, Disconnect, Deregister, CloseDone
  <2> QED
    BY <2>1, <2>2
<1> QED
  BY <1>1, <1>2, <1>3

LEMMA WorkDirWorkerStep ==
  ASSUME IInv, NEW h \in Handles, WorkerStep(h)
  PROVE  WorkDirScope'
<1> USE DEF IInv
<1>1. \A g \in Handles : CardOf[g] \in Cards
  BY DispatcherAssumption DEF DispatcherAssumption, Handles
<1>2. /\ UNCHANGED <<closerVars, epc, route>>
      /\ \A g \in Handles : g # h => wpc'[g] = wpc[g] /\ taken'[g] = taken[g]
  BY OneWorkerMoves
<1>3. ASSUME NEW g \in Handles, ToldToClean(g)
      PROVE  ToldToClean(g)'
  <2>1. \/ taken'[g] = taken[g]
        \/ \E x \in Events : taken'[g] = Append(taken[g], x)
    <3>1. CASE Receive(h)
      BY <3>1, LogType DEF Receive, TypeOK, WorkerType, InboxType
    <3>2. CASE ~Receive(h)
      BY <3>2 DEF WorkerStep, LoopStep, NewSession, SendAndWait, ExitStep, SeeKill, IdleReap,
                  Prepare, RecordWorkDir, CreateSession, NewSessionFails, SendOk, SendFails,
                  AgentRemovesWorkDir, Disconnect, Deregister, CloseDone
    <3>3. QED
      BY <3>1, <3>2
  <2>2. QED
    BY <1>2, <1>3, <2>1, ToldFrame
<1>4. \A g \in Handles : MayBeGone(g) => MayBeGone(g)'
  BY <1>2, <1>3, GoneFrame DEF closerVars, Torn
<1>5. CASE AgentRemovesWorkDir(h)
  <2>1. /\ session[h] /\ ToldToClean(h)
        /\ dir' = [dir EXCEPT ![CardOf[h]] = FALSE]
        /\ UNCHANGED <<wpc, session, workers>>
    BY <1>5 DEF AgentRemovesWorkDir, registryVars
  <2>2. Running(h)
    BY <2>1 DEF SessionScope, Running, InLoop
  <2>3. ASSUME NEW g \in Handles, wpc[g] \in {"clone", "create"} \/ session[g],
               CardOf[g] = CardOf[h]
        PROVE  MayBeGone(g)'
    <3>1. Running(g)
      BY <2>3 DEF SessionScope, Running, InLoop
    <3>2. g = h \/ Torn(CardOf[g])
      BY <1>1, <2>2, <2>3, <3>1 DEF RegisteredOrTorn
    <3>3. MayBeGone(g)
      BY <2>1, <2>3, <3>2 DEF MayBeGone
    <3>4. QED
      BY <1>4, <3>3
  <2>4. \A g \in Handles : CardOf[g] # CardOf[h] => dir'[CardOf[g]] = dir[CardOf[g]]
    BY <1>1, <2>1 DEF TypeOK, WorkerType
  <2>5. QED
    BY <1>4, <2>1, <2>3, <2>4 DEF WorkDirScope
<1>6. CASE Prepare(h)
  <2>1. /\ dir' = [dir EXCEPT ![CardOf[h]] = TRUE] /\ session' = session
    BY <1>6 DEF Prepare
  <2>2. dir'[CardOf[h]] /\ \A c \in Cards : dir[c] => dir'[c]
    BY <1>1, <2>1 DEF TypeOK, WorkerType
  <2>3. QED
    BY <1>1, <1>2, <1>4, <2>1, <2>2 DEF WorkDirScope
<1>7. CASE ~Prepare(h) /\ ~AgentRemovesWorkDir(h)
  <2>1. /\ dir' = dir
        /\ \A g \in Handles : g # h => session'[g] = session[g]
    BY <1>7 DEF WorkerStep, LoopStep, NewSession, SendAndWait, ExitStep, Receive, SeeKill,
                IdleReap, RecordWorkDir, CreateSession, NewSessionFails, SendOk, SendFails,
                Disconnect, Deregister, CloseDone, TypeOK, WorkerType
  <2>2. wpc'[h] \in {"clone", "create"} \/ session'[h] =>
          wpc[h] \in {"clone", "create"} \/ session[h]
    <3>1. CASE CreateSession(h)
      BY <3>1, GotoOnly DEF CreateSession
    <3>2. CASE IdleReap(h) \/ Disconnect(h)
      BY <3>2, GotoOnly DEF IdleReap, Disconnect, TypeOK, WorkerType
    <3>3. CASE ~CreateSession(h) /\ ~IdleReap(h) /\ ~Disconnect(h)
      <4>1. session' = session
        BY <1>7, <3>3 DEF WorkerStep, LoopStep, NewSession, SendAndWait, ExitStep, Receive,
                    SeeKill, RecordWorkDir, NewSessionFails, SendOk, SendFails, Deregister,
                    CloseDone
      <4>2. wpc'[h] \in {"clone", "create"} => wpc[h] \in {"clone", "create"}
        BY <1>7, <3>3, GotoOnly DEF WorkerStep, LoopStep, NewSession, SendAndWait, ExitStep,
                    Receive, SeeKill, RecordWorkDir, NewSessionFails, SendOk, SendFails,
                    Deregister, CloseDone
      <4>3. QED
        BY <4>1, <4>2
    <3>4. QED
      BY <3>1, <3>2, <3>3
  <2>3. QED
    BY <1>2, <1>4, <2>1, <2>2 DEF WorkDirScope
<1>8. QED
  BY <1>5, <1>6, <1>7

LEMMA IInvWorkerStep ==
  ASSUME IInv, NEW h \in Handles, WorkerStep(h)
  PROVE  IInv'
<1>1. TypeOK'
  BY TypeWorkerStep DEF IInv
<1>2. EarlyStep(h) \/ Deregister(h) \/ CloseDone(h)
  BY DEF WorkerStep, EarlyStep, ExitStep
<1>3. Core'
  BY <1>2, CoreEarlyStep, CoreDeregister, CoreCloseDone
<1>4. UNCHANGED eventVars
  BY <1>2, EarlyStepRuns DEF IInv, Deregister, CloseDone
<1>5. FreshHandle'
  <2>1. wpc[h] # "none" /\ \A g \in Handles : g # h => wpc'[g] = wpc[g]
    <3>1. CASE EarlyStep(h)
      BY <3>1, EarlyStepRuns DEF IInv
    <3>2. CASE Deregister(h)
      BY <3>2, GotoOnly DEF Deregister, IInv
    <3>3. CASE CloseDone(h)
      BY <3>3, GotoOnly DEF CloseDone, IInv
    <3>4. QED
      BY <1>2, <3>1, <3>2, <3>3
  <2>2. QED
    BY <1>4, <2>1 DEF FreshHandle, IInv, eventVars, Handles
<1>6. HasTarget'
  BY <1>4 DEF HasTarget, IInv, eventVars
<1>7. LogUnique'
  <2>1. \A g \in Handles : Log(g)' = Log(g)
    BY LogWorkerStep DEF IInv
  <2>2. QED
    BY <1>4, <2>1, LogFrame DEF IInv, eventVars
<1>8. WorkDirScope'
  BY WorkDirWorkerStep
<1>9. QED
  BY <1>1, <1>3, <1>5, <1>6, <1>7, <1>8 DEF IInv, Core

\* Stop takes hold of every registered worker, and so of every running one.
LEMMA CoreStop ==
  ASSUME IInv, NEW k \in Stoppers, Stop(k)
  PROVE  Core'
<1> USE DEF IInv
<1>1. /\ k \in Closers /\ k \notin Deleters
      /\ \A g \in Handles : CardOf[g] \in Cards /\ g # NoHandle
  BY DispatcherAssumption DEF DispatcherAssumption, Handles, Closers
<1>2. /\ UNCHANGED <<workers, wpc, session, dir, snap>>
      /\ stopped' = TRUE
      /\ \A j \in Closers : j # k => kpc'[j] = kpc[j] /\ held'[j] = held[j]
      /\ \/ kpc'[k] = "already"
         \/ kpc'[k] = "shutdown" /\ held'[k] = Registered
  BY <1>1 DEF Stop, TypeOK, CloserType, workerVars
<1>3. \A c \in Cards : Torn(c)' = Torn(c)
  BY <1>1, <1>2 DEF Torn, Closers
<1>4. \A g \in Handles : Running(g)' = Running(g)
  BY <1>2 DEF Running, InLoop
<1>5. RegistryLive' /\ RegisteredOrTorn'
  BY <1>1, <1>2, <1>3, <1>4 DEF RegistryLive, RegisteredOrTorn, TypeOK, RegistryType
<1>6. SessionScope'
  BY <1>1, <1>2, <1>3 DEF SessionScope
<1>7. CloserScope'
  BY <1>1, <1>2 DEF CloserScope
<1>8. StopScope'
  <2>1. \A g \in Handles : Running(g) => g \in Registered \/ Torn(CardOf[g])
    BY <1>1 DEF RegisteredOrTorn, Registered
  <2>2. QED
    BY <1>1, <1>2, <1>3, <1>4, <2>1 DEF StopScope, Closers
<1>9. QED
  BY <1>5, <1>6, <1>7, <1>8 DEF Core

\* DeleteWorker empties the card's entry, from when the card counts as torn.
LEMMA CoreDeleteWorker ==
  ASSUME IInv, NEW k \in Deleters, DeleteWorker(k)
  PROVE  Core'
<1> DEFINE c == CardOf[k]
<1> USE DEF IInv
<1>1. /\ k \in Closers /\ k \notin Stoppers /\ c \in Cards
      /\ NoHandle \notin Handles
      /\ \A g \in Handles : CardOf[g] \in Cards
  BY DispatcherAssumption DEF DispatcherAssumption, Handles, Closers
<1>2. /\ UNCHANGED <<stopped, wpc, session, dir, snap>>
      /\ workers' = [workers EXCEPT ![c] = NoHandle]
      /\ \A j \in Closers : j # k => kpc'[j] = kpc[j] /\ held'[j] = held[j]
      /\ \/ /\ workers[c] = NoHandle
            /\ kpc'[k] = "not_found" /\ held'[k] = held[k]
         \/ kpc'[k] = "snapshot" /\ held'[k] = {workers[c]}
  BY <1>1 DEF DeleteWorker, TypeOK, CloserType, workerVars
<1>3. \A d \in Cards : Torn(d) => Torn(d)'
  BY <1>1, <1>2 DEF Torn, Closers
<1>4. workers[c] = NoHandle \/ Torn(c)'
  BY <1>2 DEF Torn
<1>5. \A g \in Handles : Running(g)' = Running(g)
  BY <1>2 DEF Running, InLoop
<1>6. RegistryLive'
  BY <1>1, <1>2, <1>5 DEF RegistryLive, TypeOK, RegistryType
<1>7. RegisteredOrTorn'
  BY <1>1, <1>2, <1>3, <1>4, <1>5 DEF RegisteredOrTorn, TypeOK, RegistryType
<1>8. SessionScope'
  BY <1>1, <1>2, <1>3 DEF SessionScope
<1>9. CloserScope'
  BY <1>1, <1>2 DEF CloserScope
<1>10. StopScope'
  BY <1>1, <1>2, <1>3, <1>5 DEF StopScope, Closers
<1>11. QED
  BY <1>6, <1>7, <1>8, <1>9, <1>10 DEF Core

LEMMA CoreSnapshot ==
  ASSUME IInv, NEW k \in Deleters, Snapshot(k)
  PROVE  Core'
<1> USE DEF IInv
<1>1. k \in Closers /\ k \notin Stoppers
  BY DispatcherAssumption DEF DispatcherAssumption, Closers
<1>2. /\ UNCHANGED <<workers, stopped, wpc, session, dir, held>>
      /\ kpc'[k] = "shutdown"
      /\ \A j \in Closers : j # k => kpc'[j] = kpc[j] /\ snap'[j] = snap[j]
      /\ snap'[k] => held[k] # {}
  BY <1>1 DEF Snapshot, TypeOK, CloserType, registryVars, workerVars
<1>3. RegistryLive' /\ RegisteredOrTorn' /\ SessionScope'
  BY <1>2 DEF RegistryLive, RegisteredOrTorn, SessionScope, Running, InLoop, Torn
<1>4. CloserScope'
  BY <1>1, <1>2 DEF CloserScope
<1>5. StopScope'
  BY <1>1, <1>2 DEF StopScope, Running, InLoop, Torn, Closers
<1>6. QED
  BY <1>3, <1>4, <1>5 DEF Core

\* Await passes only when every handle it holds is done.
LEMMA CoreAwait ==
  ASSUME IInv, NEW k \in Closers, Await(k)
  PROVE  Core'
<1> USE DEF IInv
<1>1. /\ UNCHANGED <<workers, stopped, wpc, session, dir, held, snap>>
      /\ kpc[k] = "shutdown"
      /\ kpc'[k] = IF snap[k] THEN "remove" ELSE "returned"
      /\ \A j \in Closers : j # k => kpc'[j] = kpc[j]
      /\ \A h \in held[k] : wpc[h] = "done"
  BY DEF Await, TypeOK, CloserType, registryVars, workerVars
<1>2. RegistryLive' /\ RegisteredOrTorn' /\ SessionScope'
  BY <1>1 DEF RegistryLive, RegisteredOrTorn, SessionScope, Running, InLoop, Torn
<1>3. CloserScope'
  BY <1>1 DEF CloserScope
<1>4. StopScope'
  <2>1. \A h \in held[k] : ~Running(h)
    BY <1>1 DEF Running, InLoop
  <2>2. \A h \in Handles : Running(h)' = Running(h) /\ Torn(CardOf[h])' = Torn(CardOf[h])
    BY <1>1 DEF Running, InLoop, Torn
  <2>3. QED
    BY <1>1, <2>1, <2>2 DEF StopScope, Closers
<1>5. QED
  BY <1>2, <1>3, <1>4 DEF Core

LEMMA CoreRemoveWorkDir ==
  ASSUME IInv, NEW k \in Deleters, RemoveWorkDir(k)
  PROVE  Core'
<1> USE DEF IInv
<1>1. k \in Closers /\ k \notin Stoppers
  BY DispatcherAssumption DEF DispatcherAssumption, Closers
<1>2. /\ UNCHANGED <<workers, stopped, wpc, session, held, snap>>
      /\ kpc[k] = "remove"
      /\ kpc'[k] \in {"returned", "failed"}
      /\ \A j \in Closers : j # k => kpc'[j] = kpc[j]
  BY <1>1 DEF RemoveWorkDir, TypeOK, CloserType, WorkerType, registryVars
<1>4. RegistryLive' /\ RegisteredOrTorn' /\ SessionScope'
  BY <1>2 DEF RegistryLive, RegisteredOrTorn, SessionScope, Running, InLoop, Torn
<1>6. CloserScope'
  BY <1>1, <1>2 DEF CloserScope
<1>7. StopScope'
  BY <1>1, <1>2 DEF StopScope, Running, InLoop, Torn, Closers
<1>8. QED
  BY <1>4, <1>6, <1>7 DEF Core

LEMMA WorkDirCloserStep ==
  ASSUME IInv, NEW k \in Closers, CloserStep(k)
  PROVE  WorkDirScope'
<1> USE DEF IInv
<1>1. UNCHANGED <<wpc, taken, session, route>>
  BY DEF CloserStep, DeleteStep, ShutdownStep, Stop, DeleteWorker, Snapshot, RemoveWorkDir,
         Await, CloseKill, ShutdownTwice, CancelCtx, workerVars, eventVars
<1>2. \A g \in Handles : ToldToClean(g) => ToldToClean(g)'
  BY <1>1 DEF ToldToClean
<1>3. \A j \in Closers : kpc[j] = "returned" => kpc'[j] = "returned" /\ snap'[j] = snap[j]
  BY DEF CloserStep, DeleteStep, ShutdownStep, Stop, DeleteWorker, Snapshot, RemoveWorkDir,
         Await, CloseKill, ShutdownTwice, CancelCtx, TypeOK, CloserType
<1>4. \A c \in Cards : Torn(c) => Torn(c)'
  <2>1. CASE k \in Deleters /\ DeleteWorker(k)
    <3>1. \A j \in Closers : held[j] # {} => held'[j] # {}
      BY <2>1 DEF DeleteWorker, TypeOK, CloserType
    <3>2. QED
      BY <3>1 DEF Torn, Closers
  <2>2. CASE k \in Stoppers /\ Stop(k)
    BY <2>2, DispatcherAssumption DEF Stop, Torn, TypeOK, CloserType, Closers, DispatcherAssumption
  <2>3. CASE held' = held
    BY <2>3 DEF Torn
  <2>4. QED
    BY <2>1, <2>2, <2>3 DEF CloserStep, DeleteStep, ShutdownStep, Snapshot, RemoveWorkDir,
         Await, CloseKill, ShutdownTwice, CancelCtx
<1>5. \A g \in Handles : CardOf[g] \in Cards
  BY DispatcherAssumption DEF DispatcherAssumption, Handles
<1>6. \A g \in Handles : MayBeGone(g) => MayBeGone(g)'
  BY <1>2, <1>3, <1>4, <1>5, GoneFrame
<1>7. CASE k \in Deleters /\ RemoveWorkDir(k)
  <2>1. \/ dir' = dir
        \/ /\ dir' = [dir EXCEPT ![CardOf[k]] = FALSE]
           /\ kpc'[k] = "returned" /\ snap'[k]
    BY <1>7 DEF RemoveWorkDir, CloserScope, TypeOK, CloserType
  <2>2. CASE dir' = dir
    BY <1>1, <1>6, <2>2 DEF WorkDirScope
  <2>3. CASE /\ dir' = [dir EXCEPT ![CardOf[k]] = FALSE]
             /\ kpc'[k] = "returned" /\ snap'[k]
    <3>1. \A g \in Handles : CardOf[g] = CardOf[k] => MayBeGone(g)'
      BY <1>7, <2>3 DEF MayBeGone
    <3>2. \A g \in Handles : CardOf[g] # CardOf[k] => dir'[CardOf[g]] = dir[CardOf[g]]
      BY <1>5, <2>3 DEF TypeOK, WorkerType
    <3>3. QED
      BY <1>1, <1>6, <3>1, <3>2 DEF WorkDirScope
  <2>4. QED
    BY <2>1, <2>2, <2>3
<1>8. CASE ~(k \in Deleters /\ RemoveWorkDir(k))
  <2>1. dir' = dir
    BY <1>8 DEF CloserStep, DeleteStep, ShutdownStep, Stop, DeleteWorker, Snapshot,
         Await, CloseKill, ShutdownTwice, CancelCtx, workerVars
  <2>2. QED
    BY <1>1, <1>6, <2>1 DEF WorkDirScope
<1>9. QED
  BY <1>7, <1>8

LEMMA IInvCloserStep ==
  ASSUME IInv, NEW k \in Closers, CloserStep(k)
  PROVE  IInv'
<1> USE DEF IInv
<1>1. TypeOK'
  BY TypeCloserStep
<1>2. Core'
  <2>1. CASE k \in Stoppers /\ Stop(k)
    BY <2>1, CoreStop
  <2>2. CASE k \in Deleters /\ DeleteWorker(k)
    BY <2>2, CoreDeleteWorker
  <2>3. CASE k \in Deleters /\ Snapshot(k)
    BY <2>3, CoreSnapshot
  <2>4. CASE k \in Deleters /\ RemoveWorkDir(k)
    BY <2>4, CoreRemoveWorkDir
  <2>5. CASE Await(k)
    BY <2>5, CoreAwait
  <2>6. ASSUME NEW h \in Handles, CloseKill(k, h) \/ ShutdownTwice(k, h)
        PROVE  Core'
    <3>1. UNCHANGED <<registryVars, wpc, session, dir, kpc, held, snap>>
      BY <2>6 DEF CloseKill, ShutdownTwice, workerVars
    <3>2. QED
      BY <3>1, CoreFrame DEF Core
  <2>7. CASE CancelCtx(k)
    <3>1. UNCHANGED <<registryVars, wpc, session, dir, kpc, held, snap>>
      BY <2>7 DEF CancelCtx, workerVars
    <3>2. QED
      BY <3>1, CoreFrame DEF Core
  <2>8. QED
    BY <2>1, <2>2, <2>3, <2>4, <2>5, <2>6, <2>7 DEF CloserStep, DeleteStep, ShutdownStep
<1>3. UNCHANGED <<inbox, taken, wpc, eventVars>>
  BY DEF CloserStep, DeleteStep, ShutdownStep, Stop, DeleteWorker, Snapshot, RemoveWorkDir,
         Await, CloseKill, ShutdownTwice, CancelCtx, workerVars
<1>4. FreshHandle' /\ HasTarget'
  BY <1>3, FreshFrame DEF eventVars
<1>5. LogUnique'
  BY <1>3, LogFrame, LogSame DEF eventVars
<1>6. WorkDirScope'
  BY WorkDirCloserStep
<1>7. QED
  BY <1>1, <1>2, <1>4, <1>5, <1>6 DEF Core

LEMMA IInvInit == Init => IInv
<1> SUFFICES ASSUME Init PROVE IInv
  OBVIOUS
<1>1. TypeOK
  BY TypeInit
<1>2. \A h \in Handles : wpc[h] = "none" /\ ~session[h] /\ ~Running(h)
  BY DEF Init, Running, InLoop
<1>3. \A k \in Closers : kpc[k] = "idle" /\ ~snap[k]
  BY DEF Init
<1>4. RegistryLive /\ RegisteredOrTorn /\ SessionScope /\ WorkDirScope
  BY <1>2 DEF Init, RegistryLive, RegisteredOrTorn, SessionScope, WorkDirScope
<1>5. CloserScope /\ StopScope
  BY <1>3 DEF CloserScope, StopScope, Closers
<1>6. FreshHandle /\ HasTarget
  BY <1>2 DEF Init, FreshHandle, HasTarget, Handles
<1>7. LogUnique
  <2>1. \A h \in Handles : Len(Log(h)) = 0
    BY <1>1, LogType DEF Init
  <2>2. QED
    BY <2>1 DEF LogUnique
<1>8. QED
  BY <1>1, <1>4, <1>5, <1>6, <1>7 DEF IInv

LEMMA IInvStep == IInv /\ [Next]_vars => IInv'
<1> SUFFICES ASSUME IInv, [Next]_vars PROVE IInv'
  OBVIOUS
<1>1. ASSUME NEW e \in Events, DispatchStep(e) PROVE IInv'
  BY <1>1, IInvDispatchStep
<1>2. ASSUME NEW h \in Handles, WorkerStep(h) PROVE IInv'
  BY <1>2, IInvWorkerStep
<1>3. ASSUME NEW k \in Closers, CloserStep(k) PROVE IInv'
  BY <1>3, IInvCloserStep
<1>4. CASE UNCHANGED vars
  <2>1. UNCHANGED <<registryVars, inbox, signal, workerVars, eventVars, closerVars>>
    BY <1>4 DEF vars
  <2>2. TypeOK'
    BY <2>1, TypeFrame DEF IInv, TypeOK
  <2>3. Core'
    BY <2>1, CoreFrame DEF IInv, Core, workerVars, closerVars
  <2>4. FreshHandle' /\ HasTarget'
    BY <2>1, FreshFrame DEF IInv, workerVars, eventVars
  <2>5. LogUnique'
    BY <2>1, LogFrame, LogSame DEF IInv, workerVars, eventVars
  <2>6. WorkDirScope'
    BY <2>1 DEF IInv, WorkDirScope, MayBeGone, ToldToClean, Torn, workerVars, eventVars, closerVars
  <2>7. QED
    BY <2>2, <2>3, <2>4, <2>5, <2>6 DEF IInv, Core
<1>5. QED
  BY <1>1, <1>2, <1>3, <1>4 DEF Next

(***************************************************************************)
(* The theorems.                                                           *)
(***************************************************************************)

\* IInv holds in every reachable state of the dispatcher.
THEOREM Inductive == Spec => []IInv
<1>1. Init => IInv
  BY IInvInit
<1>2. IInv /\ [Next]_vars => IInv'
  BY IInvStep
<1>3. QED
  BY <1>1, <1>2, PTL DEF Spec

\* The variables keep their types, and no inbox exceeds its capacity.
THEOREM TypeCorrect == Spec => []TypeOK
<1>1. IInv => TypeOK
  BY DEF IInv
<1>2. QED
  BY <1>1, Inductive, PTL

\* A card nobody deleted a worker of has at most one running worker.
THEOREM OneWorkerPerCard == Spec => []SingleWorker
<1>1. IInv => SingleWorker
  BY DEF IInv, SingleWorker, RegisteredOrTorn
<1>2. QED
  BY <1>1, Inductive, PTL

\* The registry never points at a worker that has finished.
THEOREM RegistryNeverStale == Spec => []RegistryLive
<1>1. IInv => RegistryLive
  BY DEF IInv
<1>2. QED
  BY <1>1, Inductive, PTL

\* No event reaches two sessions, or one session twice.
THEOREM TakenAtMostOnce == Spec => []AtMostOnce
<1>1. IInv => AtMostOnce
  <2> SUFFICES ASSUME IInv,
                      NEW g \in Handles, NEW h \in Handles,
                      NEW i \in 1..Len(taken[g]), NEW j \in 1..Len(taken[h])
               PROVE  /\ taken[g][i] = taken[h][j] => g = h /\ i = j
                      /\ epc[taken[g][i]] = "ok"
    BY DEF AtMostOnce
  <2>1. \A f \in Handles : \A n \in 1..Len(taken[f]) : n \in 1..Len(Log(f)) /\ Log(f)[n] = taken[f][n]
    BY TakenIsLogged DEF IInv
  <2>2. /\ i \in 1..Len(Log(g)) /\ Log(g)[i] = taken[g][i]
        /\ j \in 1..Len(Log(h)) /\ Log(h)[j] = taken[h][j]
    BY <2>1
  <2>3. QED
    BY <2>2 DEF IInv, LogUnique
<1>2. QED
  BY <1>1, Inductive, PTL

\* After Stop returned, only cards DeleteWorker touched may have a worker or a
\* session.
THEOREM StopLeavesNothing == Spec => []StopQuiesces
<1>1. IInv => StopQuiesces
  <2>1. \A h \in Handles : SessionScope /\ session[h] => Running(h)
    BY DEF SessionScope, Running, InLoop
  <2>2. QED
    BY <2>1 DEF IInv, StopQuiesces, StopScope
<1>2. QED
  BY <1>1, Inductive, PTL

\* A live session has its directory, unless a delete that has finished wiped it, or
\* an agent that a terminate notice told to clean up removed it.
THEOREM SessionKeepsWorkDir == Spec => []SessionHasWorkDir
<1>1. IInv => SessionHasWorkDir
  BY DEF IInv, SessionHasWorkDir, WorkDirScope
<1>2. QED
  BY <1>1, Inductive, PTL

\* DeleteWorker wipes a directory only after its worker let go of it.
THEOREM WipesAfterTheWorker == Spec => RemovesAfterDone
<1>1. IInv /\ [Next]_vars =>
        [\A k \in Deleters : kpc[k] = "remove" /\ kpc'[k] # "remove" =>
           \A h \in held[k] : wpc[h] = "done" /\ ~session[h]]_vars
  <2> SUFFICES ASSUME IInv, NEW k \in Deleters, kpc[k] = "remove", NEW h \in held[k]
               PROVE  wpc[h] = "done" /\ ~session[h]
    OBVIOUS
  <2>1. k \in Closers /\ h \in Handles
    BY DEF Closers, IInv, TypeOK, CloserType
  <2>2. wpc[h] = "done"
    BY <2>1 DEF IInv, CloserScope
  <2>3. QED
    BY <2>1, <2>2 DEF IInv, SessionScope
<1>2. QED
  BY <1>1, Inductive, PTL DEF Spec, RemovesAfterDone

-----------------------------------------------------------------------------
(* The dispatcher implements the per-card queue.                           *)


\* What the mapping needs besides IInv: a worker away from its select has a
\* message in hand, a worker that has not started has an empty inbox, and an
\* enqueue waits before the inbox of a worker of its own card.
QInv ==
  /\ \A h \in Handles : wpc[h] \in {"prepare", "clone", "create", "send"} => taken[h] # <<>>
  /\ \A h \in Handles : wpc[h] = "none" => inbox[h] = <<>>
  /\ \A e \in Events : epc[e] = "push" =>
       CardOf[target[e]] = CardOf[e] /\ wpc[target[e]] # "none"

LEMMA QInvInit == Init => QInv
BY DEF Init, QInv, Handles

\* Appending leaves no sequence empty.
LEMMA AppendNotEmpty ==
  ASSUME NEW S, NEW s \in Seq(S), NEW x \in S
  PROVE  Append(s, x) # <<>>
<1>1. Len(Append(s, x)) = Len(s) + 1 /\ Len(s) \in Nat /\ Len(<<>>) = 0
  OBVIOUS
<1> QED
  BY <1>1

LEMMA QInvDispatchStep ==
  ASSUME IInv, QInv, NEW e \in Events, DispatchStep(e)
  PROVE  QInv'
<1> USE DEF IInv, QInv, TypeOK, EventType
<1>1. ASSUME NEW r \in Routes, Dispatch(e, r) PROVE QInv'
  BY <1>1 DEF Dispatch, workerVars, Routes
<1>2. CASE LookupWorker(e)
  BY <1>2 DEF LookupWorker, workerVars
<1>3. CASE EnqueueStopped(e)
  BY <1>3 DEF EnqueueStopped, workerVars
<1>4. CASE Enqueue(e)
  <2>1. CardOf[e] \in Cards /\ e \in Handles /\ wpc[e] = "none"
    BY <1>4, DispatcherAssumption DEF Enqueue, DispatcherAssumption, Handles, FreshHandle
  <2>2. /\ UNCHANGED <<inbox, taken>>
        /\ epc' = [epc EXCEPT ![e] = "push"]
        /\ \A g \in Handles : g # e => wpc'[g] = wpc[g]
        /\ wpc'[e] \in {"none", "select"}
        /\ \A f \in Events : f # e => target'[f] = target[f]
    BY <1>4, <2>1 DEF Enqueue, WorkerType
  <2>3. CardOf[target'[e]] = CardOf[e] /\ wpc'[target'[e]] # "none"
    <3>1. CASE workers[CardOf[e]] = NoHandle
      BY <1>4, <2>1, <3>1 DEF Enqueue, WorkerType
    <3>2. CASE workers[CardOf[e]] # NoHandle
      <4>1. target'[e] = workers[CardOf[e]] /\ wpc' = wpc
        BY <1>4, <3>2 DEF Enqueue
      <4>2. Running(workers[CardOf[e]]) /\ CardOf[workers[CardOf[e]]] = CardOf[e]
        BY <2>1, <3>2 DEF RegistryLive
      <4> QED
        BY <4>1, <4>2 DEF Running, InLoop
    <3> QED
      BY <3>1, <3>2
  <2>4. \A f \in Events : f # e /\ epc'[f] = "push" => wpc'[target'[f]] # "none"
    <3> SUFFICES ASSUME NEW f \in Events, f # e, epc'[f] = "push"
                 PROVE  wpc'[target'[f]] # "none"
      OBVIOUS
    <3>1. epc[f] = "push" /\ target'[f] = target[f]
      BY <2>2
    <3>2. target[f] \in Handles /\ wpc[target[f]] # "none"
      BY <3>1 DEF HasTarget
    <3> QED
      BY <2>1, <2>2, <3>1, <3>2
  <2>5. \A h \in Handles : wpc'[h] \in {"prepare", "clone", "create", "send"} => taken'[h] # <<>>
    BY <2>2
  <2>6. \A h \in Handles : wpc'[h] = "none" => inbox'[h] = <<>>
    BY <2>1, <2>2
  <2>7. \A f \in Events : epc'[f] = "push" => CardOf[target'[f]] = CardOf[f] /\ wpc'[target'[f]] # "none"
    BY <2>2, <2>3, <2>4
  <2> QED
    BY <2>5, <2>6, <2>7
<1>5. CASE Push(e)
  <2>1. /\ UNCHANGED <<wpc, taken, target>>
        /\ target[e] \in Handles /\ wpc[target[e]] # "none"
        /\ \A h \in Handles : h # target[e] => inbox'[h] = inbox[h]
        /\ \A f \in Events : epc'[f] = "push" => epc[f] = "push"
    BY <1>5 DEF Push, workerVars, HasTarget, InboxType
  <2> QED
    BY <2>1
<1>6. CASE PushKilled(e)
  BY <1>6 DEF PushKilled, workerVars
<1>7. CASE PushTimeout(e)
  BY <1>7 DEF PushTimeout, workerVars
<1> QED
  BY <1>1, <1>2, <1>3, <1>4, <1>5, <1>6, <1>7 DEF DispatchStep

LEMMA QInvWorkerStep ==
  ASSUME IInv, QInv, NEW h \in Handles, WorkerStep(h)
  PROVE  QInv'
<1>1. /\ wpc[h] # "none" /\ wpc'[h] # "none"
      /\ \A g \in Handles : g # h => wpc'[g] = wpc[g]
      /\ UNCHANGED eventVars
  <2>1. CASE EarlyStep(h)
    BY <2>1, EarlyStepRuns DEF IInv, Running, InLoop
  <2>2. CASE Deregister(h)
    BY <2>2, GotoOnly DEF Deregister, IInv
  <2>3. CASE CloseDone(h)
    BY <2>3, GotoOnly DEF CloseDone, IInv
  <2> QED
    BY <2>1, <2>2, <2>3 DEF WorkerStep, EarlyStep, ExitStep
<1>2. /\ \A g \in Handles : g # h => inbox'[g] = inbox[g] /\ taken'[g] = taken[g]
      /\ wpc'[h] \in {"prepare", "clone", "create", "send"} => taken'[h] # <<>>
  <2>1. CASE Receive(h)
    <3>1. taken[h] \in Seq(Events) /\ inbox[h] \in Seq(Events) /\ inbox[h] # <<>>
      BY <2>1, LogType DEF IInv, Receive
    <3>2. taken'[h] = Append(taken[h], Head(inbox[h])) /\ Head(inbox[h]) \in Events
      BY <2>1, <3>1 DEF Receive, IInv, TypeOK, WorkerType
    <3>3. \A g \in Handles : g # h => inbox'[g] = inbox[g] /\ taken'[g] = taken[g]
      BY <2>1 DEF Receive, IInv, TypeOK, WorkerType, InboxType
    <3> QED
      BY <3>1, <3>2, <3>3, AppendNotEmpty
  <2>2. CASE ~Receive(h)
    <3>1. UNCHANGED <<inbox, taken>>
      BY <2>2 DEF WorkerStep, LoopStep, NewSession, SendAndWait, ExitStep, SeeKill, IdleReap,
                  Prepare, RecordWorkDir, CreateSession, NewSessionFails, SendOk, SendFails,
                  AgentRemovesWorkDir, Disconnect, Deregister, CloseDone
    <3>2. wpc'[h] \in {"prepare", "clone", "create", "send"} =>
            wpc[h] \in {"prepare", "clone", "create", "send"}
      BY <2>2, GotoOnly DEF IInv, WorkerStep, LoopStep, NewSession, SendAndWait, ExitStep, SeeKill,
                  IdleReap, Prepare, RecordWorkDir, CreateSession, NewSessionFails, SendOk,
                  SendFails, AgentRemovesWorkDir, Disconnect, Deregister, CloseDone
    <3> QED
      BY <3>1, <3>2 DEF QInv
  <2> QED
    BY <2>1, <2>2
<1>3. \A e \in Events : epc[e] = "push" => target[e] \in Handles
  BY DEF IInv, HasTarget
<1> QED
  BY <1>1, <1>2, <1>3 DEF QInv, eventVars

LEMMA QInvCloserStep ==
  ASSUME QInv, NEW k \in Closers, CloserStep(k)
  PROVE  QInv'
<1>1. UNCHANGED <<wpc, taken, inbox, eventVars>>
  BY DEF CloserStep, ShutdownStep, DeleteStep, Stop, DeleteWorker, Snapshot, CloseKill, CancelCtx,
         ShutdownTwice, Await, RemoveWorkDir, workerVars
<1> QED
  BY <1>1 DEF QInv, eventVars

LEMMA QInvStep == IInv /\ QInv /\ [Next]_vars => QInv'
<1> SUFFICES ASSUME IInv, QInv, [Next]_vars PROVE QInv'
  OBVIOUS
<1>1. CASE UNCHANGED vars
  BY <1>1 DEF QInv, vars, workerVars, eventVars
<1> QED
  BY <1>1, QInvDispatchStep, QInvWorkerStep, QInvCloserStep DEF Next

\* The facts that the refinement of the queue rests on hold in every reachable state.
THEOREM QueueInvariant == Spec => [](IInv /\ QInv)
<1>1. IInv /\ QInv /\ [Next]_vars => QInv'
  BY QInvStep
<1>2. Spec => []IInv
  BY Inductive
<1> QED
  BY <1>1, <1>2, QInvInit, PTL DEF Spec

-----------------------------------------------------------------------------
(* The worker a card's queue is read from.                                 *)

\* A card that nobody deleted a worker of has one worker in its loop at most.
LEMMA LiveIs ==
  ASSUME IInv, NEW h \in Handles, InLoop(h), ~Torn(CardOf[h])
  PROVE  LiveWorkers(CardOf[h]) = {h}
<1>1. \A g \in Handles : InLoop(g) /\ CardOf[g] = CardOf[h] => g = workers[CardOf[h]]
  BY DEF IInv, RegisteredOrTorn, Running
<1> QED
  BY <1>1 DEF LiveWorkers

LEMMA LiveView ==
  ASSUME IInv, NEW h \in Handles, InLoop(h), ~Torn(CardOf[h])
  PROVE  QueueOf[CardOf[h]] = inbox[h] /\ BusyWith[CardOf[h]] = InHand(h)
<1>1. CardOf[h] \in Cards
  BY DispatcherAssumption DEF DispatcherAssumption, Handles
<1>2. LiveWorkers(CardOf[h]) = {h} /\ LiveWorker(CardOf[h]) = h
  BY LiveIs DEF LiveWorker
<1> QED
  BY <1>1, <1>2 DEF QueueOf, BusyWith

LEMMA LiveViewNext ==
  ASSUME IInv', NEW h \in Handles, InLoop(h)', ~Torn(CardOf[h])'
  PROVE  QueueOf'[CardOf[h]] = inbox'[h] /\ BusyWith'[CardOf[h]] = InHand(h)'
<1>1. CardOf[h] \in Cards
  BY DispatcherAssumption DEF DispatcherAssumption, Handles
<1>2. \A g \in Handles : InLoop(g)' /\ CardOf[g] = CardOf[h] => g = workers'[CardOf[h]]
  BY DEF IInv, RegisteredOrTorn, Running
<1>3. LiveWorkers(CardOf[h])' = {h}
  BY <1>2 DEF LiveWorkers
<1>4. LiveWorker(CardOf[h])' = h
  BY <1>3 DEF LiveWorker
<1> QED
  BY <1>1, <1>3, <1>4 DEF QueueOf, BusyWith

\* A card whose worker was deleted, or that has no worker in its loop.
LEMMA NoView ==
  ASSUME NEW c \in Cards, Torn(c) \/ \A h \in Handles : CardOf[h] = c => ~InLoop(h)
  PROVE  QueueOf[c] = <<>> /\ BusyWith[c] = NoHandle
BY DEF QueueOf, BusyWith, LiveWorkers

LEMMA NoViewNext ==
  ASSUME NEW c \in Cards, Torn(c)' \/ \A h \in Handles : CardOf[h] = c => ~InLoop(h)'
  PROVE  QueueOf'[c] = <<>> /\ BusyWith'[c] = NoHandle
BY DEF QueueOf, BusyWith, LiveWorkers

\* A step that leaves the workers of a card in their loop, and what these have
\* before them, leaves its queue.
LEMMA ViewFrame ==
  ASSUME IInv, IInv', NEW c \in Cards,
         Torn(c)' <=> Torn(c),
         \A h \in Handles : CardOf[h] = c =>
           /\ InLoop(h)' <=> InLoop(h)
           /\ InLoop(h) => inbox'[h] = inbox[h] /\ InHand(h)' = InHand(h)
  PROVE  QueueOf'[c] = QueueOf[c] /\ BusyWith'[c] = BusyWith[c]
<1>1. CASE Torn(c) \/ \A h \in Handles : CardOf[h] = c => ~InLoop(h)
  BY <1>1, NoView, NoViewNext
<1>2. CASE ~Torn(c) /\ \E h \in Handles : CardOf[h] = c /\ InLoop(h)
  <2>1. PICK h \in Handles : CardOf[h] = c /\ InLoop(h)
    BY <1>2
  <2>2. QueueOf[c] = inbox[h] /\ BusyWith[c] = InHand(h)
    BY <1>2, <2>1, LiveView
  <2>3. InLoop(h)' /\ ~Torn(CardOf[h])'
    BY <1>2, <2>1
  <2>4. QueueOf'[c] = inbox'[h] /\ BusyWith'[c] = InHand(h)'
    BY <2>1, <2>3, LiveViewNext
  <2> QED
    BY <2>1, <2>2, <2>4
<1> QED
  BY <1>1, <1>2

\* The mapped functions are equal when they are card by card.
LEMMA SameQueues ==
  ASSUME \A c \in Cards : QueueOf'[c] = QueueOf[c] /\ BusyWith'[c] = BusyWith[c]
  PROVE  QueueOf' = QueueOf /\ BusyWith' = BusyWith
<1>1. QueueOf' = [c \in Cards |-> QueueOf'[c]] /\ QueueOf = [c \in Cards |-> QueueOf[c]]
  BY DEF QueueOf
<1>2. BusyWith' = [c \in Cards |-> BusyWith'[c]] /\ BusyWith = [c \in Cards |-> BusyWith[c]]
  BY DEF BusyWith
<1> QED
  BY <1>1, <1>2

LEMMA ChangedQueue ==
  ASSUME NEW c \in Cards, NEW q, NEW b,
         \A d \in Cards \ {c} : QueueOf'[d] = QueueOf[d] /\ BusyWith'[d] = BusyWith[d],
         QueueOf'[c] = q, BusyWith'[c] = b
  PROVE  /\ QueueOf' = [QueueOf EXCEPT ![c] = q]
         /\ BusyWith' = [BusyWith EXCEPT ![c] = b]
<1>1. QueueOf' = [d \in Cards |-> QueueOf'[d]] /\ QueueOf = [d \in Cards |-> QueueOf[d]]
  BY DEF QueueOf
<1>2. BusyWith' = [d \in Cards |-> BusyWith'[d]] /\ BusyWith = [d \in Cards |-> BusyWith[d]]
  BY DEF BusyWith
<1> QED
  BY <1>1, <1>2

-----------------------------------------------------------------------------
(* What the steps do to the queues.                                        *)

LEMMA Offers ==
  UNCHANGED epc => OfferedEvents' = OfferedEvents
BY DEF OfferedEvents

\* The cards of the workers, and who is not a worker.
LEMMA CardTypes ==
  /\ \A h \in Handles : CardOf[h] \in Cards
  /\ \A k \in Deleters : CardOf[k] \in Cards
  /\ NoHandle \notin Handles /\ NoHandle \notin Events
BY DispatcherAssumption DEF DispatcherAssumption, Handles

\* A step of a Dispatch call other than Push leaves all queues.
LEMMA DispatchKeeps ==
  ASSUME IInv, QInv, IInv', NEW e \in Events, DispatchStep(e), ~Push(e)
  PROVE  UNCHANGED <<OfferedEvents, QueueOf, BusyWith>>
<1>1. /\ UNCHANGED <<inbox, taken, closerVars>>
      /\ \A f \in Events : epc'[f] = "ok" <=> epc[f] = "ok"
  BY DEF DispatchStep, Dispatch, LookupWorker, EnqueueStopped, Enqueue, PushKilled, PushTimeout,
         workerVars, IInv, TypeOK, EventType, Routes
<1>2. \A c \in Cards : Torn(c)' <=> Torn(c)
  BY <1>1 DEF Torn, closerVars
<1>3. CASE Enqueue(e) /\ workers[CardOf[e]] = NoHandle
  <2>1. /\ e \in Handles /\ CardOf[e] \in Cards
        /\ wpc[e] = "none" /\ wpc'[e] = "select"
        /\ \A g \in Handles : g # e => wpc'[g] = wpc[g]
    BY <1>3, CardTypes DEF Enqueue, Handles, IInv, FreshHandle, TypeOK, WorkerType
  <2>2. \A c \in Cards \ {CardOf[e]} : QueueOf'[c] = QueueOf[c] /\ BusyWith'[c] = BusyWith[c]
    <3> SUFFICES ASSUME NEW c \in Cards \ {CardOf[e]}
                 PROVE  QueueOf'[c] = QueueOf[c] /\ BusyWith'[c] = BusyWith[c]
      OBVIOUS
    <3>1. \A h \in Handles : CardOf[h] = c =>
            /\ InLoop(h)' <=> InLoop(h)
            /\ InLoop(h) => inbox'[h] = inbox[h] /\ InHand(h)' = InHand(h)
      BY <2>1, <1>1 DEF InLoop, InHand, Current
    <3> QED
      BY <3>1, <1>2, ViewFrame
  <2>3. QueueOf'[CardOf[e]] = QueueOf[CardOf[e]] /\ BusyWith'[CardOf[e]] = BusyWith[CardOf[e]]
    <3>1. CASE Torn(CardOf[e])
      BY <3>1, <2>1, <1>2, NoView, NoViewNext
    <3>2. CASE ~Torn(CardOf[e])
      <4>1. \A h \in Handles : CardOf[h] = CardOf[e] => ~InLoop(h)
        BY <3>2, <1>3, CardTypes DEF IInv, RegisteredOrTorn, Running
      <4>2. QueueOf[CardOf[e]] = <<>> /\ BusyWith[CardOf[e]] = NoHandle
        BY <4>1, <2>1, NoView
      <4>3. InLoop(e)' /\ ~Torn(CardOf[e])'
        BY <2>1, <3>2, <1>2 DEF InLoop
      <4>4. QueueOf'[CardOf[e]] = inbox'[e] /\ BusyWith'[CardOf[e]] = InHand(e)'
        BY <4>3, <2>1, LiveViewNext
      <4>5. inbox'[e] = <<>> /\ InHand(e)' = NoHandle
        BY <2>1, <1>1 DEF QInv, InHand
      <4> QED
        BY <4>2, <4>4, <4>5
    <3> QED
      BY <3>1, <3>2
  <2> QED
    BY <2>2, <2>3, <1>1, SameQueues DEF OfferedEvents
<1>4. CASE ~(Enqueue(e) /\ workers[CardOf[e]] = NoHandle)
  <2>1. UNCHANGED wpc
    BY <1>4 DEF DispatchStep, Dispatch, LookupWorker, EnqueueStopped, Enqueue, PushKilled,
                PushTimeout, workerVars
  <2>2. \A h \in Handles : /\ InLoop(h)' <=> InLoop(h)
                          /\ inbox'[h] = inbox[h] /\ InHand(h)' = InHand(h)
    BY <2>1, <1>1 DEF InLoop, InHand, Current
  <2> QED
    BY <2>2, <1>1, <1>2, ViewFrame, SameQueues DEF OfferedEvents
<1> QED
  BY <1>3, <1>4

\* Push: the live worker's queue gets the event, or a worker that is not live
\* has lost it.
LEMMA PushMaps ==
  ASSUME IInv, QInv, IInv', NEW e \in Events, Push(e)
  PROVE  Queue!Accept(e) \/ Queue!Lose(e)
<1> DEFINE c == CardOf[e]
<1>0. PICK h \in Handles : h = target[e]
  BY DEF Push, IInv, HasTarget
<1>1. /\ c \in Cards /\ CardOf[h] = c
      /\ UNCHANGED <<wpc, taken, closerVars>>
      /\ inbox' = [inbox EXCEPT ![h] = Append(inbox[h], e)]
      /\ inbox'[h] = Append(inbox[h], e)
      /\ \A g \in Handles : g # h => inbox'[g] = inbox[g]
  BY <1>0, CardTypes DEF Push, IInv, QInv, workerVars, TypeOK, InboxType, Handles
<1>2. Queue!Offer(e)
  BY DEF Push, Queue!Offer, OfferedEvents, IInv, TypeOK, EventType
<1>3. \A d \in Cards : Torn(d)' <=> Torn(d)
  BY <1>1 DEF Torn, closerVars
<1>4. \A g \in Handles : (InLoop(g)' <=> InLoop(g)) /\ InHand(g)' = InHand(g)
  BY <1>1 DEF InLoop, InHand, Current
<1> HIDE DEF c
<1>5. CASE InLoop(h) /\ ~Torn(c)
  <2>1. \A d \in Cards \ {c} : QueueOf'[d] = QueueOf[d] /\ BusyWith'[d] = BusyWith[d]
    <3> SUFFICES ASSUME NEW d \in Cards \ {c}
                 PROVE  QueueOf'[d] = QueueOf[d] /\ BusyWith'[d] = BusyWith[d]
      OBVIOUS
    <3> QED
      BY <1>1, <1>3, <1>4, ViewFrame
  <2>2. QueueOf[c] = inbox[h] /\ BusyWith[c] = InHand(h)
    BY <1>1, <1>5, LiveView
  <2>3. InLoop(h)' /\ ~Torn(CardOf[h])'
    BY <1>1, <1>3, <1>4, <1>5
  <2>4. QueueOf'[c] = inbox'[h] /\ BusyWith'[c] = InHand(h)'
    BY <1>1, <2>3, LiveViewNext
  <2>5. QueueOf'[c] = Append(QueueOf[c], e) /\ BusyWith'[c] = BusyWith[c]
    BY <1>1, <1>4, <2>2, <2>4
  <2>6. /\ QueueOf' = [QueueOf EXCEPT ![c] = Append(QueueOf[c], e)]
        /\ BusyWith' = BusyWith
    <3>1. /\ QueueOf' = [QueueOf EXCEPT ![c] = Append(QueueOf[c], e)]
          /\ BusyWith' = [BusyWith EXCEPT ![c] = BusyWith[c]]
      BY <2>1, <2>5, <1>1, ChangedQueue
    <3>2. [BusyWith EXCEPT ![c] = BusyWith[c]] = BusyWith
      BY DEF BusyWith
    <3> QED
      BY <3>1, <3>2
  <2> QED
    BY <2>6, <1>2 DEF Queue!Accept, c
<1>6. CASE ~(InLoop(h) /\ ~Torn(c))
  <2>1. \A d \in Cards : QueueOf'[d] = QueueOf[d] /\ BusyWith'[d] = BusyWith[d]
    <3> SUFFICES ASSUME NEW d \in Cards
                 PROVE  QueueOf'[d] = QueueOf[d] /\ BusyWith'[d] = BusyWith[d]
      OBVIOUS
    <3>1. CASE Torn(d)
      BY <3>1, <1>3, NoView, NoViewNext
    <3>2. CASE ~Torn(d)
      BY <3>2, <1>1, <1>3, <1>4, <1>6, ViewFrame
    <3> QED
      BY <3>1, <3>2
  <2> QED
    BY <2>1, <1>2, SameQueues DEF Queue!Lose
<1> QED
  BY <1>5, <1>6

\* It leaves the queues of the other cards, and all of them when its own card
\* counts as having no worker.
LEMMA OtherQueues ==
  ASSUME IInv, IInv', NEW h \in Handles, WorkerStep(h), NEW c \in Cards,
         c # CardOf[h] \/ Torn(c)
  PROVE  QueueOf'[c] = QueueOf[c] /\ BusyWith'[c] = BusyWith[c]
<1>1. /\ \A g \in Handles : g # h => /\ wpc'[g] = wpc[g] /\ inbox'[g] = inbox[g]
                                    /\ taken'[g] = taken[g]
      /\ UNCHANGED closerVars
  BY OneWorkerMoves
<1>2. Torn(c)' <=> Torn(c)
  BY <1>1 DEF Torn, closerVars
<1>3. CASE Torn(c)
  BY <1>2, <1>3, NoView, NoViewNext
<1>4. CASE ~Torn(c)
  <2>1. \A g \in Handles : CardOf[g] = c =>
          /\ InLoop(g)' <=> InLoop(g)
          /\ InLoop(g) => inbox'[g] = inbox[g] /\ InHand(g)' = InHand(g)
    BY <1>1, <1>4 DEF InLoop, InHand, Current
  <2> QED
    BY <2>1, <1>2, ViewFrame
<1> QED
  BY <1>3, <1>4

\* The worker of a card that saw no delete leaves its loop: the card's message
\* and its backlog are abandoned.
LEMMA LeavingMaps ==
  ASSUME IInv, IInv', NEW h \in Handles, WorkerStep(h), InLoop(h), ~InLoop(h)', ~Torn(CardOf[h])
  PROVE  Queue!Abandon(CardOf[h])
<1> DEFINE c == CardOf[h]
<1>1. c \in Cards
  BY CardTypes
<1>2. /\ \A g \in Handles : g # h => wpc'[g] = wpc[g]
      /\ UNCHANGED <<closerVars, epc>>
  BY OneWorkerMoves
<1>3. LiveWorkers(c) = {h}
  BY LiveIs
<1>4. \A g \in Handles : CardOf[g] = c => ~InLoop(g)'
  BY <1>2, <1>3 DEF LiveWorkers, InLoop
<1>5. QueueOf'[c] = <<>> /\ BusyWith'[c] = NoHandle
  BY <1>1, <1>4, NoViewNext
<1>6. \A d \in Cards \ {c} : QueueOf'[d] = QueueOf[d] /\ BusyWith'[d] = BusyWith[d]
  BY OtherQueues
<1> HIDE DEF c
<1>7. /\ QueueOf' = [QueueOf EXCEPT ![c] = <<>>]
      /\ BusyWith' = [BusyWith EXCEPT ![c] = NoHandle]
  BY <1>1, <1>5, <1>6, ChangedQueue
<1> QED
  BY <1>2, <1>7, Offers DEF Queue!Abandon, c

\* Receive on such a card begins the oldest waiting event.
LEMMA ReceiveMaps ==
  ASSUME IInv, IInv', NEW h \in Handles, Receive(h), ~Torn(CardOf[h])
  PROVE  Queue!Begin(CardOf[h])
<1> DEFINE c == CardOf[h]
<1>1. c \in Cards /\ WorkerStep(h)
  BY CardTypes DEF WorkerStep, LoopStep
<1>2. /\ inbox[h] # <<>> /\ inbox[h] \in Seq(Events) /\ taken[h] \in Seq(Events)
      /\ wpc[h] = "select" /\ wpc'[h] \in {"prepare", "send"}
      /\ inbox'[h] = Tail(inbox[h])
      /\ taken'[h] = Append(taken[h], Head(inbox[h]))
      /\ UNCHANGED <<closerVars, epc>>
  BY GotoOnly, LogType DEF Receive, IInv, TypeOK, WorkerType, InboxType, eventVars
<1>3. QueueOf[c] = inbox[h] /\ BusyWith[c] = NoHandle
  <2>1. InLoop(h) /\ InHand(h) = NoHandle
    BY <1>2 DEF InLoop, InHand
  <2> QED
    BY <2>1, LiveView
<1>4. QueueOf'[c] = Tail(inbox[h]) /\ BusyWith'[c] = Head(inbox[h])
  <2>1. InLoop(h)' /\ ~Torn(CardOf[h])'
    BY <1>2 DEF InLoop, Torn, closerVars
  <2>2. InHand(h)' = Head(inbox[h])
    <3>1. Head(inbox[h]) \in Events
      BY <1>2
    <3>2. Append(taken[h], Head(inbox[h]))[Len(Append(taken[h], Head(inbox[h])))] = Head(inbox[h])
      BY <1>2, <3>1
    <3>3. InHand(h)' = taken'[h][Len(taken'[h])]
      BY <1>2 DEF InHand, Current
    <3> QED
      BY <1>2, <3>2, <3>3
  <2>3. QueueOf'[c] = inbox'[h] /\ BusyWith'[c] = InHand(h)'
    BY <2>1, LiveViewNext
  <2> QED
    BY <1>2, <2>2, <2>3
<1>5. \A d \in Cards \ {c} : QueueOf'[d] = QueueOf[d] /\ BusyWith'[d] = BusyWith[d]
  BY <1>1, OtherQueues
<1> HIDE DEF c
<1>6. /\ QueueOf' = [QueueOf EXCEPT ![c] = Tail(QueueOf[c])]
      /\ BusyWith' = [BusyWith EXCEPT ![c] = Head(QueueOf[c])]
  BY <1>1, <1>3, <1>4, <1>5, ChangedQueue
<1> QED
  BY <1>2, <1>3, <1>6, Offers DEF Queue!Begin, c

\* The message in hand is an event.
LEMMA InHandIsEvent ==
  ASSUME IInv, QInv, NEW h \in Handles, InLoop(h), wpc[h] # "select"
  PROVE  InHand(h) \in Events
<1>1. taken[h] # <<>> /\ taken[h] \in Seq(Events)
  BY LogType DEF QInv, InLoop, IInv
<1>2. taken[h][Len(taken[h])] \in Events
  BY <1>1
<1> QED
  BY <1>2 DEF InHand, Current

\* A turn that leaves the worker in its loop ends the event.
LEMMA SendMaps ==
  ASSUME IInv, QInv, IInv', NEW h \in Handles, SendAndWait(h), InLoop(h)', ~Torn(CardOf[h])
  PROVE  Queue!End(CardOf[h])
<1> DEFINE c == CardOf[h]
<1>1. c \in Cards /\ WorkerStep(h)
  BY CardTypes DEF WorkerStep
<1>2. /\ wpc[h] = "send" /\ wpc'[h] = "select"
      /\ UNCHANGED <<inbox, taken, closerVars, epc>>
  BY GotoOnly DEF SendAndWait, SendOk, SendFails, IInv, InLoop, eventVars
<1>3. QueueOf[c] = inbox[h] /\ BusyWith[c] \in Events
  <2>1. InLoop(h) /\ InHand(h) \in Events
    BY <1>2, InHandIsEvent DEF InLoop
  <2> QED
    BY <2>1, LiveView
<1>4. QueueOf'[c] = inbox[h] /\ BusyWith'[c] = NoHandle
  <2>1. ~Torn(CardOf[h])' /\ InHand(h)' = NoHandle
    BY <1>2 DEF Torn, closerVars, InHand
  <2> QED
    BY <1>2, <2>1, LiveViewNext
<1>5. \A d \in Cards \ {c} : QueueOf'[d] = QueueOf[d] /\ BusyWith'[d] = BusyWith[d]
  BY <1>1, OtherQueues
<1> HIDE DEF c
<1>6. /\ QueueOf' = [QueueOf EXCEPT ![c] = QueueOf[c]]
      /\ BusyWith' = [BusyWith EXCEPT ![c] = NoHandle]
  BY <1>1, <1>3, <1>4, <1>5, ChangedQueue
<1>7. QueueOf' = QueueOf
  BY <1>6 DEF QueueOf
<1> QED
  BY <1>2, <1>3, <1>6, <1>7, CardTypes, Offers DEF Queue!End, c

\* Making a session, reaping an idle one, the agent's own cleanup and the deferred
\* calls leave the queues.
Preparing(h) == Prepare(h) \/ RecordWorkDir(h) \/ CreateSession(h)

LEMMA WorkerKeeps ==
  ASSUME IInv, IInv', NEW h \in Handles,
         IdleReap(h) \/ Preparing(h) \/ AgentRemovesWorkDir(h) \/ ExitStep(h)
  PROVE  UNCHANGED <<OfferedEvents, QueueOf, BusyWith>>
<1>1. WorkerStep(h)
  BY DEF WorkerStep, NewSession, Preparing
<1>2. /\ UNCHANGED <<inbox, taken, epc, closerVars>>
      /\ \A g \in Handles : g # h => wpc'[g] = wpc[g]
      /\ \/ wpc'[h] = wpc[h]
         \/ wpc[h] \in {"prepare", "clone", "create"} /\ wpc'[h] \in {"clone", "create", "send"}
         \/ ~InLoop(h) /\ ~InLoop(h)'
  <2>1. /\ UNCHANGED <<epc, closerVars>>
        /\ \A g \in Handles : g # h => wpc'[g] = wpc[g]
    BY <1>1, OneWorkerMoves
  <2>2. UNCHANGED <<inbox, taken>>
    BY DEF IdleReap, Preparing, Prepare, RecordWorkDir, CreateSession, AgentRemovesWorkDir,
           ExitStep, Disconnect, Deregister, CloseDone
  <2>3. CASE IdleReap(h) \/ AgentRemovesWorkDir(h)
    BY <2>1, <2>2, <2>3 DEF IdleReap, AgentRemovesWorkDir
  <2>4. CASE Preparing(h)
    BY <2>1, <2>2, <2>4, GotoOnly DEF Preparing, Prepare, RecordWorkDir, CreateSession, IInv
  <2>5. CASE ExitStep(h)
    BY <2>1, <2>2, <2>5, GotoOnly DEF ExitStep, Disconnect, Deregister, CloseDone, IInv, InLoop
  <2> QED
    BY <2>3, <2>4, <2>5
<1>4. \A c \in Cards : Torn(c)' <=> Torn(c)
  BY <1>2 DEF Torn, closerVars
<1>5. ASSUME NEW c \in Cards
      PROVE  QueueOf'[c] = QueueOf[c] /\ BusyWith'[c] = BusyWith[c]
  <2>1. \A g \in Handles : CardOf[g] = c =>
          /\ InLoop(g)' <=> InLoop(g)
          /\ InLoop(g) => inbox'[g] = inbox[g] /\ InHand(g)' = InHand(g)
    BY <1>2 DEF InLoop, InHand, Current
  <2>2. Torn(c)' <=> Torn(c)
    BY <1>4
  <2> QED
    BY <2>1, <2>2, ViewFrame
<1> QED
  BY <1>2, <1>5, SameQueues, Offers

LEMMA WorkerMaps ==
  ASSUME IInv, QInv, IInv', NEW h \in Handles, WorkerStep(h)
  PROVE  [Queue!Next]_<<OfferedEvents, QueueOf, BusyWith>>
<1>1. CASE IdleReap(h) \/ Preparing(h) \/ AgentRemovesWorkDir(h) \/ ExitStep(h)
  BY <1>1, WorkerKeeps
<1>2. CASE Receive(h) \/ SeeKill(h) \/ NewSessionFails(h) \/ SendAndWait(h)
  <2>1. CASE Torn(CardOf[h])
    <3>1. \A c \in Cards : QueueOf'[c] = QueueOf[c] /\ BusyWith'[c] = BusyWith[c]
      BY <2>1, OtherQueues
    <3> QED
      BY <3>1, SameQueues, OneWorkerMoves, Offers
  <2>2. CASE ~Torn(CardOf[h])
    <3>1. CardOf[h] \in Cards
      BY CardTypes
    <3>2. CASE Receive(h)
      BY <2>2, <3>1, <3>2, ReceiveMaps DEF Queue!Next
    <3>3. CASE SendAndWait(h)
      <4>1. InLoop(h)
        BY <3>3, GotoOnly DEF SendAndWait, SendOk, SendFails, InLoop, IInv
      <4>2. CASE InLoop(h)'
        BY <2>2, <3>1, <3>3, <4>2, SendMaps DEF Queue!Next
      <4>3. CASE ~InLoop(h)'
        BY <2>2, <3>1, <4>1, <4>3, LeavingMaps DEF Queue!Next
      <4> QED
        BY <4>2, <4>3 DEF InLoop
    <3>4. CASE SeeKill(h) \/ NewSessionFails(h)
      <4>1. InLoop(h) /\ ~InLoop(h)'
        BY <3>4, GotoOnly DEF SeeKill, NewSessionFails, InLoop, IInv
      <4> QED
        BY <2>2, <3>1, <4>1, LeavingMaps DEF Queue!Next
    <3> QED
      BY <1>2, <3>2, <3>3, <3>4
  <2> QED
    BY <2>1, <2>2
<1> QED
  BY <1>1, <1>2 DEF WorkerStep, LoopStep, NewSession, Preparing

\* DeleteWorker abandons its card's queue, the other teardown steps leave all.
LEMMA CloserMaps ==
  ASSUME IInv, IInv', NEW k \in Closers, CloserStep(k)
  PROVE  [Queue!Next]_<<OfferedEvents, QueueOf, BusyWith>>
<1>1. UNCHANGED <<wpc, taken, inbox, eventVars>>
  BY DEF CloserStep, ShutdownStep, DeleteStep, Stop, DeleteWorker, Snapshot, CloseKill, CancelCtx,
         ShutdownTwice, Await, RemoveWorkDir, workerVars
<1>2. \A g \in Handles : /\ InLoop(g)' <=> InLoop(g)
                        /\ inbox'[g] = inbox[g] /\ InHand(g)' = InHand(g)
  BY <1>1 DEF InLoop, InHand, Current
<1>3. OfferedEvents' = OfferedEvents
  BY <1>1, Offers DEF eventVars
<1>4. CASE k \in Deleters /\ DeleteWorker(k)
  <2> DEFINE c == CardOf[k]
  <2>1. c \in Cards /\ \A j \in Closers : j # k => held'[j] = held[j]
    BY <1>4, CardTypes DEF DeleteWorker, IInv, TypeOK, CloserType
  <2>2. \A d \in Cards \ {c} : Torn(d)' <=> Torn(d)
    BY <2>1 DEF Torn, Closers
  <2>3. \A d \in Cards \ {c} : QueueOf'[d] = QueueOf[d] /\ BusyWith'[d] = BusyWith[d]
    BY <1>2, <2>2, ViewFrame
  <2>4. CASE Torn(c)' <=> Torn(c)
    <3>1. QueueOf'[c] = QueueOf[c] /\ BusyWith'[c] = BusyWith[c]
      BY <1>2, <2>1, <2>4, ViewFrame
    <3> QED
      BY <1>3, <2>3, <3>1, SameQueues
  <2>5. CASE Torn(c)'
    <3>1. QueueOf'[c] = <<>> /\ BusyWith'[c] = NoHandle
      BY <2>1, <2>5, NoViewNext
    <3> HIDE DEF c
    <3>2. /\ QueueOf' = [QueueOf EXCEPT ![c] = <<>>]
          /\ BusyWith' = [BusyWith EXCEPT ![c] = NoHandle]
      BY <2>1, <2>3, <3>1, ChangedQueue
    <3> QED
      BY <1>3, <2>1, <3>2 DEF Queue!Abandon, Queue!Next
  <2>6. CASE Torn(c) /\ ~Torn(c)'
    <3>1. PICK j \in Deleters : CardOf[j] = c /\ held[j] # {}
      BY <2>6 DEF Torn
    <3>2. held'[j] # {}
      BY <1>4, <3>1, <2>1 DEF DeleteWorker, IInv, TypeOK, CloserType, Closers
    <3> QED
      BY <2>6, <3>1, <3>2 DEF Torn
  <2> QED
    BY <2>4, <2>5, <2>6
<1>5. CASE ~(k \in Deleters /\ DeleteWorker(k))
  <2>1. \A j \in Deleters : held'[j] = held[j]
    <3>1. CASE k \in Stoppers /\ Stop(k)
      <4>1. k \notin Deleters
        BY <3>1, DispatcherAssumption DEF DispatcherAssumption
      <4> QED
        BY <3>1, <4>1 DEF Stop, IInv, TypeOK, CloserType, Closers
    <3>2. CASE ~(k \in Stoppers /\ Stop(k))
      BY <1>5, <3>2 DEF CloserStep, ShutdownStep, DeleteStep, Snapshot, CloseKill, CancelCtx,
                        ShutdownTwice, Await, RemoveWorkDir
    <3> QED
      BY <3>1, <3>2
  <2>2. \A c \in Cards : Torn(c)' <=> Torn(c)
    BY <2>1 DEF Torn
  <2> QED
    BY <1>2, <1>3, <2>2, ViewFrame, SameQueues
<1> QED
  BY <1>4, <1>5

LEMMA StepMaps ==
  IInv /\ QInv /\ IInv' /\ [Next]_vars => [Queue!Next]_<<OfferedEvents, QueueOf, BusyWith>>
<1> SUFFICES ASSUME IInv, QInv, IInv', [Next]_vars
             PROVE  [Queue!Next]_<<OfferedEvents, QueueOf, BusyWith>>
  OBVIOUS
<1>1. CASE UNCHANGED vars
  <2>1. UNCHANGED <<wpc, taken, inbox, epc, held>>
    BY <1>1 DEF vars, workerVars, eventVars, closerVars
  <2>2. \A h \in Handles : /\ InLoop(h)' <=> InLoop(h)
                          /\ inbox'[h] = inbox[h] /\ InHand(h)' = InHand(h)
    BY <2>1 DEF InLoop, InHand, Current
  <2>3. \A c \in Cards : Torn(c)' <=> Torn(c)
    BY <2>1 DEF Torn
  <2> QED
    BY <2>1, <2>2, <2>3, ViewFrame, SameQueues, Offers
<1>2. ASSUME NEW e \in Events, DispatchStep(e)
      PROVE  [Queue!Next]_<<OfferedEvents, QueueOf, BusyWith>>
  <2>1. CASE Push(e)
    BY <2>1, PushMaps DEF Queue!Next
  <2>2. CASE ~Push(e)
    BY <1>2, <2>2, DispatchKeeps
  <2> QED
    BY <2>1, <2>2
<1>3. ASSUME NEW h \in Handles, WorkerStep(h)
      PROVE  [Queue!Next]_<<OfferedEvents, QueueOf, BusyWith>>
  BY <1>3, WorkerMaps
<1>4. ASSUME NEW k \in Closers, CloserStep(k)
      PROVE  [Queue!Next]_<<OfferedEvents, QueueOf, BusyWith>>
  BY <1>4, CloserMaps
<1> QED
  BY <1>1, <1>2, <1>3, <1>4 DEF Next

LEMMA InitMaps == Init => Queue!Init
<1> SUFFICES ASSUME Init PROVE Queue!Init
  OBVIOUS
<1>1. \A h \in Handles : ~InLoop(h)
  BY DEF Init, InLoop
<1>2. \A c \in Cards : QueueOf[c] = <<>> /\ BusyWith[c] = NoHandle
  BY <1>1, NoView
<1>3. QueueOf = [c \in Cards |-> <<>>] /\ BusyWith = [c \in Cards |-> NoHandle]
  <2>1. QueueOf = [c \in Cards |-> QueueOf[c]] /\ BusyWith = [c \in Cards |-> BusyWith[c]]
    BY DEF QueueOf, BusyWith
  <2> QED
    BY <1>2, <2>1
<1>4. OfferedEvents = {}
  BY DEF Init, OfferedEvents
<1> QED
  BY <1>3, <1>4 DEF Queue!Init

\* The dispatcher implements the per-card queue: same-card events are processed
\* one at a time, in the order in which they were accepted, each at most once.
THEOREM RefinesCardQueue == Spec => ImplementsCardQueue
<1>1. Init => Queue!Init
  BY InitMaps
<1>2. IInv /\ QInv /\ IInv' /\ [Next]_vars => [Queue!Next]_<<OfferedEvents, QueueOf, BusyWith>>
  BY StepMaps
<1> QED
  BY <1>1, <1>2, QueueInvariant, PTL DEF Spec, ImplementsCardQueue, Queue!Spec, Queue!vars
=============================================================================
