---------------------------- MODULE GatewayProofs ----------------------------
(***************************************************************************)
(* The de-duplication and the audit directory, for every set of deliveries *)
(* and actions and every TTL.                                              *)
(***************************************************************************)
EXTENDS GatewayProperties, SequenceTheorems, TLAPS

(***************************************************************************)
(* Type correctness.                                                       *)
(***************************************************************************)

LEMMA TypeInit == Init => TypeOK
<1> SUFFICES ASSUME Init PROVE TypeOK
  OBVIOUS
<1>1. DOMAIN seen = {}
  BY DEF Init
<1>2. acks \in Seq(Deliveries) /\ queue \in Seq(Deliveries)
  BY DEF Init
<1>3. phase \in Phases /\ now \in 0..MaxTime
  BY GatewayAssumption DEF Init, Phases, GatewayAssumption
<1>4. pc \in [Deliveries -> {"unsent", "handler"} \cup InFlight \cup Ended]
  BY DEF Init
<1>5. checked \in [Deliveries -> 0..now]
  BY DEF Init
<1>6. dirs = {} /\ stuck = {} /\ late = {} /\ stopped \in BOOLEAN
  BY DEF Init
<1>7. made \in Nat /\ auditDir \in 0..made /\ removing \in 0..made
  BY DEF Init
<1>8. QED
  BY <1>1, <1>2, <1>3, <1>4, <1>5, <1>6, <1>7 DEF TypeOK

\* What moves a delivery on without touching anything else.
LEMMA TypeGoto ==
  ASSUME TypeOK, NEW d \in Deliveries, NEW from,
         NEW to \in {"handler"} \cup InFlight \cup Ended, Goto(d, from, to),
         UNCHANGED <<phase, now, acks, dedupVars, auditVars, workVars>>
  PROVE  TypeOK'
BY DEF TypeOK, Goto, dedupVars, auditVars, workVars

\* A new entry holds the current time.
LEMMA TypeMark ==
  ASSUME TypeOK, NEW d \in Deliveries, MarkActionSeen(d)
  PROVE  TypeOK'
<1> DEFINE a == ActionOf[d]
<1>1. a \in Actions
  BY GatewayAssumption DEF MarkActionSeen, GatewayAssumption
<1>2. DOMAIN seen' = Fresh \cup {a} /\ DOMAIN seen' \subseteq Actions
  BY <1>1 DEF MarkActionSeen, Fresh, TypeOK
<1>3. \A b \in DOMAIN seen' : seen'[b] \in 0..now'
  BY <1>2 DEF MarkActionSeen, Fresh, TypeOK
<1>4. checked' \in [Deliveries -> 0..now']
  BY DEF MarkActionSeen, TypeOK
<1>5. pc' \in [Deliveries -> {"unsent", "handler"} \cup InFlight \cup Ended]
  BY DEF MarkActionSeen, Goto, TypeOK, InFlight, Ended
<1>6. UNCHANGED <<phase, now, acks, auditVars, workVars>>
  BY DEF MarkActionSeen
<1>7. QED
  BY <1>2, <1>3, <1>4, <1>5, <1>6 DEF TypeOK, auditVars, workVars

LEMMA TypeDelivery ==
  ASSUME TypeOK, NEW d \in Deliveries, HandlerStep(d) \/ HandleStep(d)
  PROVE  TypeOK'
<1>1. CASE Accept(d)
  <2>1. acks' \in Seq(Deliveries)
    BY <1>1 DEF Accept, TypeOK
  <2>2. pc' \in [Deliveries -> {"unsent", "handler"} \cup InFlight \cup Ended]
    BY <1>1 DEF Accept, Goto, TypeOK, InFlight
  <2>3. QED
    BY <1>1, <2>1, <2>2 DEF Accept, TypeOK, dedupVars, auditVars, workVars
<1>2. CASE MarkActionSeen(d)
  BY <1>2, TypeMark
<1>3. CASE WriteAuditCopy(d)
  <2>1. pc' \in [Deliveries -> {"unsent", "handler"} \cup InFlight \cup Ended]
    BY <1>3 DEF WriteAuditCopy, Goto, TypeOK, InFlight
  <2>2. CASE UNCHANGED auditVars
    BY <1>3, <2>1, <2>2 DEF WriteAuditCopy, TypeOK, dedupVars, auditVars, workVars
  <2>3. CASE ~UNCHANGED auditVars
    <3>1. /\ made' = made + 1 /\ auditDir' = made' /\ dirs' = dirs \cup {made'}
          /\ late' \in {late, late \cup {d}}
          /\ UNCHANGED <<removing, stuck>>
      BY <1>3, <2>3 DEF WriteAuditCopy
    <3>2. made' \in Nat /\ 0..made \subseteq 0..made' /\ 1..made \subseteq 1..made' /\ made' \in 1..made'
      BY <3>1 DEF TypeOK
    <3>3. /\ dirs' \subseteq 1..made' /\ stuck' \subseteq 0..made' /\ late' \subseteq Deliveries
          /\ auditDir' \in 0..made' /\ removing' \in 0..made'
      BY <3>1, <3>2 DEF TypeOK
    <3>4. QED
      BY <1>3, <2>1, <3>2, <3>3 DEF WriteAuditCopy, TypeOK, dedupVars, workVars
  <2>4. QED
    BY <2>2, <2>3
<1>4. CASE Push(d)
  <2>1. queue' \in Seq(Deliveries)
    BY <1>4 DEF Push, TypeOK
  <2>2. pc' \in [Deliveries -> {"unsent", "handler"} \cup InFlight \cup Ended]
    BY <1>4 DEF Push, Goto, TypeOK, Ended
  <2>3. QED
    BY <1>4, <2>1, <2>2 DEF Push, TypeOK, dedupVars, auditVars
<1>5. CASE Post(d) \/ Reject(d) \/ SkipMark(d) \/ Drop(d) \/ Enqueue(d) \/ PushFails(d)
  <2>1. pc' \in [Deliveries -> {"unsent", "handler"} \cup InFlight \cup Ended]
    BY <1>5 DEF Post, Reject, SkipMark, Drop, Enqueue, PushFails, Goto, TypeOK, InFlight, Ended
  <2>2. UNCHANGED <<phase, now, acks, dedupVars, auditVars, workVars>>
    BY <1>5 DEF Post, Reject, SkipMark, Drop, Enqueue, PushFails
  <2>3. QED
    BY <2>1, <2>2 DEF TypeOK, dedupVars, auditVars, workVars
<1>6. QED
  BY <1>1, <1>2, <1>3, <1>4, <1>5 DEF HandlerStep, HandleStep

LEMMA TypeMain ==
  ASSUME TypeOK, Serve \/ Signal \/ ShutdownStep
  PROVE  TypeOK'
<1>1. phase' \in Phases /\ UNCHANGED <<now, pc, acks, dedupVars, made, late>>
  BY DEF Serve, Signal, ShutdownStep, StopDispatcher, DispatcherStopped, TakeAuditDir,
         RemoveAuditDir, Exit, Advance, Phases, auditVars
<1>2. /\ dirs' \subseteq 1..made /\ stuck' \subseteq 0..made
      /\ auditDir' \in 0..made /\ removing' \in 0..made
  <2>1. CASE RemoveAuditDir
    <3>1. 0 \in 0..made
      BY DEF TypeOK
    <3>2. QED
      BY <2>1, <3>1 DEF RemoveAuditDir, TypeOK
  <2>2. CASE TakeAuditDir
    <3>1. 0 \in 0..made
      BY DEF TypeOK
    <3>2. QED
      BY <2>2, <3>1 DEF TakeAuditDir, TypeOK
  <2>3. CASE ~(RemoveAuditDir \/ TakeAuditDir)
    <3>1. UNCHANGED auditVars
      BY <2>3 DEF Serve, Signal, ShutdownStep, StopDispatcher, DispatcherStopped, Exit
    <3>2. QED
      BY <3>1 DEF TypeOK, auditVars
  <2>4. QED
    BY <2>1, <2>2, <2>3
<1>3. stopped' \in BOOLEAN /\ queue' = queue
  BY DEF Serve, Signal, ShutdownStep, StopDispatcher, DispatcherStopped, TakeAuditDir,
         RemoveAuditDir, Exit, TypeOK, workVars
<1>4. QED
  BY <1>1, <1>2, <1>3 DEF TypeOK, dedupVars

LEMMA TypeStep == TypeOK /\ [Next]_vars => TypeOK'
<1> SUFFICES ASSUME TypeOK, [Next]_vars PROVE TypeOK'
  OBVIOUS
<1>1. ASSUME NEW d \in Deliveries, HandlerStep(d) \/ HandleStep(d) PROVE TypeOK'
  BY <1>1, TypeDelivery
<1>2. CASE Serve \/ Signal \/ ShutdownStep
  BY <1>2, TypeMain
<1>3. CASE Tick
  <2>1. now' \in 0..MaxTime /\ 0..now \subseteq 0..now'
    BY <1>3, GatewayAssumption DEF Tick, TypeOK, GatewayAssumption
  <2>2. QED
    BY <1>3, <2>1 DEF Tick, TypeOK, dedupVars, auditVars, workVars
<1>4. CASE UNCHANGED vars
  BY <1>4 DEF TypeOK, vars, dedupVars, auditVars, workVars
<1>5. QED
  BY <1>1, <1>2, <1>3, <1>4 DEF Next

(***************************************************************************)
(* The de-duplication.                                                     *)
(***************************************************************************)

LEMMA DedupInit == Init => DedupInv
BY DEF Init, DedupInv, PassedIsRemembered, EntryHasOriginal, OncePerWindow,
       DuplicateHasOriginal, Passed

\* The deliveries let through stay through, so their facts stay.
LEMMA PassedMark ==
  ASSUME TypeOK, NEW d \in Deliveries, MarkActionSeen(d)
  PROVE  /\ d \notin Passed
         /\ Passed' = IF ActionOf[d] \in Fresh THEN Passed ELSE Passed \cup {d}
         /\ \A c \in Deliveries : c # d => checked'[c] = checked[c]
         /\ checked'[d] = now
         /\ \A c \in Deliveries : c # d => pc'[c] = pc[c]
         /\ pc'[d] = "duplicate" => ActionOf[d] \in Fresh
BY DEF MarkActionSeen, Goto, Passed, TypeOK

\* The facts on times that the lookup compares.
LEMMA Times ==
  ASSUME TypeOK
  PROVE  /\ now \in Nat /\ TTL \in Nat
         /\ \A c \in Deliveries : checked[c] \in Nat /\ checked[c] <= now
         /\ \A a \in DOMAIN seen : seen[a] \in Nat /\ seen[a] <= now
BY GatewayAssumption DEF TypeOK, GatewayAssumption

\* Whoever was let through before an action is found absent or expired, was
\* looked up more than the TTL ago.
LEMMA AbsentIsExpired ==
  ASSUME TypeOK, PassedIsRemembered, NEW a \in Actions, a \notin Fresh,
         NEW c \in Passed, ActionOf[c] = a
  PROVE  checked[c] + TTL < now
<1>1. a # NoAction
  BY GatewayAssumption DEF GatewayAssumption
<1>2. c \in Deliveries
  BY DEF Passed
<1>3. CASE a \in DOMAIN seen /\ checked[c] <= seen[a]
  <2>1. seen[a] \in Nat /\ now \in Nat /\ TTL \in Nat /\ checked[c] \in Nat
    BY <1>2, <1>3, Times
  <2>2. ~(now <= seen[a] + TTL)
    BY <1>3 DEF Fresh
  <2>3. QED
    BY <1>3, <2>1, <2>2
<1>4. QED
  BY <1>1, <1>3 DEF PassedIsRemembered

LEMMA MarkOnce ==
  ASSUME TypeOK, DedupInv, NEW d \in Deliveries, MarkActionSeen(d)
  PROVE  OncePerWindow'
<1> SUFFICES ASSUME NEW c \in Passed', NEW e \in Passed', SameAction(c, e), c # e,
                    checked'[c] <= checked'[e]
             PROVE  checked'[c] + TTL < checked'[e]
  BY DEF OncePerWindow, SameAction
<1>1. c \in Deliveries /\ e \in Deliveries
  BY DEF Passed
<1>2. CASE c # d /\ e # d
  <2>1. c \in Passed /\ e \in Passed
    BY <1>2, PassedMark
  <2>2. QED
    BY <1>1, <1>2, <2>1, PassedMark DEF DedupInv, OncePerWindow
<1>3. CASE c = d \/ e = d
  <2>1. ActionOf[d] \notin Fresh
    BY <1>3, PassedMark
  <2>2. PICK b \in Passed : b = (IF c = d THEN e ELSE c) /\ b # d
    BY <1>3, PassedMark, <2>1
  <2>3. ActionOf[b] = ActionOf[d] /\ ActionOf[d] \in Actions
    BY <1>1, <1>3, <2>2, GatewayAssumption DEF SameAction, GatewayAssumption
  <2>4. checked[b] + TTL < now
    BY <2>1, <2>2, <2>3, AbsentIsExpired DEF DedupInv
  <2>5. checked'[b] = checked[b] /\ checked'[d] = now /\ b \in Deliveries
    BY <1>1, <2>2, PassedMark
  <2>6. checked[b] \in Nat /\ now \in Nat /\ TTL \in Nat
    BY <2>5, Times
  <2>7. QED
    BY <1>3, <2>2, <2>4, <2>5, <2>6
<1>4. QED
  BY <1>2, <1>3

LEMMA MarkRemembers ==
  ASSUME TypeOK, DedupInv, NEW d \in Deliveries, MarkActionSeen(d)
  PROVE  PassedIsRemembered'
<1> SUFFICES ASSUME NEW c \in Passed', ActionOf[c] # NoAction,
                    ~(checked'[c] + TTL < now)
             PROVE  ActionOf[c] \in DOMAIN seen' /\ checked'[c] <= seen'[ActionOf[c]]
  BY DEF PassedIsRemembered, MarkActionSeen
<1>1. c \in Deliveries
  BY DEF Passed
<1>2. /\ DOMAIN seen' = Fresh \cup {ActionOf[d]}
      /\ \A b \in DOMAIN seen' : seen'[b] = IF b \in Fresh THEN seen[b] ELSE now
  BY DEF MarkActionSeen
<1>3. CASE c = d
  <2>1. ActionOf[d] \notin Fresh
    BY <1>3, PassedMark
  <2>2. QED
    BY <1>2, <1>3, <2>1, PassedMark, Times
<1>4. CASE c # d
  <2>1. c \in Passed /\ checked'[c] = checked[c]
    BY <1>1, <1>4, PassedMark
  <2>2. ActionOf[c] \in DOMAIN seen /\ checked[c] <= seen[ActionOf[c]]
    BY <2>1 DEF DedupInv, PassedIsRemembered
  <2>3. now <= seen[ActionOf[c]] + TTL
    BY <1>1, <2>1, <2>2, Times
  <2>4. ActionOf[c] \in Fresh
    BY <2>2, <2>3 DEF Fresh
  <2>5. QED
    BY <1>2, <2>1, <2>2, <2>4
<1>5. QED
  BY <1>3, <1>4

LEMMA MarkHasOriginals ==
  ASSUME TypeOK, DedupInv, NEW d \in Deliveries, MarkActionSeen(d)
  PROVE  EntryHasOriginal' /\ DuplicateHasOriginal'
<1>1. Passed \subseteq Passed' /\ \A c \in Passed : c # d /\ checked'[c] = checked[c]
  BY PassedMark DEF Passed
<1>2. EntryHasOriginal'
  <2> SUFFICES ASSUME NEW b \in DOMAIN seen'
               PROVE  \E c \in Passed' : ActionOf[c] = b /\ checked'[c] = seen'[b]
    BY DEF EntryHasOriginal
  <2>1. b \in Fresh \cup {ActionOf[d]} /\ seen'[b] = IF b \in Fresh THEN seen[b] ELSE now
    BY DEF MarkActionSeen
  <2>2. CASE b \in Fresh
    <3>1. PICK c \in Passed : ActionOf[c] = b /\ checked[c] = seen[b]
      BY <2>2 DEF Fresh, DedupInv, EntryHasOriginal
    <3>2. QED
      BY <1>1, <2>1, <2>2, <3>1
  <2>3. CASE b \notin Fresh
    <3>1. d \in Passed' /\ ActionOf[d] = b /\ checked'[d] = now
      BY <2>1, <2>3, PassedMark
    <3>2. QED
      BY <2>1, <2>3, <3>1
  <2>4. QED
    BY <2>2, <2>3
<1>3. DuplicateHasOriginal'
  <2> SUFFICES ASSUME NEW e \in Deliveries, pc'[e] = "duplicate"
               PROVE  \E c \in Passed' : /\ SameAction(c, e)
                                         /\ checked'[c] <= checked'[e]
                                         /\ checked'[e] <= checked'[c] + TTL
    BY DEF DuplicateHasOriginal, SameAction
  <2>1. CASE e # d
    <3>1. pc[e] = "duplicate" /\ checked'[e] = checked[e]
      BY <2>1, PassedMark
    <3>2. PICK c \in Passed : /\ SameAction(c, e)
                              /\ checked[c] <= checked[e]
                              /\ checked[e] <= checked[c] + TTL
      BY <3>1 DEF DedupInv, DuplicateHasOriginal
    <3>3. QED
      BY <1>1, <3>1, <3>2
  <2>2. CASE e = d
    <3>1. ActionOf[d] \in Fresh /\ checked'[d] = now /\ ActionOf[d] # NoAction
      BY <2>2, PassedMark DEF MarkActionSeen
    <3>2. PICK c \in Passed : ActionOf[c] = ActionOf[d] /\ checked[c] = seen[ActionOf[d]]
      BY <3>1 DEF Fresh, DedupInv, EntryHasOriginal
    <3>3. seen[ActionOf[d]] <= now /\ now <= seen[ActionOf[d]] + TTL
      BY <3>1, Times DEF Fresh
    <3>4. QED
      BY <1>1, <2>2, <3>1, <3>2, <3>3 DEF SameAction
  <2>3. QED
    BY <2>1, <2>2
<1>4. QED
  BY <1>2, <1>3

\* Nothing but markActionSeen drops a duplicate or lets an action through.
LEMMA DedupMove ==
  ASSUME TypeOK, DedupInv, UNCHANGED <<now, dedupVars>>,
         Passed \subseteq Passed',
         \A c \in Passed' \ Passed : ActionOf[c] = NoAction,
         \A c \in Deliveries : pc'[c] = "duplicate" => pc[c] = "duplicate"
  PROVE  DedupInv'
<1>1. OncePerWindow' /\ PassedIsRemembered'
  BY DEF DedupInv, OncePerWindow, PassedIsRemembered, SameAction, dedupVars
<1>2. EntryHasOriginal'
  BY DEF DedupInv, EntryHasOriginal, dedupVars
<1>3. DuplicateHasOriginal'
  BY DEF DedupInv, DuplicateHasOriginal, SameAction, dedupVars
<1>4. QED
  BY <1>1, <1>2, <1>3 DEF DedupInv

LEMMA DedupStep == TypeOK /\ DedupInv /\ [Next]_vars => DedupInv'
<1> SUFFICES ASSUME TypeOK, DedupInv, [Next]_vars PROVE DedupInv'
  OBVIOUS
<1>1. ASSUME NEW d \in Deliveries, MarkActionSeen(d) PROVE DedupInv'
  BY <1>1, MarkOnce, MarkRemembers, MarkHasOriginals DEF DedupInv
<1>2. ASSUME NEW d \in Deliveries, HandlerStep(d) \/ HandleStep(d), ~MarkActionSeen(d)
      PROVE  DedupInv'
  <2>1. UNCHANGED <<now, dedupVars>>
    BY <1>2 DEF HandlerStep, HandleStep, Post, Reject, Accept, SkipMark, WriteAuditCopy,
                Drop, Enqueue, Push, PushFails
  <2>2. /\ Passed \subseteq Passed'
        /\ \A c \in Passed' \ Passed : ActionOf[c] = NoAction
        /\ \A c \in Deliveries : pc'[c] = "duplicate" => pc[c] = "duplicate"
    BY <1>2 DEF HandlerStep, HandleStep, Post, Reject, Accept, SkipMark, WriteAuditCopy,
                Drop, Enqueue, Push, PushFails, Goto, Passed, TypeOK
  <2>3. QED
    BY <2>1, <2>2, DedupMove
<1>3. CASE Serve \/ Signal \/ ShutdownStep
  <2>1. UNCHANGED <<now, pc, dedupVars>>
    BY <1>3 DEF Serve, Signal, ShutdownStep, StopDispatcher, DispatcherStopped,
                TakeAuditDir, RemoveAuditDir, Exit, Advance
  <2>2. QED
    BY <2>1, DedupMove DEF Passed
<1>4. CASE Tick
  <2>1. now' = now + 1 /\ UNCHANGED <<pc, seen, checked>>
    BY <1>4 DEF Tick, dedupVars
  <2>2. Passed' = Passed
    BY <2>1 DEF Passed
  <2>3. PassedIsRemembered'
    <3>1. \A c \in Passed : checked[c] + TTL < now => checked[c] + TTL < now + 1
      BY Times DEF Passed
    <3>2. QED
      BY <2>1, <2>2, <3>1 DEF DedupInv, PassedIsRemembered
  <2>4. QED
    BY <2>1, <2>2, <2>3 DEF DedupInv, EntryHasOriginal, OncePerWindow,
                            DuplicateHasOriginal, SameAction
<1>5. CASE UNCHANGED vars
  BY <1>5, DedupMove DEF vars, dedupVars, Passed
<1>6. QED
  BY <1>1, <1>2, <1>3, <1>4, <1>5 DEF Next

(***************************************************************************)
(* The audit directory.                                                    *)
(***************************************************************************)

AuditInv == DirsKnown /\ LateMade /\ RemovalUnderway

LEMMA AuditStep ==
  ASSUME TypeOK, AuditInv, [Next]_vars
  PROVE  AuditInv'
<1> USE DEF AuditInv
<1>1. 0 \notin dirs
  BY DEF TypeOK
<1>2. CASE \E d \in Deliveries : WriteAuditCopy(d)
  <2>1. PICK d \in Deliveries : WriteAuditCopy(d)
    BY <1>2
  <2>2. Alive /\ phase' = phase
    BY <2>1 DEF WriteAuditCopy, Goto
  <2>3. CASE UNCHANGED auditVars
    BY <2>2, <2>3 DEF DirsKnown, LateMade, RemovalUnderway, Forgotten, Alive, auditVars
  <2>4. CASE /\ auditDir = 0 /\ auditDir' = made' /\ dirs' = dirs \cup {made'}
             /\ late' = IF Forgotten THEN late \cup {d} ELSE late
             /\ UNCHANGED <<removing, stuck>>
    BY <1>1, <2>2, <2>4 DEF DirsKnown, LateMade, RemovalUnderway, Forgotten, Alive
  <2>5. QED
    BY <2>1, <2>3, <2>4 DEF WriteAuditCopy
<1>3. CASE TakeAuditDir
  BY <1>1, <1>3 DEF TakeAuditDir, Advance, DirsKnown, LateMade, RemovalUnderway
<1>4. CASE RemoveAuditDir
  BY <1>4 DEF RemoveAuditDir, Advance, DirsKnown, LateMade, RemovalUnderway, Forgotten, Alive
<1>5. CASE Serve \/ Signal \/ StopDispatcher \/ DispatcherStopped \/ Exit
  <2>1. /\ UNCHANGED auditVars /\ phase # "removing" /\ phase' # "removing"
        /\ (Forgotten \/ ~Alive)' => Forgotten
    BY <1>5 DEF Serve, Signal, StopDispatcher, DispatcherStopped, Exit, Advance, Forgotten, Alive
  <2>2. QED
    BY <2>1 DEF DirsKnown, LateMade, RemovalUnderway, auditVars
<1>6. CASE UNCHANGED <<phase, auditVars>>
  BY <1>6 DEF DirsKnown, LateMade, RemovalUnderway, Forgotten, Alive, auditVars
<1>7. UNCHANGED <<phase, auditVars>> \/ (\E d \in Deliveries : WriteAuditCopy(d)) \/ Serve \/ Signal \/ ShutdownStep
  BY DEF Next, HandlerStep, HandleStep, Post, Reject, Accept, MarkActionSeen, SkipMark, Drop,
         Enqueue, Push, PushFails, Tick, vars
<1>8. QED
  BY <1>2, <1>3, <1>4, <1>5, <1>6, <1>7 DEF ShutdownStep

(***************************************************************************)
(* The theorems.                                                           *)
(***************************************************************************)

\* The inductive invariant holds in every reachable state.
THEOREM GatewayInductive == Spec => []GInv
<1>1. Init => GInv
  <2>1. Init => DirsKnown /\ LateMade /\ RemovalUnderway
    BY DEF Init, DirsKnown, LateMade, RemovalUnderway
  <2>2. QED
    BY <2>1, TypeInit, DedupInit DEF GInv
<1>2. GInv /\ [Next]_vars => GInv'
  BY TypeStep, DedupStep, AuditStep DEF GInv, AuditInv
<1>3. QED
  BY <1>1, <1>2, PTL DEF Spec

\* The types hold: in particular no entry of dedupSeen is dated in the future.
THEOREM GatewayTypeCorrect == Spec => []TypeOK
BY GatewayInductive, PTL DEF GInv

\* Of the deliveries of one action, at most one is let through per TTL.
THEOREM AtMostOncePerWindow == Spec => []OncePerWindow
BY GatewayInductive, PTL DEF GInv, DedupInv

\* What is dropped as a duplicate has an original within the TTL.
THEOREM NoActionLost == Spec => []DuplicateHasOriginal
BY GatewayInductive, PTL DEF GInv, DedupInv

\* A process that has exited leaves an audit directory only when the file system
\* would not let it go, or when a delivery made one after Stop had looked.
THEOREM NoOrphanedAuditDir == Spec => []AuditDirAccounted
<1>1. GInv => AuditDirAccounted
  <2> SUFFICES ASSUME GInv, phase = "exited", NEW a \in dirs, a \notin stuck
               PROVE  a = auditDir /\ late # {}
    BY DEF AuditDirAccounted
  <2>1. removing = 0 /\ a # 0
    BY DEF GInv, RemovalUnderway, TypeOK
  <2>2. a = auditDir
    BY <2>1 DEF GInv, DirsKnown
  <2>3. QED
    BY <2>1, <2>2 DEF GInv, LateMade, Alive
<1>2. QED
  BY <1>1, GatewayInductive, PTL
=============================================================================
