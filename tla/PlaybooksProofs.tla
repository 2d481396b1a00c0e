---------------------------- MODULE PlaybooksProofs ----------------------------
(***************************************************************************)
(* What sessions are told, for any set of files, texts, rules, workers and *)
(* cards and any number of edits.                                          *)
(***************************************************************************)
EXTENDS PlaybooksProperties, TLAPS

\* The renderer's directory is there in these phases.
Rendering == {"copy", "rules", "running", "signalled", "stopping", "stopped", "detached"}

\* The copies are complete from here on, and nobody writes them.
Late == (Rendering \ {"copy"}) \cup {"cleaned", "exited"}

\* The workers that Stop waits for are done.
Stopped == {"stopped", "detached", "cleaned", "exited"}

Active == {"started", "reading", "live"}

\* The renderer's directory, and what is in it.
CopiesTrue ==
  /\ phase \in Rendering => tempDir
  /\ phase \in {"cleaned", "exited"} => ~tempDir \/ "copies" \in stuck
  /\ phase = "exited" => ~cache \/ "download" \in stuck
  /\ phase \in Late \cup {"copy"} => Skeletons \subseteq Rendered
  /\ phase \in Late => \A f \in Rendered : Resolves(copies[f])

\* An .md file is missing among the copies only when it has been added.
NothingMissed ==
  edits = 0 => \A f \in Md : config[f] # NoText =>
    /\ phase \in Late => f \in Rendered
    /\ phase = "copy" => f \in Rendered \cup pending

\* Workers start when the rules are loaded.
StartedLate ==
  phase \in {"resolve", "new", "copy", "rules"} => registered = {} /\ \A s \in Workers : session[s] = "none"

\* A card has one registered worker, and no other that is not done, unless one was
\* deleted; so Stop finds it.
Registry ==
  /\ \A v, w \in registered : CardOf[v] = CardOf[w] => v = w
  /\ \A s \in Workers : session[s] \in Active /\ ~Torn(s) =>
       /\ s \in registered
       /\ phase = "stopping" => s \in held
       /\ phase \notin Stopped

\* What a session has read so far is as it was rendered.
PromptTrue(g) ==
  IF g.file \in Rendered THEN g.rendered /\ g.text = copies[g.file]
  ELSE ~g.rendered /\ (g.file \in Md => edits > 0)

\* The prompts g are among the first d of p, in their order, with every one in R.
Fits(g, p, d, R) ==
  \E at \in [1..Len(g) -> 1..d] :
    /\ \A j \in 1..Len(g) : g[j].file = p[at[j]]
    /\ \A j, k \in 1..Len(g) : j < k => at[j] < at[k]
    /\ \A m \in 1..d : p[m] \in R => \E j \in 1..Len(g) : at[j] = m

\* The list q is what is left of p after d entries.
RestOf(q, p, d) ==
  /\ d \in Nat /\ Len(p) = d + Len(q)
  /\ \A j \in 1..Len(q) : q[j] = p[d + j]

\* A session has read the first prompts of its rule, but those whose read failed; or
\* it has no rule, and no prompt to read.
ReadsItsRule(s) ==
  IF rule[s] = 0 THEN got[s] = <<>> /\ todo[s] = <<>>
  ELSE /\ Matches(seen[s], rule[s])
       /\ rule[s] \in DOMAIN rules
       /\ \E d \in Nat : /\ RestOf(todo[s], rules[rule[s]].prompts, d)
                         /\ Fits(got[s], rules[rule[s]].prompts, d, Rendered \ unread[s])

Told(s) ==
  /\ session[s] \in {"none", "started"} => rule[s] = 0 /\ todo[s] = <<>> /\ got[s] = <<>>
  /\ session[s] = "live" => todo[s] = <<>>
  /\ session[s] \in {"reading", "live"} /\ ~Torn(s) =>
       (\A i \in DOMAIN got[s] : PromptTrue(got[s][i])) /\ ReadsItsRule(s)
  /\ session[s] = "live" /\ ~Torn(s) =>
       \A k \in Skeletons \ fallback[s] : skeleton[s][k] = <<copies[k], TRUE>>

AllTold == \A s \in Workers : Told(s)

IInv == TypeOK /\ CopiesTrue /\ NothingMissed /\ StartedLate /\ Registry /\ AllTold

\* TypeOK, by who writes what.
TypePrompts ==
  /\ seen \in [Workers -> Signals \cup {NoText}]
  /\ rule \in [Workers -> Nat]
  /\ todo \in [Workers -> Seq(Files)]
  /\ got \in [Workers -> Seq(Prompt)]
  /\ unread \in [Workers -> SUBSET Files]
  /\ skeleton \in [Workers -> [Skeletons -> Texts \X BOOLEAN]]
  /\ fallback \in [Workers -> SUBSET Skeletons]

TypeWorkers ==
  /\ session \in [Workers -> {"none", "started", "reading", "live", "ended"}]
  /\ registered \subseteq Workers /\ held \subseteq Workers /\ deleted \subseteq Workers

TypeMain ==
  /\ phase \in {"resolve", "new", "copy", "rules", "running", "signalled", "stopping",
                "stopped", "detached", "cleaned", "exited", "aborted"}
  /\ config \in [Files -> AnyText] /\ router \in Routers /\ edits \in 0..MaxEdits
  /\ cache \in BOOLEAN
  /\ tempDir \in BOOLEAN /\ copies \in [Files -> AnyText] /\ pending \subseteq Md
  /\ stuck \subseteq {"copies", "download"}
  /\ rules \in Seq(Rule)

USE DEF Goto

LEMMA TypeParts == TypeOK <=> TypeMain /\ TypeWorkers /\ TypePrompts
BY DEF TypeOK, TypeMain, TypeWorkers, TypePrompts

LEMMA TypePartsNext == TypeOK' <=> TypeMain' /\ TypeWorkers' /\ TypePrompts'
BY DEF TypeOK, TypeMain, TypeWorkers, TypePrompts

LEMMA EmbeddedIs == Embedded \in [Skeletons -> Texts \X BOOLEAN]
BY PlaybooksAssumption DEF PlaybooksAssumption, Embedded

LEMMA InitInv == Init => IInv
<1> SUFFICES ASSUME Init PROVE IInv
  OBVIOUS
<1>1. TypeOK
  <2>1. TypeMain
    <3>1. config \in [Files -> AnyText] /\ router \in Routers /\ rules \in Seq(Rule)
      BY PlaybooksAssumption DEF PlaybooksAssumption, Init, AnyText
    <3>2. copies \in [Files -> AnyText] /\ edits \in 0..MaxEdits
      BY PlaybooksAssumption DEF PlaybooksAssumption, Init, AnyText
    <3> QED
      BY <3>1, <3>2 DEF Init, TypeMain
  <2>2. TypeWorkers
    BY DEF Init, TypeWorkers
  <2>3. TypePrompts
    <3>1. skeleton \in [Workers -> [Skeletons -> Texts \X BOOLEAN]]
      BY EmbeddedIs DEF Init
    <3>2. got \in [Workers -> Seq(Prompt)] /\ todo \in [Workers -> Seq(Files)]
      BY DEF Init
    <3>3. /\ seen \in [Workers -> Signals \cup {NoText}] /\ rule \in [Workers -> Nat]
          /\ unread \in [Workers -> SUBSET Files] /\ fallback \in [Workers -> SUBSET Skeletons]
      BY DEF Init
    <3> QED
      BY <3>1, <3>2, <3>3 DEF TypePrompts
  <2> QED
    BY <2>1, <2>2, <2>3, TypeParts
<1>2. CopiesTrue /\ NothingMissed /\ StartedLate
  BY DEF Init, CopiesTrue, NothingMissed, StartedLate, Late, Rendering
<1>3. Registry /\ AllTold
  BY DEF Init, Registry, AllTold, Told, Active
<1> QED
  BY <1>1, <1>2, <1>3 DEF IInv

-----------------------------------------------------------------------------
(* The groups of steps.                                                    *)

StartStep ==
  \/ ResolveConfigSrc \/ New \/ (\E f \in Files : CopyFile(f)) \/ Render \/ NewFails
  \/ LoadRuleConfig \/ EmitAndExit

WorkerStep(s) ==
  Start(s) \/ Classify(s) \/ ReadPlaybook(s) \/ Assemble(s) \/ Reap(s) \/ End(s) \/ DeleteWorker(s)

StopStep == ShutdownSignal \/ StopBegins \/ RunnerStop \/ StopClient \/ Cleanup \/ ConfigCleanup

LEMMA StepsAre == Next => Edit \/ StartStep \/ (\E s \in Workers : WorkerStep(s)) \/ StopStep
BY DEF Next, StartStep, WorkerStep, StopStep

\* A read gives at most one prompt, and a copy in place of the file.
LEMMA ReadOne ==
  ASSUME TypeOK, NEW f \in Files
  PROVE  /\ Read(f) = <<>> \/ \E p \in Prompt : Read(f) = <<p>> /\ p.file = f
         /\ Read(f) \in Seq(Prompt)
<1>1. Path(f) => copies[f] \in Texts
  BY DEF Path, Rendered, TypeOK, AnyText
<1>2. config[f] # NoText => config[f] \in Texts
  BY DEF TypeOK, AnyText
<1>3. Read(f) = <<>> \/ \E p \in Prompt : Read(f) = <<p>> /\ p.file = f
  <2>1. CASE Path(f) /\ tempDir
    <3> DEFINE p == [file |-> f, text |-> copies[f], rendered |-> TRUE]
    <3>1. Read(f) = <<p>>
      BY <2>1 DEF Read
    <3>2. p \in Prompt /\ p.file = f
      BY <1>1, <2>1 DEF Prompt
    <3> HIDE DEF p
    <3> QED
      BY <3>1, <3>2
  <2>2. CASE Path(f) /\ ~tempDir
    BY <2>2 DEF Read
  <2>3. CASE ~Path(f) /\ config[f] # NoText
    <3> DEFINE p == [file |-> f, text |-> config[f], rendered |-> FALSE]
    <3>1. Read(f) = <<p>>
      BY <2>3 DEF Read
    <3>2. p \in Prompt /\ p.file = f
      BY <1>2, <2>3 DEF Prompt
    <3> HIDE DEF p
    <3> QED
      BY <3>1, <3>2
  <2>4. CASE ~Path(f) /\ config[f] = NoText
    BY <2>4 DEF Read
  <2> QED
    BY <2>1, <2>2, <2>3, <2>4
<1>4. Read(f) \in Seq(Prompt)
  <2>1. CASE Read(f) = <<>>
    BY <2>1
  <2>2. ASSUME NEW p \in Prompt, Read(f) = <<p>> PROVE Read(f) \in Seq(Prompt)
    BY <2>2
  <2> QED
    BY <1>3, <2>1, <2>2
<1> QED
  BY <1>3, <1>4

\* What the steps of a worker leave alone.
LEMMA WorkerFacts ==
  ASSUME TypeOK, NEW s \in Workers, WorkerStep(s)
  PROVE  /\ UNCHANGED <<phase, operatorVars, cache, renderVars, rules, held>>
         /\ deleted \subseteq deleted'
         /\ \A t \in Workers \ {s} :
              /\ session'[t] = session[t] /\ seen'[t] = seen[t] /\ rule'[t] = rule[t]
              /\ todo'[t] = todo[t] /\ got'[t] = got[t] /\ unread'[t] = unread[t]
              /\ skeleton'[t] = skeleton[t] /\ fallback'[t] = fallback[t]
         /\ Alive
<1>1. UNCHANGED <<phase, operatorVars, cache, renderVars, rules, held>> /\ deleted \subseteq deleted'
  BY DEF WorkerStep, Start, Classify, ReadPlaybook, Assemble, Reap, End, DeleteWorker, workerVars
<1>2. Alive
  BY DEF WorkerStep, Start, Classify, ReadPlaybook, Assemble, Reap, End, DeleteWorker, Alive
<1>3. \A t \in Workers \ {s} : session'[t] = session[t]
  BY DEF TypeOK, WorkerStep, Start, Classify, ReadPlaybook, Assemble, Reap, End, DeleteWorker,
     workerVars
<1>4. \A t \in Workers \ {s} :
        /\ seen'[t] = seen[t] /\ rule'[t] = rule[t] /\ todo'[t] = todo[t] /\ got'[t] = got[t]
        /\ unread'[t] = unread[t] /\ skeleton'[t] = skeleton[t] /\ fallback'[t] = fallback[t]
  <2>1. CASE Start(s) \/ DeleteWorker(s)
    BY <2>1 DEF Start, DeleteWorker, promptVars
  <2>2. CASE Reap(s) \/ End(s)
    BY <2>2 DEF Reap, End, Forget, TypeOK
  <2>3. CASE Classify(s)
    BY <2>3 DEF Classify, TypeOK
  <2>4. CASE ReadPlaybook(s) \/ Assemble(s)
    BY <2>4 DEF ReadPlaybook, Assemble, TypeOK
  <2> QED
    BY <2>1, <2>2, <2>3, <2>4 DEF WorkerStep
<1> QED
  BY <1>1, <1>2, <1>3, <1>4

LEMMA RulesTyped ==
  ASSUME TypeOK, NEW i \in DOMAIN rules
  PROVE  rules[i].prompts \in Seq(Files) /\ i \in Nat \ {0}
<1>1. rules \in Seq(Rule) /\ rules[i] \in Rule /\ i \in Nat \ {0}
  BY DEF TypeOK
<1> QED
  BY <1>1 DEF Rule

LEMMA TypeMainStep == TypeOK /\ [Next]_vars => TypeMain'
<1> SUFFICES ASSUME TypeOK, [Next]_vars PROVE TypeMain'
  OBVIOUS
<1>0. TypeMain
  BY TypeParts
<1>1. CASE UNCHANGED vars
  BY <1>0, <1>1 DEF TypeMain, vars, operatorVars, renderVars
<1>2. CASE Edit
  BY <1>0, <1>2, PlaybooksAssumption DEF PlaybooksAssumption, TypeMain, Edit, AnyText, renderVars
<1>3. CASE StartStep
  <2>1. CASE ResolveConfigSrc \/ Render \/ NewFails \/ EmitAndExit
    BY <1>0, <2>1 DEF TypeMain, ResolveConfigSrc, Render, NewFails, RemoveCopies, EmitAndExit,
       operatorVars, renderVars
  <2>2. CASE New
    BY <1>0, <2>2, PlaybooksAssumption DEF PlaybooksAssumption, TypeMain, New, AnyText, operatorVars
  <2>3. ASSUME NEW f \in Files, CopyFile(f) PROVE TypeMain'
    BY <1>0, <2>3 DEF TypeMain, CopyFile, AnyText, operatorVars
  <2>4. CASE LoadRuleConfig
    BY <1>0, <2>4, PlaybooksAssumption DEF PlaybooksAssumption, TypeMain, LoadRuleConfig,
       operatorVars, renderVars
  <2> QED
    BY <1>3, <2>1, <2>2, <2>3, <2>4 DEF StartStep
<1>4. CASE \E s \in Workers : WorkerStep(s)
  BY <1>0, <1>4, WorkerFacts DEF TypeMain, operatorVars, renderVars
<1>5. CASE StopStep
  BY <1>0, <1>5 DEF TypeMain, StopStep, ShutdownSignal, StopBegins, RunnerStop, StopClient, Cleanup,
     RemoveCopies, ConfigCleanup, operatorVars, renderVars
<1> QED
  BY <1>1, <1>2, <1>3, <1>4, <1>5, StepsAre

LEMMA TypeWorkersStep == TypeOK /\ [Next]_vars => TypeWorkers'
<1> SUFFICES ASSUME TypeOK, [Next]_vars PROVE TypeWorkers'
  OBVIOUS
<1>0. TypeWorkers
  BY TypeParts
<1>1. CASE Edit \/ StartStep \/ UNCHANGED vars
  <2>1. UNCHANGED workerVars
    BY <1>1 DEF Edit, StartStep, ResolveConfigSrc, New, CopyFile, Render, NewFails, LoadRuleConfig,
       EmitAndExit, vars
  <2> QED
    BY <1>0, <2>1 DEF TypeWorkers, workerVars
<1>2. ASSUME NEW s \in Workers, WorkerStep(s) PROVE TypeWorkers'
  <2>1. session' \in [Workers -> {"none", "started", "reading", "live", "ended"}]
    BY <1>0, <1>2 DEF TypeWorkers, WorkerStep, Start, Classify, ReadPlaybook, Assemble, Reap, End,
       DeleteWorker, workerVars
  <2>2. registered' \subseteq Workers /\ held' \subseteq Workers /\ deleted' \subseteq Workers
    BY <1>0, <1>2 DEF TypeWorkers, WorkerStep, Start, Classify, ReadPlaybook, Assemble, Reap, End,
       DeleteWorker, workerVars
  <2> QED
    BY <2>1, <2>2 DEF TypeWorkers
<1>3. CASE StopStep
  BY <1>0, <1>3 DEF TypeWorkers, StopStep, ShutdownSignal, StopBegins, RunnerStop, StopClient,
     Cleanup, ConfigCleanup, workerVars
<1> QED
  BY <1>1, <1>2, <1>3, StepsAre

LEMMA TypePromptsStep == TypeOK /\ [Next]_vars => TypePrompts'
<1> SUFFICES ASSUME TypeOK, [Next]_vars PROVE TypePrompts'
  OBVIOUS
<1>0. TypePrompts
  BY TypeParts
<1>1. CASE UNCHANGED promptVars
  BY <1>0, <1>1 DEF TypePrompts, promptVars
<1>2. ASSUME NEW s \in Workers, Forget(s) PROVE TypePrompts'
  <2>1. skeleton' \in [Workers -> [Skeletons -> Texts \X BOOLEAN]]
    BY <1>0, <1>2, EmbeddedIs DEF TypePrompts, Forget
  <2>2. todo' \in [Workers -> Seq(Files)] /\ got' \in [Workers -> Seq(Prompt)]
    BY <1>0, <1>2 DEF TypePrompts, Forget
  <2> QED
    BY <1>0, <1>2, <2>1, <2>2 DEF TypePrompts, Forget
<1>3. ASSUME NEW s \in Workers, Classify(s) PROVE TypePrompts'
  <2>1. CASE UNCHANGED <<seen, rule, todo>>
    BY <1>0, <1>3, <2>1 DEF TypePrompts, Classify
  <2>2. ASSUME NEW x \in Signals, NEW i \in DOMAIN rules,
               seen' = [seen EXCEPT ![s] = x], rule' = [rule EXCEPT ![s] = i],
               todo' = [todo EXCEPT ![s] = rules[i].prompts]
        PROVE  TypePrompts'
    <3>1. rules[i].prompts \in Seq(Files) /\ i \in Nat
      BY RulesTyped
    <3> QED
      BY <1>0, <1>3, <2>2, <3>1 DEF TypePrompts, Classify
  <2> QED
    BY <1>3, <2>1, <2>2 DEF Classify
<1>4. ASSUME NEW s \in Workers, ReadPlaybook(s) PROVE TypePrompts'
  <2>1. todo[s] \in Seq(Files) /\ todo[s] # <<>> /\ got[s] \in Seq(Prompt)
    BY <1>0, <1>4 DEF TypePrompts, ReadPlaybook
  <2>2. Head(todo[s]) \in Files /\ Tail(todo[s]) \in Seq(Files)
    BY <2>1
  <2>3. got[s] \o Read(Head(todo[s])) \in Seq(Prompt)
    BY <2>1, <2>2, ReadOne
  <2>4. todo' \in [Workers -> Seq(Files)] /\ got' \in [Workers -> Seq(Prompt)]
    BY <1>0, <1>4, <2>2, <2>3 DEF TypePrompts, ReadPlaybook
  <2>5. unread' \in [Workers -> SUBSET Files]
    <3>1. unread \in [Workers -> SUBSET Files]
      BY <1>0 DEF TypePrompts
    <3>2. unread[s] \cup {Head(todo[s])} \in SUBSET Files
      BY <2>2, <3>1
    <3>3. unread' = unread \/ unread' = [unread EXCEPT ![s] = unread[s] \cup {Head(todo[s])}]
      BY <1>4 DEF ReadPlaybook
    <3> QED
      BY <3>1, <3>2, <3>3
  <2> QED
    BY <1>0, <1>4, <2>4, <2>5 DEF TypePrompts, ReadPlaybook
<1>5. ASSUME NEW s \in Workers, Assemble(s) PROVE TypePrompts'
  <2>1. PICK failed \in SUBSET Skeletons :
          /\ fallback' = [fallback EXCEPT ![s] = failed]
          /\ skeleton' = [skeleton EXCEPT ![s] = [k \in Skeletons |->
               IF Path(k) /\ tempDir /\ k \notin failed THEN <<copies[k], TRUE>>
               ELSE <<Default[k], FALSE>>]]
    BY <1>5 DEF Assemble
  <2>2. [k \in Skeletons |-> IF Path(k) /\ tempDir /\ k \notin failed THEN <<copies[k], TRUE>>
                             ELSE <<Default[k], FALSE>>] \in [Skeletons -> Texts \X BOOLEAN]
    BY PlaybooksAssumption DEF PlaybooksAssumption, Path, Rendered, TypeOK, AnyText
  <2>3. skeleton' \in [Workers -> [Skeletons -> Texts \X BOOLEAN]]
    BY <1>0, <2>1, <2>2 DEF TypePrompts
  <2> QED
    BY <1>0, <1>5, <2>1, <2>3 DEF TypePrompts, Assemble
<1>6. CASE Edit \/ StartStep \/ StopStep \/ UNCHANGED vars
  <2>1. UNCHANGED promptVars
    BY <1>6 DEF Edit, StartStep, ResolveConfigSrc, New, CopyFile, Render, NewFails, LoadRuleConfig,
       EmitAndExit, StopStep, ShutdownSignal, StopBegins, RunnerStop, StopClient, Cleanup,
       ConfigCleanup, vars
  <2> QED
    BY <1>1, <2>1
<1>7. ASSUME NEW s \in Workers, WorkerStep(s) PROVE TypePrompts'
  BY <1>1, <1>2, <1>3, <1>4, <1>5, <1>7 DEF WorkerStep, Start, Reap, End, DeleteWorker
<1> QED
  BY <1>6, <1>7, StepsAre

LEMMA TypeStep == TypeOK /\ [Next]_vars => TypeOK'
BY TypeMainStep, TypeWorkersStep, TypePromptsStep, TypePartsNext

\* Once the copies are complete, no step changes them, and their directory stays
\* until Cleanup.
LEMMA CopiesStep ==
  ASSUME TypeOK, CopiesTrue, [Next]_vars
  PROVE  CopiesTrue'
<1>1. ASSUME UNCHANGED <<phase, cache, renderVars>> PROVE CopiesTrue'
  BY <1>1 DEF renderVars, CopiesTrue, Rendered, Resolves
<1>2. CASE Edit \/ (\E s \in Workers : WorkerStep(s)) \/ UNCHANGED vars
  <2>1. UNCHANGED <<phase, cache, renderVars>>
    BY <1>2, WorkerFacts DEF Edit, vars
  <2> QED
    BY <1>1, <2>1
<1>3. CASE StartStep
  <2>1. CASE ResolveConfigSrc \/ NewFails \/ EmitAndExit
    <3>1. phase' \in {"new", "aborted"}
      BY <2>1 DEF ResolveConfigSrc, NewFails, EmitAndExit
    <3> QED
      BY <3>1 DEF CopiesTrue, Late, Rendering
  <2>2. CASE Render \/ LoadRuleConfig
    <3>1. /\ UNCHANGED <<cache, renderVars>>
          /\ \/ phase = "copy" /\ phase' = "rules"
             \/ phase = "rules" /\ phase' = "running"
      BY <2>2 DEF Render, LoadRuleConfig
    <3>2. \A f \in Rendered : Resolves(copies[f])
      BY <2>2 DEF Render, LoadRuleConfig, CopiesTrue, Late, Rendering
    <3> QED
      BY <3>1, <3>2 DEF CopiesTrue, Rendered, Resolves, Late, Rendering, renderVars
  <2>3. CASE New
    <3>1. phase' = "copy" /\ tempDir' /\ \A k \in Skeletons : k \in Files /\ copies'[k] # NoText
      BY <2>3, PlaybooksAssumption DEF PlaybooksAssumption, New
    <3>2. (Skeletons \subseteq Rendered)'
      BY <3>1 DEF Rendered
    <3> QED
      BY <3>1, <3>2 DEF CopiesTrue, Late, Rendering
  <2>4. ASSUME NEW f \in Files, CopyFile(f) PROVE CopiesTrue'
    <3>1. phase = "copy" /\ phase' = "copy" /\ tempDir' = tempDir /\ \A g \in Rendered : copies'[g] # NoText
      BY <2>4 DEF CopyFile, Rendered, TypeOK
    <3> QED
      BY <3>1 DEF CopiesTrue, Rendered, Late, Rendering
  <2> QED
    BY <1>3, <2>1, <2>2, <2>3, <2>4 DEF StartStep
<1>4. CASE ShutdownSignal \/ StopBegins \/ RunnerStop \/ StopClient
  <2>1. UNCHANGED <<cache, renderVars>> /\ {phase, phase'} \subseteq Rendering \ {"copy"}
    BY <1>4 DEF ShutdownSignal, StopBegins, RunnerStop, StopClient, Rendering
  <2> QED
    BY <2>1 DEF CopiesTrue, Rendered, Resolves, Late, Rendering, renderVars
<1>5. CASE Cleanup
  <2>1. phase = "detached" /\ phase' = "cleaned" /\ copies' = copies /\ (~tempDir' \/ "copies" \in stuck')
    BY <1>5 DEF Cleanup, RemoveCopies
  <2> QED
    BY <2>1 DEF CopiesTrue, Rendered, Resolves, Late, Rendering
<1>6. CASE ConfigCleanup
  <2>1. /\ phase = "cleaned" /\ phase' = "exited" /\ UNCHANGED <<copies, tempDir>>
        /\ stuck \subseteq stuck' /\ (~cache' \/ "download" \in stuck')
    BY <1>6 DEF ConfigCleanup
  <2> QED
    BY <2>1 DEF CopiesTrue, Rendered, Resolves, Late, Rendering
<1> QED
  BY <1>2, <1>3, <1>4, <1>5, <1>6, StepsAre DEF StopStep

LEMMA MissedStep ==
  ASSUME TypeOK, NothingMissed, [Next]_vars
  PROVE  NothingMissed'
<1>1. CASE Edit
  <2>1. edits' # 0
    BY <1>1 DEF Edit, TypeOK
  <2> QED
    BY <2>1 DEF NothingMissed
<1>2. CASE New
  BY <1>2 DEF New, NothingMissed, Late, Rendering, operatorVars
<1>3. ASSUME NEW f \in Files, CopyFile(f) PROVE NothingMissed'
  <2>1. /\ phase = "copy" /\ phase' = "copy" /\ edits' = edits /\ config' = config
        /\ \A g \in Rendered \cup {f} : copies'[g] # NoText
        /\ pending \subseteq pending' \cup {f}
    BY <1>3 DEF CopyFile, Rendered, TypeOK, operatorVars
  <2> QED
    BY <2>1 DEF NothingMissed, Rendered, Late, Rendering
<1>4. CASE Render
  BY <1>4 DEF Render, NothingMissed, Rendered, Late, Rendering, operatorVars, renderVars
<1>5. CASE (\E s \in Workers : WorkerStep(s)) \/ UNCHANGED vars
  <2>1. UNCHANGED <<phase, operatorVars, copies, pending>>
    BY <1>5, WorkerFacts DEF renderVars, vars
  <2> QED
    BY <2>1 DEF operatorVars, NothingMissed, Rendered
<1>6. CASE ResolveConfigSrc \/ NewFails \/ LoadRuleConfig \/ EmitAndExit \/ StopStep
  <2>1. /\ edits' = edits /\ config' = config /\ copies' = copies
        /\ phase' # "copy" /\ (phase' \in Late => phase \in Late)
    BY <1>6 DEF ResolveConfigSrc, NewFails, LoadRuleConfig, EmitAndExit, StopStep, ShutdownSignal,
       StopBegins, RunnerStop, StopClient, Cleanup, RemoveCopies, ConfigCleanup, operatorVars,
       renderVars, Late, Rendering
  <2> QED
    BY <2>1 DEF NothingMissed, Rendered
<1> QED
  BY <1>1, <1>2, <1>3, <1>4, <1>5, <1>6, StepsAre DEF StartStep

LEMMA LateStep ==
  ASSUME TypeOK, StartedLate, [Next]_vars
  PROVE  StartedLate'
<1>1. CASE Edit \/ StartStep \/ UNCHANGED vars
  BY <1>1 DEF StartedLate, Edit, StartStep, ResolveConfigSrc, New, CopyFile, Render, NewFails,
     LoadRuleConfig, EmitAndExit, workerVars, vars
<1>2. CASE \E s \in Workers : WorkerStep(s)
  <2>1. phase' = phase /\ Alive
    BY <1>2, WorkerFacts
  <2> QED
    BY <2>1 DEF StartedLate, Alive
<1>3. CASE StopStep
  <2>1. phase' \notin {"resolve", "new", "copy", "rules"}
    BY <1>3 DEF StopStep, ShutdownSignal, StopBegins, RunnerStop, StopClient, Cleanup, ConfigCleanup
  <2> QED
    BY <2>1 DEF StartedLate
<1> QED
  BY <1>1, <1>2, <1>3, StepsAre

\* A worker of a card none of whose workers is deleted is the only one of its card
\* that is not done.
LEMMA RegistryStep ==
  ASSUME TypeOK, Registry, [Next]_vars
  PROVE  Registry'
<1>1. CASE Edit \/ StartStep \/ UNCHANGED vars
  <2>1. UNCHANGED workerVars /\ (phase' = phase \/ phase' \notin Stopped \cup {"stopping"})
    BY <1>1 DEF Edit, StartStep, ResolveConfigSrc, New, CopyFile, Render, NewFails, LoadRuleConfig,
       EmitAndExit, Stopped, vars
  <2> QED
    BY <2>1 DEF Registry, Torn, workerVars
<1>2. CASE StopStep
  <2>1. UNCHANGED <<session, registered, deleted>>
    BY <1>2 DEF StopStep, ShutdownSignal, StopBegins, RunnerStop, StopClient, Cleanup, ConfigCleanup,
       workerVars
  <2>2. ASSUME NEW s \in Workers, session[s] \in Active, ~Torn(s)
        PROVE  (phase' = "stopping" => s \in held') /\ phase' \notin Stopped
    <3>1. s \in registered /\ (phase = "stopping" => s \in held) /\ phase \notin Stopped
      BY <2>2 DEF Registry
    <3>2. CASE RunnerStop
      <4>1. session[s] = "ended"
        BY <3>1, <3>2 DEF RunnerStop
      <4> QED
        BY <2>2, <4>1 DEF Active
    <3> QED
      BY <1>2, <3>1, <3>2 DEF StopStep, ShutdownSignal, StopBegins, StopClient, Cleanup,
         ConfigCleanup, Stopped
  <2> QED
    BY <2>1, <2>2 DEF Registry, Torn
<1>3. ASSUME NEW s \in Workers, WorkerStep(s) PROVE Registry'
  <2>1. /\ phase' = phase /\ held' = held /\ deleted \subseteq deleted'
        /\ \A t \in Workers \ {s} : session'[t] = session[t]
    BY <1>3, WorkerFacts
  <2>2. \A t \in Workers : ~Torn(t)' => ~Torn(t)
    BY <2>1 DEF Torn
  <2>3. CASE Start(s)
    <3>1. /\ phase \in {"running", "signalled"} /\ registered' = registered \cup {s}
          /\ \A w \in registered : CardOf[w] # CardOf[s]
      BY <2>3 DEF Start
    <3> QED
      BY <2>1, <2>2, <3>1 DEF Registry, Stopped
  <2>4. CASE Classify(s) \/ ReadPlaybook(s) \/ Assemble(s) \/ Reap(s)
    <3>1. registered' = registered /\ session[s] \in Active
      BY <2>4 DEF Classify, ReadPlaybook, Assemble, Reap, Active, workerVars
    <3>2. \A t \in Workers : session'[t] \in Active => session[t] \in Active
      BY <2>1, <3>1
    <3> QED
      BY <2>1, <2>2, <3>1, <3>2 DEF Registry
  <2>5. CASE End(s)
    <3>1. /\ registered' = {w \in registered : CardOf[w] # CardOf[s]} /\ session[s] \in Active
          /\ session'[s] = "ended"
      BY <2>5 DEF End, Active, TypeOK
    <3>2. ASSUME NEW t \in Workers, session'[t] \in Active, ~Torn(t)'
          PROVE  session[t] \in Active /\ ~Torn(t) /\ CardOf[t] # CardOf[s]
      <4>1. t # s /\ session[t] \in Active /\ ~Torn(t)
        BY <2>1, <2>2, <3>1, <3>2 DEF Active
      <4>2. ASSUME CardOf[t] = CardOf[s] PROVE FALSE
        <5>1. ~Torn(s)
          BY <4>1, <4>2 DEF Torn
        <5>2. t \in registered /\ s \in registered
          BY <3>1, <4>1, <5>1 DEF Registry
        <5> QED
          BY <4>1, <4>2, <5>2 DEF Registry
      <4> QED
        BY <4>1, <4>2
    <3>3. ASSUME NEW t \in Workers, session'[t] \in Active, ~Torn(t)'
          PROVE  t \in registered' /\ (phase' = "stopping" => t \in held') /\ phase' \notin Stopped
      BY <2>1, <3>1, <3>2, <3>3 DEF Registry
    <3>4. \A v, w \in registered' : CardOf[v] = CardOf[w] => v = w
      BY <3>1 DEF Registry
    <3> QED
      BY <3>3, <3>4 DEF Registry
  <2>6. CASE DeleteWorker(s)
    <3>1. registered' = registered \ {s} /\ deleted' = deleted \cup {s} /\ session' = session
      BY <2>6 DEF DeleteWorker
    <3>2. \A t \in Workers : ~Torn(t)' => t # s
      BY <3>1 DEF Torn
    <3> QED
      BY <2>1, <2>2, <3>1, <3>2 DEF Registry
  <2> QED
    BY <1>3, <2>3, <2>4, <2>5, <2>6 DEF WorkerStep
<1> QED
  BY <1>1, <1>2, <1>3, StepsAre

-----------------------------------------------------------------------------
(* The order of the prompts.                                               *)

\* A prompt that is not rendered may be skipped.
LEMMA FitsSkip ==
  ASSUME NEW g, NEW p, NEW d \in Nat, NEW R, Fits(g, p, d, R), p[d + 1] \notin R
  PROVE  Fits(g, p, d + 1, R)
<1>1. PICK at \in [1..Len(g) -> 1..d] :
        /\ \A j \in 1..Len(g) : g[j].file = p[at[j]]
        /\ \A j, k \in 1..Len(g) : j < k => at[j] < at[k]
        /\ \A m \in 1..d : p[m] \in R => \E j \in 1..Len(g) : at[j] = m
  BY DEF Fits
<1>2. at \in [1..Len(g) -> 1..(d + 1)]
  OBVIOUS
<1>3. \A m \in 1..(d + 1) : m = d + 1 \/ m \in 1..d
  OBVIOUS
<1>4. \A m \in 1..(d + 1) : p[m] \in R => \E j \in 1..Len(g) : at[j] = m
  BY <1>1, <1>3
<1> QED
  BY <1>1, <1>2, <1>4 DEF Fits

\* Such places of n prompts show that they fit.
Places(at, g, n, p, d, R) ==
  /\ at \in [1..n -> 1..d]
  /\ \A j \in 1..n : g[j].file = p[at[j]]
  /\ \A j, k \in 1..n : j < k => at[j] < at[k]
  /\ \A m \in 1..d : p[m] \in R => \E j \in 1..n : at[j] = m

LEMMA FitsOf ==
  ASSUME NEW at, NEW g, NEW n, NEW p, NEW d, NEW R, Places(at, g, n, p, d, R), Len(g) = n
  PROVE  Fits(g, p, d, R)
BY DEF Places, Fits

\* The next prompt joins those that were read.
LEMMA FitsNext ==
  ASSUME NEW S, NEW g \in Seq(S), NEW x \in S, NEW p, NEW d \in Nat, NEW R,
         Fits(g, p, d, R), x.file = p[d + 1]
  PROVE  Fits(g \o <<x>>, p, d + 1, R)
<1> DEFINE n == Len(g)
           h == g \o <<x>>
<1>1. PICK at \in [1..n -> 1..d] :
        /\ \A j \in 1..n : g[j].file = p[at[j]]
        /\ \A j, k \in 1..n : j < k => at[j] < at[k]
        /\ \A m \in 1..d : p[m] \in R => \E j \in 1..n : at[j] = m
  BY DEF Fits
<1>2. n \in Nat /\ Len(h) = n + 1 /\ h[n + 1] = x /\ \A j \in 1..n : h[j] = g[j]
  OBVIOUS
<1> HIDE DEF n, h
<1> DEFINE up == [j \in 1..(n + 1) |-> IF j = n + 1 THEN d + 1 ELSE at[j]]
<1>3. \A j \in 1..(n + 1) : j = n + 1 \/ (j \in 1..n /\ j # n + 1)
  BY <1>2
<1>4. n + 1 \in 1..(n + 1) /\ \A j \in 1..n : j \in 1..(n + 1) /\ j # n + 1
  BY <1>2
<1>5. up[n + 1] = d + 1 /\ \A j \in 1..n : up[j] = at[j]
  BY <1>4
<1>6. up \in [1..(n + 1) -> 1..(d + 1)]
  BY <1>3
<1> HIDE DEF up
<1>7. \A j \in 1..(n + 1) : h[j].file = p[up[j]]
  BY <1>1, <1>2, <1>3, <1>5
<1>8. ASSUME NEW j \in 1..(n + 1), NEW k \in 1..(n + 1), j < k PROVE up[j] < up[k]
  <2>1. j \in 1..n
    BY <1>2, <1>8
  <2>2. CASE k = n + 1
    <3>1. up[j] \in 1..d /\ up[k] = d + 1
      BY <1>5, <2>1, <2>2
    <3> QED
      BY <3>1
  <2>3. CASE k # n + 1
    <3>1. k \in 1..n
      BY <1>3, <2>3
    <3> QED
      BY <1>1, <1>5, <1>8, <2>1, <3>1
  <2> QED
    BY <2>2, <2>3
<1>9. ASSUME NEW m \in 1..(d + 1), p[m] \in R PROVE \E j \in 1..(n + 1) : up[j] = m
  <2>1. CASE m = d + 1
    BY <1>4, <1>5, <2>1
  <2>2. CASE m # d + 1
    <3>1. m \in 1..d
      BY <2>2
    <3>2. PICK j \in 1..n : at[j] = m
      BY <1>1, <1>9, <3>1
    <3> QED
      BY <1>4, <1>5, <3>2
  <2> QED
    BY <2>1, <2>2
<1>10. /\ \A j, k \in 1..(n + 1) : j < k => up[j] < up[k]
       /\ \A m \in 1..(d + 1) : p[m] \in R => \E j \in 1..(n + 1) : up[j] = m
  BY <1>8, <1>9
<1>11. Places(up, h, n + 1, p, d + 1, R)
  BY <1>6, <1>7, <1>10, Zenon DEF Places
<1>12. Len(h) = n + 1
  BY <1>2
<1>13. Fits(h, p, d + 1, R)
  BY <1>11, <1>12, FitsOf, Zenon
<1> QED
  BY <1>13 DEF h

\* The head of the rest is the next prompt.
LEMMA RestNext ==
  ASSUME NEW S, NEW q \in Seq(S), q # <<>>, NEW p \in Seq(S), NEW d \in Nat, RestOf(q, p, d)
  PROVE  Head(q) = p[d + 1] /\ RestOf(Tail(q), p, d + 1)
<1>1. /\ Len(q) \in Nat \ {0} /\ Head(q) = q[1] /\ Len(Tail(q)) = Len(q) - 1
      /\ \A j \in 1..(Len(q) - 1) : Tail(q)[j] = q[j + 1]
  OBVIOUS
<1>2. Len(p) = d + Len(q) /\ \A j \in 1..Len(q) : q[j] = p[d + j]
  BY DEF RestOf
<1>3. Head(q) = p[d + 1]
  BY <1>1, <1>2
<1>4. d + 1 \in Nat /\ Len(p) = (d + 1) + Len(Tail(q))
  BY <1>1, <1>2
<1>5. ASSUME NEW j \in 1..Len(Tail(q)) PROVE Tail(q)[j] = p[(d + 1) + j]
  <2>1. j + 1 \in 1..Len(q) /\ j \in 1..(Len(q) - 1) /\ d + (j + 1) = (d + 1) + j
    BY <1>1
  <2> QED
    BY <1>1, <1>2, <2>1
<1> QED
  BY <1>3, <1>4, <1>5 DEF RestOf

\* A session that starts reads its rule from the beginning.
LEMMA RestStart ==
  ASSUME NEW S, NEW p \in Seq(S), NEW R
  PROVE  RestOf(p, p, 0) /\ Fits(<<>>, p, 0, R)
<1>1. Len(p) \in Nat /\ 0 \in Nat /\ Len(p) = 0 + Len(p) /\ \A j \in 1..Len(p) : p[j] = p[0 + j]
  OBVIOUS
<1>2. Len(<<>>) = 0 /\ 1..0 = {}
  OBVIOUS
<1>3. [j \in 1..0 |-> j] \in [1..0 -> 1..0]
  OBVIOUS
<1>4. Fits(<<>>, p, 0, R)
  BY <1>2, <1>3 DEF Fits
<1> QED
  BY <1>1, <1>4 DEF RestOf

\* A prompt that could not be read need not be there.
LEMMA FitsLess ==
  ASSUME NEW g, NEW p, NEW d, NEW R, NEW Q, Q \subseteq R, Fits(g, p, d, R)
  PROVE  Fits(g, p, d, Q)
BY DEF Fits

LEMMA AppendNone == ASSUME NEW S, NEW q \in Seq(S) PROVE q \o <<>> = q
OBVIOUS

LEMMA AppendOne ==
  ASSUME NEW S, NEW q \in Seq(S), NEW p \in S, NEW i \in DOMAIN (q \o <<p>>)
  PROVE  (q \o <<p>>)[i] = p \/ (i \in DOMAIN q /\ (q \o <<p>>)[i] = q[i])
OBVIOUS

-----------------------------------------------------------------------------
(* What the sessions are told.                                             *)

\* The prompt that ReadPlaybook appends is as it was rendered.
LEMMA ReadTrue ==
  ASSUME TypeOK, CopiesTrue, NothingMissed, phase \in {"running", "signalled", "stopping"},
         NEW f \in Files
  PROVE  /\ f \in Rendered => Read(f) # <<>>
         /\ \A p \in Prompt : Read(f) = <<p>> => PromptTrue(p)
<1>1. tempDir /\ (Path(f) <=> f \in Rendered)
  BY DEF CopiesTrue, Path, Rendering
<1>2. CASE f \in Rendered
  BY <1>1, <1>2 DEF Read, PromptTrue
<1>3. ASSUME f \notin Rendered, NEW p \in Prompt, Read(f) = <<p>> PROVE PromptTrue(p)
  <2>1. config[f] # NoText /\ p = [file |-> f, text |-> config[f], rendered |-> FALSE]
    BY <1>1, <1>3 DEF Read
  <2>2. f \in Md => edits > 0
    BY <1>3, <2>1 DEF NothingMissed, Late, Rendering, TypeOK
  <2> QED
    BY <1>3, <2>1, <2>2 DEF PromptTrue
<1> QED
  BY <1>2, <1>3

\* A step that does not concern a worker leaves what it has been told.
LEMMA ToldStays ==
  ASSUME NEW s \in Workers, Told(s), UNCHANGED <<rules, copies>>,
         edits \in Nat, edits' \in Nat, edits' >= edits, deleted \subseteq deleted',
         session'[s] = session[s], seen'[s] = seen[s], rule'[s] = rule[s], todo'[s] = todo[s],
         got'[s] = got[s], unread'[s] = unread[s], skeleton'[s] = skeleton[s],
         fallback'[s] = fallback[s]
  PROVE  Told(s)'
<1>1. Rendered' = Rendered /\ (~Torn(s)' => ~Torn(s))
  BY DEF Rendered, Torn
<1>2. ReadsItsRule(s) => ReadsItsRule(s)'
  BY <1>1 DEF ReadsItsRule, Matches
<1>3. ASSUME NEW g, PromptTrue(g) PROVE PromptTrue(g)'
  BY <1>1, <1>3 DEF PromptTrue
<1>4. (\A i \in DOMAIN got[s] : PromptTrue(got[s][i])) => (\A i \in DOMAIN got[s] : PromptTrue(got[s][i]))'
  BY <1>3 DEF PromptTrue, Rendered
<1> QED
  BY <1>1, <1>2, <1>4 DEF Told

\* A session that starts has its rule's prompts to read.
LEMMA ClassifyTells ==
  ASSUME IInv, NEW s \in Workers, Classify(s)
  PROVE  Told(s)'
<1>1. /\ session'[s] = "reading" /\ got'[s] = <<>> /\ todo[s] = <<>> /\ rule[s] = 0
      /\ UNCHANGED <<rules, copies>>
  BY DEF Classify, IInv, AllTold, Told, TypeOK, renderVars
<1>2. CASE UNCHANGED <<seen, rule, todo>>
  <2>1. ReadsItsRule(s)'
    BY <1>1, <1>2 DEF ReadsItsRule
  <2> QED
    BY <1>1, <2>1 DEF Told
<1>3. ASSUME NEW x \in Signals, NEW i \in DOMAIN rules, Matches(x, i),
             seen' = [seen EXCEPT ![s] = x], rule' = [rule EXCEPT ![s] = i],
             todo' = [todo EXCEPT ![s] = rules[i].prompts]
      PROVE  Told(s)'
  <2>1. seen'[s] = x /\ rule'[s] = i /\ todo'[s] = rules[i].prompts
    BY <1>3 DEF IInv, TypeOK
  <2>2. rules[i].prompts \in Seq(Files) /\ i # 0
    BY RulesTyped DEF IInv
  <2>3. RestOf(todo'[s], rules[i].prompts, 0) /\ Fits(got'[s], rules[i].prompts, 0, (Rendered \ unread[s])')
    BY <1>1, <2>1, <2>2, RestStart
  <2>4. Matches(seen[s], rule[s])' /\ (rule[s] \in DOMAIN rules)'
    BY <1>1, <1>3, <2>1 DEF Matches
  <2>5. ReadsItsRule(s)'
    BY <1>1, <2>1, <2>2, <2>3, <2>4 DEF ReadsItsRule
  <2> QED
    BY <1>1, <2>5 DEF Told
<1> QED
  BY <1>2, <1>3 DEF Classify

\* ReadPlaybook goes one prompt further in the rule.
LEMMA ReadsOn ==
  ASSUME IInv, NEW s \in Workers, ReadPlaybook(s), ~Torn(s)
  PROVE  ReadsItsRule(s)' /\ \A i \in DOMAIN got'[s] : PromptTrue(got'[s][i])
<1> DEFINE f == Head(todo[s])
           r == rule[s]
           p == rules[r].prompts
           R == Rendered \ unread[s]
           S == (Rendered \ unread[s])'
<1>1. /\ session[s] = "reading" /\ todo[s] # <<>> /\ todo[s] \in Seq(Files) /\ got[s] \in Seq(Prompt)
      /\ todo'[s] = Tail(todo[s]) /\ UNCHANGED <<rules, copies, seen, rule>>
      /\ \/ got'[s] = got[s] \o Read(f) /\ unread' = unread
         \/ Read(f) # <<>> /\ unread'[s] = unread[s] \cup {f} /\ got'[s] = got[s]
  BY DEF ReadPlaybook, IInv, TypeOK, renderVars
<1>2. f \in Files /\ phase \in {"running", "signalled", "stopping"}
  <2>1. f \in Files
    BY <1>1
  <2>2. Alive /\ phase \notin Stopped
    BY <1>1 DEF IInv, Registry, Active, ReadPlaybook
  <2> QED
    BY <2>1, <2>2 DEF Alive, Stopped
<1>3. /\ f \in Rendered => Read(f) # <<>>
      /\ \A q \in Prompt : Read(f) = <<q>> => PromptTrue(q)
  BY <1>2, ReadTrue DEF IInv
<1>4. Read(f) = <<>> \/ \E q \in Prompt : Read(f) = <<q>> /\ q.file = f
  BY <1>2, ReadOne DEF IInv
<1>5. (\A i \in DOMAIN got[s] : PromptTrue(got[s][i])) /\ ReadsItsRule(s)
  BY <1>1 DEF IInv, AllTold, Told
<1>6. r # 0 /\ Matches(seen[s], r) /\ r \in DOMAIN rules
  BY <1>1, <1>5 DEF ReadsItsRule
<1>7. PICK d \in Nat : RestOf(todo[s], p, d) /\ Fits(got[s], p, d, R)
  BY <1>5, <1>6 DEF ReadsItsRule
<1>8. p \in Seq(Files) /\ d + 1 \in Nat
  BY <1>6, RulesTyped DEF IInv
<1>9. f = p[d + 1] /\ RestOf(todo'[s], p, d + 1)
  BY <1>1, <1>7, <1>8, RestNext
<1>10. Rendered' = Rendered /\ Matches(seen[s], rule[s])' /\ (rule[s] \in DOMAIN rules)'
  BY <1>1, <1>6 DEF Rendered, Matches
<1>11. ASSUME got'[s] = got[s], f \notin S, S \subseteq R
       PROVE  Fits(got'[s], p, d + 1, S)
  <2>1. Fits(got'[s], p, d, S)
    BY <1>7, <1>11, FitsLess
  <2> QED
    BY <1>9, <1>11, <2>1, FitsSkip
<1>12. /\ Fits(got'[s], p, d + 1, S)
       /\ \A i \in DOMAIN got'[s] : PromptTrue(got'[s][i])
  <2>1. CASE Read(f) # <<>> /\ unread'[s] = unread[s] \cup {f} /\ got'[s] = got[s]
    <3>1. f \notin S /\ S \subseteq R
      BY <1>10, <2>1
    <3> QED
      BY <1>5, <1>11, <2>1, <3>1
  <2>2. CASE got'[s] = got[s] \o Read(f) /\ unread' = unread /\ Read(f) = <<>>
    <3>1. got'[s] = got[s]
      BY <1>1, <2>2, AppendNone
    <3>2. f \notin S /\ S \subseteq R
      BY <1>3, <1>10, <2>2
    <3> QED
      BY <1>5, <1>11, <3>1, <3>2
  <2>3. CASE got'[s] = got[s] \o Read(f) /\ unread' = unread /\ Read(f) # <<>>
    <3>1. PICK q \in Prompt : Read(f) = <<q>> /\ q.file = f
      BY <1>4, <2>3
    <3>2. got'[s] = got[s] \o <<q>> /\ S = R
      BY <1>10, <2>3, <3>1
    <3>3. Fits(got'[s], p, d + 1, S)
      <4>1. got[s] \in Seq(Prompt) /\ q.file = p[d + 1] /\ Fits(got[s], p, d, R)
        BY <1>1, <1>7, <1>9, <3>1
      <4>2. Fits(got[s] \o <<q>>, p, d + 1, R)
        BY <4>1, FitsNext
      <4> QED
        BY <3>2, <4>2
    <3>4. ASSUME NEW i \in DOMAIN got'[s] PROVE PromptTrue(got'[s][i])
      <4>1. \/ (got[s] \o <<q>>)[i] = q
            \/ i \in DOMAIN got[s] /\ (got[s] \o <<q>>)[i] = got[s][i]
        BY <1>1, <3>2, <3>4, AppendOne
      <4> QED
        BY <1>3, <1>5, <3>1, <3>2, <4>1
    <3> QED
      BY <3>3, <3>4
  <2> QED
    BY <1>1, <2>1, <2>2, <2>3
<1>13. ReadsItsRule(s)'
  BY <1>1, <1>6, <1>8, <1>9, <1>10, <1>12 DEF ReadsItsRule
<1> QED
  BY <1>12, <1>13

\* The skeletons of a session are the rendered ones.
LEMMA AssembleTells ==
  ASSUME IInv, NEW s \in Workers, Assemble(s)
  PROVE  Told(s)'
<1>1. /\ session[s] = "reading" /\ session'[s] = "live" /\ todo'[s] = <<>>
      /\ UNCHANGED <<rules, copies, edits, deleted, seen, rule, todo, got, unread>>
  BY DEF Assemble, IInv, TypeOK, renderVars, operatorVars
<1>2. Rendered' = Rendered /\ Torn(s)' = Torn(s)
  BY <1>1 DEF Rendered, Torn
<1>3. ASSUME ~Torn(s)
      PROVE  /\ (\A i \in DOMAIN got[s] : PromptTrue(got[s][i]))'
             /\ ReadsItsRule(s)'
             /\ (\A k \in Skeletons \ fallback[s] : skeleton[s][k] = <<copies[k], TRUE>>)'
  <2>1. (\A i \in DOMAIN got[s] : PromptTrue(got[s][i])) /\ ReadsItsRule(s)
    BY <1>1, <1>3 DEF IInv, AllTold, Told
  <2>2. (\A i \in DOMAIN got[s] : PromptTrue(got[s][i]))'
    BY <1>1, <1>2, <2>1 DEF PromptTrue
  <2>3. ReadsItsRule(s)'
    BY <1>1, <1>2, <2>1 DEF ReadsItsRule, Matches
  <2>4. phase \in {"running", "signalled", "stopping"}
    <3>1. Alive /\ phase \notin Stopped
      BY <1>1, <1>3 DEF IInv, Registry, Active, Assemble
    <3> QED
      BY <3>1 DEF Alive, Stopped
  <2>5. tempDir /\ \A k \in Skeletons : Path(k)
    BY <2>4 DEF IInv, CopiesTrue, Path, Late, Rendering
  <2>6. PICK failed \in SUBSET Skeletons :
          /\ fallback'[s] = failed
          /\ skeleton'[s] = [k \in Skeletons |->
               IF Path(k) /\ tempDir /\ k \notin failed THEN <<copies[k], TRUE>>
               ELSE <<Default[k], FALSE>>]
    BY DEF Assemble, IInv, TypeOK
  <2>7. \A k \in Skeletons \ fallback'[s] : skeleton'[s][k] = <<copies[k], TRUE>>
    BY <2>5, <2>6
  <2> QED
    BY <1>1, <2>2, <2>3, <2>7
<1> QED
  BY <1>1, <1>2, <1>3 DEF Told

LEMMA OwnStepTells ==
  ASSUME IInv, NEW s \in Workers, WorkerStep(s)
  PROVE  Told(s)'
<1>1. Told(s)
  BY DEF IInv, AllTold
<1>2. CASE Start(s)
  <2>1. session[s] = "none" /\ session'[s] = "started" /\ UNCHANGED promptVars
    BY <1>2 DEF Start, IInv, TypeOK
  <2> QED
    BY <1>1, <2>1 DEF Told, promptVars
<1>3. CASE ReadPlaybook(s)
  <2>1. /\ session[s] = "reading" /\ session'[s] = "reading"
        /\ UNCHANGED <<copies, edits, deleted>>
    BY <1>3 DEF ReadPlaybook, workerVars, renderVars, operatorVars
  <2>2. Torn(s)' = Torn(s) /\ Rendered' = Rendered
    BY <2>1 DEF Torn, Rendered
  <2>3. ASSUME ~Torn(s) PROVE ReadsItsRule(s)' /\ (\A i \in DOMAIN got[s] : PromptTrue(got[s][i]))'
    <3>1. ReadsItsRule(s)' /\ \A i \in DOMAIN got'[s] : PromptTrue(got'[s][i])
      BY <1>3, <2>3, ReadsOn
    <3> QED
      BY <2>1, <2>2, <3>1 DEF PromptTrue
  <2> QED
    BY <2>1, <2>2, <2>3 DEF Told
<1>4. CASE Reap(s) \/ End(s)
  <2>1. /\ session'[s] \in {"started", "ended"}
        /\ rule'[s] = 0 /\ todo'[s] = <<>> /\ got'[s] = <<>>
    BY <1>4 DEF Reap, End, Forget, IInv, TypeOK
  <2> QED
    BY <2>1 DEF Told
<1>5. CASE DeleteWorker(s)
  <2>1. Torn(s)' /\ session' = session /\ UNCHANGED promptVars
    BY <1>5 DEF DeleteWorker, Torn
  <2> QED
    BY <1>1, <2>1 DEF Told, promptVars
<1> QED
  BY <1>2, <1>3, <1>4, <1>5, ClassifyTells, AssembleTells DEF WorkerStep

LEMMA ToldStep ==
  ASSUME IInv, [Next]_vars
  PROVE  AllTold'
<1>0. edits \in Nat /\ MaxEdits \in Nat
  BY PlaybooksAssumption DEF PlaybooksAssumption, IInv, TypeOK
<1>1. CASE Edit \/ StopStep \/ UNCHANGED vars
  <2>1. /\ UNCHANGED <<copies, rules, session, promptVars>> /\ deleted' = deleted
        /\ edits' \in {edits, edits + 1}
    BY <1>1 DEF Edit, StopStep, ShutdownSignal, StopBegins, RunnerStop, StopClient, Cleanup,
       RemoveCopies, ConfigCleanup, operatorVars, renderVars, workerVars, vars
  <2>2. edits' \in Nat /\ edits' >= edits
    BY <1>0, <2>1
  <2> QED
    BY <1>0, <2>1, <2>2, ToldStays DEF IInv, AllTold, promptVars
<1>2. CASE StartStep
  <2>1. UNCHANGED <<edits, session, deleted, promptVars>>
    BY <1>2 DEF StartStep, ResolveConfigSrc, New, CopyFile, Render, NewFails, LoadRuleConfig,
       EmitAndExit, operatorVars, workerVars
  <2>2. CASE UNCHANGED <<copies, rules>>
    BY <1>0, <2>1, <2>2, ToldStays DEF IInv, AllTold, promptVars
  <2>3. CASE ~UNCHANGED <<copies, rules>>
    <3>1. \A s \in Workers : session[s] = "none"
      BY <1>2, <2>3 DEF IInv, StartedLate, StartStep, ResolveConfigSrc, New, CopyFile, Render,
         NewFails, RemoveCopies, LoadRuleConfig, EmitAndExit, renderVars
    <3> QED
      BY <2>1, <3>1 DEF IInv, AllTold, Told, promptVars
  <2> QED
    BY <2>2, <2>3
<1>3. ASSUME NEW s \in Workers, WorkerStep(s) PROVE AllTold'
  <2>1. UNCHANGED <<rules, copies, edits>> /\ deleted \subseteq deleted'
    BY <1>3, WorkerFacts DEF IInv, operatorVars, renderVars
  <2>2. ASSUME NEW t \in Workers \ {s} PROVE Told(t)'
    <3>1. /\ session'[t] = session[t] /\ seen'[t] = seen[t] /\ rule'[t] = rule[t]
          /\ todo'[t] = todo[t] /\ got'[t] = got[t] /\ unread'[t] = unread[t]
          /\ skeleton'[t] = skeleton[t] /\ fallback'[t] = fallback[t]
      BY <1>3, WorkerFacts DEF IInv
    <3>2. Told(t)
      BY DEF IInv, AllTold
    <3>3. edits' \in Nat /\ edits' >= edits
      BY <1>0, <2>1
    <3> QED
      BY <1>0, <2>1, <3>1, <3>2, <3>3, ToldStays
  <2>3. Told(s)'
    BY <1>3, OwnStepTells
  <2> QED
    BY <2>2, <2>3 DEF AllTold
<1> QED
  BY <1>1, <1>2, <1>3, StepsAre

LEMMA StepInv == IInv /\ [Next]_vars => IInv'
<1> SUFFICES ASSUME IInv, [Next]_vars PROVE IInv'
  OBVIOUS
<1>1. TypeOK' /\ CopiesTrue' /\ NothingMissed'
  BY TypeStep, CopiesStep, MissedStep DEF IInv
<1>2. StartedLate' /\ Registry' /\ AllTold'
  BY LateStep, RegistryStep, ToldStep DEF IInv
<1> QED
  BY <1>1, <1>2 DEF IInv

\* Copies, registry and prompts agree in every reachable state.
THEOREM Inductive == Spec => []IInv
<1> QED
  BY InitInv, StepInv, PTL DEF Spec

\* The state of the prompts is well-formed.
THEOREM TypeCorrect == Spec => []TypeOK
<1>1. IInv => TypeOK
  BY DEF IInv
<1> QED
  BY <1>1, Inductive, PTL

\* When a session has read everything, its prompts are those of its rule, in order.
LEMMA AllRead ==
  ASSUME IInv, NEW s \in Workers, session[s] = "live", ~Torn(s)
  PROVE  AllInOrder(s)
<1>1. got[s] \in Seq(Prompt) /\ todo[s] = <<>> /\ ReadsItsRule(s)
  BY DEF IInv, TypeOK, AllTold, Told
<1>2. CASE rule[s] = 0
  BY <1>1, <1>2 DEF AllInOrder, ReadsItsRule
<1>3. CASE rule[s] # 0
  <2> DEFINE p == rules[rule[s]].prompts
             R == Rendered \ unread[s]
  <2>1. Matches(seen[s], rule[s]) /\ rule[s] \in DOMAIN rules
    BY <1>1, <1>3 DEF ReadsItsRule
  <2>2. p \in Seq(Files)
    BY <2>1, RulesTyped DEF IInv
  <2>3. PICK d \in Nat : RestOf(todo[s], p, d) /\ Fits(got[s], p, d, R)
    BY <1>1, <1>3 DEF ReadsItsRule
  <2>4. d = Len(p)
    BY <1>1, <2>3 DEF RestOf
  <2>5. DOMAIN p = 1..d /\ DOMAIN got[s] = 1..Len(got[s])
    BY <1>1, <2>2, <2>4
  <2> HIDE DEF p, R
  <2>6. PICK at \in [1..Len(got[s]) -> 1..d] :
          /\ \A j \in 1..Len(got[s]) : got[s][j].file = p[at[j]]
          /\ \A j, k \in 1..Len(got[s]) : j < k => at[j] < at[k]
          /\ \A m \in 1..d : p[m] \in R => \E j \in 1..Len(got[s]) : at[j] = m
    BY <2>3 DEF Fits
  <2>7. at \in [DOMAIN got[s] -> DOMAIN p]
    BY <2>5, <2>6
  <2>8. /\ \A j \in DOMAIN got[s] : got[s][j].file = p[at[j]]
        /\ \A j, k \in DOMAIN got[s] : j < k => at[j] < at[k]
        /\ \A m \in DOMAIN p : p[m] \in R => \E j \in DOMAIN got[s] : at[j] = m
    BY <2>5, <2>6
  <2> QED
    BY <1>3, <2>1, <2>7, <2>8, Zenon DEF AllInOrder, p, R
<1> QED
  BY <1>2, <1>3

\* A live session has the prompts of its rule in the rule's order, each as it was
\* rendered at start-up and none missing but those whose read failed, and the
\* rendered skeletons but those whose read failed: however often the directory is
\* edited, and up to the very end of the shutdown.
THEOREM PromptsStayRendered == Spec => []PromptsAsRendered
<1>1. IInv => \A s \in Workers : session[s] = "live" /\ ~Torn(s) => AsRendered(s)
  BY DEF IInv, AllTold, Told, PromptTrue, AsRendered
<1>2. IInv => PromptsAsRendered
  BY <1>1, AllRead DEF PromptsAsRendered
<1> QED
  BY <1>2, Inductive, PTL

\* The files that the prompts of a live session refer to are there until Stop has
\* seen it end, although Stop looks for its worker in a registry that workers of
\* other cards leave, enter and are deleted from all the while; and when main returns,
\* only what could not be removed is left.
THEOREM ReferencesStay == Spec => []ReferencesLive
<1>1. IInv => ReferencesLive
  <2> SUFFICES ASSUME IInv PROVE ReferencesLive
    OBVIOUS
  <2>1. ASSUME Alive, NEW s \in Workers, session[s] = "live", ~Torn(s)
        PROVE  /\ tempDir
               /\ \A i \in DOMAIN got[s] : got[s][i].rendered =>
                    Refs[got[s][i].text] \subseteq Keys \cup Rendered
    <3>1. phase \notin Stopped
      BY <2>1 DEF IInv, Registry, Active
    <3>2. phase \in {"running", "signalled", "stopping"}
      BY <2>1, <3>1 DEF Alive, Stopped
    <3>3. tempDir /\ \A f \in Rendered : Resolves(copies[f])
      BY <3>2 DEF IInv, CopiesTrue, Late, Rendering
    <3>4. \A i \in DOMAIN got[s] : PromptTrue(got[s][i])
      BY <2>1 DEF IInv, AllTold, Told
    <3> QED
      BY <3>3, <3>4 DEF PromptTrue, Resolves
  <2>2. phase = "exited" => (tempDir => "copies" \in stuck) /\ (cache => "download" \in stuck)
    BY DEF IInv, CopiesTrue
  <2> QED
    BY <2>1, <2>2 DEF ReferencesLive
<1> QED
  BY <1>1, Inductive, PTL
=============================================================================
