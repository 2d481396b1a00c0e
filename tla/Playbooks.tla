----------------------------- MODULE Playbooks -----------------------------
(***************************************************************************)
(* The prompts of a worker session, from the operator's directory to the   *)
(* system prompt (configsrc.go, prompttmpl/renderer.go, router/rule.go,    *)
(* runner.go and the order of start-up and shutdown in main.go).           *)
(*                                                                         *)
(* At start-up the process copies every .md file of the directory into a   *)
(* temporary one and replaces the references in the copies; then it loads  *)
(* the rules.  Each session reads the prompts of the first rule that       *)
(* matches its card.  The operator may edit the directory at any time.     *)
(* Workers come and go with their registry entries (Dispatcher.tla), and   *)
(* the shutdown waits for those it finds registered.                       *)
(***************************************************************************)
EXTENDS Naturals, Sequences

CONSTANTS
  Files,      \* names of files in the operator's directory
  Md,         \* those that end in .md
  Skeletons,  \* those the binary has a default for
  Texts,      \* contents of files
  Refs,       \* the references in a text: names of files and of variables
  Keys,       \* the variables drawn from the resolved kanban block
  Default,    \* the text the binary has for a skeleton
  NoText,     \* "no such file"
  Routers,    \* contents of router.hcl
  RulesOf,    \* its rules in order; none stands for any that cannot be decoded
  Source,     \* the directory when the process starts
  Router,     \* and its router.hcl
  Workers,    \* worker goroutines, each with one session at a time
  CardOf,     \* the card of a worker
  Signals,    \* what the rules can be told of a card when a session starts
  MaxEdits    \* bound on the operator's edits

Rule == [when : [Signals -> {"true", "false", "error"}], prompts : Seq(Files)]

ASSUME PlaybooksAssumption ==
  /\ Skeletons \subseteq Md /\ Md \subseteq Files
  /\ NoText \notin Texts
  /\ DOMAIN Refs = Texts /\ \A t \in Texts : Refs[t] \subseteq Files \cup Keys \cup {"unknown"}
  /\ Default \in [Skeletons -> Texts]
  /\ RulesOf \in [Routers -> Seq(Rule)]
  /\ Source \in [Files -> Texts \cup {NoText}] /\ Router \in Routers
  /\ DOMAIN CardOf = Workers
  /\ NoText \notin Signals
  /\ MaxEdits \in Nat

VARIABLES
  phase,      \* how far main has come
  config,     \* the files of the operator's directory
  router,     \* its router.hcl
  edits,      \* how often the operator has edited them
  cache,      \* the directory is a download in a temporary directory
  tempDir,    \* the renderer's temporary directory exists
  copies,     \* the files the renderer has put there
  pending,    \* the files it has yet to copy
  stuck,      \* history: the temporary directories that could not be removed
  rules,      \* the rule engine's rules
  session,    \* what each worker is doing; it has a session when it is "live"
  registered, \* the workers in the dispatcher's registry
  held,       \* those it found there when Stop began
  deleted,    \* history: the workers that DeleteWorker took from it
  seen,       \* history: the signals of the card when the session started
  rule,       \* its rule, or 0
  todo,       \* the prompts of its rule it has yet to read
  got,        \* the prompts in its system prompt
  unread,     \* history: those whose file could not be read
  skeleton,   \* the sections of its system prompt from the skeletons
  fallback    \* history: the skeletons whose file could not be read

operatorVars == <<config, router, edits>>
renderVars   == <<tempDir, copies, pending, stuck>>
workerVars   == <<session, registered, held, deleted>>
promptVars   == <<seen, rule, todo, got, unread, skeleton, fallback>>
vars == <<phase, operatorVars, cache, renderVars, rules, workerVars, promptVars>>

AnyText == Texts \cup {NoText}
Prompt == [file : Files, text : Texts, rendered : BOOLEAN]

TypeOK ==
  /\ phase \in {"resolve", "new", "copy", "rules", "running", "signalled", "stopping",
                "stopped", "detached", "cleaned", "exited", "aborted"}
  /\ config \in [Files -> AnyText] /\ router \in Routers /\ edits \in 0..MaxEdits
  /\ cache \in BOOLEAN
  /\ tempDir \in BOOLEAN /\ copies \in [Files -> AnyText] /\ pending \subseteq Md
  /\ stuck \subseteq {"copies", "download"}
  /\ rules \in Seq(Rule)
  /\ session \in [Workers -> {"none", "started", "reading", "live", "ended"}]
  /\ registered \subseteq Workers /\ held \subseteq Workers /\ deleted \subseteq Workers
  /\ seen \in [Workers -> Signals \cup {NoText}]
  /\ rule \in [Workers -> Nat]
  /\ todo \in [Workers -> Seq(Files)]
  /\ got \in [Workers -> Seq(Prompt)]
  /\ unread \in [Workers -> SUBSET Files]
  /\ skeleton \in [Workers -> [Skeletons -> Texts \X BOOLEAN]]
  /\ fallback \in [Workers -> SUBSET Skeletons]

\* The skeletons' sections before a system prompt is assembled.
Embedded == [k \in Skeletons |-> <<Default[k], FALSE>>]

Init ==
  /\ phase = "resolve"
  /\ config = Source /\ router = Router /\ edits = 0
  /\ cache = FALSE
  /\ tempDir = FALSE /\ copies = [f \in Files |-> NoText] /\ pending = {} /\ stuck = {}
  /\ rules = <<>>
  /\ session = [s \in Workers |-> "none"]
  /\ registered = {} /\ held = {} /\ deleted = {}
  /\ seen = [s \in Workers |-> NoText]
  /\ rule = [s \in Workers |-> 0]
  /\ todo = [s \in Workers |-> <<>>]
  /\ got = [s \in Workers |-> <<>>]
  /\ unread = [s \in Workers |-> {}]
  /\ skeleton = [s \in Workers |-> Embedded]
  /\ fallback = [s \in Workers |-> {}]

\* The files the renderer knows; a Cleanup that succeeds forgets them.
Rendered == {f \in Files : copies[f] # NoText}
Path(f) == f \in Rendered /\ (phase \in {"cleaned", "exited"} => tempDir)

-----------------------------------------------------------------------------
(* The operator changes, adds or removes a file, while the process runs.   *)
(* A download is not the operator's directory.                             *)

Edit ==
  /\ edits < MaxEdits /\ ~cache /\ phase \notin {"exited", "aborted"}
  /\ edits' = edits + 1
  /\ \/ \E f \in Files, t \in AnyText : config' = [config EXCEPT ![f] = t] /\ UNCHANGED router
     \/ router' \in Routers /\ UNCHANGED config
  /\ UNCHANGED <<phase, cache, renderVars, rules, workerVars, promptVars>>

-----------------------------------------------------------------------------
(* Start-up.                                                               *)

Goto(at, to) == phase = at /\ phase' = to

\* A local directory is used in place, anything else is downloaded.
ResolveConfigSrc ==
  /\ Goto("resolve", "new")
  /\ cache' \in BOOLEAN
  /\ UNCHANGED <<operatorVars, renderVars, rules, workerVars, promptVars>>

\* New: make the directory, write the defaults, and list the operator's files.
New ==
  /\ Goto("new", "copy")
  /\ tempDir' = TRUE
  /\ UNCHANGED stuck
  /\ copies' = [f \in Files |-> IF f \in Skeletons THEN Default[f] ELSE NoText]
  /\ pending' = {f \in Md : config[f] # NoText}
  /\ UNCHANGED <<operatorVars, cache, rules, workerVars, promptVars>>

\* A file listed must still be there when its turn comes.
CopyFile(f) ==
  /\ phase = "copy" /\ f \in pending /\ config[f] # NoText
  /\ copies' = [copies EXCEPT ![f] = config[f]]
  /\ pending' = pending \ {f}
  /\ UNCHANGED <<phase, operatorVars, cache, tempDir, stuck, rules, workerVars, promptVars>>

\* Every reference in a text is a variable or a file that has been copied.
Resolves(t) == Refs[t] \subseteq Keys \cup Rendered

\* Every copy is rendered in place, or New fails.
Render ==
  /\ Goto("copy", "rules")
  /\ pending = {}
  /\ \A f \in Rendered : Resolves(copies[f])
  /\ UNCHANGED <<operatorVars, cache, renderVars, rules, workerVars, promptVars>>

\* The renderer's directory goes, or os.RemoveAll fails; what it leaves cannot be
\* told from files that cannot be read.
RemoveCopies ==
  /\ \/ tempDir' = FALSE /\ UNCHANGED stuck
     \/ stuck' = stuck \cup {"copies"} /\ UNCHANGED tempDir
  /\ UNCHANGED <<copies, pending>>

\* New fails, for any reason: it removes its directory, and main exits.
NewFails ==
  /\ Goto("copy", "aborted")
  /\ RemoveCopies
  /\ UNCHANGED <<operatorVars, cache, rules, workerVars, promptVars>>

\* LoadRuleConfig reads router.hcl again and looks for every prompt in the
\* operator's directory, not among the copies.
LoadRuleConfig ==
  /\ Goto("rules", "running")
  /\ RulesOf[router] # <<>>
  /\ \A i \in DOMAIN RulesOf[router] :
       LET p == RulesOf[router][i].prompts IN \A j \in DOMAIN p : config[p[j]] # NoText
  /\ rules' = RulesOf[router]
  /\ UNCHANGED <<operatorVars, cache, renderVars, workerVars, promptVars>>

Alive == phase \in {"running", "signalled", "stopping", "stopped", "detached", "cleaned"}

\* emitAndExit: a step of the start-up fails, or a server stops serving, whose
\* goroutine may come to it during the shutdown.  os.Exit runs no deferred call.
EmitAndExit ==
  /\ phase \in {"resolve", "new", "rules"} \/ Alive
  /\ phase' = "aborted"
  /\ UNCHANGED <<operatorVars, cache, renderVars, rules, workerVars, promptVars>>

-----------------------------------------------------------------------------
(* The workers of the dispatcher, and their NewWorkerSession.              *)

\* An event of a card that has no registered worker, until Stop begins.
Start(s) ==
  /\ phase \in {"running", "signalled"}
  /\ session[s] = "none"
  /\ \A w \in registered : CardOf[w] # CardOf[s]
  /\ session' = [session EXCEPT ![s] = "started"]
  /\ registered' = registered \cup {s}
  /\ UNCHANGED <<phase, operatorVars, cache, renderVars, rules, held, deleted, promptVars>>

\* The rules before i are false or broken, and i is true.
Matches(x, i) ==
  /\ rules[i].when[x] = "true"
  /\ \A j \in 1..(i - 1) : rules[j].when[x] # "true"

\* NewWorkerSession, while there is a client: classifyForWorker finds no rule, or
\* cannot fetch the card, and there are no prompts; or a rule matches.
Classify(s) ==
  /\ Alive /\ phase \notin {"detached", "cleaned"}
  /\ session[s] = "started"
  /\ session' = [session EXCEPT ![s] = "reading"]
  /\ \/ UNCHANGED <<seen, rule, todo>>
     \/ \E x \in Signals, i \in DOMAIN rules :
          /\ Matches(x, i)
          /\ seen' = [seen EXCEPT ![s] = x]
          /\ rule' = [rule EXCEPT ![s] = i]
          /\ todo' = [todo EXCEPT ![s] = rules[i].prompts]
  /\ UNCHANGED <<phase, operatorVars, cache, renderVars, rules, registered, held, deleted, got,
                 unread, skeleton, fallback>>

\* Mutant of Read: the operator's file comes first.
ReadSource(f) ==
  IF config[f] # NoText THEN <<[file |-> f, text |-> config[f], rendered |-> FALSE]>> ELSE <<>>

\* What there is to read for a prompt: its copy, or the file itself when the
\* renderer does not know it.
Read(f) ==
  IF Path(f)
  THEN IF tempDir THEN <<[file |-> f, text |-> copies[f], rendered |-> TRUE]>> ELSE <<>>
  ELSE IF config[f] # NoText
       THEN <<[file |-> f, text |-> config[f], rendered |-> FALSE]>> ELSE <<>>

\* A prompt that is not there, or whose read fails, is left out.
ReadPlaybook(s) ==
  LET f == Head(todo[s]) IN
  /\ Alive /\ session[s] = "reading" /\ todo[s] # <<>>
  /\ todo' = [todo EXCEPT ![s] = Tail(@)]
  /\ \/ got' = [got EXCEPT ![s] = @ \o Read(f)] /\ UNCHANGED unread
     \/ Read(f) # <<>> /\ unread' = [unread EXCEPT ![s] = @ \cup {f}] /\ UNCHANGED got
  /\ UNCHANGED <<phase, operatorVars, cache, renderVars, rules, workerVars, seen, rule, skeleton,
                 fallback>>

\* assembleWorkerSystemPrompt: a skeleton that is not there, or whose read fails,
\* comes as the binary has it, its references unresolved; then the session is made.
Assemble(s) ==
  /\ Alive /\ session[s] = "reading" /\ todo[s] = <<>>
  /\ session' = [session EXCEPT ![s] = "live"]
  /\ \E failed \in SUBSET Skeletons :
       /\ fallback' = [fallback EXCEPT ![s] = failed]
       /\ skeleton' = [skeleton EXCEPT ![s] = [k \in Skeletons |->
            IF Path(k) /\ tempDir /\ k \notin failed THEN <<copies[k], TRUE>>
            ELSE <<Default[k], FALSE>>]]
  /\ UNCHANGED <<phase, operatorVars, cache, renderVars, rules, registered, held, deleted, seen,
                 rule, todo, got, unread>>

\* The worker has no system prompt any more.
Forget(s) ==
  /\ seen' = [seen EXCEPT ![s] = NoText]
  /\ rule' = [rule EXCEPT ![s] = 0]
  /\ todo' = [todo EXCEPT ![s] = <<>>]
  /\ got' = [got EXCEPT ![s] = <<>>]
  /\ unread' = [unread EXCEPT ![s] = {}]
  /\ skeleton' = [skeleton EXCEPT ![s] = Embedded]
  /\ fallback' = [fallback EXCEPT ![s] = {}]

\* The idle timer: the session goes, and the next message asks for another.
Reap(s) ==
  /\ Alive /\ session[s] = "live"
  /\ session' = [session EXCEPT ![s] = "started"]
  /\ Forget(s)
  /\ UNCHANGED <<phase, operatorVars, cache, renderVars, rules, registered, held, deleted>>

\* The worker ends: killed, its card gone, or no session could be made.  It takes
\* whatever worker of its card is registered from the registry.
End(s) ==
  /\ Alive /\ session[s] \in {"started", "reading", "live"}
  /\ session' = [session EXCEPT ![s] = "ended"]
  /\ registered' = {w \in registered : CardOf[w] # CardOf[s]}
  /\ Forget(s)
  /\ UNCHANGED <<phase, operatorVars, cache, renderVars, rules, held, deleted>>

\* DeleteWorker, on a goroutine of the TUI that nobody waits for: the worker is taken
\* from the registry before it has ended.
DeleteWorker(s) ==
  /\ Alive /\ s \in registered
  /\ registered' = registered \ {s}
  /\ deleted' = deleted \cup {s}
  /\ UNCHANGED <<phase, operatorVars, cache, renderVars, rules, session, held, promptVars>>

-----------------------------------------------------------------------------
(* Shutdown: the deferred calls of main, the last one first.               *)

\* The servers are closed; what they have accepted is still dispatched.
ShutdownSignal ==
  /\ Goto("running", "signalled")
  /\ UNCHANGED <<operatorVars, cache, renderVars, rules, workerVars, promptVars>>

\* dispatcher.Stop takes the handles that are registered.
StopBegins ==
  /\ Goto("signalled", "stopping")
  /\ held' = registered
  /\ UNCHANGED <<operatorVars, cache, renderVars, rules, session, registered, deleted, promptVars>>

\* Mutant of RunnerStop: it does not wait for the workers.
RunnerStopAtOnce ==
  /\ Goto("stopping", "stopped")
  /\ UNCHANGED <<operatorVars, cache, renderVars, rules, workerVars, promptVars>>

\* dispatcher.Stop returns when the workers it has taken are done.
RunnerStop ==
  /\ Goto("stopping", "stopped")
  /\ \A s \in held : session[s] = "ended"
  /\ UNCHANGED <<operatorVars, cache, renderVars, rules, workerVars, promptVars>>

\* The rest of runner.Stop: there is no client any more.
StopClient ==
  /\ Goto("stopped", "detached")
  /\ UNCHANGED <<operatorVars, cache, renderVars, rules, workerVars, promptVars>>

\* renderer.Cleanup.
Cleanup ==
  /\ Goto("detached", "cleaned")
  /\ RemoveCopies
  /\ UNCHANGED <<operatorVars, cache, rules, workerVars, promptVars>>

\* configCleanup: a download is removed, if it can be; then main returns.
ConfigCleanup ==
  /\ Goto("cleaned", "exited")
  /\ \/ cache' = FALSE /\ UNCHANGED stuck
     \/ cache /\ stuck' = stuck \cup {"download"} /\ UNCHANGED cache
  /\ UNCHANGED <<operatorVars, tempDir, copies, pending, rules, workerVars, promptVars>>

Next ==
  \/ Edit
  \/ ResolveConfigSrc \/ New \/ (\E f \in Files : CopyFile(f)) \/ Render \/ NewFails
  \/ LoadRuleConfig \/ EmitAndExit
  \/ \E s \in Workers :
       \/ Start(s) \/ Classify(s) \/ ReadPlaybook(s) \/ Assemble(s)
       \/ Reap(s) \/ End(s) \/ DeleteWorker(s)
  \/ ShutdownSignal \/ StopBegins \/ RunnerStop \/ StopClient \/ Cleanup \/ ConfigCleanup

Spec == Init /\ [][Next]_vars
=============================================================================
