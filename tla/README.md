# A TLA+ model of jjc, the Trello → Copilot webhook gateway

jjc is one Go process between a Trello board and the Copilot SDK. Trello posts
the board's events to it; it decides from the list a card is in whether the
event concerns an agent, and hands it to the card's worker, a goroutine with one
Copilot session and a directory of its own. Around that core sit a webhook and
tunnel manager, a built-in board that can stand in for Trello, and terminal
views. This directory holds TLA+ modules for the parts that run concurrently or
decide something, TLC configurations that check them, and TLAPS proofs. Paths
below are relative to `src/`, most of them to `src/internal/app/`.

Every definition that stands for code is listed in `PROJECT.json` under `map`
with the lines it models.

## 1. Inventory

| part | state it keeps | operations | talks to | what is hard |
|---|---|---|---|---|
| **Dispatcher** `dispatcher.go` | `workers` (card → handle), `stopped`; per handle an inbox channel, `kill`, a context, `done`; per worker a session, a tracker, a work directory | `Dispatch`, `enqueue`, `runWorker` and its deferred calls, `Stop`, `DeleteWorker` | called by Handle, TUI, local board; calls the rule engine, the session creator, the SDK | the registry lock is released before the send; a worker may end by itself, be stopped or be deleted at any of its steps |
| **Copilot session adapter** `dispatcher.go` | per call: a callback, `done`, `sawErr` | `SendAndWait`, `Disconnect` | worker ↔ SDK | callbacks come on another goroutine and may outlive the call; the answer to a Send may be lost |
| **Activity tracker, global event log** `activity.go`, `globallog.go` | status, labels of the running tool calls, ring buffers, log file | `RecordEvent`, `MarkDisconnected`, `MarkSessionIdleReaped`, `Close`, `Snapshot` | session callbacks, views | interleaved calls of agent and subagent, late callbacks, wrap-around |
| **Work directories, hooks, refresh** `workdir.go`, `hooks_azurerm.go`, `aiassistedrefresh/` | a directory per card, one installer directory for all, temporary directories, a mutex | `Prepare`, `maybeClone`, the hook, `Refresh`, the removal by DeleteWorker | Dispatcher, git, go | a process-wide mutex held across long commands; clones and refreshes killed half way; a deleted worker's directory reused |
| **Gateway front** `server.go`, `runner.go`, `main.go` | handler slot, `dedupSeen`, `auditDir`, phase of main | POST, `Handle`, `markActionSeen`, `writeAuditCopy`, `Stop`, `removeAuditDir` | Trello → it → Dispatcher | one goroutine per delivery; repeats; requests still being handled during shutdown |
| **Webhook and tunnel** `tunnel_startup.go`, `trelloclient/client.go`, `tunnel/provider.go` | `webhookID`, `createdNow`, the child process; at Trello: the hooks and their URLs | start, list, update or create, retry, delete, stop | Trello's API; cloudflared; main's deferred calls | lost answers, crashes, two processes on one board, a retry without limit, a child that ends at any time |
| **Prompt templates and prompts** `prompttmpl/`, `configsrc.go`, `router/rule.go`, `runner.go` | a temporary directory of rendered copies, the compiled rules, perhaps a downloaded configuration | `New`, `Path`, `Read`, `Cleanup`, `LoadRuleConfig`, `classifyForWorker` | main, sessions, the operator's editor | files are edited while the process starts and runs; the copies must outlive the sessions |
| **Local board** `localboard/store.go`, `server.go`, `payload.go` | SQLite tables `cards`, `comments` | create, move, comment (browser and agent), queries by time | Dispatcher, agent tools | a handler is several statements; times compared as text |
| **Agent tools** `trello_tools.go` | none | `moveCard`, comments, lists | Trello client or local store | decides on a column read earlier |
| **Board stream** `localboard/server.go`, `ui.go` | one 1-slot channel per page; the page's state | commit, broadcast, register, write, refresh, reconnect | store → handler → page | merged wakeups, broken connections, overlapping fetches |
| **Kanban and routing** `kanban/`, `router/` | the resolved view (ids and names per category) | `Validate`, `Resolve`, `CategoryFor…`, `Evaluate`, `evaluateRoute` | board lists at start-up; Dispatcher | two name comparisons; the board changes after start-up |
| **TUI** `tui.go` | list, selection, status, dialog, `deleteInFlight` | `Update`, `refresh`, delete dialog, delete command | Dispatcher | a dialog over a list that changes; a deletion in the background |
| Configuration, message parsing, logging, REPL | read once, or none | pure functions, printing | everything | none |

What makes them correct, in one line each: one worker per card and an event
processed at most once, in order; teardown that ends and leaves nothing behind;
a prompt that is answered when it was finished, and an operator's view that
names the right call; a session that is told the truth about its repository,
prepared with its own installer; a repeated delivery handled once per window and
never dropped without an original; no second webhook, no dead one left by an
orderly end, none deleted that belongs to somebody else, no tunnel left behind;
prompts that are those rendered at start-up; events that tell of real changes; a
page that ends up showing the board; an event routed by the list it is about; a
deletion that is reported for the card that was asked about.

## 2. Modules

| module | models | extended by |
|---|---|---|
| `Dispatcher` | the registry, the workers' goroutines, Dispatch, Stop and DeleteWorker | `DispatcherProperties` → `DispatcherProofs`, `MCDispatcher` |
| `CardQueue` | abstract: one FIFO queue per card | instantiated in `DispatcherProperties` |
| `Activity`, `Session` | the tracker's steps; a worker, its SDK session and its callbacks around them | `SessionProperties` → `SessionProofs`, `MCSession` |
| `WorkDirs` | directory, clone, hook and refresh of several sessions at once | `WorkDirsProperties` → `WorkDirsProofs`, `MCWorkDirs` |
| `Gateway` | a delivery's way through handler, de-duplication, audit copy and dispatcher; main's phases | `GatewayProperties` → `GatewayProofs`, `MCGateway` |
| `Webhook` | the board's webhook and the tunnel's process across gateway processes | `WebhookProperties` → `TrelloProofs`, `MCWebhook` |
| `Playbooks` | the prompts from the operator's directory to a session | `PlaybooksProperties` → `PlaybooksProofs`, `MCPlaybooks` |
| `LocalBoard` | the store's statements, the handlers and the agent's move around them | `LocalBoardProperties` → `LocalBoardProofs`, `MCLocalBoard` |
| `BoardStream` | how a change reaches a page | `BoardStreamProperties` → `LocalBoardProofs`, `MCBoardStream` |
| `Routing` | resolution of the lists, the default routes, `evaluateRoute` | `RoutingProperties` → `TrelloProofs`, `MCRouting` |
| `Ring`, `RecentEvents` | the ring buffer of both logs; abstract: a log that shows its newest entries | `Tui` |
| `Tui` | the list, the dialog and the deletion beside the registry | `TuiProperties` → `TuiProofs`, `MCTui` |

The component modules hold state, `Init`, one action per step, `Next`, and
fairness; the `…Properties` modules hold what is claimed; the `MC…` modules
only name model values and functions for the configurations. Operators whose
comment begins "Mutant of" are plausible bugs of the definition that follows
them; each property is checked to fail under one of them. `BoardStream` and
`Routing` prefix their `Init`, `Next` and `Spec` (`StreamSpec`, `RoutingSpec`) so
that one proof module can extend two components.

**Dispatcher.** A step is what a goroutine does between two points where
another can interfere: a critical section of `mu`, a channel operation, a call
that blocks. `epc` is the program counter of a Dispatch call: `lookup` (the
"worker exists?" check of departures and terminates), `enqueue` (the section
under `mu`), `push` (the select on inbox, kill and context). `wpc` is the
worker's: `select`, `prepare`/`clone`/`create` for `NewWorkerSession`, `send`,
then the deferred calls `disconnect`, `deregister`, `close`. `kpc` is that of a
Stop or DeleteWorker call; `CloseKill` and `CancelCtx` are the two statements in
`killOnce`. A handle is named by the event whose enqueue created it. The route
of an event is any of the four: which one is `Routing`'s business. A worker may
find its inbox and its closed kill channel ready and take either, as `select`
does. Inside a session the agent does as it likes, of which one thing matters
here: once it has been sent the terminate notice (`ToldToClean`), which asks it to
delete its `work_dir`, it may do so at any moment of its session's life
(`AgentRemovesWorkDir`).

**Session and Activity.** `Dispatcher` takes a turn as one step; here it is
opened up. `pc` follows the worker through `SendAndWait` (`subscribed`,
`waiting`) and through the deferred calls of `runWorker`. The SDK session is
external: it works through the prompts it has accepted, makes tool calls, some
of them by a subagent, and is idle at the end of each turn. One event is in a
callback at a time, and an unsubscribe does not wait for it: `callback.turn`
says whose it is. `Activity` has the tracker's critical sections; a label is the
name of a tool with the tag of the subagent that used it, and `begun` remembers the
labels as they were shown at the start of each call.

**WorkDirs.** `pc` follows `Prepare` command by command, `mu` is who holds
`Service.mu`, `installer` whose files are in the shared profile directory. `dir`
says what is in the card's directory: nothing, files without a `.git` entry
(`rubble`), a clone that git is at work on, a `.git` entry that something cut short
(`partial`), or a whole repository. Directories outlive the process, so a run
starts with any of these (`Left`), and the agent of a live session may leave any of
them (`AgentWorks`). `deleting` follows DeleteWorker: it forgets the worker
(`Delete`), asks for the directory (`Snapshot`), cancels, waits, and removes it
(`Remove`), and the removal may stop at any part (`LeftOf`). Between these steps the
card's next worker may come, which `met` records. Every command can fail, and
starts only while its worker's context lives. A worker that ends takes the entry of
its card from the registry, whoever's it is (`Deregister`).

**Gateway.** `pc` follows a delivery from the request to Handle's return; `phase`
follows main. Signature and body checks are the input: a delivery is
well-formed or in `Malformed`. The dispatcher is seen from outside: drop,
failure, or an entry of the card's queue. `dirs` is what is on disk under the
audit directory's pattern, `auditDir` what the runner knows of it, `stuck` what the
file system would not remove, and `late` the deliveries that made a directory after
Stop had forgotten the old one.

**Webhook.** A URL is named by the process whose tunnel it is. `tunnel` is its
cloudflared, which may end at any time and outlives a gateway that is killed;
`stop` follows provider.Stop. Each request to Trello is a step whose effect may
happen without its answer being seen. `Provisioned` hooks were made by the
operator, who may also delete hooks. A process ends `stopped` (clean),
`leftover` (the delete failed), `aborted` (start-up given up) or `crashed`
(killed, or `emitAndExit`, which skips deferred calls). `met` records whether
two processes ever overlapped.

**Playbooks.** A text is the set of references in it; `config` is the operator's
directory, which `Edit` changes at any point; `copies` is what the renderer has
copied, file by file, and then resolved in place. Rules are decoded after that and
their prompts looked for again. A worker reads the prompts of the first rule whose
condition is true for what is known of its card (`Signals`), one file per step, and
then assembles them with the skeletons. Each read may fail: the prompt is left out
(`unread`), the skeleton comes as the binary has it (`fallback`). Workers have
cards, and `registered` is the dispatcher's registry as `Dispatcher` has it: one
worker per card is started, an ending one takes its card's entry, a delete takes it
before. `phase` is main's order of start-up and of its deferred calls: Stop holds
the workers it finds registered (`StopBegins`) and waits for those (`RunnerStop`),
the client goes (`StopClient`), then the copies, then a download, and each of the
two removals may fail (`stuck`). Until the client is gone workers go on.
`emitAndExit` may end the process at any point, as a server's goroutine may call it
during the shutdown.

**LocalBoard.** A call is the statements of its handler: read the card, change
it, read it again, dispatch. The agent's `moveCard` reads the list and the card
before it decides to move. A time is a second and its decimals without trailing
zeros, as RFC3339Nano writes them, and is compared character by character, as
SQLite does.

**BoardStream.** The board is a version number. A page first fetches the board
and then opens the stream; the server registers a channel, and a broadcast puts
a token into it unless one is there. Fetches overlap and are answered in any
order; `overtaken` and `failed` record when that happens.

**Routing.** A name is its letters, whether it has capitals and whether there is
space around it; that is all that trimming and lower-casing can tell apart.
`Routes` is the list of default routes in their order, and `Evaluate` takes the
first whose condition holds.

**Tui.** The model of the view beside the registry it looks at. `ListCards` and
`Snapshot` are the two calls of `refresh`, between which the dispatcher goes on.
The events it records go through `Ring`, which `KeepsNewest` compares with
`RecentEvents`.

*How the parts meet.* `Dispatcher` leaves the decision to `Routing`, the turn to
`Session` and what `Prepare` does on disk, but for the directory and its clone,
to `WorkDirs`; `Gateway` and `Playbooks` see of it what crosses the boundary,
`Tui` the registry. Composing all of them in one module would multiply state
spaces that share one or two variables.

## 3. What the runs check

| run | instance | states | shows |
|---|---|---|---|
| `dispatcher` | 1 card, 2 events, 1 Stop, 1 delete, idle timer, inbox 1 | 235k | `SingleWorker`, `RegistryLive`, `AtMostOnce`, `StopQuiesces`, `SessionHasWorkDir`, `RemovesAfterDone`; the refinement `ImplementsCardQueue`; `TeardownReturns`, `AcceptedIsTaken` |
| `session` | 2 turns, 2 sessions, a call with a subagent and that subagent's call | 195k | `AnsweredIsFinished`, `LabelsTrue`, `LogClosedLast`, `WaitEnds` |
| `workdirs` | 2 sessions of one card on the provider, any directory to begin with | 68k | `OwnInstaller`, `WholeRepository`, `TempDirsTidied`, `PrepareReturns` |
| `gateway` | 3 deliveries of one action, one malformed, TTL 1, clock to 2 | 451k | `OncePerWindow`, `DuplicateHasOriginal`, `AuditDirAccounted` |
| `webhook` | 2 processes, 3 hooks, one of the operator | 223k | `NoSecondHook`, `ServedByItsTunnel`, `DeadUrlExplained`, `NoOrphanTunnel`, `DeletesOnlyItsOwn`, `SignalEnds` |
| `playbooks` | 4 files, 3 texts, 3 rule files, 2 workers of one card, 2 kinds of card, 2 edits | 5.8M | `PromptsAsRendered`, `ReferencesLive` |
| `local_board` | a browser's move, comment and new card, two agents' moves and an agent's comment, 3 clock readings in one second, at most one failing call | 1.6M | `EventsMatchChanges`, `MoveEventsTrue`, `AgentAnswersTrue`, `LatestUnlessPrefix` |
| `board_stream` | 1 page, 3 changes, 2 events and 3 fetches under way | 92k | `EveryChangeComes`, `ShowsTheBoard` |
| `routing` | 4 roles, up to 5 lists, 3 kanban blocks, one rename or new list | 461k | `RoutedByItsList`, `IdsSurviveRenames`, `EveryListHasACategory` |
| `tui` | 2 cards, a ring of 2 entries | 405k | `DialogTrue`, `KeepsNewest`, `DeletionReported` |
| `find_two_workers`, `find_reordered` | | | section 5 |

*Why the bounds are enough to be interesting.* Two events and a delete are what
it takes for a second worker of a card beside a dying first one, and for a
sender blocked before the full inbox of a worker that is gone; cards share
nothing but the registry map and `stopped`. Two turns are needed for a callback
of one to meet the other, two sessions for labels of a reaped one; one subagent
is what interleaves two calls. Two sessions of one card share everything that
sessions can: the mutex and the installer, which they would share with those of
another card, and the directory, which they would not. The time to live is one
tick and the clock goes to two, so a repeat can fall on, inside and outside the
window. Two processes suffice for each way one can leave something for the next.
Two workers of a card are one that is deleted and the one that follows it. Two
edits can remove a file and bring it back, or change the rules and a prompt; the
four files are a skeleton, two prompts, one of which names the other, and one
that is no `.md` file. The clock readings are 0.5, 0.51 and 0.7 of one second,
the shortest case in which text order and time order differ; a call that fails
is an independent early end, so one of them at a time (`OneFailure`, a
constraint) shows what a failure does to the others. Five lists are one per role
and one unclaimed or ambiguous. The page in `board_stream` is alone because
pages share no state but the version. A ring of two wraps with the third entry.

*Deadlock checking is off* in every configuration, because every instance has
finitely many events, calls or changes and then rightly stops; the
liveness properties say what must have happened by then.

*Symmetry* is used for interchangeable deliveries, list ids and workers of one card,
in runs with safety properties only.

*Fairness.* `Dispatcher!FairSpec`: a goroutine that can run is scheduled
eventually; a Dispatch call that waits in its select reaches its context's end
(`server.go` bounds it to `MaxDispatchDuration`); a session call returns once
its context is cancelled. Nothing makes an event arrive, an operator act, the
idle timer fire or an uncancelled model turn end: `AcceptedIsTaken` assumes the
last explicitly (`ModelAnswers`). `Session!FairSpec`: the worker, its deferred
calls and callbacks run (weak); the session begins and ends its turns and calls
whatever it remarks in between (strong, because each remark disables them for a
moment). The code relies on the latter: SendAndWait has no time limit of its
own. `WorkDirs!FairSpec`: every command ends, since each has a timeout, and the
session that waits is scheduled; Go's mutex hands itself on, but weak fairness
of each `Prepare` is enough because a session refreshes once.
`Webhook!FairSpec`: a process that runs takes its next step, whatever the
answers; no fairness makes the validator relent, and none delivers the signal.
`BoardStream!FairStreamSpec`: the notifier, the stream handler and the page go
on, and a fetch is answered or fails. `Tui!FairSpec`: the deletion runs and
returns (`TeardownReturns` says so), and a message in the queue is handled
although ticks keep coming (strong).

## 4. What is proved

Eight modules prove, for every value of the constants, every safety invariant,
every action property and both refinements that the runs check on small
instances. The assumptions are the named ones in the component modules (an event
is about one card; the inbox has room for one; a malformed body carries no
action; a card is created by one call; the clock does not go back; the board has
finitely many lists; the operator provided finitely many webhooks; …). In each, a
theorem (`Inductive`, or `GatewayInductive`, `QueueInvariant`, `WebhookInvariant`,
`RoutingInvariant`, `StreamInvariant`, `TuiInvariant`, `RingInvariant`) shows that
a named invariant holds in every reachable state (that invariant was itself
model-checked first), and the results follow from it. What the invariants add to
the properties:

*The dispatcher* (`DispatcherProofs`: `OneWorkerPerCard`, `RegistryNeverStale`,
`TakenAtMostOnce`, `StopLeavesNothing`, `SessionKeepsWorkDir`,
`WipesAfterTheWorker`). `SingleWorker` alone is not inductive: from two running
workers of which the registry knows neither, a third is a step away. `IInv`
therefore says where every running worker is accounted for: it is the registered
one, or some DeleteWorker call took one of the card's workers out
(`RegisteredOrTorn`), or Stop holds it (`StopScope`); a handle does not exist
before its event's enqueue (`FreshHandle`); a session lives only between
creation and the deferred disconnect (`SessionScope`); a directory exists from
Prepare on, or one of those took it who may, a finished delete, the agent itself
or one it overlaps with (`WorkDirScope`, `MayBeGone`); a closer in its last
phase holds only finished workers (`CloserScope`). `LogUnique` generalises
`AtMostOnce` to taken and waiting messages together, because a duplicate in an
inbox is a duplicate processed later.

*The queue* (`DispatcherProofs`: `RefinesCardQueue`). Every step of the dispatcher
is a step of the card's FIFO queue, or none. The mapping takes the inbox of the
card's one live worker for its queue and the message in that worker's hands for
the one being processed; a card with a deleted worker counts as having none from
then on. `QInv` adds to `IInv` that a worker away from its select has a message,
that a handle without a worker has an empty inbox, and that an enqueue waits
before a worker of its own card.

*Sessions* (`SessionProofs`: `AnswersAreTrue`, `LabelsAreTrue`, `LogGoesLast`).
`InStep` says that, unless an answer was lost, the session has no prompt but the
one the worker waits for: it is queued, or being worked on, or finished, and only
then can `done` be closed or the idle be in the callback. `TurnsInOrder` keeps
callbacks of earlier turns earlier; `LabelsOwn` says that the tracker holds the
labels as they were shown, and that only a call no subagent made is without a tag;
`Marked` what the tracker shows between its last mark and the
closing of its log.

*Work directories* (`WorkDirsProofs`: `InstallerIsOwn`, `RepositoryIsWhole`,
`NoTempDirLeft`, `MainIsSpared`). `MuHeld` ties the mutex to the refresh that is
under way; `RegisteredLive` and `MeetingsNoted` say that two sessions in one
directory know of each other, so that nobody else changes it for the rest;
`CloningTrue` that a clone under way is some session's, which finds it where it put
it; `Informed` that a session's report of its directory stays true until its agent
is at work.

*The gateway* (`GatewayProofs`: `AtMostOncePerWindow`, `NoActionLost`,
`NoOrphanedAuditDir`). The map remembers every delivery it let through until its
window closes (`PassedIsRemembered`), and every entry comes from such a delivery
(`EntryHasOriginal`); no entry lies in the future, so pruning by age removes only
closed windows. A directory on disk is the current one, the one being removed or one
that would not go (`DirsKnown`), and a current one after Stop has forgotten it was
made by a late delivery (`LateMade`).

*Playbooks* (`PlaybooksProofs`: `PromptsStayRendered`, `ReferencesStay`). From
the loading of the rules on nobody writes the copies, they hold every skeleton
and refer only to one another (`CopiesTrue`); a prompt may be missing among them
only if the operator has edited (`NothingMissed`); workers start when the rules
are loaded (`StartedLate`). `Registry` is why the copies outlive the sessions: a
card has one registered worker and, unless one was deleted, no other that is not
done, so Stop finds every worker of such a card and none is left after its wait.
What a session has read so far is as rendered (`Told`); `ReadsItsRule` splits
the list of its rule: what is still to be read is its end (`RestOf`), and what
was read has increasing places in the part before, among them every rendered
prompt whose read did not fail (`Fits`). A step of `ReadPlaybook` adds one place
or skips a prompt.

*The local board* (`LocalBoardProofs`: `EventsAreChanges`, `MoveEventsAreTrue`,
`AgentAnswersAreTrue`, `LatestIsLatest`). The invariant orders every read
against the card's log: the card is in the column of the latest move there
(`LogsTrue`), so what a move has read before it was stored is the target of an
earlier entry or the first column (`MovedBefore`), what it reads afterwards that
of its own entry or a later one (`MovedSince`), and both stay so (`ReadsTrue`,
`ToldTrue`). `LatestIsLatest` compares two readings at their first different
decimal, below the invariant.

*The event stream* (`LocalBoardProofs`: `StreamEveryChange`). `StreamInv` adds to
the property that a connected page has its channel (so a broadcast reaches it, and
only the end of the connection takes it away), that no broadcast is owed without a
change, and what versions fetches hold. The proof follows the hope of one page
(`Coming`) from signal to token, event, fetch and answer; a step of another page
does not touch it (`Apart`). `RemoveAtInts` says what taking one fetch out of the
middle leaves.

*The webhook* (`TrelloProofs`: `WebhookNoSecondHook`, `WebhookServed`,
`WebhookNoOrphan`, `WebhookDeadUrls`, `WebhookDeletesItsOwn`). Until two processes
have met, one alone is between its start and its end (`OneRuns`), so the list it
has read is still true when it creates (`ListIsTrue`); a process that created a
hook is its maker, and its id is no other's (`Ownership`); a tunnel is up from
before the list until `stop` (`TunnelScope`); and whom a URL leads to is accounted
for by where its process stands (`LedTo`).

*Routing* (`TrelloProofs`: `RoutingByList`, `RoutingByIds`, `RoutingCategories`).
From its start the gateway keeps the view of a board `b` on which `Resolve`
succeeded (`StartedWith`). Names that match a role match no other, so the `CHOOSE`
of a role is the one found; and every event was decided on by the first of the
routes that holds for it (`Routed`), which the proof goes through one by one. For an
event with the id of a list `RoutingByIds` says what its name can change: nothing,
unless a list that decides something had that name at start-up (`Claimed`).

*The operator's view and the ring* (`TuiProofs`: `TuiDialogTrue`, `TuiLog`,
`RingRefines`). For any size, the buffer implements `RecentEvents`; what it maps is
the slots read from the head. In the running view every step either records an
event of a card or leaves the ring alone (`TuiRecords`). `StatusIsSelected` says
that the status taken at the last tick is that of the selected row until the
selection moves, whatever became of the worker; `ListOK` that the list is sorted
and the selected row in it; `OneDeletion` that the flag stands for the deletion in
the background and excludes a dialog. That a finite set of cards can be sorted at
all (`SortedExists`) is an induction on its size, by way of a least counterexample
(`Least`, from the well-foundedness of the naturals): the library's induction
theorems themselves take an operator, which the provers cannot instantiate.

*Only model-checked:* the seven liveness properties (`TeardownReturns`,
`AcceptedIsTaken`, `SignalEnds`, `ShowsTheBoard`, `PrepareReturns`, `WaitEnds`,
`DeletionReported`), which the prover cannot derive from fairness.

## 5. Where the code and its documents part

Two runs end in a counterexample to something the repository says:

* `find_two_workers`: `deregister` (`dispatcher.go:514`) deletes the card's
  entry whichever handle it holds. A worker that DeleteWorker removed, on its way
  out, unregisters the card's fresh worker, and the next event starts a second
  one beside it, against `dispatcher.go:101-103`. `SingleWorker` is what remains
  true: it excepts cards with a delete.
* `find_reordered`: deliveries are acknowledged in one order and reach the
  card's queue in another (`server.go:120`), against `README.md:21`, "the same
  card is strictly FIFO". `ImplementsCardQueue` says that from the inbox on it is.

More such claims are stated as formulas in the `…Properties` modules, each with a
remark that the code does not keep to it, so that a repair can be checked: put the formula in
place of the invariants or properties of the configuration named, and TLC ends with
a counterexample.

* `NoWorkerForDeparture` (`DispatcherSafety.cfg`): a departure can spawn a worker,
  if the card's worker ends between the check and the enqueue; `dispatcher.go:320`
  says departures never do.
* `StopWaitsForAll` (`DispatcherSafety.cfg`): Stop does not find a fresh worker
  that a deleted one has unregistered (`dispatcher.go:514`), so it may return while
  that one runs; `dispatcher.go:520-521` says each one is waited for. `ReferencesLive`
  excepts such a card: its session may outlive `Renderer.Cleanup`.
* `AuditDirGone` (`GatewayDedup.cfg`): a delivery still being handled during
  shutdown makes a new audit directory after the old one was removed;
  `runner.go:96-98` says Stop removes it. `AuditDirAccounted` says that there is no
  more than that one, and nothing else but what could not be removed.
* `FailedCloneShows` (`WorkDirs.cfg`): a killed clone leaves a `.git` entry, so
  `git status` does not fail as `prompts/WORKER.md:30` says, and the next session
  takes it for a finished clone (`workdir.go:253`).
* `LateNamesShown` (`SessionTurns.cfg`): a subagent's call that starts before the
  subagent has a name is labelled `[sub:?]`, which passes for a tag when it
  completes, so the name is not filled in (`activity.go:257-259` says it is).
* `OnlyRenderedRead` (`Playbooks.cfg`): a skeleton that cannot be read comes from
  the binary (`runner.go:758`), and a prompt that is not an `.md` file, or that was
  added between the copying and the loading of the rules, from the operator's
  directory (`runner.go:628`), both with their references unresolved;
  `docs/playbook-template-variables.md:188` says only the copies are read.
* `DownloadRemoved` (`Playbooks.cfg`): `emitAndExit` leaves the rendered playbooks
  and a downloaded configuration on disk; `main.go:80-81` says the download never
  outlives the process.

Further deviations, which the properties name as exceptions:

* After kill is closed a worker may take one more message
  (`dispatcher.go:77-78`).
* An event can be acknowledged into the inbox of a worker that has left its
  loop, and is then lost.
* DeleteWorker can remove the directory of the card's fresh worker under its
  live session; and an agent told to clean up removes its own.
* If a Send fails but its prompt arrived, the idle that ends its turn ends the
  next SendAndWait as well (`dispatcher.go:703`).
* The agent's `moveCard` compares with a column read two requests earlier
  (`trello_tools.go:390`): a card moved meanwhile stays there, and the answer may
  read as a move.
* `ListCommentsSince` and `GetLatestComment` compare times as text
  (`localboard/store.go:313`): a comment at 0.51 counts as before one at 0.5,
  against `trelloclient/client.go:101-102`.
* The delete dialog shows the directory of the row selected at the last tick
  (`tui.go:242-244`); the deletion itself takes the right one.
* Two processes at once can make two webhooks (`client.go:473`, "exactly one").
* A webhook that survived a crash is updated in place by the next process,
  which then does not own it and leaves it at its own clean end
  (`tunnel_startup.go:79-82`).
* The routes compare names without trimming them, the resolver trims
  (`router/engine.go:205-208`): an event with a spaced name and no id is
  misrouted.

The properties state these limits as explicit exceptions (`Torn`, `MayBeGone`,
`met`, `late`, `lost`, `unread`, `fallback`, `moved`, `stuck`, `overtaken`,
`failed`, `spaced`), so that a later repair of the code can drop the exception
and re-check.

## 6. Not modelled

* The HCL expressions of an operator's rules and routes: `Playbooks` takes the
  value of a condition as an input (true, false or broken), `Routing` the
  built-in routes.
* Flags and environment variables, JSON slimming, HMAC checks, URL patterns,
  logging, the REPL, the drawing of the TUI: text in, text out, without state
  that anything else depends on.
* The walk over the pages of a card's comments (`trelloclient/client.go:579`),
  one sequence of requests whose only hard part is the pages Trello may return.
* A `RemoveAll` of the refresh's temporary directory that fails, and the scanning of
  cloudflared's output for its URL.
* The Copilot SDK, Trello, SQLite, git, go and cloudflared appear only as the
  answers they may give.

## 7. Plan

Done: every module of section 2 and the proofs of section 4. Left, in order of
value:

1. The safety half of each liveness property as a theorem: that a call that waits
   always has a step enabled that brings it nearer to its end.
2. Comment pagination as a function against the full history.
3. An operator's routes as functions from events to decisions, so that
   `IdsSurviveRenames` can be stated for rules that name lists by id.
