------------------------------- MODULE WorkDirs -------------------------------
(***************************************************************************)
(* What happens on disk before a worker's session is created: the card's   *)
(* directory, the clone of its repository (src/internal/app/workdir.go),   *)
(* and the hook that puts the AI-assisted files into a clone of the        *)
(* azurerm provider (hooks_azurerm.go, aiassistedrefresh/refresh.go).      *)
(*                                                                         *)
(* Workers of several cards prepare at once.  Their refreshes share one    *)
(* installer in the user's profile and are serialised by Service.mu.  Two  *)
(* workers of one card meet when DeleteWorker has forgotten the first and  *)
(* an event has started the second.                                        *)
(***************************************************************************)
EXTENDS Naturals

CONSTANTS
  Sessions,  \* worker sessions, each prepared once
  Cards,
  CardOf,    \* the card a session works on
  GitHub,    \* cards whose text names a repository
  Provider,  \* of these, the cards whose repository is the azurerm provider
  Left,      \* per card, what earlier processes and its agents leave in its directory
  None

\* "rubble" is files without a .git entry; "cloning" is the clone a git command is
\* at work on; "partial" is a .git entry that a clone or a removal cut short, or an
\* agent, has left, with who knows what else.
HasGit == {"cloning", "partial", "whole"}
Contents == {"absent", "empty", "rubble"} \cup HasGit

ASSUME WorkDirsAssumption ==
  /\ CardOf \in [Sessions -> Cards]
  /\ Left \in [Cards -> SUBSET (Contents \ {"cloning"})]
  /\ Provider \subseteq GitHub /\ GitHub \subseteq Cards
  /\ None \notin Sessions

VARIABLES
  pc,         \* how far each session has come
  registered, \* the sessions in Dispatcher.workers
  deleting,   \* how far DeleteWorker has come: "no", "forgotten", "wipe", "done"
  dir,        \* what is in each card's directory
  branch,     \* the branch checked out in it: "main" or another one, "issue"
  cloned,     \* WorkDirInfo: "none", "cloned", "skipped" or "error"
  mu,         \* the holder of Service.mu
  installer,  \* the session that wrote ~/.terraform-azurerm-ai-installer; None: cut short,
              \* or written by another process
  temps,      \* the temporary directories on disk, by their session
  met         \* history: sessions that shared their directory with another

onDisk  == <<dir, branch, installer, temps>>
vars == <<pc, registered, deleting, cloned, mu, onDisk, met>>

Refreshing == {"branch", "bootstrap", "clean", "install"}

Preparing == {"mkdir", "clone", "cloning", "hook", "lock"} \cup Refreshing

Live == Preparing \cup {"ready"}

\* A session uses its card's directory, or DeleteWorker may still remove it.
Holds(s) == pc[s] \in Live \/ deleting[s] \in {"forgotten", "wipe"}

\* What a removal leaves, which may fail half way.
LeftOf(d) ==
  {"absent"} \cup CASE d = "absent" -> {}
                    [] d = "empty"  -> {d}
                    [] d = "rubble" -> {"empty", d}
                    [] OTHER        -> {"empty", "rubble", "partial", d}

SameCard(s) == {t \in Sessions \ {s} : CardOf[t] = CardOf[s]}

TypeOK ==
  /\ pc \in [Sessions -> {"new", "failed", "gone"} \cup Live]
  /\ registered \subseteq Sessions
  /\ deleting \in [Sessions -> {"no", "forgotten", "wipe", "done"}]
  /\ dir \in [Cards -> Contents]
  /\ branch \in [Cards -> {"main", "issue"}]
  /\ cloned \in [Sessions -> {"none", "cloned", "skipped", "error"}]
  /\ mu \in Sessions \cup {None}
  /\ installer \in Sessions \cup {None}
  /\ temps \subseteq Sessions
  /\ met \subseteq Sessions

\* Directories outlive the process: what an earlier one has left is on disk, even
\* the clone it was at work on when it ended.
Init ==
  /\ pc = [s \in Sessions |-> "new"]
  /\ registered = {}
  /\ deleting = [s \in Sessions |-> "no"]
  /\ dir \in {d \in [Cards -> Contents] : \A k \in Cards : d[k] \in Left[k]}
  /\ branch \in [Cards -> {"main", "issue"}]
  /\ \A k \in Cards : dir[k] \notin HasGit => branch[k] = "main"
  /\ cloned = [s \in Sessions |-> "none"]
  /\ mu = None
  /\ installer = None
  /\ temps = {}
  /\ met = {}

Goto(s, from, to) == pc[s] = from /\ pc' = [pc EXCEPT ![s] = to]

-----------------------------------------------------------------------------
(* The worker around its directory, as the dispatcher runs it.             *)

\* The first event of a card that has no registered worker starts one.
Start(s) ==
  /\ \A t \in SameCard(s) : t \notin registered
  /\ Goto(s, "new", "mkdir")
  /\ registered' = registered \cup {s}
  /\ LET others == {t \in SameCard(s) : Holds(t)}
     IN  met' = IF others = {} THEN met ELSE met \cup others \cup {s}
  /\ UNCHANGED <<deleting, cloned, mu, onDisk>>

\* The agent works in the directory with a shell: it checks branches out, clones
\* what could not be cloned (WORKER.md:30), and removes all or half of it, as the
\* terminate notice asks.
AgentWorks(s) ==
  /\ pc[s] = "ready"
  /\ \E d \in Left[CardOf[s]], b \in {"main", "issue"} :
       /\ d \notin HasGit => b = "main"
       /\ dir' = [dir EXCEPT ![CardOf[s]] = d]
       /\ branch' = [branch EXCEPT ![CardOf[s]] = b]
  /\ UNCHANGED <<pc, registered, deleting, cloned, mu, installer, temps, met>>

\* The registry's entry is deleted by the card's id, whose worker it may name.
Deregister(s) == registered' = registered \ {t \in Sessions : CardOf[t] = CardOf[s]}

\* The session ends: it idles, is deleted, or the dispatcher stops.
End(s) ==
  /\ Goto(s, "ready", "gone")
  /\ Deregister(s)
  /\ UNCHANGED <<deleting, cloned, mu, onDisk, met>>

\* DeleteWorker forgets the worker.
Delete(s) ==
  /\ s \in registered
  /\ registered' = registered \ {s}
  /\ deleting' = [deleting EXCEPT ![s] = "forgotten"]
  /\ UNCHANGED <<pc, cloned, mu, onDisk, met>>

\* It asks for the work_dir, which is on record once it is prepared, and cancels
\* the worker's context.
Snapshot(s) ==
  /\ deleting[s] = "forgotten"
  /\ deleting' = [deleting EXCEPT ![s] = IF pc[s] \in {"ready", "gone"} THEN "wipe" ELSE "done"]
  /\ UNCHANGED <<pc, registered, cloned, mu, onDisk, met>>

\* After the worker's end it removes the directory, whoever uses it by then.
Remove(s) ==
  /\ deleting[s] = "wipe" /\ pc[s] = "gone"
  /\ deleting' = [deleting EXCEPT ![s] = "done"]
  /\ \E d \in LeftOf(dir[CardOf[s]]) :
       /\ dir' = [dir EXCEPT ![CardOf[s]] = d]
       /\ branch' = [branch EXCEPT ![CardOf[s]] = IF d \in HasGit THEN @ ELSE "main"]
  /\ UNCHANGED <<pc, registered, cloned, mu, installer, temps, met>>

-----------------------------------------------------------------------------
(* WorkDirPreparer.Prepare.                                                *)

Mkdir(s) ==
  /\ Goto(s, "mkdir", IF CardOf[s] \in GitHub THEN "clone" ELSE "hook")
  /\ dir' = [dir EXCEPT ![CardOf[s]] = IF @ = "absent" THEN "empty" ELSE @]
  /\ UNCHANGED <<registered, deleting, cloned, mu, branch, installer, temps, met>>

\* Only this failure keeps the session from being created.
MkdirFails(s) ==
  /\ Goto(s, "mkdir", "failed")
  /\ Deregister(s)
  /\ UNCHANGED <<deleting, cloned, mu, onDisk, met>>

\* Mutant of SkipClone: the directory is looked for, not its .git entry.
SkipCloneOfDirectory(s) ==
  /\ dir[CardOf[s]] # "absent"
  /\ Goto(s, "clone", "hook")
  /\ cloned' = [cloned EXCEPT ![s] = "skipped"]
  /\ UNCHANGED <<registered, deleting, mu, onDisk, met>>

\* There is a .git entry, whatever state the clone is in.
SkipClone(s) ==
  /\ dir[CardOf[s]] \in HasGit
  /\ Goto(s, "clone", "hook")
  /\ cloned' = [cloned EXCEPT ![s] = "skipped"]
  /\ UNCHANGED <<registered, deleting, mu, onDisk, met>>

\* The context of its worker lives: DeleteWorker has not cancelled it.
Uncancelled(s) == deleting[s] \in {"no", "forgotten"}

StartClone(s) ==
  /\ Uncancelled(s)
  /\ dir[CardOf[s]] \in {"absent", "empty"}
  /\ Goto(s, "clone", "cloning")
  /\ dir' = [dir EXCEPT ![CardOf[s]] = "cloning"]
  /\ UNCHANGED <<registered, deleting, cloned, mu, branch, installer, temps, met>>

\* git may overlook that files of its clone were removed meanwhile.
CloneEnds(s) ==
  /\ dir[CardOf[s]] \in {"cloning", "partial"}
  /\ Goto(s, "cloning", "hook")
  /\ dir' = [dir EXCEPT ![CardOf[s]] = IF @ = "cloning" THEN "whole" ELSE @]
  /\ branch' = [branch EXCEPT ![CardOf[s]] = "main"]
  /\ cloned' = [cloned EXCEPT ![s] = "cloned"]
  /\ UNCHANGED <<registered, deleting, mu, installer, temps, met>>

\* git refuses a directory with files in it, or fails before it writes any; a clone
\* that fails cleans up after itself, one that is killed does not.
CloneFails(s) ==
  /\ \/ /\ Goto(s, "clone", "hook")
        /\ dir[CardOf[s]] \notin HasGit
        /\ UNCHANGED <<dir>>
     \/ /\ Goto(s, "cloning", "hook")
        /\ \E left \in {"empty", "partial"} :
             dir' = [dir EXCEPT ![CardOf[s]] = IF @ = "cloning" THEN left ELSE @]
  /\ cloned' = [cloned EXCEPT ![s] = "error"]
  /\ UNCHANGED <<registered, deleting, mu, branch, installer,
                 temps, met>>

-----------------------------------------------------------------------------
(* The hook and Service.Refresh.                                           *)

\* go.mod says that this is the provider, and the issue's number is known.
Applies(s) ==
  /\ CardOf[s] \in Provider
  /\ dir[CardOf[s]] \notin {"absent", "empty"}
  /\ Goto(s, "hook", "lock")
  /\ UNCHANGED <<registered, deleting, cloned, mu, onDisk, met>>

\* It is not, the number is not known, or one of these could not be found out.
Skip(s) ==
  /\ Goto(s, "hook", "ready")
  /\ UNCHANGED <<registered, deleting, cloned, mu, onDisk, met>>

\* Mutant of Lock: the mutex is not taken into account.
LockAnyway(s) ==
  /\ Goto(s, "lock", "branch")
  /\ mu' = s
  /\ UNCHANGED <<registered, deleting, cloned, onDisk, met>>

\* sync.Mutex knows no context: a refresh whose worker is deleted waits as well.
Lock(s) ==
  /\ mu = None
  /\ Goto(s, "lock", "branch")
  /\ mu' = s
  /\ UNCHANGED <<registered, deleting, cloned, onDisk, met>>

\* A command starts only while the context lives, in a directory that is there.
Runs(s) == Uncancelled(s) /\ dir[CardOf[s]] # "absent"

\* On main the issue's branch is made and checked out (in a directory without .git
\* that of a repository around it, if there is one); then a temporary directory is
\* made for the installer's sources.
Branch(s) ==
  /\ Runs(s)
  /\ Goto(s, "branch", "bootstrap")
  /\ branch' = [branch EXCEPT ![CardOf[s]] = IF dir[CardOf[s]] \in HasGit THEN "issue" ELSE @]
  /\ temps' = temps \cup {s}
  /\ UNCHANGED <<registered, deleting, cloned, mu, dir, installer, met>>

\* The sources are cloned and their installer copies itself to the profile.
Bootstrap(s) ==
  /\ Uncancelled(s)
  /\ Goto(s, "bootstrap", "clean")
  /\ installer' = s
  /\ UNCHANGED <<registered, deleting, cloned, mu, dir, branch, temps, met>>

Clean(s) ==
  /\ Runs(s)
  /\ Goto(s, "clean", "install")
  /\ UNCHANGED <<registered, deleting, cloned, mu, dir, branch, installer,
                 temps, met>>

\* The deferred calls: the temporary directory goes (that the removal may fail is
\* left out), then the mutex.
Return(s) ==
  /\ mu' = None
  /\ temps' = temps \ {s}

Install(s) ==
  /\ Runs(s)
  /\ Goto(s, "install", "ready")
  /\ Return(s)
  /\ UNCHANGED <<registered, deleting, cloned, dir, branch, installer, met>>

\* Mutant of RefreshFails: the error path skips the deferred calls.
RefreshFailsHolding(s) ==
  /\ pc[s] \in Refreshing
  /\ pc' = [pc EXCEPT ![s] = "ready"]
  /\ UNCHANGED <<registered, deleting, cloned, mu, onDisk, met>>

\* Mutant of RefreshFails: the directory is removed only after a success.
RefreshFailsUntidy(s) ==
  /\ pc[s] \in Refreshing
  /\ pc' = [pc EXCEPT ![s] = "ready"]
  /\ mu' = None
  /\ UNCHANGED <<registered, deleting, cloned, onDisk, met>>

\* Any step may fail, or be killed half way when the time of the hook is over or
\* its context cancelled.
RefreshFails(s) ==
  /\ pc[s] \in Refreshing
  /\ pc' = [pc EXCEPT ![s] = "ready"]
  /\ installer' \in {installer} \cup (IF pc[s] = "bootstrap" THEN {None} ELSE {})
  /\ Return(s)
  /\ UNCHANGED <<registered, deleting, cloned, dir, branch, met>>

Refresh(s) ==
  \/ Lock(s) \/ Branch(s) \/ Bootstrap(s)
  \/ Clean(s) \/ Install(s) \/ RefreshFails(s)

Prepare(s) ==
  \/ Mkdir(s) \/ MkdirFails(s)
  \/ SkipClone(s) \/ StartClone(s) \/ CloneEnds(s) \/ CloneFails(s)
  \/ Applies(s) \/ Skip(s)
  \/ Refresh(s)

Around(s) ==
  \/ Start(s) \/ AgentWorks(s) \/ End(s)
  \/ Delete(s) \/ Snapshot(s) \/ Remove(s)

Next == \E s \in Sessions : Prepare(s) \/ Around(s)

Spec == Init /\ [][Next]_vars

\* The goroutine of a worker runs, and a command comes to an end: it is killed
\* when its context is done, and every context has a timeout.
Fairness == \A s \in Sessions :
  WF_vars(Prepare(s)) /\ WF_vars(End(s)) /\ WF_vars(Snapshot(s)) /\ WF_vars(Remove(s))

FairSpec == Spec /\ Fairness
=============================================================================
