-------------------------- MODULE WorkDirsProperties --------------------------
(* What a worker may rely on when its session is created. *)
EXTENDS WorkDirs

\* refresh.go:116-123: what cleans and fills a clone is the installer that the
\* same refresh has just put in the profile, never one of another card; so the
\* files of a finished refresh are the ones it fetched.
OwnInstaller ==
  \A s \in Sessions : pc[s] \in {"clean", "install"} => installer = s

\* The AI-assisted files are put on a branch of their own, never on main, unless
\* another session of the card has been at work in the directory.
NeverOnMain ==
  \A s \in Sessions \ met :
    pc[s] \in Refreshing \ {"branch"} /\ dir[CardOf[s]] = "whole" => branch[CardOf[s]] = "issue"

BecomesReady(s) == pc[s] # "ready" /\ pc'[s] = "ready"

\* When a session is created the repository is what maybeClone has said of it,
\* unless the directory was shared with another session: a repository that was
\* cloned is whole, and one that was found is whole or was cut short by what went
\* before (a killed clone, a removal that failed, the end of an earlier process),
\* never an empty directory and never a clone still under way.
WholeRepository ==
  [][\A s \in Sessions \ met' : BecomesReady(s) =>
       /\ cloned[s] = "cloned" => dir'[CardOf[s]] = "whole"
       /\ cloned[s] = "skipped" => dir'[CardOf[s]] \in {"whole", "partial"}]_vars

\* prompts/WORKER.md:30: "If the clone failed ..., your first `git -C <work_dir>
\* status` will return "not a git repository"", by which the agent knows that it has
\* to clone.  (The code does not keep to it: a clone that is killed at its timeout
\* leaves its .git entry.)
FailedCloneShows ==
  [][\A s \in Sessions \ met' :
       BecomesReady(s) /\ cloned[s] = "error" => dir'[CardOf[s]] \notin HasGit]_vars

\* There is a temporary directory exactly while a refresh needs it, on whatever
\* path the refresh ends.
TempDirsTidied == temps = {s \in Sessions : pc[s] \in Refreshing \ {"branch"}}

\* Every preparation comes to an end, whoever holds the mutex and whatever fails.
\* (DeleteWorker waits for the end of the worker, so its wait ends as well.)
PrepareReturns == \A s \in Sessions : pc[s] \in Preparing ~> pc[s] \notin Preparing
=============================================================================
