---------------------------- MODULE WorkDirsProofs ----------------------------
(***************************************************************************)
(* The preparation of work directories is safe for any number of sessions  *)
(* and cards, and whichever cards name a repository.                       *)
(***************************************************************************)
EXTENDS WorkDirsProperties, TLAPS

\* A registered worker has started and has not ended.
RegisteredLive == \A s \in registered : pc[s] \in Live

\* Two sessions that use one directory at the same time have both been noted.
MeetingsNoted ==
  \A s, t \in Sessions :
    s # t /\ CardOf[s] = CardOf[t] /\ Holds(s) /\ Holds(t) => s \in met

\* The mutex is held by the session that refreshes, so there is one at most.
MuHeld == \A s \in Sessions : pc[s] \in Refreshing <=> mu = s

\* A clone under way is one of a session, which finds it where it put it.
CloningTrue ==
  /\ \A s \in Sessions : dir[CardOf[s]] = "cloning" =>
       \E t \in Sessions : CardOf[t] = CardOf[s] /\ pc[t] = "cloning"
  /\ \A s \in Sessions \ met : pc[s] = "cloning" => dir[CardOf[s]] = "cloning"

\* Before its clone step a session has not been told anything, after it and until
\* its agent is at work the directory is as it was told.
Informed ==
  \A s \in Sessions :
    /\ pc[s] \in {"new", "mkdir", "clone", "cloning"} => cloned[s] = "none"
    /\ pc[s] \in {"hook", "lock"} \cup Refreshing /\ s \notin met =>
         /\ cloned[s] = "cloned" => dir[CardOf[s]] = "whole"
         /\ cloned[s] = "skipped" => dir[CardOf[s]] \in {"whole", "partial"}

IInv ==
  /\ TypeOK
  /\ RegisteredLive
  /\ MeetingsNoted
  /\ MuHeld
  /\ OwnInstaller
  /\ NeverOnMain
  /\ TempDirsTidied
  /\ CloningTrue
  /\ Informed

-----------------------------------------------------------------------------
(* What every step keeps.                                                  *)

LEMMA InitInv == Init => IInv
BY WorkDirsAssumption DEF WorkDirsAssumption, Init, IInv, TypeOK, RegisteredLive, MeetingsNoted,
   MuHeld, OwnInstaller, NeverOnMain, TempDirsTidied, CloningTrue, Informed, Live, Preparing,
   Refreshing, Holds

\* The steps of a session, by what they leave alone.
Steps(s) == Prepare(s) \/ Around(s)

USE DEF Goto

LEMMA TypeStep ==
  ASSUME TypeOK, NEW s \in Sessions, Steps(s)
  PROVE  TypeOK'
<1>1. CardOf[s] \in Cards
  BY WorkDirsAssumption DEF WorkDirsAssumption
<1>2. CASE Around(s)
  <2>1. CASE Start(s)
    <3>1. met' \subseteq Sessions
      BY <2>1 DEF TypeOK, Start, SameCard
    <3> QED
      BY <2>1, <3>1 DEF TypeOK, Start, Live, Preparing, onDisk
  <2>2. CASE AgentWorks(s)
    <3>1. \A d \in Left[CardOf[s]] : d \in Contents
      BY <1>1, WorkDirsAssumption DEF WorkDirsAssumption
    <3> QED
      BY <1>1, <2>2, <3>1 DEF TypeOK, AgentWorks
  <2>3. CASE End(s) \/ Delete(s) \/ Snapshot(s)
    BY <2>3 DEF TypeOK, End, Deregister, Delete, Snapshot, onDisk
  <2>4. CASE Remove(s)
    <3>1. \A d \in LeftOf(dir[CardOf[s]]) : d \in Contents
      BY <1>1 DEF TypeOK, LeftOf, Contents, HasGit
    <3> QED
      BY <1>1, <2>4, <3>1 DEF TypeOK, Remove
  <2> QED
    BY <1>2, <2>1, <2>2, <2>3, <2>4 DEF Around
<1>3. CASE Refresh(s)
  BY <1>1, <1>3 DEF TypeOK, Refresh, Lock, Branch, Bootstrap, Clean, Install, RefreshFails, Return,
     Live, Preparing, Refreshing, onDisk
<1>4. CASE Mkdir(s) \/ MkdirFails(s) \/ Applies(s) \/ Skip(s)
  BY <1>1, <1>4 DEF TypeOK, Mkdir, MkdirFails, Deregister, Applies, Skip, Live, Preparing, Refreshing,
     onDisk, Contents, HasGit
<1>5. CASE SkipClone(s) \/ StartClone(s) \/ CloneEnds(s)
  BY <1>1, <1>5 DEF TypeOK, SkipClone, StartClone, CloneEnds, Live, Preparing, Refreshing, onDisk,
     Contents, HasGit
<1>6. CASE CloneFails(s)
  BY <1>1, <1>6 DEF TypeOK, CloneFails, Live, Preparing, Refreshing, onDisk, Contents, HasGit
<1> QED
  BY <1>2, <1>3, <1>4, <1>5, <1>6 DEF Steps, Prepare

\* A session's step moves its own program counter only, and no session becomes a
\* holder of a directory but by Start.
LEMMA Moves ==
  ASSUME TypeOK, NEW s \in Sessions, Steps(s)
  PROVE  \A t \in Sessions : t # s => pc'[t] = pc[t] /\ cloned'[t] = cloned[t]
<1>1. CASE Around(s)
  BY <1>1 DEF TypeOK, Around, Start, AgentWorks, End, Delete, Snapshot, Remove, onDisk
<1>2. CASE Refresh(s)
  BY <1>2 DEF TypeOK, Refresh, Lock, Branch, Bootstrap, Clean, Install, RefreshFails, onDisk
<1>3. CASE ~Refresh(s) /\ Prepare(s)
  BY <1>3 DEF TypeOK, Prepare, Mkdir, MkdirFails, Applies, Skip, SkipClone, StartClone, CloneEnds,
     CloneFails, onDisk
<1> QED
  BY <1>1, <1>2, <1>3 DEF Steps

\* Only Start makes a session use its directory, and it notes whom it meets.
LEMMA HoldersStep ==
  ASSUME TypeOK, RegisteredLive, NEW s \in Sessions, Steps(s)
  PROVE  /\ met \subseteq met'
         /\ \A t \in Sessions : Holds(t)' => Holds(t) \/ (t = s /\ Start(s))
<1>1. \A t \in Sessions : t # s => pc'[t] = pc[t]
  BY Moves
<1>2. CASE Start(s)
  BY <1>1, <1>2 DEF Start, Holds
<1>3. CASE AgentWorks(s) \/ End(s)
  BY <1>1, <1>3 DEF TypeOK, AgentWorks, End, onDisk, Holds, Live
<1>5. CASE Delete(s) \/ Snapshot(s) \/ Remove(s)
  BY <1>1, <1>5 DEF TypeOK, RegisteredLive, Delete, Snapshot, Remove, onDisk, Holds
<1>4. CASE Prepare(s)
  <2>1. UNCHANGED <<deleting, met>>
    BY <1>4 DEF Prepare, Refresh, Mkdir, MkdirFails, Applies, Skip, SkipClone, StartClone, CloneEnds,
       CloneFails, Lock, Branch, Bootstrap, Clean, Install, RefreshFails, onDisk
  <2>2. pc[s] \in Preparing
    BY <1>4 DEF Prepare, Refresh, Mkdir, MkdirFails, Applies, Skip, SkipClone, StartClone, CloneEnds,
       CloneFails, Lock, Branch, Bootstrap, Clean, Install, RefreshFails, Preparing, Refreshing
  <2> QED
    BY <1>1, <2>1, <2>2 DEF Holds, Live
<1> QED
  BY <1>2, <1>3, <1>4, <1>5 DEF Steps, Around

LEMMA MeetingsStep ==
  ASSUME TypeOK, RegisteredLive, MeetingsNoted, NEW s \in Sessions, Steps(s)
  PROVE  MeetingsNoted'
<1>1. /\ met \subseteq met'
      /\ \A t \in Sessions : Holds(t)' => Holds(t) \/ (t = s /\ Start(s))
  BY HoldersStep
<1>2. SUFFICES ASSUME NEW t \in Sessions, NEW u \in Sessions, t # u, CardOf[t] = CardOf[u],
                      Holds(t)', Holds(u)'
               PROVE  t \in met'
  BY DEF MeetingsNoted
<1>3. CASE Holds(t) /\ Holds(u)
  BY <1>1, <1>2, <1>3 DEF MeetingsNoted
<1>4. CASE t = s /\ Start(s) /\ Holds(u)
  BY <1>2, <1>4 DEF Start, SameCard
<1>5. CASE u = s /\ Start(s) /\ Holds(t)
  BY <1>2, <1>5 DEF Start, SameCard
<1> QED
  BY <1>1, <1>2, <1>3, <1>4, <1>5

\* The registry, the mutex, the installer and the temporary directories.
LEMMA RegisteredStep ==
  ASSUME TypeOK, RegisteredLive, NEW s \in Sessions, Steps(s)
  PROVE  RegisteredLive'
<1>1. \A t \in Sessions : t # s => pc'[t] = pc[t]
  BY Moves
<1>2. registered' \subseteq registered \cup {s} /\ (s \in registered' => pc'[s] \in Live)
  <2>1. CASE Around(s)
    BY <2>1 DEF TypeOK, RegisteredLive, Around, Start, AgentWorks, End, Deregister, Delete, Snapshot, Remove, onDisk,
       Live, Preparing
  <2>2. CASE Refresh(s)
    BY <2>2 DEF TypeOK, Refresh, Lock, Branch, Bootstrap, Clean, Install, RefreshFails, onDisk, Live,
       Preparing, Refreshing
  <2>3. CASE Prepare(s) /\ ~Refresh(s)
    BY <2>3 DEF TypeOK, Prepare, Mkdir, MkdirFails, Deregister, Applies, Skip, SkipClone, StartClone, CloneEnds,
       CloneFails, onDisk, Live, Preparing
  <2> QED
    BY <2>1, <2>2, <2>3 DEF Steps
<1> QED
  BY <1>1, <1>2 DEF RegisteredLive, TypeOK

\* A step that is none of a refresh stays away from what refreshes share.
LEMMA OutsideRefresh ==
  ASSUME TypeOK, NEW s \in Sessions, Steps(s), ~Refresh(s)
  PROVE  /\ UNCHANGED <<mu, installer, temps>>
         /\ (pc[s] \notin Refreshing /\ pc'[s] \notin Refreshing) \/ pc'[s] = pc[s]
<1>1. CASE Around(s)
  BY <1>1 DEF TypeOK, Around, Start, AgentWorks, End, Delete, Snapshot, Remove, onDisk, Refreshing
<1>2. CASE Prepare(s)
  BY <1>2 DEF TypeOK, Prepare, Mkdir, MkdirFails, Applies, Skip, SkipClone, StartClone, CloneEnds,
     CloneFails, onDisk, Refreshing
<1> QED
  BY <1>1, <1>2 DEF Steps

LEMMA MuStep ==
  ASSUME TypeOK, MuHeld, NEW s \in Sessions, Steps(s)
  PROVE  MuHeld'
<1>1. \A t \in Sessions : t # s => pc'[t] = pc[t]
  BY Moves
<1>2. CASE Refresh(s)
  BY <1>1, <1>2, WorkDirsAssumption DEF WorkDirsAssumption, TypeOK, MuHeld, Refresh, Lock, Branch,
     Bootstrap, Clean, Install, RefreshFails, Return, Refreshing
<1>3. CASE ~Refresh(s)
  BY <1>1, <1>3, OutsideRefresh DEF MuHeld
<1> QED
  BY <1>2, <1>3

LEMMA InstallerStep ==
  ASSUME TypeOK, MuHeld, OwnInstaller, NEW s \in Sessions, Steps(s)
  PROVE  OwnInstaller'
<1>1. \A t \in Sessions : t # s => pc'[t] = pc[t]
  BY Moves
<1>2. CASE Refresh(s)
  <2>1. \A t \in Sessions : t # s => pc[t] \notin Refreshing \/ (Lock(s) /\ mu = t)
    BY <1>2 DEF MuHeld, Refresh, Lock, Branch, Bootstrap, Clean, Install, RefreshFails, Refreshing
  <2>2. \A t \in Sessions : t # s => pc[t] \notin {"clean", "install"}
    BY <2>1, WorkDirsAssumption DEF WorkDirsAssumption, MuHeld, Lock, Refreshing
  <2>3. pc'[s] \in {"clean", "install"} => installer' = s
    BY <1>2 DEF TypeOK, OwnInstaller, Refresh, Lock, Branch, Bootstrap, Clean, Install, RefreshFails,
       onDisk
  <2> QED
    BY <1>1, <2>2, <2>3 DEF OwnInstaller
<1>3. CASE ~Refresh(s)
  BY <1>1, <1>3, OutsideRefresh DEF OwnInstaller, Refreshing
<1> QED
  BY <1>2, <1>3

LEMMA TempsStep ==
  ASSUME TypeOK, TempDirsTidied, NEW s \in Sessions, Steps(s)
  PROVE  TempDirsTidied'
<1>1. \A t \in Sessions : t # s => pc'[t] = pc[t]
  BY Moves
<1>2. CASE Refresh(s)
  <2>1. \A t \in Sessions : t # s => (t \in temps' <=> t \in temps)
    BY <1>2 DEF Refresh, Lock, Branch, Bootstrap, Clean, Install, RefreshFails, Return, onDisk
  <2>2. s \in temps' <=> pc'[s] \in Refreshing \ {"branch"}
    BY <1>2 DEF TypeOK, TempDirsTidied, Refresh, Lock, Branch, Bootstrap, Clean, Install,
       RefreshFails, Return, onDisk, Refreshing
  <2>3. temps' \subseteq Sessions
    BY TypeStep DEF TypeOK
  <2> QED
    BY <1>1, <2>1, <2>2, <2>3 DEF TempDirsTidied
<1>3. CASE ~Refresh(s)
  BY <1>1, <1>3, OutsideRefresh DEF TempDirsTidied
<1> QED
  BY <1>2, <1>3

-----------------------------------------------------------------------------
(* The directories.                                                        *)

\* A session's step leaves the directories of the other cards alone, and that of
\* its own when another session uses it and has met nobody.
LEMMA Alone ==
  ASSUME TypeOK, RegisteredLive, MeetingsNoted, NEW s \in Sessions, Steps(s),
         NEW t \in Sessions, t # s, Holds(t), t \notin met
  PROVE  dir'[CardOf[t]] = dir[CardOf[t]] /\ branch'[CardOf[t]] = branch[CardOf[t]]
<1>1. CASE CardOf[t] # CardOf[s]
  <2>1. CASE Around(s)
    BY <1>1, <2>1, WorkDirsAssumption DEF WorkDirsAssumption, TypeOK, Around, Start, AgentWorks,
       End, Delete, Snapshot, Remove, onDisk
  <2>2. CASE Refresh(s)
    BY <1>1, <2>2, WorkDirsAssumption DEF WorkDirsAssumption, TypeOK, Refresh, Lock, Branch,
       Bootstrap, Clean, Install, RefreshFails, onDisk
  <2>3. CASE Prepare(s) /\ ~Refresh(s)
    BY <1>1, <2>3, WorkDirsAssumption DEF WorkDirsAssumption, TypeOK, Prepare, Mkdir, MkdirFails, 
       Applies, Skip, SkipClone, StartClone, CloneEnds, CloneFails, onDisk
  <2> QED
    BY <2>1, <2>2, <2>3 DEF Steps
<1>2. CASE CardOf[t] = CardOf[s]
  <2>1. ~Holds(s)
    BY <1>2 DEF MeetingsNoted
  <2>2. pc[s] \notin Live /\ s \notin registered /\ deleting[s] \notin {"forgotten", "wipe"}
    BY <2>1 DEF Holds, RegisteredLive
  <2>3. ~Prepare(s)
    BY <2>2 DEF Prepare, Refresh, Mkdir, MkdirFails, Applies, Skip, SkipClone, StartClone, CloneEnds,
       CloneFails, Lock, Branch, Bootstrap, Clean, Install, RefreshFails, Live, Preparing, Refreshing
  <2>4. Start(s)
    BY <2>2, <2>3 DEF Steps, Around, AgentWorks, End, Delete, Snapshot, Remove, Live
  <2> QED
    BY <2>4 DEF Start, onDisk
<1> QED
  BY <1>1, <1>2

LEMMA MainStep ==
  ASSUME TypeOK, RegisteredLive, MeetingsNoted, NeverOnMain, NEW s \in Sessions, Steps(s)
  PROVE  NeverOnMain'
<1>1. met \subseteq met' /\ \A t \in Sessions : t # s => pc'[t] = pc[t]
  BY Moves, HoldersStep
<1>2. ASSUME NEW t \in Sessions \ {s}, t \notin met', pc'[t] \in Refreshing \ {"branch"},
             dir'[CardOf[t]] = "whole"
      PROVE  branch'[CardOf[t]] = "issue"
  <2>1. t \notin met /\ pc[t] \in Refreshing \ {"branch"} /\ Holds(t)
    BY <1>1, <1>2 DEF Holds, Live, Preparing
  <2> QED
    BY <1>2, <2>1, Alone DEF NeverOnMain
<1>3. ASSUME s \notin met', pc'[s] \in Refreshing \ {"branch"}, dir'[CardOf[s]] = "whole"
      PROVE  branch'[CardOf[s]] = "issue"
  <2>1. s \notin met /\ CardOf[s] \in Cards
    BY <1>1, <1>3, WorkDirsAssumption DEF WorkDirsAssumption
  <2>2. CASE Refresh(s)
    BY <1>3, <2>1, <2>2 DEF TypeOK, NeverOnMain, Refresh, Lock, Branch, Bootstrap, Clean, Install,
       RefreshFails, Refreshing, onDisk, HasGit
  <2>3. CASE Around(s)
    BY <1>3, <2>1, <2>3 DEF TypeOK, NeverOnMain, Around, Start, AgentWorks, End, Delete, Snapshot, Remove,
       Refreshing, onDisk
  <2>4. CASE Prepare(s) /\ ~Refresh(s)
    BY <1>3, <2>4 DEF TypeOK, Prepare, Mkdir, MkdirFails, Applies, Skip, SkipClone, StartClone,
       CloneEnds, CloneFails, Refreshing
  <2> QED
    BY <2>2, <2>3, <2>4 DEF Steps
<1> QED
  BY <1>2, <1>3 DEF NeverOnMain

\* A step leaves the directories of other cards alone.
LEMMA OtherDirs ==
  ASSUME TypeOK, NEW s \in Sessions, Steps(s)
  PROVE  \A u \in Sessions : CardOf[u] # CardOf[s] => dir'[CardOf[u]] = dir[CardOf[u]]
<1>1. CASE Around(s)
  BY <1>1, WorkDirsAssumption DEF WorkDirsAssumption, TypeOK, Around, Start, AgentWorks, End,
     Delete, Snapshot, Remove, onDisk
<1>2. CASE Refresh(s)
  BY <1>2 DEF Refresh, Lock, Branch, Bootstrap, Clean, Install, RefreshFails, onDisk
<1>3. CASE Prepare(s) /\ ~Refresh(s)
  BY <1>3, WorkDirsAssumption DEF WorkDirsAssumption, TypeOK, Prepare, Mkdir, MkdirFails, Applies,
     Skip, SkipClone, StartClone, CloneEnds, CloneFails, onDisk
<1> QED
  BY <1>1, <1>2, <1>3 DEF Steps

\* What a step does to the directory of its card, and to what is said of it.
LEMMA CloneSteps ==
  ASSUME TypeOK, NEW s \in Sessions, Steps(s)
  PROVE  \/ /\ cloned'[s] = cloned[s] /\ pc[s] # "cloning"
            /\ pc'[s] \notin {"cloning", "lock"} \cup Refreshing
            /\ pc'[s] = "hook" => pc[s] = "mkdir"
            /\ dir'[CardOf[s]] = "cloning" => dir[CardOf[s]] = "cloning"
         \/ /\ cloned'[s] = cloned[s] /\ dir' = dir
            /\ pc[s] = "cloning" <=> pc'[s] = "cloning"
            /\ pc'[s] \in {"hook", "lock"} \cup Refreshing =>
                 pc[s] \in {"hook", "lock"} \cup Refreshing
         \/ /\ cloned'[s] = cloned[s] /\ dir'[CardOf[s]] = "cloning"
            /\ pc[s] = "clone" /\ pc'[s] = "cloning"
         \/ /\ pc[s] \in {"clone", "cloning"} /\ pc'[s] = "hook"
            /\ cloned'[s] = "error" /\ dir'[CardOf[s]] # "cloning"
         \/ /\ pc[s] = "cloning" /\ pc'[s] = "hook" /\ cloned'[s] = "cloned"
            /\ dir'[CardOf[s]] = IF dir[CardOf[s]] = "cloning" THEN "whole" ELSE "partial"
         \/ /\ pc[s] = "clone" /\ pc'[s] = "hook" /\ cloned'[s] = "skipped"
            /\ dir' = dir /\ dir[CardOf[s]] \in HasGit
<1>0. CardOf[s] \in Cards
  BY WorkDirsAssumption DEF WorkDirsAssumption
<1>1. CASE Around(s)
  <2>1. CASE AgentWorks(s)
    <3>1. \A d \in Left[CardOf[s]] : d # "cloning"
      BY <1>0, WorkDirsAssumption DEF WorkDirsAssumption
    <3>2. pc' = pc /\ cloned' = cloned /\ pc[s] = "ready" /\ dir'[CardOf[s]] # "cloning"
      BY <1>0, <2>1, <3>1 DEF TypeOK, AgentWorks
    <3> QED
      BY <3>2 DEF Refreshing
  <2>2. CASE Remove(s)
    <3>1. \A d \in LeftOf(dir[CardOf[s]]) : d = "cloning" => dir[CardOf[s]] = "cloning"
      BY <1>0 DEF TypeOK, LeftOf, Contents, HasGit
    <3>2. pc' = pc /\ cloned' = cloned /\ pc[s] = "gone"
      BY <2>2 DEF Remove
    <3>3. dir'[CardOf[s]] = "cloning" => dir[CardOf[s]] = "cloning"
      BY <1>0, <2>2, <3>1 DEF TypeOK, Remove
    <3> QED
      BY <3>2, <3>3 DEF Refreshing
  <2>3. CASE Start(s) \/ End(s)
    BY <2>3 DEF TypeOK, Start, End, onDisk, Refreshing
  <2>4. CASE Delete(s) \/ Snapshot(s)
    BY <2>4 DEF Delete, Snapshot, onDisk
  <2> QED
    BY <1>1, <2>1, <2>2, <2>3, <2>4 DEF Around
<1>2. CASE Refresh(s)
  BY <1>2 DEF TypeOK, Refresh, Lock, Branch, Bootstrap, Clean, Install, RefreshFails, onDisk,
     Refreshing
<1>3. CASE Mkdir(s) \/ MkdirFails(s)
  BY <1>0, <1>3 DEF TypeOK, Mkdir, MkdirFails, onDisk, Refreshing
<1>4. CASE Applies(s) \/ Skip(s)
  BY <1>4 DEF TypeOK, Applies, Skip, onDisk, Refreshing
<1>5. CASE SkipClone(s) \/ CloneEnds(s) \/ StartClone(s)
  BY <1>0, <1>5 DEF TypeOK, SkipClone, CloneEnds, StartClone, onDisk
<1>6. CASE CloneFails(s)
  BY <1>0, <1>6 DEF TypeOK, CloneFails, HasGit
<1> QED
  BY <1>1, <1>2, <1>3, <1>4, <1>5, <1>6 DEF Steps, Prepare

LEMMA CloningStep ==
  ASSUME TypeOK, RegisteredLive, MeetingsNoted, CloningTrue, NEW s \in Sessions, Steps(s)
  PROVE  CloningTrue'
<1>1. /\ met \subseteq met'
      /\ \A t \in Sessions : t # s => pc'[t] = pc[t]
      /\ \A u \in Sessions : CardOf[u] # CardOf[s] => dir'[CardOf[u]] = dir[CardOf[u]]
  BY Moves, HoldersStep, OtherDirs
<1>2. ASSUME NEW u \in Sessions, dir'[CardOf[u]] = "cloning"
      PROVE  \E t \in Sessions : CardOf[t] = CardOf[u] /\ pc'[t] = "cloning"
  <2>1. CASE CardOf[u] # CardOf[s]
    BY <1>1, <1>2, <2>1 DEF CloningTrue
  <2>2. CASE CardOf[u] = CardOf[s] /\ pc'[s] = "cloning"
    BY <2>2
  <2>3. CASE CardOf[u] = CardOf[s] /\ pc'[s] # "cloning"
    <3>1. dir[CardOf[s]] = "cloning" /\ pc[s] # "cloning"
      BY <1>2, <2>3, CloneSteps
    <3> QED
      BY <1>1, <2>3, <3>1 DEF CloningTrue
  <2> QED
    BY <2>1, <2>2, <2>3
<1>3. ASSUME NEW u \in Sessions \ met', pc'[u] = "cloning"
      PROVE  dir'[CardOf[u]] = "cloning"
  <2>1. CASE u = s
    <3>1. s \notin met
      BY <1>1, <1>3, <2>1
    <3>2. dir'[CardOf[s]] = "cloning" \/ (dir' = dir /\ pc[s] = "cloning")
      BY <1>3, <2>1, CloneSteps
    <3> QED
      BY <2>1, <3>1, <3>2 DEF CloningTrue
  <2>2. CASE u # s
    <3>1. u \notin met /\ pc[u] = "cloning" /\ Holds(u)
      BY <1>1, <1>3, <2>2 DEF Holds, Live, Preparing
    <3>2. dir'[CardOf[u]] = dir[CardOf[u]]
      BY <2>2, <3>1, Alone
    <3> QED
      BY <3>1, <3>2 DEF CloningTrue
  <2> QED
    BY <2>1, <2>2
<1> QED
  BY <1>2, <1>3 DEF CloningTrue

LEMMA InformedStep ==
  ASSUME TypeOK, RegisteredLive, MeetingsNoted, CloningTrue, Informed,
         NEW s \in Sessions, Steps(s)
  PROVE  Informed'
<1> DEFINE Waiting == {"hook", "lock"} \cup Refreshing
           Told(t) == /\ cloned[t] = "cloned" => dir[CardOf[t]] = "whole"
                      /\ cloned[t] = "skipped" => dir[CardOf[t]] \in {"whole", "partial"}
<1>1. /\ met \subseteq met'
      /\ \A t \in Sessions : t # s => pc'[t] = pc[t] /\ cloned'[t] = cloned[t]
  BY Moves, HoldersStep
<1>2. ASSUME NEW t \in Sessions \ {s}, t \notin met', pc'[t] \in Waiting
      PROVE  Told(t)'
  <2>1. Holds(t) /\ t \notin met /\ pc[t] \in Waiting /\ cloned'[t] = cloned[t]
    BY <1>1, <1>2 DEF Holds, Live, Preparing
  <2>2. dir'[CardOf[t]] = dir[CardOf[t]]
    BY <2>1, Alone
  <2> QED
    BY <2>1, <2>2 DEF Informed
<1>3. ASSUME s \notin met', pc'[s] \in Waiting
      PROVE  Told(s)'
  <2>1. s \notin met
    BY <1>1, <1>3
  <2>2. CASE cloned'[s] = cloned[s] /\ pc[s] = "mkdir"
    BY <2>2 DEF Informed
  <2>3. CASE cloned'[s] = cloned[s] /\ dir' = dir /\ pc[s] \in Waiting
    BY <2>1, <2>3 DEF Informed
  <2>4. CASE cloned'[s] = "error"
    BY <2>4
  <2>5. CASE /\ pc[s] = "cloning" /\ cloned'[s] = "cloned"
             /\ dir'[CardOf[s]] = IF dir[CardOf[s]] = "cloning" THEN "whole" ELSE "partial"
    BY <2>1, <2>5 DEF CloningTrue
  <2>6. CASE pc[s] = "clone" /\ cloned'[s] = "skipped" /\ dir' = dir /\ dir[CardOf[s]] \in HasGit
    <3>1. ASSUME dir[CardOf[s]] = "cloning" PROVE FALSE
      <4>1. PICK t \in Sessions : CardOf[t] = CardOf[s] /\ pc[t] = "cloning"
        BY <3>1 DEF CloningTrue
      <4>2. t # s /\ Holds(t) /\ Holds(s)
        BY <2>6, <4>1 DEF Holds, Live, Preparing
      <4> QED
        BY <2>1, <4>1, <4>2 DEF MeetingsNoted
    <3> QED
      BY <2>6, <3>1 DEF HasGit
  <2>7. "cloning" \notin Waiting
    BY DEF Refreshing
  <2> HIDE DEF Told
  <2> QED
    BY <1>3, <2>2, <2>3, <2>4, <2>5, <2>6, <2>7, CloneSteps
<1>4. pc'[s] \in {"new", "mkdir", "clone", "cloning"} => cloned'[s] = "none"
  <2>1. CASE Around(s)
    BY <2>1 DEF TypeOK, Informed, Around, Start, AgentWorks, End, Delete, Snapshot, Remove, onDisk
  <2>2. CASE Refresh(s)
    BY <2>2 DEF TypeOK, Informed, Refresh, Lock, Branch, Bootstrap, Clean, Install, RefreshFails, onDisk
  <2>3. CASE Prepare(s) /\ ~Refresh(s)
    BY <2>3 DEF TypeOK, Informed, Prepare, Mkdir, MkdirFails, Applies, Skip, SkipClone, StartClone,
       CloneEnds, CloneFails, onDisk
  <2> QED
    BY <2>1, <2>2, <2>3 DEF Steps
<1> QED
  BY <1>1, <1>2, <1>3, <1>4 DEF Informed

\* A session is created in the directory as it has been prepared.
LEMMA ReadyStep ==
  ASSUME TypeOK, NEW s \in Sessions, Steps(s), BecomesReady(s)
  PROVE  dir' = dir /\ met' = met /\ pc[s] \in {"hook"} \cup Refreshing
<1>1. CASE Around(s)
  BY <1>1 DEF TypeOK, BecomesReady, Around, Start, AgentWorks, End, Delete, Snapshot, Remove
<1>2. CASE Refresh(s)
  BY <1>2 DEF TypeOK, BecomesReady, Refresh, Lock, Branch, Bootstrap, Clean, Install, RefreshFails,
     Refreshing
<1>3. CASE Skip(s)
  BY <1>3 DEF Skip, onDisk
<1>4. CASE Prepare(s) /\ ~Refresh(s) /\ ~Skip(s)
  BY <1>4 DEF TypeOK, BecomesReady, Prepare, Mkdir, MkdirFails, Applies, SkipClone, StartClone,
     CloneEnds, CloneFails
<1> QED
  BY <1>1, <1>2, <1>3, <1>4 DEF Steps

-----------------------------------------------------------------------------

LEMMA StepInv == IInv /\ [Next]_vars => IInv'
<1> SUFFICES ASSUME IInv, [Next]_vars PROVE IInv'
  OBVIOUS
<1>1. CASE UNCHANGED vars
  BY <1>1 DEF vars, onDisk, IInv, TypeOK, RegisteredLive, MeetingsNoted, MuHeld, OwnInstaller,
     NeverOnMain, TempDirsTidied, CloningTrue, Informed, Holds
<1>2. ASSUME NEW s \in Sessions, Steps(s) PROVE IInv'
  BY <1>2, TypeStep, RegisteredStep, MeetingsStep, MuStep, InstallerStep, MainStep, TempsStep,
     CloningStep, InformedStep DEF IInv
<1> QED
  BY <1>1, <1>2 DEF Next, Steps

\* Registry, mutex and disk agree in every reachable state.
THEOREM Inductive == Spec => []IInv
<1> QED
  BY InitInv, StepInv, PTL DEF Spec

\* The state of the work directories is well-formed whatever sessions meet.
THEOREM TypeCorrect == Spec => []TypeOK
<1>1. IInv => TypeOK
  BY DEF IInv
<1> QED
  BY <1>1, Inductive, PTL

\* The installer that cleans and fills a clone is the one its refresh has fetched
\* (Service.mu serialises the refreshes of all cards).
THEOREM InstallerIsOwn == Spec => []OwnInstaller
<1>1. IInv => OwnInstaller
  BY DEF IInv
<1> QED
  BY <1>1, Inductive, PTL

\* The AI-assisted files go to a branch of their own (ensureIssueBranch precedes
\* every other step of a refresh).
THEOREM MainIsSpared == Spec => []NeverOnMain
<1>1. IInv => NeverOnMain
  BY DEF IInv
<1> QED
  BY <1>1, Inductive, PTL

\* A session is created in the repository that maybeClone has told it of: whole when
\* it was cloned, with a .git entry of a clone no longer under way when it was found.
THEOREM RepositoryIsWhole == Spec => WholeRepository
<1>1. IInv /\ [Next]_vars =>
        [\A s \in Sessions \ met' : BecomesReady(s) =>
           /\ cloned[s] = "cloned" => dir'[CardOf[s]] = "whole"
           /\ cloned[s] = "skipped" => dir'[CardOf[s]] \in {"whole", "partial"}]_vars
  <2> SUFFICES ASSUME IInv, Next, NEW t \in Sessions \ met', BecomesReady(t)
               PROVE  /\ cloned[t] = "cloned" => dir'[CardOf[t]] = "whole"
                      /\ cloned[t] = "skipped" => dir'[CardOf[t]] \in {"whole", "partial"}
    OBVIOUS
  <2>1. PICK s \in Sessions : Steps(s)
    BY DEF Next, Steps
  <2>2. s = t
    BY <2>1, Moves DEF IInv, BecomesReady
  <2>3. dir' = dir /\ met' = met /\ pc[t] \in {"hook"} \cup Refreshing
    BY <2>1, <2>2, ReadyStep DEF IInv
  <2> QED
    BY <2>3 DEF IInv, Informed
<1> QED
  BY <1>1, Inductive, PTL DEF Spec, WholeRepository

\* A refresh that fails at any of its steps leaves no temporary directory.
THEOREM NoTempDirLeft == Spec => []TempDirsTidied
<1>1. IInv => TempDirsTidied
  BY DEF IInv
<1> QED
  BY <1>1, Inductive, PTL
=============================================================================
