------------------------------- MODULE Uploads -------------------------------
(***************************************************************************)
(* The life of an upload on one daemon: requests reach the metadata store  *)
(* (Metadata.tla), an accepted one becomes a download task of the tracking *)
(* subsystem (tracking/fetch_dir.rs), the task puts the directory in place *)
(* (disk/commit.rs), then tells metadata, then tracking.  Next to it run   *)
(* directory scans, the cleanup loop (tracking/cleanup.rs) and, after a    *)
(* restart, the resumption of missing directories (tracking/mod.rs).       *)
(*                                                                         *)
(* The event loop, the metadata threads and the disk threads meet only     *)
(* through futures, so every hand-over between them is a place where other *)
(* steps may come in between: each is a separate action here.              *)
(***************************************************************************)
EXTENDS Metadata, Naturals

CONSTANTS
  Tasks,        \* download tasks that may exist at once
  AutoClean,    \* paths under a directory with auto-clean: true
  Wipeable,     \* paths whose directory may disappear while the daemon is down
  MaxCrashes    \* bound on the number of crashes

ASSUME UploadsAssumption ==
  /\ AutoClean \subseteq Paths
  /\ Wipeable \subseteq Paths
  /\ MaxCrashes \in Nat
  /\ None \notin Tasks

VARIABLES
  dest,         \* dest[p]: the image in p's directory on disk, or None
  task,         \* task[t]: a Downloading and the future that drives it
  inProgress,   \* inProgress[p]: the task State::in_progress holds for p
  cleaner,      \* the cleanup of one base directory
  boot,         \* the first scan after a start
  crashes,      \* crashes so far
  breached      \* history: paths where a window described below was hit

vars == <<metaVars, dest, task, inProgress, cleaner, boot, crashes, breached>>

\* The stages in which a task owns its path in the metadata store.  "fetch"
\* stands for the four that only touch the temporary directory: the index,
\* the directory itself, the hardlinks and the blocks.
Owning == {"accepted", "fetch", "commit", "acking", "aborting"}
Phases == Owning \cup {"idle", "committed", "aborted"}

TaskIdle == [phase |-> "idle", path |-> None, image |-> None]
TaskRecord ==
  [phase : Phases \ {"idle"}, path : Paths, image : Images] \cup {TaskIdle}

CleanerIdle == [pc |-> "idle", todo |-> {}, cur |-> None]
CleanerRecord ==
  {c \in [pc : {"idle", "scan", "state", "image", "rescan"},
          todo : SUBSET (Paths \X Images), cur : Paths \cup {None}] :
     c.pc = "image" <=> c.cur # None}

\* The rescan loop as far as the first scan goes; "ended": the loop is no more.
BootNew == [pc |-> "new", todo |-> {}, missing |-> None]
BootRecord ==
  [pc : {"new", "scan", "check", "ended"}, todo : SUBSET Paths,
   missing : Paths \cup {None}]

TypeOK ==
  /\ MetaTypeOK
  /\ dest \in [Paths -> Images \cup {None}]
  /\ task \in [Tasks -> TaskRecord]
  /\ inProgress \in [Paths -> Tasks \cup {None}]
  /\ cleaner \in CleanerRecord
  /\ boot \in BootRecord
  /\ crashes \in 0 .. MaxCrashes
  /\ breached \subseteq Paths

Init ==
  /\ MetaInit
  /\ dest = [p \in Paths |-> None]
  /\ task = [t \in Tasks |-> TaskIdle]
  /\ inProgress = [p \in Paths |-> None]
  /\ cleaner = CleanerIdle
  /\ boot = BootNew
  /\ crashes = 0
  /\ breached = {}

\* Subsystem::rescan_dir can send to the rescan loop.
CanRescanDir == boot.pc # "ended"

SetPhase(t, phase) == task' = [task EXCEPT ![t].phase = phase]
Acking(p) == \E t \in Tasks : task[t].phase = "acking" /\ task[t].path = p

-----------------------------------------------------------------------------
(* Requests: Tracking::append_dir and replace_dir, called for a peer or by *)
(* reconciliation.  Rejected requests change nothing and are left out.     *)

\* Accepted(New): the reply makes the event loop send Command::FetchDir.
NewTask(t, p, image) ==
  /\ task[t].phase = "idle"
  /\ task' = [task EXCEPT ![t] =
        [phase |-> "accepted", path |-> p, image |-> image]]

AppendDir(p, image, sigs, t) ==
  /\ \/ AppendNew(p, image, sigs, TRUE) /\ NewTask(t, p, image)
     \/ AppendNew(p, image, sigs, FALSE) /\ UNCHANGED task
     \/ AlreadyDone(p, image, sigs) /\ UNCHANGED task
     \/ \E ok \in BOOLEAN : InProgress(p, image, sigs, ok) /\ UNCHANGED task
  /\ UNCHANGED <<dest, inProgress, cleaner, boot, crashes, breached>>

ReplaceDir(p, image, old, sigs, t) ==
  /\ p \notin AppendOnly
  /\ \/ ReplaceNew(p, image, old, sigs, TRUE) /\ NewTask(t, p, image)
     \/ ReplaceNew(p, image, old, sigs, FALSE) /\ UNCHANGED task
     \/ AlreadyDone(p, image, sigs) /\ UNCHANGED task
     \/ \E ok \in BOOLEAN : InProgress(p, image, sigs, ok) /\ UNCHANGED task
  /\ UNCHANGED <<dest, inProgress, cleaner, boot, crashes, breached>>

-----------------------------------------------------------------------------
(* Download tasks: fetch_dir::start and the chain of futures behind it.    *)

FetchStart(t) ==
  /\ task[t].phase = "accepted"
  /\ CanRescanDir
  /\ SetPhase(t, "fetch")
  /\ inProgress' = [inProgress EXCEPT ![task[t].path] = t]
  /\ UNCHANGED <<metaVars, dest, cleaner, boot, crashes, breached>>

\* The index, the temporary directory, the hardlinks and the blocks are there.
Fetched(t) ==
  /\ task[t].phase = "fetch"
  /\ SetPhase(t, "commit")
  /\ UNCHANGED <<metaVars, dest, inProgress, cleaner, boot, crashes, breached>>

\* Or are not (no source, deadline, disk error), or commit_image found a bad
\* file or could not move the directory.
Fail(t) ==
  /\ task[t].phase \in {"fetch", "commit"}
  /\ SetPhase(t, "aborting")
  /\ UNCHANGED <<metaVars, dest, inProgress, cleaner, boot, crashes, breached>>

\* Mutant of CommitImage: the exchange forgotten.
CommitImageForgotten(t) ==
  /\ task[t].phase = "commit"
  /\ SetPhase(t, "acking")
  /\ UNCHANGED <<metaVars, dest, inProgress, cleaner, boot, crashes, breached>>

\* commit_image: every file is verified, then the directory is exchanged with
\* (or renamed to) the final one.
CommitImage(t) ==
  /\ task[t].phase = "commit"
  /\ SetPhase(t, "acking")
  /\ dest' = [dest EXCEPT ![task[t].path] = task[t].image]
  /\ UNCHANGED <<metaVars, inProgress, cleaner, boot, crashes, breached>>

\* The directories were exchanged but the old one could not be removed: the
\* task fails with the new directory in place.
CommitImageHalf(t) ==
  /\ IoErrors
  /\ task[t].phase = "commit"
  /\ dest[task[t].path] # None
  /\ SetPhase(t, "aborting")
  /\ dest' = [dest EXCEPT ![task[t].path] = task[t].image]
  /\ breached' = breached \cup {task[t].path}
  /\ UNCHANGED <<metaVars, inProgress, cleaner, boot, crashes>>

MetaCommitted(t) ==
  LET p == task[t].path IN
  /\ task[t].phase = "acking"
  /\ SetPhase(t, "committed")
  /\ \E ok \in BOOLEAN :
       /\ DirCommitted(p, ok)
       /\ breached' = IF ok THEN breached ELSE breached \cup {p}
  /\ UNCHANGED <<dest, inProgress, cleaner, boot, crashes>>

MetaAborted(t) ==
  /\ task[t].phase = "aborting"
  /\ SetPhase(t, "aborted")
  /\ \E ok \in BOOLEAN : DirAborted(task[t].path, ok)
  /\ UNCHANGED <<dest, inProgress, cleaner, boot, crashes, breached>>

\* Mutant of TrackingDone: the entry of in_progress stays.
TrackingDoneLeaking(t) ==
  /\ task[t].phase \in {"committed", "aborted"}
  /\ task' = [task EXCEPT ![t] = TaskIdle]
  /\ UNCHANGED <<metaVars, dest, inProgress, cleaner, boot, crashes, breached>>

\* Subsystem::dir_committed and dir_aborted, back on the event loop.
TrackingDone(t) ==
  /\ task[t].phase \in {"committed", "aborted"}
  /\ CanRescanDir
  /\ task' = [task EXCEPT ![t] = TaskIdle]
  /\ inProgress' = [inProgress EXCEPT ![task[t].path] = None]
  /\ UNCHANGED <<metaVars, dest, cleaner, boot, crashes, breached>>

-----------------------------------------------------------------------------
(* Scans.  A rescan only keeps base directory hashes up to date; the other *)
(* two hand their result to the cleanup and to the resumption.             *)

Rescan(s) ==
  /\ ScanList(s, "rescan")
  /\ UNCHANGED <<stateFile, newFile, writing, recent>>
  /\ UNCHANGED <<dest, task, inProgress, cleaner, boot, crashes, breached>>

ScanRead(s) ==
  /\ \/ \E p \in Paths : ScanReadState(s, p) \/ ScanCheckNew(s, p)
     \/ ScanReadNew(s)
  /\ UNCHANGED <<dest, task, inProgress, cleaner, boot, crashes, breached>>

ScanRemove(s) ==
  /\ \E ok \in BOOLEAN :
       /\ ScanRemoveNew(s, ok)
       /\ breached' = IF ok /\ writing[scan[s].cur] # None
                        THEN breached \cup {scan[s].cur} ELSE breached
  /\ UNCHANGED <<dest, task, inProgress, cleaner, boot, crashes>>

ScanFinish(s) ==
  LET seen == {p \in Paths : scan[s].res[p] # None} IN
  /\ ScanDone(s)
  /\ \/ scan[s].use = "rescan" /\ UNCHANGED <<cleaner, boot>>
     \/ /\ scan[s].use = "clean"
        /\ \E unused \in SUBSET (seen \cap AutoClean) :
             cleaner' = [pc |-> IF unused = {} THEN "rescan" ELSE "state",
                         todo |-> {<<p, scan[s].res[p]>> : p \in unused},
                         cur |-> None]
        /\ UNCHANGED boot
     \/ /\ scan[s].use = "boot"
        /\ \E unused \in SUBSET (seen \cap AutoClean) :
             boot' = [pc |-> "check", todo |-> seen \ unused, missing |-> None]
        /\ UNCHANGED cleaner
  /\ UNCHANGED <<dest, task, inProgress, crashes, breached>>

-----------------------------------------------------------------------------
(* Cleanup of a base directory.  Which images are unused is the policy of  *)
(* cleanup/calc.rs; any choice is possible here.                           *)

\* `time` is taken now: a file written in the same second stays recent.
CleanStart(s) ==
  /\ AutoClean # {}
  /\ cleaner.pc = "idle"
  /\ ScanList(s, "clean")
  /\ cleaner' = [cleaner EXCEPT !.pc = "scan"]
  /\ recent' \in SUBSET recent
  /\ UNCHANGED <<stateFile, newFile, writing>>
  /\ UNCHANGED <<dest, task, inProgress, boot, crashes, breached>>

\* remove_state_file; when it is canceled the rest of the pass is dropped.
CleanState ==
  /\ cleaner.pc = "state"
  /\ \E d \in cleaner.todo :
       \/ /\ RemoveStateFile(d[1])
          /\ cleaner' = [pc |-> "image", todo |-> cleaner.todo \ {d},
                         cur |-> d[1]]
       \/ /\ ~Removable(d[1]) \/ IoErrors
          /\ cleaner' = CleanerIdle
          /\ UNCHANGED metaVars
  /\ UNCHANGED <<dest, task, inProgress, boot, crashes, breached>>

\* remove_image, on a disk thread and without the metadata mutex.
CleanImage ==
  LET p == cleaner.cur IN
  /\ cleaner.pc = "image"
  /\ dest' = [dest EXCEPT ![p] = None]
  /\ cleaner' = [pc |-> IF cleaner.todo = {} THEN "rescan" ELSE "state",
                 todo |-> cleaner.todo, cur |-> None]
  /\ breached' = IF stateFile[p] # None \/ Acking(p)
                   THEN breached \cup {p} ELSE breached
  /\ UNCHANGED <<metaVars, task, inProgress, boot, crashes>>

CleanImageFails ==
  /\ cleaner.pc = "image"
  /\ cleaner' = CleanerIdle
  /\ UNCHANGED <<metaVars, dest, task, inProgress, boot, crashes, breached>>

\* The pass went through: the directory is rescanned.
CleanDone ==
  /\ cleaner.pc = "rescan"
  /\ CanRescanDir
  /\ cleaner' = CleanerIdle
  /\ UNCHANGED <<metaVars, dest, task, inProgress, boot, crashes, breached>>

-----------------------------------------------------------------------------
(* Start and crash.                                                        *)

BootScan(s) ==
  /\ boot.pc = "new"
  /\ ScanList(s, "boot")
  /\ boot' = [boot EXCEPT !.pc = "scan"]
  /\ UNCHANGED <<stateFile, newFile, writing, recent>>
  /\ UNCHANGED <<dest, task, inProgress, cleaner, crashes, breached>>

\* check_exists, one directory after the other; a directory of which that
\* cannot be found out is passed over.
BootCheck ==
  /\ boot.pc = "check"
  /\ boot.missing = None
  /\ \E p \in boot.todo, failed \in {FALSE, IoErrors} :
       boot' = [boot EXCEPT !.todo = @ \ {p},
                            !.missing = IF dest[p] = None /\ ~failed THEN p ELSE None]
  /\ UNCHANGED <<metaVars, dest, task, inProgress, cleaner, crashes, breached>>

\* resume_dir, then fetch_dir.  An error (a conflict with an upload, no file) is
\* logged and then ends the for_each of the rescan loop, receiver and all.
BootResume(t) ==
  LET p == boot.missing IN
  /\ p # None
  /\ \/ /\ ResumeUpload(p)
        /\ NewTask(t, p, newFile'[p].image)
        /\ boot' = [boot EXCEPT !.missing = None]
     \/ /\ \/ writing[p] # None
           \/ stateFile[p] = None /\ newFile[p] = None
           \/ p \notin Configured
           \/ IoErrors
        /\ boot' = [pc |-> "ended", todo |-> {}, missing |-> None]
        /\ UNCHANGED <<metaVars, task>>
  /\ UNCHANGED <<dest, inProgress, cleaner, crashes, breached>>

\* The process dies and is started again: files and directories stay, except
\* the directories somebody removes in the meantime.
Restart(wiped) ==
  /\ writing' = [p \in Paths |-> None]
  /\ scan' = [s \in Scanners |-> ScanIdle]
  /\ dest' = [p \in Paths |-> IF p \in wiped THEN None ELSE dest[p]]
  /\ task' = [t \in Tasks |-> TaskIdle]
  /\ inProgress' = [p \in Paths |-> None]
  /\ cleaner' = CleanerIdle
  /\ boot' = BootNew
  /\ breached' = breached \cup wiped \cup {p \in Paths : Acking(p)}
  /\ UNCHANGED <<stateFile, newFile, recent>>

Crash(wiped) ==
  /\ crashes < MaxCrashes
  /\ crashes' = crashes + 1
  /\ Restart(wiped)

\* rescan_dir without a rescan loop: expect() panics on the event loop.
AsksForRescan ==
  \/ \E t \in Tasks : task[t].phase \in {"accepted", "committed", "aborted"}
  \/ cleaner.pc = "rescan"

RescanPanics ==
  /\ AsksForRescan
  /\ ~CanRescanDir
  /\ Restart({})
  /\ UNCHANGED crashes

-----------------------------------------------------------------------------
TaskStep(t) ==
  \/ FetchStart(t) \/ Fetched(t) \/ Fail(t)
  \/ CommitImage(t) \/ CommitImageHalf(t)
  \/ MetaCommitted(t) \/ MetaAborted(t) \/ TrackingDone(t)

ScanStep(s) ==
  Rescan(s) \/ ScanRead(s) \/ ScanRemove(s) \/ ScanFinish(s)

Request ==
  \E p \in Paths, image \in Images, sigs \in SUBSET Sigs, t \in Tasks :
    \/ AppendDir(p, image, sigs, t)
    \/ \E old \in Images \cup {None} : ReplaceDir(p, image, old, sigs, t)

Next ==
  \/ Request
  \/ \E t \in Tasks : TaskStep(t) \/ BootResume(t)
  \/ \E s \in Scanners : ScanStep(s) \/ CleanStart(s) \/ BootScan(s)
  \/ CleanState \/ CleanImage \/ CleanImageFails \/ CleanDone
  \/ BootCheck \/ RescanPanics
  \/ \E wiped \in SUBSET Wipeable : Crash(wiped)

Spec == Init /\ [][Next]_vars

\* Every stage of a task ends: the pools run what they are given, and the
\* fetch of the index and of the blocks have deadlines of their own.
Fairness ==
  /\ \A t \in Tasks : WF_vars(TaskStep(t))
  /\ WF_vars(RescanPanics)
FairSpec == Spec /\ Fairness

-----------------------------------------------------------------------------
(* Properties                                                              *)

Owns(t, p) == task[t].phase \in Owning /\ task[t].path = p

\* Two downloads never work on the same path, and the one that does is the
\* one metadata knows of: commit_image relies on it ("we rely on
\* `Metadata::writing` lock to avoid race conditions here").
OneWriter ==
  \A p \in Paths : \A t \in Tasks : Owns(t, p) =>
    /\ writing[p] # None
    /\ writing[p].image = task[t].image
    /\ \A u \in Tasks : Owns(u, p) => u = t

\* `.state` tells what the directory holds, except while a commit is between
\* the disk and the metadata, and except where one of these was hit: a crash
\* in that interval, a directory removed behind the daemon's back, a commit
\* that failed half way, a `.new.state` that a scan removed under a running
\* upload or that could not be renamed, a remove_image that came late.
StateDescribesDir ==
  \A p \in Paths \ breached :
    stateFile[p] # None /\ ~Acking(p) => dest[p] = stateFile[p].image

\* What makes the two above inductive.  The `.new.state` of a running upload is
\* its own and stays until the upload ends; what a task has put in place stays
\* until metadata knows; an upload under way is never one of the image already
\* published, nor of anything in a published append-only directory.
UploadIntact ==
  \A p \in Paths :
    /\ \A t \in Tasks : Owns(t, p) =>
         /\ newFile[p] # None => newFile[p].image = task[t].image
         /\ p \notin breached => newFile[p] # None
         /\ p \notin breached /\ task[t].phase = "acking" =>
              dest[p] = task[t].image
    /\ writing[p] # None /\ stateFile[p] # None =>
         p \notin AppendOnly /\ stateFile[p].image # writing[p].image

\* Every file was accepted on a signature of a configured upload key, and no
\* later merge of signatures loses it.
Vouched ==
  \A p \in Paths : \A file \in {stateFile[p], newFile[p]} \ {None} :
    file.signatures \cap Trusted # {}

\* in_progress never keeps a download that has ended (a leaked entry would
\* throttle reconciliation for good).
InProgressIsLive ==
  \A p \in Paths : inProgress[p] # None =>
    /\ task[inProgress[p]].path = p
    /\ task[inProgress[p]].phase \notin {"idle", "accepted"}

\* append-only: the image of a published directory is never exchanged for
\* another one, neither in metadata nor on disk, while it is published.
AppendOnlyKept ==
  [][\A p \in AppendOnly : stateFile[p] # None /\ stateFile'[p] # None =>
        /\ stateFile'[p].image = stateFile[p].image
        /\ dest'[p] \in {dest[p], None}]_vars

\* While an image stays in place its signatures are only added to.
SignaturesGrow ==
  [][\A p \in Paths :
        stateFile[p] # None /\ stateFile'[p] # None
          /\ stateFile'[p].image = stateFile[p].image
        => stateFile[p].signatures \subseteq stateFile'[p].signatures]_vars

\* An upload does not hold its path for ever: it is committed or aborted.
UploadsEnd == \A p \in Paths : writing[p] # None ~> writing[p] = None

-----------------------------------------------------------------------------
(* What a reader of the metadata sees of all this is PathLife.             *)

ImageOf(file) == IF file = None THEN None ELSE file.image

Published == [p \in Paths |-> ImageOf(stateFile[p])]
Uploading == [p \in Paths |-> ImageOf(writing[p])]

PL == INSTANCE PathLife WITH published <- Published, uploading <- Uploading

\* The store, its mutex and its two files per path implement PathLife: a commit
\* publishes exactly the image whose upload holds the path (and not a stale
\* `.new.state`), a resumed image is withdrawn first, and neither cleanup nor
\* a second request touches a path that is being written.
ImplementsPathLife == PL!Spec

-----------------------------------------------------------------------------
(* What the code assumes and does not keep.                                *)

\* `expect("can always send in rescan channel")` (rescan_dir): whoever asks for
\* a rescan finds the loop that does them.
RescanLoopLives == AsksForRescan => CanRescanDir

=============================================================================
