---------------------------- MODULE UploadsProofs ----------------------------
(***************************************************************************)
(* Proofs about Uploads, for any number of paths, images, tasks, scanners  *)
(* and crashes.                                                            *)
(***************************************************************************)
EXTENDS Uploads, TLAPS

USE MetadataAssumption, UploadsAssumption

-----------------------------------------------------------------------------
(* The metadata store: one lemma on types per operation.                   *)

\* Insert writes a well-formed entry of `writing` and a well-formed file.
LEMMA InsertTyped ==
  ASSUME MetaTypeOK, NEW p \in Paths, NEW image \in Images,
         NEW sigs \in SUBSET Sigs, NEW replacing \in BOOLEAN, NEW ok,
         Insert(p, image, sigs, replacing, ok)
  PROVE  MetaTypeOK'
<1> USE DEF MetaTypeOK
<1>1. writing' \in [Paths -> Writing \cup {None}]
  <2>1. [image |-> image, signatures |-> sigs, replacing |-> replacing] \in Writing
    BY DEF Writing
  <2> QED BY <2>1 DEF Insert
<1>2. newFile' \in [Paths -> State \cup {None}] /\ recent' \subseteq Files
  <2>1. [image |-> image, signatures |-> sigs] \in State
    BY DEF State
  <2> QED BY <2>1 DEF Insert, WriteNew, Files
<1>3. UNCHANGED <<stateFile, scan>>
  BY DEF Insert
<1> QED BY <1>1, <1>2, <1>3

\* Merging signatures into `.state` keeps a well-formed file.
LEMMA AlreadyDoneTyped ==
  ASSUME MetaTypeOK, NEW p \in Paths, NEW image \in Images,
         NEW sigs \in SUBSET Sigs, AlreadyDone(p, image, sigs)
  PROVE  MetaTypeOK'
<1> USE DEF MetaTypeOK
<1>1. stateFile[p].signatures \in SUBSET Sigs
  BY DEF AlreadyDone, State
<1>2. [image |-> image, signatures |-> stateFile[p].signatures \cup sigs] \in State
  BY <1>1 DEF State
<1> QED BY <1>2 DEF AlreadyDone, Files

\* resume_upload moves a well-formed file and makes an entry from it.
LEMMA ResumeTyped ==
  ASSUME MetaTypeOK, NEW p \in Paths, ResumeUpload(p)
  PROVE  /\ MetaTypeOK'
         /\ newFile'[p] \in State
         /\ writing'[p] \in Writing
         /\ writing'[p].image = newFile'[p].image
<1> USE DEF MetaTypeOK
<1>1. PICK file \in {stateFile[p], newFile[p]} \ {None} :
        /\ writing' = [writing EXCEPT ![p] =
             [image |-> file.image, signatures |-> file.signatures,
              replacing |-> FALSE]]
        /\ newFile' = [newFile EXCEPT ![p] = file]
  BY DEF ResumeUpload
<1>2. file \in State
  OBVIOUS
<1>3. [image |-> file.image, signatures |-> file.signatures,
       replacing |-> FALSE] \in Writing
  BY <1>2 DEF State, Writing
<1>4. recent' \subseteq Files
  BY DEF ResumeUpload, Renamed, Files
<1>5. stateFile' \in [Paths -> State \cup {None}] /\ UNCHANGED scan
  BY DEF ResumeUpload
<1>6. /\ newFile' \in [Paths -> State \cup {None}] /\ newFile'[p] = file
      /\ writing' \in [Paths -> Writing \cup {None}]
      /\ writing'[p] = [image |-> file.image, signatures |-> file.signatures,
                        replacing |-> FALSE]
  BY <1>1, <1>2, <1>3
<1> QED BY <1>2, <1>3, <1>4, <1>5, <1>6

\* The end of an upload and the removal by the cleanup.
LEMMA EndTyped ==
  ASSUME MetaTypeOK, NEW p \in Paths, NEW ok,
         DirAborted(p, ok) \/ DirCommitted(p, ok) \/ RemoveStateFile(p)
  PROVE  MetaTypeOK'
<1> USE DEF MetaTypeOK
<1>1. CASE DirAborted(p, ok)
  BY <1>1 DEF DirAborted
<1>2. CASE DirCommitted(p, ok)
  <2>1. recent' \subseteq Files
    BY <1>2 DEF DirCommitted, Renamed, Files
  <2> QED BY <1>2, <2>1 DEF DirCommitted
<1>3. CASE RemoveStateFile(p)
  BY <1>3 DEF RemoveStateFile
<1> QED BY <1>1, <1>2, <1>3

\* Scans: the record ScanSet stores is well formed...
LEMMA ScanRecordMade ==
  ASSUME NEW pc \in {"next", "read", "doom"}, NEW use \in {"rescan", "clean", "boot"},
         NEW todo \in SUBSET Files, NEW cur \in Paths \cup {None},
         NEW res \in [Paths -> Images \cup {None}],
         pc \in {"read", "doom"} <=> cur # None
  PROVE  [pc |-> pc, use |-> use, todo |-> todo, cur |-> cur, res |-> res]
           \in ScanRecord
BY DEF ScanRecord

\* ... whichever step of all_states sets them.
LEMMA ScanTyped ==
  ASSUME MetaTypeOK, NEW s \in Scanners, NEW p \in Paths, NEW ok,
         \/ ScanReadState(s, p) \/ ScanCheckNew(s, p) \/ ScanReadNew(s)
         \/ ScanRemoveNew(s, ok) \/ ScanDone(s)
  PROVE  MetaTypeOK'
<1> USE DEF MetaTypeOK
<1>1. /\ scan[s].use \in {"rescan", "clean", "boot"}
      /\ scan[s].todo \in SUBSET Files
      /\ scan[s].cur \in Paths \cup {None}
      /\ scan[s].res \in [Paths -> Images \cup {None}]
      /\ scan[s].pc \in {"read", "doom"} <=> scan[s].cur # None
  BY DEF ScanRecord
<1>2. CASE ScanReadState(s, p)
  <2> DEFINE r == IF scan[s].res[p] = None /\ stateFile[p] # None
                    THEN [scan[s].res EXCEPT ![p] = stateFile[p].image]
                    ELSE scan[s].res
  <2>1. r \in [Paths -> Images \cup {None}]
    BY <1>1 DEF State
  <2>2. ScanSet(s, "next", scan[s].use, scan[s].todo \ {<<p, "state">>}, None, r)
    BY <1>2 DEF ScanReadState
  <2> HIDE DEF r
  <2>3. scan' \in [Scanners -> ScanRecord]
    BY <1>1, <2>1, <2>2, ScanRecordMade DEF ScanSet
  <2> QED BY <1>2, <2>3 DEF ScanReadState
<1>3. CASE ScanCheckNew(s, p)
  <2>1. scan' \in [Scanners -> ScanRecord]
    BY <1>1, <1>3, ScanRecordMade DEF ScanCheckNew, ScanSet
  <2> QED BY <1>3, <2>1 DEF ScanCheckNew
<1>4. CASE ScanReadNew(s)
  <2> DEFINE q == scan[s].cur
             r == IF newFile[q] = None THEN scan[s].res
                  ELSE [scan[s].res EXCEPT ![q] = newFile[q].image]
  <2>1. q \in Paths
    BY <1>1, <1>4 DEF ScanReadNew
  <2>2. r \in [Paths -> Images \cup {None}]
    BY <1>1, <2>1 DEF State
  <2>3. ScanSet(s, "next", scan[s].use, scan[s].todo, None, r)
    BY <1>4 DEF ScanReadNew
  <2> HIDE DEF r
  <2>4. scan' \in [Scanners -> ScanRecord]
    BY <1>1, <2>2, <2>3, ScanRecordMade DEF ScanSet
  <2> QED BY <1>4, <2>4 DEF ScanReadNew
<1>5. CASE ScanRemoveNew(s, ok)
  <2>1. scan' \in [Scanners -> ScanRecord]
    BY <1>1, <1>5, ScanRecordMade DEF ScanRemoveNew, ScanSet
  <2> QED BY <1>5, <2>1 DEF ScanRemoveNew
<1>6. CASE ScanDone(s)
  <2>1. ScanIdle \in ScanRecord
    BY DEF ScanIdle, ScanRecord
  <2> QED BY <1>6, <2>1 DEF ScanDone
<1> QED BY <1>2, <1>3, <1>4, <1>5, <1>6

\* The start of a scan.
LEMMA ScanListTyped ==
  ASSUME MetaTypeOK, NEW s \in Scanners,
         NEW use \in {"rescan", "clean", "boot"}, ScanList(s, use)
  PROVE  scan' \in [Scanners -> ScanRecord]
<1> DEFINE todo == {f \in Files : IF f[2] = "state" THEN stateFile[f[1]] # None
                                                  ELSE newFile[f[1]] # None}
           res == [p \in Paths |-> None]
<1>1. todo \in SUBSET Files /\ res \in [Paths -> Images \cup {None}]
  OBVIOUS
<1>2. ScanSet(s, "next", use, todo, None, res)
  BY DEF ScanList
<1> HIDE DEF todo, res
<1> QED BY <1>1, <1>2, ScanRecordMade DEF MetaTypeOK, ScanSet

-----------------------------------------------------------------------------
(* Types.                                                                  *)

\* A request leaves well-formed metadata.
LEMMA RequestTyped ==
  ASSUME TypeOK, NEW p \in Paths, NEW image \in Images,
         NEW sigs \in SUBSET Sigs, NEW t \in Tasks, NEW old,
         AppendDir(p, image, sigs, t) \/ ReplaceDir(p, image, old, sigs, t)
  PROVE  TypeOK'
<1> USE DEF TypeOK
<1>1. /\ UNCHANGED <<dest, inProgress, cleaner, boot, crashes, breached>>
      /\ task' \in [Tasks -> TaskRecord]
  <2>1. [phase |-> "accepted", path |-> p, image |-> image] \in TaskRecord
    BY DEF TaskRecord, Phases, Owning
  <2>2. NewTask(t, p, image) \/ UNCHANGED task
    BY DEF AppendDir, ReplaceDir
  <2>3. task' \in [Tasks -> TaskRecord]
    BY <2>1, <2>2 DEF NewTask
  <2>4. UNCHANGED <<dest, inProgress, cleaner, boot, crashes, breached>>
    BY DEF AppendDir, ReplaceDir
  <2> QED BY <2>3, <2>4
<1>2. PICK ok \in BOOLEAN :
        \/ AppendNew(p, image, sigs, ok) \/ ReplaceNew(p, image, old, sigs, ok)
        \/ AlreadyDone(p, image, sigs) \/ InProgress(p, image, sigs, ok)
  BY DEF AppendDir, ReplaceDir
<1>3. CASE AppendNew(p, image, sigs, ok) \/ ReplaceNew(p, image, old, sigs, ok)
  <2>1. PICK replacing \in BOOLEAN : Insert(p, image, sigs, replacing, ok)
    BY <1>3 DEF AppendNew, ReplaceNew
  <2> QED BY <1>1, <2>1, InsertTyped
<1>4. CASE AlreadyDone(p, image, sigs)
  BY <1>1, <1>4, AlreadyDoneTyped
<1>5. CASE InProgress(p, image, sigs, ok)
  <2> DEFINE all == writing[p].signatures \cup sigs
             r == writing[p].replacing
  <2>1. all \in SUBSET Sigs /\ r \in BOOLEAN
    BY <1>5 DEF InProgress, MetaTypeOK, Writing
  <2>2. Insert(p, image, all, r, ok)
    BY <1>5 DEF InProgress
  <2> HIDE DEF all, r
  <2> QED BY <1>1, <2>1, <2>2, InsertTyped
<1> QED BY <1>2, <1>3, <1>4, <1>5

\* So does every stage of a download task.
LEMMA TaskStepTyped ==
  ASSUME TypeOK, NEW t \in Tasks, TaskStep(t)
  PROVE  TypeOK'
<1> USE DEF TypeOK
<1>1. task[t] \in TaskRecord
  OBVIOUS
<1>2. ASSUME task[t].phase # "idle" PROVE task[t].path \in Paths /\ task[t].image \in Images
  BY <1>1, <1>2 DEF TaskRecord, TaskIdle
<1>3. ASSUME NEW phase \in Phases \ {"idle"}, task[t].phase # "idle", SetPhase(t, phase)
      PROVE  task' \in [Tasks -> TaskRecord]
  <2>1. [task[t] EXCEPT !.phase = phase] \in TaskRecord
    BY <1>1, <1>3 DEF TaskRecord, TaskIdle
  <2> QED BY <1>3, <2>1 DEF SetPhase
<1> USE DEF Phases, Owning
<1>4. CASE FetchStart(t)
  BY <1>2, <1>3, <1>4 DEF FetchStart, metaVars, MetaTypeOK
<1>5. CASE Fetched(t) \/ Fail(t)
  BY <1>2, <1>3, <1>5 DEF Fetched, Fail, metaVars, MetaTypeOK
<1>6. CASE CommitImage(t) \/ CommitImageHalf(t)
  BY <1>2, <1>3, <1>6 DEF CommitImage, CommitImageHalf, metaVars, MetaTypeOK
<1>7. CASE MetaCommitted(t)
  BY <1>2, <1>3, <1>7, EndTyped DEF MetaCommitted
<1>8. CASE MetaAborted(t)
  BY <1>2, <1>3, <1>8, EndTyped DEF MetaAborted
<1>9. CASE TrackingDone(t)
  BY <1>2, <1>9 DEF TrackingDone, TaskRecord, metaVars, MetaTypeOK
<1> QED BY <1>4, <1>5, <1>6, <1>7, <1>8, <1>9 DEF TaskStep

\* So do scans, the cleanup and the resumption after a start.
LEMMA BackgroundTyped ==
  ASSUME TypeOK,
         \/ \E s \in Scanners : ScanStep(s) \/ CleanStart(s) \/ BootScan(s)
         \/ CleanState \/ CleanImage \/ CleanImageFails \/ CleanDone \/ BootCheck
         \/ \E t \in Tasks : BootResume(t)
  PROVE  TypeOK'
<1> USE DEF TypeOK
<1>1. ASSUME NEW s \in Scanners, ScanStep(s) PROVE TypeOK'
  <2>1. CASE Rescan(s)
    BY <2>1, ScanListTyped DEF Rescan, MetaTypeOK
  <2>2. CASE ScanRead(s)
    <3>1. PICK p \in Paths : ScanReadState(s, p) \/ ScanCheckNew(s, p) \/ ScanReadNew(s)
      BY <2>2 DEF ScanRead, ScanReadNew, MetaTypeOK, ScanRecord
    <3>2. MetaTypeOK'
      BY <3>1, ScanTyped
    <3> QED BY <2>2, <3>2 DEF ScanRead
  <2>3. CASE ScanRemove(s)
    <3>1. scan[s].cur \in Paths
      BY <2>3 DEF ScanRemove, ScanRemoveNew, MetaTypeOK, ScanRecord
    <3> QED BY <2>3, <3>1, ScanTyped DEF ScanRemove
  <2>4. CASE ScanFinish(s)
    <3>1. scan[s].res \in [Paths -> Images \cup {None}]
      BY DEF MetaTypeOK, ScanRecord
    <3>2. MetaTypeOK'
      BY <2>4 DEF ScanFinish, ScanDone, MetaTypeOK, ScanIdle, ScanRecord
    <3>3. cleaner' \in CleanerRecord
      <4>1. ASSUME NEW unused \in SUBSET ({p \in Paths : scan[s].res[p] # None} \cap AutoClean)
            PROVE  {<<p, scan[s].res[p]>> : p \in unused} \in SUBSET (Paths \X Images)
        BY <3>1
      <4> QED BY <2>4, <4>1 DEF ScanFinish, CleanerRecord
    <3>4. boot' \in BootRecord
      BY <2>4 DEF ScanFinish, BootRecord
    <3> QED BY <2>4, <3>2, <3>3, <3>4 DEF ScanFinish
  <2> QED BY <1>1, <2>1, <2>2, <2>3, <2>4 DEF ScanStep
<1>2. ASSUME NEW s \in Scanners, CleanStart(s) PROVE TypeOK'
  BY <1>2, ScanListTyped DEF CleanStart, CleanerRecord, MetaTypeOK
<1>3. ASSUME NEW s \in Scanners, BootScan(s) PROVE TypeOK'
  BY <1>3, ScanListTyped DEF BootScan, BootRecord, MetaTypeOK
<1>4. CASE CleanState
  <2>1. PICK d \in cleaner.todo :
          \/ /\ RemoveStateFile(d[1])
             /\ cleaner' = [pc |-> "image", todo |-> cleaner.todo \ {d},
                            cur |-> d[1]]
          \/ cleaner' = CleanerIdle /\ UNCHANGED metaVars
    BY <1>4 DEF CleanState
  <2>2. cleaner.todo \in SUBSET (Paths \X Images) /\ d[1] \in Paths
    BY DEF CleanerRecord
  <2>3. cleaner' \in CleanerRecord
    <3> DEFINE rest == cleaner.todo \ {d}
    <3>1. rest \in SUBSET (Paths \X Images)
      BY <2>2
    <3>2. d[1] # None
      BY <2>2, MetadataAssumption
    <3> HIDE DEF rest
    <3>3. [pc |-> "image", todo |-> rest, cur |-> d[1]] \in CleanerRecord
      BY <2>2, <3>1, <3>2 DEF CleanerRecord
    <3>4. CleanerIdle \in CleanerRecord
      BY DEF CleanerRecord, CleanerIdle
    <3> QED BY <2>1, <3>3, <3>4 DEF rest
  <2>4. MetaTypeOK'
    <3>1. CASE RemoveStateFile(d[1])
      BY <2>2, <3>1, EndTyped
    <3>2. CASE UNCHANGED metaVars
      BY <3>2 DEF metaVars, MetaTypeOK
    <3> QED BY <2>1, <3>1, <3>2
  <2> QED BY <1>4, <2>3, <2>4 DEF CleanState
<1>5. CASE CleanImage
  <2>1. cleaner.cur \in Paths /\ cleaner.todo \in SUBSET (Paths \X Images)
    BY <1>5 DEF CleanImage, CleanerRecord
  <2>2. cleaner' \in CleanerRecord
    BY <1>5, <2>1 DEF CleanImage, CleanerRecord
  <2> QED BY <1>5, <2>1, <2>2 DEF CleanImage, metaVars, MetaTypeOK
<1>8. CASE CleanImageFails \/ CleanDone
  BY <1>8 DEF CleanImageFails, CleanDone, CleanerRecord, CleanerIdle, metaVars, MetaTypeOK
<1>6. CASE BootCheck
  <2>1. boot' \in BootRecord
    <3>1. PICK p \in boot.todo : \E missing \in {p, None} :
            boot' = [boot EXCEPT !.todo = boot.todo \ {p}, !.missing = missing]
      BY <1>6 DEF BootCheck
    <3>2. p \in Paths /\ boot.todo \ {p} \in SUBSET Paths
      BY DEF BootRecord
    <3> QED BY <3>1, <3>2 DEF BootRecord
  <2> QED BY <1>6, <2>1 DEF BootCheck, metaVars, MetaTypeOK
<1>7. ASSUME NEW t \in Tasks, BootResume(t) PROVE TypeOK'
  <2> DEFINE p == boot.missing
  <2>1. /\ UNCHANGED <<dest, inProgress, cleaner, crashes, breached>>
        /\ boot' \in BootRecord
        /\ p \in Paths
    BY <1>7 DEF BootResume, BootRecord
  <2>2. CASE ResumeUpload(p) /\ NewTask(t, p, newFile'[p].image)
    <3>1. MetaTypeOK' /\ newFile'[p].image \in Images
      BY <2>1, <2>2, ResumeTyped DEF State
    <3>2. [phase |-> "accepted", path |-> p, image |-> newFile'[p].image] \in TaskRecord
      BY <2>1, <3>1 DEF TaskRecord, Phases, Owning
    <3>3. task' \in [Tasks -> TaskRecord]
      BY <2>2, <3>2 DEF NewTask
    <3> QED BY <2>1, <3>1, <3>3
  <2>3. CASE UNCHANGED <<metaVars, task>>
    BY <2>1, <2>3 DEF metaVars, MetaTypeOK
  <2> QED BY <1>7, <2>2, <2>3 DEF BootResume
<1> QED BY <1>1, <1>2, <1>3, <1>4, <1>5, <1>6, <1>7, <1>8

\* So does a restart, whatever brought it about.
LEMMA RestartTyped ==
  ASSUME TypeOK, NEW wiped \in SUBSET Wipeable, Restart(wiped),
         crashes' = crashes \/ (crashes < MaxCrashes /\ crashes' = crashes + 1)
  PROVE  TypeOK'
<1>1. MetaTypeOK'
  BY DEF Restart, TypeOK, MetaTypeOK, ScanIdle, ScanRecord
<1>2. crashes' \in 0 .. MaxCrashes
  BY DEF TypeOK
<1>3. dest' \in [Paths -> Images \cup {None}] /\ breached' \subseteq Paths
  BY DEF Restart, TypeOK
<1>4. /\ task' \in [Tasks -> TaskRecord] /\ inProgress' \in [Paths -> Tasks \cup {None}]
      /\ cleaner' \in CleanerRecord /\ boot' \in BootRecord
  BY DEF Restart, TaskRecord, CleanerIdle, CleanerRecord, BootNew, BootRecord
<1> QED BY <1>1, <1>2, <1>3, <1>4 DEF TypeOK

\* Every variable keeps its type in every reachable state of the node.
THEOREM Typing == Spec => []TypeOK
<1>1. Init => TypeOK
  BY DEF Init, MetaInit, TypeOK, MetaTypeOK, ScanIdle, ScanRecord,
         TaskRecord, CleanerIdle, CleanerRecord, BootNew, BootRecord, Files
<1>2. TypeOK /\ [Next]_vars => TypeOK'
  <2> SUFFICES ASSUME TypeOK, [Next]_vars PROVE TypeOK'
    OBVIOUS
  <2>1. CASE Request
    BY <2>1, RequestTyped DEF Request
  <2>2. ASSUME NEW t \in Tasks, TaskStep(t) PROVE TypeOK'
    BY <2>2, TaskStepTyped
  <2>3. CASE \/ \E s \in Scanners : ScanStep(s) \/ CleanStart(s) \/ BootScan(s)
             \/ CleanState \/ CleanImage \/ CleanImageFails \/ CleanDone \/ BootCheck
             \/ \E t \in Tasks : BootResume(t)
    BY <2>3, BackgroundTyped
  <2>4. ASSUME NEW wiped \in SUBSET Wipeable, Crash(wiped) PROVE TypeOK'
    BY <2>4, RestartTyped DEF Crash
  <2>6. CASE RescanPanics
    BY <2>6, RestartTyped DEF RescanPanics
  <2>5. CASE UNCHANGED vars
    BY <2>5 DEF vars, metaVars, TypeOK, MetaTypeOK, Acking
  <2> QED BY <2>1, <2>2, <2>3, <2>4, <2>5, <2>6 DEF Next
<1> QED BY <1>1, <1>2, PTL DEF Spec

-----------------------------------------------------------------------------
(* Safety.  OneWriter, StateDescribesDir and UploadIntact say something of *)
(* each path by itself, so they are proved path by path: PathInv(p) is     *)
(* their conjunction at p, and a step disturbs at most one path, the crash *)
(* excepted.                                                               *)

PathInv(p) ==
  /\ \A t \in Tasks : Owns(t, p) =>
       /\ writing[p] # None
       /\ writing[p].image = task[t].image
       /\ \A u \in Tasks : Owns(u, p) => u = t
       /\ newFile[p] # None => newFile[p].image = task[t].image
       /\ p \notin breached => newFile[p] # None
       /\ p \notin breached /\ task[t].phase = "acking" =>
            dest[p] = task[t].image
  /\ writing[p] # None /\ stateFile[p] # None =>
       p \notin AppendOnly /\ stateFile[p].image # writing[p].image
  /\ p \notin breached /\ stateFile[p] # None /\ ~Acking(p) =>
       dest[p] = stateFile[p].image

Safe == \A p \in Paths : PathInv(p)

\* The path invariant is the conjunction of the three properties.
LEMMA SafeIs == Safe <=> OneWriter /\ UploadIntact /\ StateDescribesDir
BY DEF Safe, PathInv, OneWriter, UploadIntact, StateDescribesDir

\* A step that leaves alone what a path's invariant reads keeps it.
LEMMA Frame ==
  ASSUME NEW p \in Paths, PathInv(p),
         stateFile'[p] = stateFile[p], newFile'[p] = newFile[p],
         writing'[p] = writing[p], dest'[p] = dest[p],
         p \in breached => p \in breached',
         \A t \in Tasks : task'[t] = task[t] \/ (~Owns(t, p) /\ ~Owns(t, p)')
  PROVE  PathInv(p)'
<1>1. \A t \in Tasks : Owns(t, p)' <=> Owns(t, p)
  BY DEF Owns
<1>2. \A t \in Tasks : Owns(t, p) => task'[t] = task[t]
  OBVIOUS
<1>3. Acking(p)' <=> Acking(p)
  BY <1>1, <1>2 DEF Acking, Owns, Owning
<1> QED BY <1>1, <1>2, <1>3 DEF PathInv

\* Tasks change one at a time; a new one starts on a path of its own.
LEMMA TaskChange ==
  ASSUME TypeOK, NEW t \in Tasks
  PROVE  /\ \A phase \in Phases : SetPhase(t, phase) =>
              /\ task'[t].phase = phase
              /\ task'[t].path = task[t].path
              /\ task'[t].image = task[t].image
              /\ \A u \in Tasks \ {t} : task'[u] = task[u]
         /\ \A p, image : NewTask(t, p, image) =>
              /\ task[t].phase = "idle"
              /\ task'[t] = [phase |-> "accepted", path |-> p, image |-> image]
              /\ \A u \in Tasks \ {t} : task'[u] = task[u]
<1>1. task \in [Tasks -> TaskRecord]
  BY DEF TypeOK
<1>2. ASSUME NEW phase \in Phases, SetPhase(t, phase)
      PROVE  /\ task'[t].phase = phase
             /\ task'[t].path = task[t].path
             /\ task'[t].image = task[t].image
             /\ \A u \in Tasks \ {t} : task'[u] = task[u]
  BY <1>1, <1>2 DEF SetPhase, TaskRecord, TaskIdle
<1>3. ASSUME NEW p, NEW image, NewTask(t, p, image)
      PROVE  /\ task[t].phase = "idle"
             /\ task'[t] = [phase |-> "accepted", path |-> p, image |-> image]
             /\ \A u \in Tasks \ {t} : task'[u] = task[u]
  BY <1>1, <1>3 DEF NewTask
<1> QED BY <1>2, <1>3

\* An upload that is just accepted is the only one on its path, and differs
\* from what is published there.
LEMMA NewUploadSafe ==
  ASSUME TypeOK, Safe, NEW p \in Paths, NEW image \in Images, NEW t \in Tasks,
         writing[p] = None, NewTask(t, p, image),
         newFile'[p] # None, newFile'[p].image = image,
         writing'[p] # None, writing'[p].image = image,
         UNCHANGED <<dest, breached>>,
         stateFile'[p] = stateFile[p] \/ stateFile'[p] = None,
         stateFile'[p] # None => p \notin AppendOnly /\ stateFile'[p].image # image
  PROVE  PathInv(p)'
<1>1. /\ task[t].phase = "idle"
      /\ task'[t] = [phase |-> "accepted", path |-> p, image |-> image]
      /\ \A u \in Tasks \ {t} : task'[u] = task[u]
  BY TaskChange
<1>2. \A u \in Tasks : ~Owns(u, p)
  BY DEF Safe, PathInv
<1>3. \A u \in Tasks : Owns(u, p)' => u = t
  BY <1>1, <1>2 DEF Owns
<1>4. ~Acking(p) /\ ~Acking(p)'
  BY <1>1, <1>2 DEF Acking, Owns, Owning
<1> QED BY <1>1, <1>3, <1>4 DEF PathInv, Safe

\* Requests keep the invariant of every path.
LEMMA RequestSafe ==
  ASSUME TypeOK, Safe, NEW p \in Paths, NEW image \in Images,
         NEW sigs \in SUBSET Sigs, NEW t \in Tasks, NEW old,
         AppendDir(p, image, sigs, t) \/ ReplaceDir(p, image, old, sigs, t)
  PROVE  Safe'
<1>1. UNCHANGED <<dest, breached>> /\ (NewTask(t, p, image) \/ UNCHANGED task)
  BY DEF AppendDir, ReplaceDir
<1>2. MetaTypeOK
  BY DEF TypeOK
<1>3. PICK ok \in BOOLEAN :
        \/ /\ AppendNew(p, image, sigs, ok) \/ ReplaceNew(p, image, old, sigs, ok)
           /\ ok => NewTask(t, p, image)
           /\ ~ok => UNCHANGED task
        \/ AlreadyDone(p, image, sigs) /\ UNCHANGED task
        \/ InProgress(p, image, sigs, ok) /\ UNCHANGED task
  BY DEF AppendDir, ReplaceDir
<1>4. ASSUME NEW q \in Paths, q # p PROVE PathInv(q)'
  <2>1. /\ stateFile'[q] = stateFile[q] /\ newFile'[q] = newFile[q]
        /\ writing'[q] = writing[q]
    BY <1>2, <1>3, <1>4 DEF AppendNew, ReplaceNew, AlreadyDone, InProgress,
       Insert, WriteNew, MetaTypeOK
  <2>2. \A u \in Tasks : task'[u] = task[u] \/ (~Owns(u, q) /\ ~Owns(u, q)')
    <3>1. CASE UNCHANGED task
      BY <3>1
    <3>2. CASE NewTask(t, p, image)
      <4>1. /\ task[t].phase = "idle"
            /\ task'[t] = [phase |-> "accepted", path |-> p, image |-> image]
            /\ \A u \in Tasks \ {t} : task'[u] = task[u]
        BY <3>2, TaskChange
      <4> QED BY <1>4, <4>1 DEF Owns, Owning
    <3> QED BY <1>1, <3>1, <3>2
  <2> QED BY <1>1, <2>1, <2>2, Frame DEF Safe
<1>5. PathInv(p)'
  <2>1. CASE AppendNew(p, image, sigs, ok) \/ ReplaceNew(p, image, old, sigs, ok)
    <3>1. /\ writing[p] = None
          /\ writing'[p] # None /\ writing'[p].image = image
          /\ stateFile' = stateFile
          /\ stateFile[p] # None => p \notin AppendOnly /\ stateFile[p].image # image
          /\ ok => newFile'[p] # None /\ newFile'[p].image = image
          /\ ~ok => newFile' = newFile
      <4>1. PICK replacing \in BOOLEAN :
              /\ Insert(p, image, sigs, replacing, ok)
              /\ writing[p] = None
              /\ stateFile[p] # None => p \notin AppendOnly /\ stateFile[p].image # image
        BY <2>1 DEF AppendNew, ReplaceNew
      <4>2. /\ [image |-> image, signatures |-> sigs, replacing |-> replacing] \in Writing
            /\ [image |-> image, signatures |-> sigs] \in State
        BY DEF Writing, State
      <4> QED BY <1>2, <4>1, <4>2, MetadataAssumption DEF Insert, WriteNew, MetaTypeOK
    <3>2. \A u \in Tasks : ~Owns(u, p)
      BY <3>1 DEF Safe, PathInv
    <3>3. CASE ok
      BY <1>1, <1>3, <2>1, <3>1, <3>3, NewUploadSafe DEF AlreadyDone, InProgress
    <3>4. CASE ~ok
      <4>1. UNCHANGED task
        BY <1>3, <3>4
      <4> QED BY <1>1, <3>1, <3>2, <3>4, <4>1 DEF PathInv, Safe, Owns, Acking
    <3> QED BY <3>3, <3>4
  <2>2. CASE AlreadyDone(p, image, sigs) /\ UNCHANGED task
    <3>1. /\ stateFile'[p].image = stateFile[p].image
          /\ UNCHANGED <<newFile, writing>>
          /\ stateFile[p] # None
      BY <1>2, <2>2 DEF AlreadyDone, MetaTypeOK
    <3> QED BY <1>1, <2>2, <3>1 DEF PathInv, Safe, Owns, Acking
  <2>3. CASE InProgress(p, image, sigs, ok) /\ UNCHANGED task
    <3>1. /\ writing[p] # None /\ writing'[p].image = writing[p].image
          /\ newFile'[p] = newFile[p]
               \/ (newFile'[p].image = writing[p].image /\ newFile'[p] # None)
          /\ stateFile' = stateFile /\ writing'[p] # None
      <4>1. /\ writing[p] # None /\ writing[p].image = image
            /\ writing[p].signatures \in SUBSET Sigs /\ writing[p].replacing \in BOOLEAN
        BY <1>2, <2>3 DEF InProgress, MetaTypeOK, Writing
      <4> DEFINE all == writing[p].signatures \cup sigs
                 r == writing[p].replacing
      <4>2. Insert(p, image, all, r, ok)
        BY <2>3 DEF InProgress
      <4>3. /\ [image |-> image, signatures |-> all, replacing |-> r] \in Writing
            /\ [image |-> image, signatures |-> all] \in State
        BY <4>1 DEF Writing, State
      <4> HIDE DEF all, r
      <4>4. writing'[p] # None /\ writing'[p].image = image /\ stateFile' = stateFile
        BY <1>2, <4>2, <4>3, MetadataAssumption DEF Insert, MetaTypeOK
      <4>5. newFile'[p] = newFile[p] \/ (newFile'[p].image = image /\ newFile'[p] # None)
        <5>1. newFile' = newFile \/ WriteNew(p, image, all)
          BY <4>2 DEF Insert
        <5>2. newFile' = [newFile EXCEPT ![p] = [image |-> image, signatures |-> all]] =>
                newFile'[p] = [image |-> image, signatures |-> all]
          BY <1>2 DEF MetaTypeOK
        <5>3. [image |-> image, signatures |-> all] # None
          BY <4>3, MetadataAssumption
        <5>4. CASE WriteNew(p, image, all)
          <6>1. newFile'[p] = [image |-> image, signatures |-> all]
            BY <5>2, <5>4 DEF WriteNew
          <6> QED BY <5>3, <6>1
        <5> QED BY <5>1, <5>4
      <4> QED BY <4>1, <4>4, <4>5
    <3>2. PathInv(p) /\ UNCHANGED <<task, dest, breached>>
      BY <1>1, <2>3 DEF Safe
    <3> QED BY <3>1, <3>2 DEF PathInv, Owns, Acking
  <2> QED BY <1>3, <2>1, <2>2, <2>3
<1> QED BY <1>4, <1>5 DEF Safe

\* The stages of a download touch the path of the task only.
LEMMA TaskStepSafe ==
  ASSUME TypeOK, Safe, NEW t \in Tasks, TaskStep(t)
  PROVE  Safe'
<1>p. PICK p : p = task[t].path
  OBVIOUS
<1>1. MetaTypeOK /\ dest \in [Paths -> Images \cup {None}] /\ task \in [Tasks -> TaskRecord]
  BY <1>p DEF TypeOK
<1>2. task[t].phase # "idle"
  BY <1>p DEF TaskStep, FetchStart, Fetched, Fail, CommitImage, CommitImageHalf,
     MetaCommitted, MetaAborted, TrackingDone
<1>3. p \in Paths /\ task[t].image \in Images
  BY <1>p, <1>1, <1>2 DEF TaskRecord, TaskIdle
<1>4. /\ \A u \in Tasks \ {t} : task'[u] = task[u]
      /\ task'[t].path = p \/ task'[t] = TaskIdle
  BY <1>p, <1>1, TaskChange DEF TaskStep, FetchStart, Fetched, Fail, CommitImage,
     CommitImageHalf, MetaCommitted, MetaAborted, TrackingDone, Phases, Owning
<1>5. ASSUME NEW q \in Paths, q # p PROVE PathInv(q)'
  <2>1. /\ stateFile'[q] = stateFile[q] /\ newFile'[q] = newFile[q]
        /\ writing'[q] = writing[q] /\ dest'[q] = dest[q]
        /\ q \in breached => q \in breached'
    BY <1>p, <1>1, <1>3, <1>5 DEF TaskStep, FetchStart, Fetched, Fail, CommitImage,
       CommitImageHalf, MetaCommitted, MetaAborted, TrackingDone,
       DirCommitted, DirAborted, metaVars, MetaTypeOK
  <2>2. \A u \in Tasks : task'[u] = task[u] \/ (~Owns(u, q) /\ ~Owns(u, q)')
    BY <1>p, <1>4, <1>5 DEF Owns, TaskIdle, Owning
  <2> QED BY <1>p, <2>1, <2>2, Frame DEF Safe
<1>6. PathInv(p)'
  <2>1. PathInv(p)
    BY <1>p, <1>3 DEF Safe
  <2>2. CASE \/ FetchStart(t) \/ Fetched(t) \/ Fail(t)
    <3>1. UNCHANGED <<metaVars, dest, breached>>
      BY <1>p, <2>2 DEF FetchStart, Fetched, Fail
    <3>2. /\ Owns(t, p) /\ Owns(t, p)' /\ task'[t].image = task[t].image
          /\ task'[t].phase # "acking" /\ task[t].phase # "acking"
      BY <1>p, <1>1, <2>2, TaskChange DEF FetchStart, Fetched, Fail, Owns, Owning, Phases
    <3>3. \A u \in Tasks : Owns(u, p)' <=> Owns(u, p)
      BY <1>p, <1>4, <3>2 DEF Owns
    <3>4. Acking(p)' <=> Acking(p)
      BY <1>p, <1>4, <3>2 DEF Acking
    <3> QED BY <1>p, <1>4, <2>1, <3>1, <3>2, <3>3, <3>4 DEF PathInv, metaVars
  <2>3. CASE CommitImage(t) \/ CommitImageHalf(t)
    <3>1. /\ UNCHANGED metaVars
          /\ dest'[p] = task[t].image
          /\ p \in breached => p \in breached'
      BY <1>p, <1>1, <1>3, <2>3 DEF CommitImage, CommitImageHalf
    <3>2. /\ Owns(t, p) /\ Owns(t, p)' /\ task'[t].image = task[t].image
          /\ task[t].phase = "commit"
          /\ task'[t].phase = "acking" \/ p \in breached'
      BY <1>p, <1>1, <2>3, TaskChange DEF CommitImage, CommitImageHalf, Owns, Owning, Phases
    <3>3. \A u \in Tasks : Owns(u, p)' => u = t
      BY <1>p, <1>4, <2>1, <3>2 DEF Owns, PathInv
    <3>4. Acking(p)' \/ p \in breached'
      BY <1>p, <1>4, <3>2 DEF Acking, Owns
    <3> QED BY <1>p, <1>4, <2>1, <3>1, <3>2, <3>3, <3>4 DEF PathInv, metaVars
  <2>4. CASE MetaCommitted(t) \/ MetaAborted(t)
    <3>1. /\ Owns(t, p) /\ ~Owns(t, p)' /\ dest' = dest
          /\ MetaCommitted(t) => task[t].phase = "acking"
          /\ MetaAborted(t) => task[t].phase = "aborting"
      BY <1>p, <1>1, <2>4, TaskChange DEF MetaCommitted, MetaAborted, Owns, Owning, Phases
    <3>2. \A u \in Tasks : ~Owns(u, p)'
      BY <1>p, <1>4, <2>1, <3>1 DEF PathInv, Owns
    <3>3. writing'[p] = None /\ (p \in breached => p \in breached')
      BY <1>p, <1>1, <1>3, <2>4 DEF MetaCommitted, MetaAborted, DirCommitted,
         DirAborted, MetaTypeOK
    <3>4. p \notin breached' =>
            \/ stateFile'[p] = newFile[p] /\ newFile[p] # None /\ task[t].phase = "acking"
            \/ stateFile'[p] = stateFile[p] /\ task[t].phase = "aborting"
      BY <1>p, <1>1, <1>3, <2>4, <3>1 DEF MetaCommitted, MetaAborted, DirCommitted,
         DirAborted, MetaTypeOK
    <3>5. ~Acking(p) <=> task[t].phase # "acking"
      BY <1>p, <2>1, <3>1 DEF PathInv, Acking, Owns, Owning
    <3> QED BY <1>p, <2>1, <3>1, <3>2, <3>3, <3>4, <3>5 DEF PathInv
  <2>5. CASE TrackingDone(t)
    <3>1. UNCHANGED <<metaVars, dest, breached>>
      BY <1>p, <2>5 DEF TrackingDone
    <3>2. ~Owns(t, p) /\ ~Owns(t, p)'
      BY <1>p, <1>1, <2>5 DEF TrackingDone, Owns, Owning, TaskIdle
    <3> QED BY <1>p, <1>3, <1>4, <2>1, <3>1, <3>2, Frame DEF metaVars
  <2> QED BY <1>p, <2>2, <2>3, <2>4, <2>5 DEF TaskStep
<1> QED BY <1>p, <1>5, <1>6 DEF Safe

\* A step that changes neither files, entries, directories nor tasks.
LEMMA QuietSafe ==
  ASSUME Safe, UNCHANGED <<stateFile, newFile, writing, dest, task, breached>>
  PROVE  Safe'
BY DEF Safe, PathInv, Owns, Acking

\* Scans, the cleanup and the resumption.
LEMMA BackgroundSafe ==
  ASSUME TypeOK, Safe,
         \/ \E s \in Scanners : ScanStep(s) \/ CleanStart(s) \/ BootScan(s)
         \/ CleanState \/ CleanImage \/ CleanImageFails \/ CleanDone \/ BootCheck
         \/ \E t \in Tasks : BootResume(t)
  PROVE  Safe'
<1>1. MetaTypeOK /\ dest \in [Paths -> Images \cup {None}]
  BY DEF TypeOK
<1>2. ASSUME NEW s \in Scanners,
             Rescan(s) \/ ScanRead(s) \/ ScanFinish(s) \/ CleanStart(s) \/ BootScan(s)
      PROVE  Safe'
  BY <1>2, QuietSafe DEF Rescan, ScanRead, ScanFinish, CleanStart, BootScan,
     ScanReadState, ScanCheckNew, ScanReadNew, ScanDone
<1>3. CASE CleanImageFails \/ CleanDone \/ BootCheck
  BY <1>3, QuietSafe DEF CleanImageFails, CleanDone, BootCheck, metaVars
<1>4. ASSUME NEW s \in Scanners, ScanRemove(s) PROVE Safe'
  <2>1. PICK p : p = scan[s].cur
    OBVIOUS
  <2>2. p \in Paths
    BY <1>1, <1>4, <2>1 DEF ScanRemove, ScanRemoveNew, MetaTypeOK, ScanRecord
  <2>3. UNCHANGED <<stateFile, writing, dest, task>>
    BY <1>4 DEF ScanRemove, ScanRemoveNew
  <2>4. /\ \A q \in Paths \ {p} : newFile'[q] = newFile[q]
        /\ \A q \in Paths : q \in breached => q \in breached'
        /\ \/ newFile'[p] = newFile[p]
           \/ newFile'[p] = None /\ (writing[p] = None \/ p \in breached')
    BY <1>1, <1>4, <2>1, <2>2 DEF ScanRemove, ScanRemoveNew, MetaTypeOK
  <2>5. ASSUME NEW q \in Paths, q # p \/ newFile'[p] = newFile[p] PROVE PathInv(q)'
    BY <2>3, <2>4, <2>5, Frame DEF Safe
  <2>6. ASSUME newFile'[p] = None, writing[p] = None \/ p \in breached'
        PROVE  PathInv(p)'
    BY <2>2, <2>3, <2>4, <2>6 DEF Safe, PathInv, Owns, Acking
  <2> QED BY <2>2, <2>4, <2>5, <2>6 DEF Safe
<1>5. CASE CleanState
  <2>1. CASE UNCHANGED metaVars
    BY <1>5, <2>1, QuietSafe DEF CleanState, metaVars
  <2>2. CASE ~UNCHANGED metaVars
    <3>1. PICK d \in cleaner.todo : RemoveStateFile(d[1])
      BY <1>5, <2>2 DEF CleanState
    <3>2. PICK p : p = d[1]
      OBVIOUS
    <3>3. p \in Paths
      BY <3>2 DEF TypeOK, CleanerRecord
    <3>4. /\ UNCHANGED <<newFile, writing, dest, task, breached>>
          /\ stateFile' = [stateFile EXCEPT ![p] = None]
      BY <1>5, <3>1, <3>2 DEF CleanState, RemoveStateFile
    <3>5. ASSUME NEW q \in Paths, q # p PROVE PathInv(q)'
      BY <1>1, <3>3, <3>4, <3>5, Frame DEF Safe, MetaTypeOK
    <3>6. PathInv(p)'
      BY <1>1, <3>3, <3>4 DEF Safe, PathInv, Owns, Acking, MetaTypeOK
    <3> QED BY <3>5, <3>6 DEF Safe
  <2> QED BY <2>1, <2>2
<1>6. CASE CleanImage
  <2>1. PICK p : p = cleaner.cur
    OBVIOUS
  <2>2. p \in Paths
    BY <1>6, <2>1 DEF CleanImage, TypeOK, CleanerRecord
  <2>3. /\ UNCHANGED <<stateFile, newFile, writing, task>>
        /\ dest' = [dest EXCEPT ![p] = None]
        /\ stateFile[p] # None \/ Acking(p) => p \in breached'
        /\ \A q \in Paths : q \in breached => q \in breached'
    BY <1>6, <2>1 DEF CleanImage, metaVars
  <2>4. ASSUME NEW q \in Paths, q # p PROVE PathInv(q)'
    BY <1>1, <2>2, <2>3, <2>4, Frame DEF Safe
  <2>5. PathInv(p)'
    BY <2>2, <2>3 DEF Safe, PathInv, Owns, Acking
  <2> QED BY <2>4, <2>5 DEF Safe
<1>7. ASSUME NEW t \in Tasks, BootResume(t) PROVE Safe'
  <2>1. PICK p : p = boot.missing
    OBVIOUS
  <2>2. p \in Paths /\ UNCHANGED <<dest, breached>>
    BY <1>7, <2>1 DEF BootResume, BootRecord, TypeOK
  <2>3. CASE ResumeUpload(p) /\ NewTask(t, p, newFile'[p].image)
    <3>1. PICK image : image = newFile'[p].image
      OBVIOUS
    <3>2. /\ newFile'[p] # None /\ writing'[p] # None
          /\ writing'[p].image = image /\ image \in Images
      BY <1>1, <2>2, <2>3, <3>1, ResumeTyped, MetadataAssumption DEF State
    <3>3. writing[p] = None /\ stateFile'[p] = None
      BY <1>1, <2>2, <2>3 DEF ResumeUpload, MetaTypeOK
    <3>4. PathInv(p)'
      BY <2>2, <2>3, <3>1, <3>2, <3>3, NewUploadSafe
    <3>5. ASSUME NEW q \in Paths, q # p PROVE PathInv(q)'
      <4>1. /\ stateFile'[q] = stateFile[q] /\ newFile'[q] = newFile[q]
            /\ writing'[q] = writing[q]
        BY <1>1, <2>2, <2>3, <3>5 DEF ResumeUpload, MetaTypeOK
      <4>2. /\ task[t].phase = "idle"
            /\ task'[t] = [phase |-> "accepted", path |-> p, image |-> image]
            /\ \A u \in Tasks \ {t} : task'[u] = task[u]
        BY <2>3, <3>1, TaskChange
      <4>3. \A u \in Tasks : task'[u] = task[u] \/ (~Owns(u, q) /\ ~Owns(u, q)')
        BY <3>5, <4>2 DEF Owns, Owning
      <4> QED BY <2>2, <4>1, <4>3, Frame DEF Safe
    <3> QED BY <3>4, <3>5 DEF Safe
  <2>4. CASE UNCHANGED <<metaVars, task>>
    BY <2>2, <2>4, QuietSafe DEF metaVars
  <2> QED BY <1>7, <2>1, <2>3, <2>4 DEF BootResume
<1> QED BY <1>2, <1>3, <1>4, <1>5, <1>6, <1>7 DEF ScanStep

\* After a restart nothing is being written, and every path where the crash or
\* the removal of a directory came at a bad time is marked.
LEMMA RestartSafe ==
  ASSUME TypeOK, Safe, NEW wiped \in SUBSET Wipeable, Restart(wiped)
  PROVE  Safe'
<1> SUFFICES ASSUME NEW p \in Paths PROVE PathInv(p)'
  BY DEF Safe
<1>1. \A t \in Tasks : ~Owns(t, p)'
  BY DEF Restart, Owns, Owning, TaskIdle
<1>2. /\ writing'[p] = None /\ stateFile'[p] = stateFile[p]
      /\ p \notin breached' =>
           p \notin breached /\ ~Acking(p) /\ dest'[p] = dest[p]
  BY DEF Restart
<1> QED BY <1>1, <1>2 DEF Safe, PathInv

\* One download per path, the one metadata knows of; `.state` tells what the
\* directory holds wherever none of the listed accidents happened; and a
\* running upload keeps its own `.new.state` and never redoes what is there.
THEOREM Safety == Spec => [](OneWriter /\ StateDescribesDir /\ UploadIntact)
<1>1. Init => Safe
  <2> SUFFICES ASSUME Init, NEW p \in Paths PROVE PathInv(p)
    BY DEF Safe
  <2>1. \A t \in Tasks : ~Owns(t, p)
    BY DEF Init, Owns, Owning, TaskIdle
  <2>2. writing[p] = None /\ stateFile[p] = None
    BY DEF Init, MetaInit
  <2> QED BY <2>1, <2>2 DEF PathInv
<1>2. TypeOK /\ Safe /\ [Next]_vars => Safe'
  <2> SUFFICES ASSUME TypeOK, Safe, [Next]_vars PROVE Safe'
    OBVIOUS
  <2>1. CASE Request
    BY <2>1, RequestSafe DEF Request
  <2>2. ASSUME NEW t \in Tasks, TaskStep(t) PROVE Safe'
    BY <2>2, TaskStepSafe
  <2>3. CASE \/ \E s \in Scanners : ScanStep(s) \/ CleanStart(s) \/ BootScan(s)
             \/ CleanState \/ CleanImage \/ CleanImageFails \/ CleanDone \/ BootCheck
             \/ \E t \in Tasks : BootResume(t)
    BY <2>3, BackgroundSafe
  <2>4. ASSUME NEW wiped \in SUBSET Wipeable, Crash(wiped) PROVE Safe'
    BY <2>4, RestartSafe DEF Crash
  <2>6. CASE RescanPanics
    BY <2>6, RestartSafe DEF RescanPanics
  <2>5. CASE UNCHANGED vars
    BY <2>5, QuietSafe DEF vars, metaVars
  <2> QED BY <2>1, <2>2, <2>3, <2>4, <2>5, <2>6 DEF Next
<1>3. Safe => OneWriter /\ StateDescribesDir /\ UploadIntact
  BY SafeIs
<1> QED BY <1>1, <1>2, <1>3, Typing, PTL DEF Spec

-----------------------------------------------------------------------------
(* What the steps may do to `.state` and to the directories.               *)

\* Only a commit puts another image into `.state`, only a repeated request
\* changes its signatures, and only a download puts something on disk.
LEMMA StateFileSteps ==
  ASSUME TypeOK, [Next]_vars, NEW p \in Paths
  PROVE  /\ \/ stateFile'[p] \in {stateFile[p], None}
            \/ /\ writing[p] = None /\ stateFile[p] # None
               /\ stateFile'[p].image = stateFile[p].image
               /\ stateFile[p].signatures \subseteq stateFile'[p].signatures
            \/ \E t \in Tasks : Owns(t, p) /\ stateFile'[p] = newFile[p] /\ newFile[p] # None
         /\ \/ dest'[p] \in {dest[p], None}
            \/ \E t \in Tasks : Owns(t, p)
<1> USE DEF MetaTypeOK
<1>1. MetaTypeOK /\ dest \in [Paths -> Images \cup {None}] /\ task \in [Tasks -> TaskRecord]
  BY DEF TypeOK
<1>2. ASSUME NEW q \in Paths, NEW image \in Images, NEW sigs \in SUBSET Sigs,
             NEW t \in Tasks, NEW old,
             AppendDir(q, image, sigs, t) \/ ReplaceDir(q, image, old, sigs, t)
      PROVE  /\ dest' = dest
             /\ \/ stateFile' = stateFile
                \/ AlreadyDone(q, image, sigs)
  BY <1>2 DEF AppendDir, ReplaceDir, AppendNew, ReplaceNew, InProgress, Insert
<1>3. ASSUME NEW q \in Paths, NEW image \in Images, NEW sigs \in SUBSET Sigs,
             AlreadyDone(q, image, sigs)
      PROVE  \/ stateFile'[p] = stateFile[p]
             \/ /\ writing[p] = None /\ stateFile[p] # None
                /\ stateFile'[p].image = stateFile[p].image
                /\ stateFile[p].signatures \subseteq stateFile'[p].signatures
  BY <1>1, <1>3 DEF AlreadyDone
<1>4. CASE Request
  BY <1>2, <1>3, <1>4 DEF Request
<1>5. ASSUME NEW t \in Tasks, TaskStep(t)
      PROVE  /\ \/ stateFile'[p] = stateFile[p]
                \/ Owns(t, p) /\ stateFile'[p] = newFile[p] /\ newFile[p] # None
             /\ dest'[p] = dest[p] \/ Owns(t, p)
  <2>1. CASE CommitImage(t) \/ CommitImageHalf(t)
    BY <1>1, <2>1 DEF CommitImage, CommitImageHalf, metaVars, Owns, Owning
  <2>2. CASE MetaCommitted(t)
    BY <1>1, <2>2 DEF MetaCommitted, DirCommitted, Owns, Owning
  <2>3. CASE FetchStart(t) \/ Fetched(t) \/ Fail(t) \/ MetaAborted(t) \/ TrackingDone(t)
    BY <2>3 DEF FetchStart, Fetched, Fail, MetaAborted, TrackingDone,
       DirAborted, metaVars
  <2> QED BY <1>5, <2>1, <2>2, <2>3 DEF TaskStep
<1>6. ASSUME NEW s \in Scanners, ScanStep(s) \/ CleanStart(s) \/ BootScan(s)
      PROVE  UNCHANGED <<stateFile, dest>>
  BY <1>6 DEF ScanStep, CleanStart, BootScan, Rescan, ScanRead, ScanRemove,
     ScanFinish, ScanReadState, ScanCheckNew, ScanReadNew, ScanRemoveNew, ScanDone
<1>7. CASE CleanState \/ CleanImage \/ CleanImageFails \/ CleanDone \/ BootCheck
  BY <1>1, <1>7 DEF CleanState, CleanImage, CleanImageFails, CleanDone, BootCheck,
     RemoveStateFile, metaVars
<1>8. ASSUME NEW t \in Tasks, BootResume(t)
      PROVE  dest' = dest /\ stateFile'[p] \in {stateFile[p], None}
  BY <1>1, <1>8 DEF BootResume, ResumeUpload, metaVars
<1>9. ASSUME NEW wiped \in SUBSET Wipeable, Crash(wiped) \/ RescanPanics
      PROVE  stateFile' = stateFile /\ dest'[p] \in {dest[p], None}
  BY <1>9 DEF Crash, RescanPanics, Restart
<1>10. CASE UNCHANGED vars
  BY <1>10 DEF vars, metaVars
<1> QED BY <1>4, <1>5, <1>6, <1>7, <1>8, <1>9, <1>10 DEF Next

\* append-only: while a directory is published its image is not exchanged,
\* in metadata or on disk.  It rests on UploadIntact: nothing is being
\* written into a published append-only directory.
THEOREM AppendOnlySafe == Spec => AppendOnlyKept
<1>1. ASSUME TypeOK, Safe, [Next]_vars, NEW p \in AppendOnly,
             stateFile[p] # None, stateFile'[p] # None
      PROVE  /\ stateFile'[p].image = stateFile[p].image
             /\ dest'[p] \in {dest[p], None}
  <2>1. p \in Paths
    BY MetadataAssumption
  <2>2. \A t \in Tasks : ~Owns(t, p)
    BY <1>1, <2>1 DEF Safe, PathInv
  <2> QED BY <1>1, <2>1, <2>2, StateFileSteps
<1>2. TypeOK /\ Safe /\ [Next]_vars =>
        [\A p \in AppendOnly : stateFile[p] # None /\ stateFile'[p] # None =>
           /\ stateFile'[p].image = stateFile[p].image
           /\ dest'[p] \in {dest[p], None}]_vars
  BY <1>1
<1>3. OneWriter /\ StateDescribesDir /\ UploadIntact => Safe
  BY SafeIs
<1> QED BY <1>2, <1>3, Typing, Safety, PTL DEF Spec, AppendOnlyKept

\* While an image stays published its signatures are only added to: the
\* commit of another upload brings another image.
THEOREM SignaturesSafe == Spec => SignaturesGrow
<1>1. ASSUME TypeOK, Safe, [Next]_vars, NEW p \in Paths,
             stateFile[p] # None, stateFile'[p] # None,
             stateFile'[p].image = stateFile[p].image
      PROVE  stateFile[p].signatures \subseteq stateFile'[p].signatures
  <2>1. ASSUME NEW t \in Tasks, Owns(t, p), stateFile'[p] = newFile[p], newFile[p] # None
        PROVE  FALSE
    BY <1>1, <2>1 DEF Safe, PathInv
  <2> QED BY <1>1, <2>1, StateFileSteps
<1>2. TypeOK /\ Safe /\ [Next]_vars =>
        [\A p \in Paths :
           stateFile[p] # None /\ stateFile'[p] # None
             /\ stateFile'[p].image = stateFile[p].image
           => stateFile[p].signatures \subseteq stateFile'[p].signatures]_vars
  BY <1>1
<1>3. OneWriter /\ StateDescribesDir /\ UploadIntact => Safe
  BY SafeIs
<1> QED BY <1>2, <1>3, Typing, Safety, PTL DEF Spec, SignaturesGrow

-----------------------------------------------------------------------------
(* The table of downloads and the signatures.                              *)

\* State::in_progress holds no download that has ended or not begun.  By
\* itself inductive: a task is entered when it begins, and its path does not
\* change until the entry is taken out.
THEOREM InProgressSafe == Spec => []InProgressIsLive
<1>1. Init => InProgressIsLive
  BY DEF Init, InProgressIsLive
<1>2. TypeOK /\ InProgressIsLive /\ [Next]_vars => InProgressIsLive'
  <2> SUFFICES ASSUME TypeOK, InProgressIsLive, [Next]_vars PROVE InProgressIsLive'
    OBVIOUS
  <2>t. /\ task \in [Tasks -> TaskRecord] /\ inProgress \in [Paths -> Tasks \cup {None}]
        /\ boot \in BootRecord
    BY DEF TypeOK
  <2>1. ASSUME NEW t \in Tasks, NEW p \in Paths, NEW image, NewTask(t, p, image),
               UNCHANGED inProgress
        PROVE  InProgressIsLive'
    <3>1. /\ task[t].phase = "idle"
          /\ \A u \in Tasks \ {t} : task'[u] = task[u]
      BY <2>1, TaskChange
    <3>2. \A q \in Paths : inProgress[q] # None => inProgress[q] \in Tasks \ {t}
      BY <2>t, <3>1 DEF InProgressIsLive
    <3> QED BY <2>1, <3>1, <3>2 DEF InProgressIsLive
  <2>2. ASSUME UNCHANGED <<task, inProgress>> PROVE InProgressIsLive'
    BY <2>2 DEF InProgressIsLive
  <2>3. CASE Request
    <3>1. PICK p \in Paths, image \in Images, sigs \in SUBSET Sigs, t \in Tasks :
            \/ AppendDir(p, image, sigs, t)
            \/ \E old \in Images \cup {None} : ReplaceDir(p, image, old, sigs, t)
      BY <2>3 DEF Request
    <3>2. /\ UNCHANGED inProgress
          /\ NewTask(t, p, image) \/ UNCHANGED task
      BY <3>1 DEF AppendDir, ReplaceDir
    <3> QED BY <2>1, <2>2, <3>2
  <2>4. ASSUME NEW t \in Tasks, TaskStep(t) PROVE InProgressIsLive'
    <3>1. CASE FetchStart(t)
      <4>1. /\ task[t].phase = "accepted" /\ task'[t].phase = "fetch"
            /\ task'[t].path = task[t].path
            /\ \A u \in Tasks \ {t} : task'[u] = task[u]
        BY <3>1, TaskChange DEF FetchStart, Phases, Owning
      <4>2. \A q \in Paths : inProgress'[q] = t \/ inProgress'[q] = inProgress[q]
        BY <2>t, <3>1 DEF FetchStart
      <4>3. \A q \in Paths : inProgress'[q] = t => q = task[t].path
        BY <2>t, <3>1, <4>1 DEF FetchStart, InProgressIsLive
      <4> QED BY <2>t, <4>1, <4>2, <4>3 DEF InProgressIsLive
    <3>2. CASE Fetched(t) \/ Fail(t) \/ CommitImage(t) \/ CommitImageHalf(t)
               \/ MetaCommitted(t) \/ MetaAborted(t)
      <4>1. /\ inProgress' = inProgress
            /\ task'[t].phase \notin {"idle", "accepted"}
            /\ task'[t].path = task[t].path
            /\ \A u \in Tasks \ {t} : task'[u] = task[u]
        BY <3>2, TaskChange DEF Fetched, Fail, CommitImage, CommitImageHalf,
           MetaCommitted, MetaAborted, Phases, Owning
      <4> QED BY <2>t, <4>1 DEF InProgressIsLive
    <3>3. CASE TrackingDone(t)
      <4>1. /\ \A u \in Tasks \ {t} : task'[u] = task[u]
            /\ inProgress' = [inProgress EXCEPT ![task[t].path] = None]
        BY <2>t, <3>3 DEF TrackingDone
      <4>2. \A q \in Paths : inProgress'[q] # None =>
              inProgress'[q] = inProgress[q] /\ q # task[t].path
        BY <2>t, <4>1
      <4> QED BY <2>t, <4>1, <4>2 DEF InProgressIsLive
    <3> QED BY <2>4, <3>1, <3>2, <3>3 DEF TaskStep
  <2>5. ASSUME NEW t \in Tasks, BootResume(t) PROVE InProgressIsLive'
    <3>1. boot.missing \in Paths
      BY <2>t, <2>5 DEF BootResume, BootRecord
    <3> QED BY <2>1, <2>2, <2>5, <3>1 DEF BootResume
  <2>6. CASE \/ \E s \in Scanners : ScanStep(s) \/ CleanStart(s) \/ BootScan(s)
             \/ CleanState \/ CleanImage \/ CleanImageFails \/ CleanDone \/ BootCheck
    BY <2>2, <2>6 DEF ScanStep, Rescan, ScanRead, ScanRemove, ScanFinish, CleanStart,
       BootScan, CleanState, CleanImage, CleanImageFails, CleanDone, BootCheck
  <2>7. ASSUME NEW wiped \in SUBSET Wipeable, Crash(wiped) \/ RescanPanics
        PROVE  InProgressIsLive'
    BY <2>7 DEF Crash, RescanPanics, Restart, InProgressIsLive
  <2>8. CASE UNCHANGED vars
    BY <2>2, <2>8 DEF vars
  <2> QED BY <2>3, <2>4, <2>5, <2>6, <2>7, <2>8 DEF Next
<1> QED BY <1>1, <1>2, Typing, PTL DEF Spec

\* What a step may put into the two files of a path: what one of them had
\* before, or the signatures of a request that was acceptable, or more.
LEMMA FileSteps ==
  ASSUME TypeOK, [Next]_vars, NEW p \in Paths,
         NEW file, file \in {stateFile'[p], newFile'[p]} \ {None}
  PROVE  \/ file \in {stateFile[p], newFile[p]}
         \/ \E sigs \in SUBSET Sigs : Acceptable(p, sigs) /\ sigs \subseteq file.signatures
<1>1. MetaTypeOK
  BY DEF TypeOK
<1>2. ASSUME NEW q \in Paths, NEW image \in Images, NEW sigs \in SUBSET Sigs,
             NEW t \in Tasks, NEW old,
             AppendDir(q, image, sigs, t) \/ ReplaceDir(q, image, old, sigs, t)
      PROVE  \/ file \in {stateFile[p], newFile[p]}
             \/ Acceptable(p, sigs) /\ sigs \subseteq file.signatures
  <2>1. PICK all : /\ Acceptable(q, sigs) /\ sigs \subseteq all
                   /\ \/ newFile' = newFile
                      \/ newFile' = [newFile EXCEPT ![q] = [image |-> image, signatures |-> all]]
                   /\ \/ stateFile' = stateFile
                      \/ stateFile' = [stateFile EXCEPT ![q] = [image |-> image, signatures |-> all]]
    <3>1. ASSUME NEW ok, NEW r, NEW all, sigs \subseteq all, Acceptable(q, sigs),
                 Insert(q, image, all, r, ok)
          PROVE  /\ Acceptable(q, sigs) /\ sigs \subseteq all
                 /\ \/ newFile' = newFile
                    \/ newFile' = [newFile EXCEPT ![q] = [image |-> image, signatures |-> all]]
                 /\ stateFile' = stateFile
      BY <3>1 DEF Insert, WriteNew
    <3>2. \/ \E ok \in BOOLEAN :
               \/ AppendNew(q, image, sigs, ok) \/ ReplaceNew(q, image, old, sigs, ok)
               \/ InProgress(q, image, sigs, ok)
          \/ AlreadyDone(q, image, sigs)
      BY <1>2 DEF AppendDir, ReplaceDir
    <3>3. CASE AlreadyDone(q, image, sigs)
      BY <3>3 DEF AlreadyDone
    <3>4. ASSUME NEW ok, AppendNew(q, image, sigs, ok) \/ ReplaceNew(q, image, old, sigs, ok)
          PROVE  /\ Acceptable(q, sigs)
                 /\ \/ newFile' = newFile
                    \/ newFile' = [newFile EXCEPT ![q] = [image |-> image, signatures |-> sigs]]
                 /\ stateFile' = stateFile
      BY <3>1, <3>4 DEF AppendNew, ReplaceNew
    <3>5. ASSUME NEW ok, InProgress(q, image, sigs, ok)
          PROVE  LET all == writing[q].signatures \cup sigs IN
                 /\ Acceptable(q, sigs)
                 /\ \/ newFile' = newFile
                    \/ newFile' = [newFile EXCEPT ![q] = [image |-> image, signatures |-> all]]
                 /\ stateFile' = stateFile
      BY <3>1, <3>5 DEF InProgress
    <3> QED BY <3>2, <3>3, <3>4, <3>5
  <2> QED BY <1>1, <2>1 DEF MetaTypeOK
<1>3. CASE Request
  BY <1>2, <1>3 DEF Request
<1> USE DEF MetaTypeOK
<1>4. ASSUME NEW t \in Tasks, TaskStep(t) PROVE file \in {stateFile[p], newFile[p]}
  BY <1>1, <1>4 DEF TaskStep, FetchStart, Fetched, Fail, CommitImage, CommitImageHalf,
     MetaCommitted, MetaAborted, TrackingDone, DirCommitted, DirAborted, metaVars
<1>5. ASSUME NEW s \in Scanners, ScanStep(s) \/ CleanStart(s) \/ BootScan(s)
      PROVE  file \in {stateFile[p], newFile[p]}
  BY <1>1, <1>5 DEF ScanStep, CleanStart, BootScan, Rescan, ScanRead, ScanRemove,
     ScanFinish, ScanReadState, ScanCheckNew, ScanReadNew, ScanRemoveNew, ScanDone
<1>6. CASE CleanState \/ CleanImage \/ CleanImageFails \/ CleanDone \/ BootCheck
  BY <1>1, <1>6 DEF CleanState, CleanImage, CleanImageFails, CleanDone, BootCheck,
     RemoveStateFile, metaVars
<1>7. ASSUME NEW t \in Tasks, BootResume(t) PROVE file \in {stateFile[p], newFile[p]}
  BY <1>1, <1>7 DEF BootResume, ResumeUpload, metaVars
<1>8. ASSUME NEW wiped \in SUBSET Wipeable, Crash(wiped) \/ RescanPanics
      PROVE  file \in {stateFile[p], newFile[p]}
  BY <1>8 DEF Crash, RescanPanics, Restart
<1>9. CASE UNCHANGED vars
  BY <1>9 DEF vars, metaVars
<1> QED BY <1>3, <1>4, <1>5, <1>6, <1>7, <1>8, <1>9 DEF Next

\* Every file was accepted on a signature of a configured key, through every
\* merge of signatures, commit and resumption.
THEOREM VouchedSafe == Spec => []Vouched
<1>1. Init => Vouched
  BY DEF Init, MetaInit, Vouched
<1>2. TypeOK /\ Vouched /\ [Next]_vars => Vouched'
  BY FileSteps DEF Vouched, Acceptable
<1> QED BY <1>1, <1>2, Typing, PTL DEF Spec

-----------------------------------------------------------------------------
(* Refinement.  A step of the node changes the published and the uploading *)
(* image of at most one path, unless it is a restart; LifeOf(p) lists what *)
(* it may do there.                                                        *)

LifeOf(p) ==
  \/ Published'[p] = Published[p] /\ Uploading'[p] = Uploading[p]
  \/ /\ Uploading[p] = None /\ Uploading'[p] \in Images
     /\ Published'[p] = Published[p] /\ Published[p] # Uploading'[p]
     /\ p \in AppendOnly => Published[p] = None
  \/ /\ Uploading[p] # None /\ Uploading'[p] = None
     /\ Published'[p] \in {Published[p], Uploading[p]}
  \/ /\ Uploading[p] = None /\ Published[p] # None
     /\ Uploading'[p] = Published[p] /\ Published'[p] = None
  \/ /\ Uploading[p] = None /\ Published'[p] = None /\ Uploading'[p] = None

Same(p) == Published'[p] = Published[p] /\ Uploading'[p] = Uploading[p]

\* The values of the two functions, before and after a step.
LEMMA LifeValues ==
  ASSUME NEW p \in Paths
  PROVE  /\ Published[p] = ImageOf(stateFile[p]) /\ Uploading[p] = ImageOf(writing[p])
         /\ Published'[p] = ImageOf(stateFile'[p]) /\ Uploading'[p] = ImageOf(writing'[p])
BY DEF Published, Uploading, ImageOf

\* One path moves as LifeOf says and the others stay: a step of PathLife.
LEMMA LifeAt ==
  ASSUME NEW p \in Paths, LifeOf(p), \A q \in Paths \ {p} : Same(q)
  PROVE  [PL!Next]_(PL!lifeVars)
<1> USE DEF Same
<1>1. ASSUME NEW x, Published'[p] = x PROVE Published' = [Published EXCEPT ![p] = x]
  BY <1>1 DEF Published
<1>2. ASSUME NEW x, Uploading'[p] = x PROVE Uploading' = [Uploading EXCEPT ![p] = x]
  BY <1>2 DEF Uploading
<1>3. Published'[p] = Published[p] => Published' = Published
  BY DEF Published
<1>4. Uploading'[p] = Uploading[p] => Uploading' = Uploading
  BY DEF Uploading
<1>5. CASE Same(p)
  BY <1>3, <1>4, <1>5 DEF PL!lifeVars
<1>6. CASE /\ Uploading[p] = None /\ Uploading'[p] \in Images
           /\ Published'[p] = Published[p] /\ Published[p] # Uploading'[p]
           /\ p \in AppendOnly => Published[p] = None
  <2>1. PL!Begin(p, Uploading'[p])
    BY <1>2, <1>3, <1>6 DEF PL!Begin
  <2> QED BY <1>6, <2>1 DEF PL!Next
<1>7. CASE /\ Uploading[p] # None /\ Uploading'[p] = None
           /\ Published'[p] \in {Published[p], Uploading[p]}
  <2>1. PL!Publish(p) \/ PL!GiveUp(p)
    BY <1>1, <1>2, <1>3, <1>7 DEF PL!Publish, PL!GiveUp
  <2> QED BY <2>1 DEF PL!Next
<1>8. CASE /\ Uploading[p] = None /\ Published[p] # None
           /\ Uploading'[p] = Published[p] /\ Published'[p] = None
  <2>1. PL!Withdraw(p)
    BY <1>1, <1>2, <1>8 DEF PL!Withdraw
  <2> QED BY <2>1 DEF PL!Next
<1>9. CASE Uploading[p] = None /\ Published'[p] = None /\ Uploading'[p] = None
  <2>1. PL!Remove(p)
    BY <1>1, <1>4, <1>9 DEF PL!Remove
  <2> QED BY <2>1 DEF PL!Next
<1> QED BY <1>5, <1>6, <1>7, <1>8, <1>9 DEF LifeOf

\* Requests begin an upload or change nothing a reader sees.
LEMMA RequestLife ==
  ASSUME TypeOK, NEW p \in Paths, NEW image \in Images,
         NEW sigs \in SUBSET Sigs, NEW t \in Tasks, NEW old,
         AppendDir(p, image, sigs, t) \/ ReplaceDir(p, image, old, sigs, t)
  PROVE  LifeOf(p) /\ \A q \in Paths \ {p} : Same(q)
<1>1. MetaTypeOK
  BY DEF TypeOK
<1>2. PICK ok \in BOOLEAN :
        \/ AppendNew(p, image, sigs, ok) \/ ReplaceNew(p, image, old, sigs, ok)
        \/ AlreadyDone(p, image, sigs) \/ InProgress(p, image, sigs, ok)
  BY DEF AppendDir, ReplaceDir
<1>3. \A q \in Paths \ {p} : stateFile'[q] = stateFile[q] /\ writing'[q] = writing[q]
  BY <1>1, <1>2 DEF AppendNew, ReplaceNew, AlreadyDone, InProgress, Insert, MetaTypeOK
<1>4. ASSUME NEW all \in SUBSET Sigs, NEW r \in BOOLEAN, Insert(p, image, all, r, ok)
      PROVE  stateFile' = stateFile /\ ImageOf(writing'[p]) = image /\ writing'[p] # None
  <2>1. [image |-> image, signatures |-> all, replacing |-> r] \in Writing
    BY DEF Writing
  <2>2. writing'[p] = [image |-> image, signatures |-> all, replacing |-> r]
    BY <1>1, <1>4 DEF Insert, MetaTypeOK
  <2> QED BY <1>4, <2>1, <2>2, MetadataAssumption DEF Insert, ImageOf
<1>5. CASE AppendNew(p, image, sigs, ok) \/ ReplaceNew(p, image, old, sigs, ok)
  <2>1. /\ stateFile' = stateFile /\ ImageOf(writing'[p]) = image
        /\ writing[p] = None
        /\ stateFile[p] # None => p \notin AppendOnly /\ stateFile[p].image # image
    BY <1>4, <1>5 DEF AppendNew, ReplaceNew
  <2>2. LifeOf(p)
    BY <2>1, LifeValues, MetadataAssumption DEF LifeOf, ImageOf
  <2> QED BY <1>3, <2>2, LifeValues DEF Same
<1>6. CASE AlreadyDone(p, image, sigs)
  <2>1. /\ writing' = writing /\ stateFile[p] # None /\ stateFile[p].image = image
        /\ stateFile'[p] = [image |-> image,
                             signatures |-> stateFile[p].signatures \cup sigs]
    BY <1>1, <1>6 DEF AlreadyDone, MetaTypeOK
  <2>2. stateFile'[p] \in State
    BY <1>1, <2>1 DEF MetaTypeOK, State
  <2>3. ImageOf(stateFile'[p]) = ImageOf(stateFile[p])
    BY <2>1, <2>2, MetadataAssumption DEF ImageOf
  <2> QED BY <1>3, <2>1, <2>3, LifeValues DEF Same, LifeOf
<1>7. CASE InProgress(p, image, sigs, ok)
  <2>1. /\ writing[p] # None /\ writing[p].image = image
        /\ writing[p].signatures \cup sigs \in SUBSET Sigs /\ writing[p].replacing \in BOOLEAN
    BY <1>1, <1>7 DEF InProgress, MetaTypeOK, Writing
  <2>2. stateFile' = stateFile /\ ImageOf(writing'[p]) = image
    BY <1>4, <1>7, <2>1 DEF InProgress
  <2> QED BY <1>3, <2>1, <2>2, LifeValues DEF Same, LifeOf, ImageOf
<1> QED BY <1>2, <1>5, <1>6, <1>7

\* A task publishes its image, gives up, or does nothing a reader sees.
LEMMA TaskStepLife ==
  ASSUME TypeOK, Safe, NEW t \in Tasks, TaskStep(t)
  PROVE  [PL!Next]_(PL!lifeVars)
<1>1. MetaTypeOK /\ task \in [Tasks -> TaskRecord]
  BY DEF TypeOK
<1>2. CASE UNCHANGED <<stateFile, writing>>
  BY <1>2 DEF PL!lifeVars, Published, Uploading, ImageOf
<1>3. CASE MetaCommitted(t) \/ MetaAborted(t)
  <2>1. PICK p : p = task[t].path
    OBVIOUS
  <2>2. p \in Paths /\ Owns(t, p)
    BY <1>1, <1>3, <2>1 DEF MetaCommitted, MetaAborted, Owns, Owning, TaskRecord, TaskIdle
  <2>3. /\ writing[p] # None /\ writing[p].image = task[t].image
        /\ newFile[p] # None => newFile[p].image = task[t].image
    BY <2>2 DEF Safe, PathInv
  <2>4. /\ writing'[p] = None
        /\ \/ stateFile'[p] = stateFile[p]
           \/ stateFile'[p] = newFile[p] /\ newFile[p] # None
        /\ \A q \in Paths \ {p} : stateFile'[q] = stateFile[q] /\ writing'[q] = writing[q]
    BY <1>1, <1>3, <2>1, <2>2 DEF MetaCommitted, MetaAborted, DirCommitted, DirAborted,
       MetaTypeOK
  <2>5. writing[p].image # None
    BY <1>1, <2>2, <2>3, MetadataAssumption DEF MetaTypeOK, Writing
  <2>6. LifeOf(p)
    BY <2>2, <2>3, <2>4, <2>5, LifeValues DEF LifeOf, ImageOf
  <2>7. \A q \in Paths \ {p} : Same(q)
    BY <2>4, LifeValues DEF Same
  <2> QED BY <2>2, <2>6, <2>7, LifeAt
<1>4. FetchStart(t) \/ Fetched(t) \/ Fail(t) \/ CommitImage(t) \/ CommitImageHalf(t)
        \/ TrackingDone(t) => UNCHANGED <<stateFile, writing>>
  BY DEF FetchStart, Fetched, Fail, CommitImage, CommitImageHalf, TrackingDone, metaVars
<1> QED BY <1>2, <1>3, <1>4 DEF TaskStep

\* Cleanup removes, resumption withdraws, scans change nothing.
LEMMA BackgroundLife ==
  ASSUME TypeOK,
         \/ \E s \in Scanners : ScanStep(s) \/ CleanStart(s) \/ BootScan(s)
         \/ CleanState \/ CleanImage \/ CleanImageFails \/ CleanDone \/ BootCheck
         \/ \E t \in Tasks : BootResume(t)
  PROVE  [PL!Next]_(PL!lifeVars)
<1>1. MetaTypeOK /\ boot \in BootRecord /\ cleaner \in CleanerRecord
  BY DEF TypeOK
<1>2. CASE UNCHANGED <<stateFile, writing>>
  BY <1>2 DEF PL!lifeVars, Published, Uploading, ImageOf
<1>3. ASSUME NEW p \in Paths, RemoveStateFile(p) PROVE [PL!Next]_(PL!lifeVars)
  <2>1. /\ writing[p] = None /\ writing' = writing /\ stateFile'[p] = None
        /\ \A q \in Paths \ {p} : stateFile'[q] = stateFile[q]
    BY <1>1, <1>3 DEF RemoveStateFile, Removable, MetaTypeOK
  <2>2. LifeOf(p) /\ \A q \in Paths \ {p} : Same(q)
    BY <2>1, LifeValues DEF LifeOf, Same, ImageOf
  <2> QED BY <2>2, LifeAt
<1>4. ASSUME NEW p \in Paths, ResumeUpload(p) PROVE [PL!Next]_(PL!lifeVars)
  <2>1. PICK file \in {stateFile[p], newFile[p]} \ {None} :
          /\ stateFile[p] # None => file = stateFile[p]
          /\ writing' = [writing EXCEPT ![p] =
                [image |-> file.image, signatures |-> file.signatures, replacing |-> FALSE]]
    BY <1>4 DEF ResumeUpload
  <2>2. file \in State
    BY <1>1 DEF MetaTypeOK
  <2>3. /\ writing'[p] = [image |-> file.image, signatures |-> file.signatures,
                           replacing |-> FALSE]
        /\ writing'[p] \in Writing
    BY <1>1, <2>1, <2>2 DEF MetaTypeOK, State, Writing
  <2>4. ImageOf(writing'[p]) = file.image /\ file.image \in Images
    <3>1. writing'[p] # None
      BY <2>3, MetadataAssumption
    <3>2. writing'[p].image = file.image
      BY <2>3
    <3> QED BY <2>2, <3>1, <3>2 DEF ImageOf, State
  <2>5. /\ writing[p] = None /\ stateFile'[p] = None
        /\ \A q \in Paths \ {p} : stateFile'[q] = stateFile[q] /\ writing'[q] = writing[q]
    BY <1>1, <1>4, <2>1 DEF ResumeUpload, MetaTypeOK
  <2>6. file.image # None
    BY <2>4, MetadataAssumption
  <2>7. LifeOf(p)
    <3>1. CASE stateFile[p] = None
      BY <2>4, <2>5, <2>6, <3>1, LifeValues DEF LifeOf, ImageOf
    <3>2. CASE stateFile[p] # None
      BY <2>1, <2>4, <2>5, <2>6, <3>2, LifeValues DEF LifeOf, ImageOf
    <3> QED BY <3>1, <3>2
  <2>8. \A q \in Paths \ {p} : Same(q)
    BY <2>5, LifeValues DEF Same
  <2> QED BY <2>7, <2>8, LifeAt
<1>5. ASSUME NEW s \in Scanners, ScanStep(s) \/ CleanStart(s) \/ BootScan(s)
      PROVE  UNCHANGED <<stateFile, writing>>
  BY <1>5 DEF ScanStep, CleanStart, BootScan, Rescan, ScanRead, ScanRemove, ScanFinish,
     ScanReadState, ScanCheckNew, ScanReadNew, ScanRemoveNew, ScanDone
<1>6. CASE CleanState
  <2>1. PICK d \in cleaner.todo : RemoveStateFile(d[1]) \/ UNCHANGED metaVars
    BY <1>6 DEF CleanState
  <2>2. d[1] \in Paths
    BY <1>1 DEF CleanerRecord
  <2> QED BY <1>2, <1>3, <2>1, <2>2 DEF metaVars
<1>7. CleanImage \/ CleanImageFails \/ CleanDone \/ BootCheck => UNCHANGED <<stateFile, writing>>
  BY DEF CleanImage, CleanImageFails, CleanDone, BootCheck, metaVars
<1>8. ASSUME NEW t \in Tasks, BootResume(t) PROVE [PL!Next]_(PL!lifeVars)
  <2>1. boot.missing \in Paths
    BY <1>1, <1>8 DEF BootResume, BootRecord
  <2>2. ResumeUpload(boot.missing) \/ UNCHANGED metaVars
    BY <1>8 DEF BootResume
  <2> QED BY <1>2, <1>4, <2>1, <2>2 DEF metaVars
<1> QED BY <1>2, <1>5, <1>6, <1>7, <1>8

\* A restart forgets the uploads.
LEMMA RestartLife ==
  ASSUME NEW wiped, Restart(wiped)
  PROVE  [PL!Next]_(PL!lifeVars)
<1>1. Published' = Published
  BY DEF Restart, Published, ImageOf
<1>2. Uploading' = [p \in Paths |-> None]
  BY DEF Restart, Uploading, ImageOf
<1> QED BY <1>1, <1>2 DEF PL!Next, PL!Forget

\* The daemon implements PathLife: every step of it, seen through the two files
\* and the map `writing`, is a step of PathLife or none.  The commit is the
\* step that needs an invariant: by UploadIntact the `.new.state` that is
\* renamed is that of the upload which holds the path.
THEOREM Refinement == Spec => ImplementsPathLife
<1>1. Init => PL!Init
  BY DEF Init, MetaInit, PL!Init, Published, Uploading, ImageOf
<1>2. TypeOK /\ Safe /\ [Next]_vars => [PL!Next]_(PL!lifeVars)
  <2> SUFFICES ASSUME TypeOK, Safe, [Next]_vars PROVE [PL!Next]_(PL!lifeVars)
    OBVIOUS
  <2>1. CASE Request
    <3>1. PICK p \in Paths, image \in Images, sigs \in SUBSET Sigs, t \in Tasks, old \in Images \cup {None} :
            AppendDir(p, image, sigs, t) \/ ReplaceDir(p, image, old, sigs, t)
      BY <2>1 DEF Request
    <3> QED BY <3>1, RequestLife, LifeAt
  <2>2. ASSUME NEW t \in Tasks, TaskStep(t) PROVE [PL!Next]_(PL!lifeVars)
    BY <2>2, TaskStepLife
  <2>3. CASE \/ \E s \in Scanners : ScanStep(s) \/ CleanStart(s) \/ BootScan(s)
             \/ CleanState \/ CleanImage \/ CleanImageFails \/ CleanDone \/ BootCheck
             \/ \E t \in Tasks : BootResume(t)
    BY <2>3, BackgroundLife
  <2>4. ASSUME NEW wiped \in SUBSET Wipeable, Crash(wiped) \/ RescanPanics
        PROVE  [PL!Next]_(PL!lifeVars)
    BY <2>4, RestartLife DEF Crash, RescanPanics
  <2>5. CASE UNCHANGED vars
    BY <2>5 DEF vars, metaVars, PL!lifeVars, Published, Uploading, ImageOf
  <2> QED BY <2>1, <2>2, <2>3, <2>4, <2>5 DEF Next
<1>3. OneWriter /\ StateDescribesDir /\ UploadIntact => Safe
  BY SafeIs
<1> QED BY <1>1, <1>2, <1>3, Typing, Safety, PTL DEF Spec, PL!Spec, ImplementsPathLife

=============================================================================
