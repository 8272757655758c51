------------------------------ MODULE Metadata ------------------------------
(***************************************************************************)
(* The metadata store of the ciruela daemon (src/daemon/metadata): for     *)
(* every virtual path a `<name>.state` file (what the directory holds), a  *)
(* `<name>.new.state` file (what is being uploaded into it), and the       *)
(* in-memory map `writing` behind the "metadata_writing" mutex.            *)
(*                                                                         *)
(* Every operation runs on a thread of the metadata pool.  The ones that   *)
(* hold the mutex until they return are single actions here.  The scan of  *)
(* a directory (scan.rs) takes the mutex only to look at one entry, so it  *)
(* is a process of its own that interleaves with everything else.          *)
(*                                                                         *)
(* The module only defines the store and its operations; Uploads.tla       *)
(* composes them with the actors that call them.                           *)
(***************************************************************************)
CONSTANTS
  Paths,        \* virtual paths (image directories)
  Images,       \* image ids
  Sigs,         \* signature entries: a timestamp and a signature
  Trusted,      \* the entries made by one of the configured upload keys
  Configured,   \* paths with a config whose num-levels matches
  AppendOnly,   \* paths under a directory with append-only: true
  Scanners,     \* concurrent all_states calls
  IoErrors,     \* whether a look at a file, a write, rename or removal may fail
  None          \* absent file, absent map entry

\* What a `.state` or `.new.state` file holds, and an entry of `writing`.
State == [image : Images, signatures : SUBSET Sigs]
Writing == [image : Images, signatures : SUBSET Sigs, replacing : BOOLEAN]

ASSUME MetadataAssumption ==
  /\ Trusted \subseteq Sigs
  /\ Configured \subseteq Paths
  /\ AppendOnly \subseteq Paths
  /\ IoErrors \in BOOLEAN
  /\ None \notin Paths \cup Images
  /\ None \notin State
  /\ None \notin Writing

VARIABLES
  stateFile,    \* stateFile[p]: contents of `.state`, or None
  newFile,      \* newFile[p]: contents of `.new.state`, or None
  writing,      \* writing[p]: the Writing entry of p, or None
  recent,       \* files whose mtime is not before the last cleanup's start
  scan          \* scan[s]: where the all_states call s stands

metaVars == <<stateFile, newFile, writing, recent, scan>>

Files == Paths \X {"state", "new"}

ScanIdle ==
  [pc |-> "idle", use |-> "rescan", todo |-> {}, cur |-> None,
   res |-> [p \in Paths |-> None]]

\* `cur` is the path of the `.new.state` file a scan is about to handle.
ScanRecord ==
  {r \in [pc : {"idle", "next", "read", "doom"},
          use : {"rescan", "clean", "boot"}, todo : SUBSET Files,
          cur : Paths \cup {None}, res : [Paths -> Images \cup {None}]] :
     r.pc \in {"read", "doom"} <=> r.cur # None}

MetaTypeOK ==
  /\ stateFile \in [Paths -> State \cup {None}]
  /\ newFile \in [Paths -> State \cup {None}]
  /\ writing \in [Paths -> Writing \cup {None}]
  /\ recent \subseteq Files
  /\ scan \in [Scanners -> ScanRecord]

MetaInit ==
  /\ stateFile = [p \in Paths |-> None]
  /\ newFile = [p \in Paths |-> None]
  /\ writing = [p \in Paths |-> None]
  /\ recent = {}
  /\ scan = [s \in Scanners |-> ScanIdle]

\* A rename keeps the mtime of the file it moves.
Renamed(p, from, to) ==
  (recent \ {<<p, from>>, <<p, to>>})
    \cup (IF <<p, from>> \in recent THEN {<<p, to>>} ELSE {})

-----------------------------------------------------------------------------
(* Uploads: start_append, start_replace, resume_upload.                    *)

\* Mutant of Acceptable: any signature will do.
AcceptableUnsigned(p, sigs) == p \in Configured

\* The checks both requests make before they take the mutex: the path is
\* configured and at least one signature is by a key that may upload here.
Acceptable(p, sigs) == p \in Configured /\ sigs \cap Trusted # {}

\* replace_file of `.new.state`.
WriteNew(p, image, sigs) ==
  /\ newFile' = [newFile EXCEPT ![p] = [image |-> image, signatures |-> sigs]]
  /\ recent' = recent \cup {<<p, "new">>}

\* A new entry of `writing`, then `.new.state`.  When that write fails (~ok)
\* the entry is in the map already and nothing takes it out.
Insert(p, image, sigs, replacing, ok) ==
  /\ writing' = [writing EXCEPT ![p] =
        [image |-> image, signatures |-> sigs, replacing |-> replacing]]
  /\ \/ ok /\ WriteNew(p, image, sigs)
     \/ ~ok /\ IoErrors /\ UNCHANGED <<newFile, recent>>
  /\ UNCHANGED <<stateFile, scan>>

\* Mutants of AppendNew: the look at `writing`, the look at `.state` dropped.
AppendNewRacing(p, image, sigs, ok) ==
  Acceptable(p, sigs) /\ stateFile[p] = None /\ Insert(p, image, sigs, FALSE, ok)
AppendNewOverwriting(p, image, sigs, ok) ==
  Acceptable(p, sigs) /\ writing[p] = None /\ Insert(p, image, sigs, FALSE, ok)

\* Accept::New of start_append: nothing is there.
AppendNew(p, image, sigs, ok) ==
  /\ Acceptable(p, sigs)
  /\ writing[p] = None
  /\ stateFile[p] = None
  /\ Insert(p, image, sigs, FALSE, ok)

\* Mutant of ReplaceNew: the image may be the one that is there.
ReplaceNewSame(p, image, old, sigs, ok) ==
  /\ Acceptable(p, sigs)
  /\ p \notin AppendOnly
  /\ writing[p] = None
  /\ stateFile[p] # None => old \in {None, stateFile[p].image}
  /\ Insert(p, image, sigs, stateFile[p] # None, ok)

\* Accept::New of start_replace: nothing is there, or another image is and the
\* request names that image or none.
ReplaceNew(p, image, old, sigs, ok) ==
  /\ Acceptable(p, sigs)
  /\ p \notin AppendOnly
  /\ writing[p] = None
  /\ stateFile[p] # None =>
        stateFile[p].image # image /\ old \in {None, stateFile[p].image}
  /\ Insert(p, image, sigs, stateFile[p] # None, ok)

\* Mutant of AlreadyDone: the signatures of the request replace the old ones.
AlreadyDoneOverwriting(p, image, sigs) ==
  /\ Acceptable(p, sigs)
  /\ writing[p] = None
  /\ stateFile[p] # None
  /\ stateFile[p].image = image
  /\ stateFile' = [stateFile EXCEPT ![p] = [image |-> image, signatures |-> sigs]]
  /\ recent' = recent \cup {<<p, "state">>}
  /\ UNCHANGED <<newFile, writing, scan>>

\* Accept::AlreadyDone: the image is in place, its signatures are extended.
AlreadyDone(p, image, sigs) ==
  /\ Acceptable(p, sigs)
  /\ writing[p] = None
  /\ stateFile[p] # None
  /\ stateFile[p].image = image
  /\ stateFile' = [stateFile EXCEPT ![p] =
        [image |-> image, signatures |-> stateFile[p].signatures \cup sigs]]
  /\ recent' = recent \cup {<<p, "state">>}
  /\ UNCHANGED <<newFile, writing, scan>>

\* Accept::InProgress: the upload under way gets more signatures.
InProgress(p, image, sigs, ok) ==
  /\ Acceptable(p, sigs)
  /\ writing[p] # None
  /\ writing[p].image = image
  /\ Insert(p, image, writing[p].signatures \cup sigs, writing[p].replacing, ok)

\* Mutant of ResumeUpload: `.state` is copied to `.new.state`, not renamed.
ResumeUploadCopied(p) ==
  /\ p \in Configured
  /\ writing[p] = None
  /\ stateFile[p] # None
  /\ writing' = [writing EXCEPT ![p] =
        [image |-> stateFile[p].image, signatures |-> stateFile[p].signatures,
         replacing |-> FALSE]]
  /\ newFile' = [newFile EXCEPT ![p] = stateFile[p]]
  /\ recent' = recent \cup {<<p, "new">>}
  /\ UNCHANGED <<stateFile, scan>>

\* resume_upload: the directory of p is missing, so what `.state` (or else
\* `.new.state`) says becomes an upload again.
ResumeUpload(p) ==
  /\ p \in Configured
  /\ writing[p] = None
  /\ \E file \in {stateFile[p], newFile[p]} \ {None} :
       /\ stateFile[p] # None => file = stateFile[p]
       /\ writing' = [writing EXCEPT ![p] =
             [image |-> file.image, signatures |-> file.signatures,
              replacing |-> FALSE]]
       /\ newFile' = [newFile EXCEPT ![p] = file]
  /\ stateFile' = [stateFile EXCEPT ![p] = None]
  /\ recent' = IF stateFile[p] = None THEN recent ELSE Renamed(p, "state", "new")
  /\ UNCHANGED scan

-----------------------------------------------------------------------------
(* The end of an upload: dir_aborted, dir_committed; cleanup.              *)

\* Mutant of DirAborted: the file goes, the entry stays.
DirAbortedLeaking(p, ok) ==
  /\ writing[p] # None
  /\ newFile' = [newFile EXCEPT ![p] = None]
  /\ UNCHANGED <<stateFile, writing, recent, scan>>

\* dir_aborted: the entry goes, then `.new.state` (~ok: it could not be
\* removed, which is only logged).
DirAborted(p, ok) ==
  /\ writing[p] # None
  /\ writing' = [writing EXCEPT ![p] = None]
  /\ \/ /\ ok
        /\ newFile' = [newFile EXCEPT ![p] = None]
        /\ recent' = recent \ {<<p, "new">>}
     \/ ~ok /\ IoErrors /\ UNCHANGED <<newFile, recent>>
  /\ UNCHANGED <<stateFile, scan>>

\* dir_committed: the entry goes, then `.new.state` becomes `.state` (~ok: it
\* could not be renamed, for instance because it is gone; only logged).
DirCommitted(p, ok) ==
  /\ writing[p] # None
  /\ writing' = [writing EXCEPT ![p] = None]
  /\ \/ /\ ok
        /\ newFile[p] # None
        /\ stateFile' = [stateFile EXCEPT ![p] = newFile[p]]
        /\ newFile' = [newFile EXCEPT ![p] = None]
        /\ recent' = Renamed(p, "new", "state")
     \/ /\ ~ok
        /\ newFile[p] = None \/ IoErrors
        /\ UNCHANGED <<stateFile, newFile, recent>>
  /\ UNCHANGED scan

\* remove_state_file does not return CleanupCanceled or FileWasVanished.
Removable(p) ==
  writing[p] = None /\ stateFile[p] # None /\ <<p, "state">> \notin recent

RemoveStateFile(p) ==
  /\ Removable(p)
  /\ stateFile' = [stateFile EXCEPT ![p] = None]
  /\ UNCHANGED <<newFile, writing, recent, scan>>

-----------------------------------------------------------------------------
(* all_states: list the files, then look at them one by one.               *)

ScanSet(s, pc, use, todo, cur, res) ==
  scan' = [scan EXCEPT ![s] =
     [pc |-> pc, use |-> use, todo |-> todo, cur |-> cur, res |-> res]]

ScanList(s, use) ==
  /\ scan[s].pc = "idle"
  /\ ScanSet(s, "next", use,
             {f \in Files : IF f[2] = "state" THEN stateFile[f[1]] # None
                                              ELSE newFile[f[1]] # None},
             None, [p \in Paths |-> None])

\* A `.state` file counts unless `.new.state` was seen first or it is gone.
ScanReadState(s, p) ==
  /\ scan[s].pc = "next"
  /\ <<p, "state">> \in scan[s].todo
  /\ ScanSet(s, "next", scan[s].use, scan[s].todo \ {<<p, "state">>}, None,
             IF scan[s].res[p] = None /\ stateFile[p] # None
               THEN [scan[s].res EXCEPT ![p] = stateFile[p].image]
               ELSE scan[s].res)
  /\ UNCHANGED <<stateFile, newFile, writing, recent>>

\* A `.new.state` file: the mutex is held for the look at `writing` only.
ScanCheckNew(s, p) ==
  /\ scan[s].pc = "next"
  /\ <<p, "new">> \in scan[s].todo
  /\ ScanSet(s, IF writing[p] = None THEN "doom" ELSE "read", scan[s].use,
             scan[s].todo \ {<<p, "new">>}, p, scan[s].res)
  /\ UNCHANGED <<stateFile, newFile, writing, recent>>

\* It had an entry: the file overrides `.state`, unless it is gone.
ScanReadNew(s) ==
  LET p == scan[s].cur IN
  /\ scan[s].pc = "read"
  /\ ScanSet(s, "next", scan[s].use, scan[s].todo, None,
             IF newFile[p] = None THEN scan[s].res
             ELSE [scan[s].res EXCEPT ![p] = newFile[p].image])
  /\ UNCHANGED <<stateFile, newFile, writing, recent>>

\* It had none: the file is removed as stale (~ok: removal failed).
ScanRemoveNew(s, ok) ==
  LET p == scan[s].cur IN
  /\ scan[s].pc = "doom"
  /\ ScanSet(s, "next", scan[s].use, scan[s].todo, None, scan[s].res)
  /\ \/ /\ ok
        /\ newFile' = [newFile EXCEPT ![p] = None]
        /\ recent' = recent \ {<<p, "new">>}
     \/ ~ok /\ IoErrors /\ UNCHANGED <<newFile, recent>>
  /\ UNCHANGED <<stateFile, writing>>

ScanDone(s) ==
  /\ scan[s].pc = "next"
  /\ scan[s].todo = {}
  /\ scan' = [scan EXCEPT ![s] = ScanIdle]
  /\ UNCHANGED <<stateFile, newFile, writing, recent>>

=============================================================================
