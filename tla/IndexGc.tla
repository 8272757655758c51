------------------------------ MODULE IndexGc ------------------------------
(***************************************************************************)
(* The collector of unused indexes (src/daemon/metadata/index_gc.rs) next  *)
(* to the uploads that use them.  The collector takes a snapshot of the    *)
(* uploads under way, marks what it finds in the `.state` files, and then  *)
(* removes every index that is not marked; whoever starts to use an image  *)
(* meanwhile marks it too (mark_used).  Each runs on a thread of its own   *)
(* and they share two mutexes, "metadata_writing" and "metadata_collecting". *)
(*                                                                         *)
(* Uploads are reduced to what the collector can see of them: when their   *)
(* image is marked, when it is in `writing`, when it is in a file, and     *)
(* where their index comes from.  Uploads.tla has the rest.                *)
(***************************************************************************)
CONSTANTS
  Paths,        \* virtual paths, all in one base directory
  Images,       \* image ids
  Requests,     \* requests that may be in the metadata pool at once
  Wipeable,     \* paths whose directory may be found missing at a start
  None

ASSUME IndexGcAssumption ==
  /\ Wipeable \subseteq Paths
  /\ None \notin Paths \cup Images \cup Requests
  /\ \A S \in SUBSET Images : None # S

VARIABLES
  stateFile,    \* stateFile[p]: the image in `.state`, or None
  newFile,      \* newFile[p]: the image in `.new.state`, or None
  writing,      \* writing[p]: the image of p's entry, or None
  lock,         \* the request that holds the mutex of `writing` over its write
  req,          \* req[r]: a start_append or start_replace
  indexes,      \* images whose index is stored
  storing,      \* storing[i]: the stages of a store_index of i under way
  fetched,      \* paths whose download has its index
  cached,       \* images whose index stays in the registry for good
  collecting,   \* the set of marked images, or None before the first run
  gc,           \* the collector
  pinned        \* history: <<p, i>>: p has had i since before the collection

gcVars == <<stateFile, newFile, writing, lock, req, indexes, storing, fetched,
            cached, collecting, gc, pinned>>

Files == Paths \X {"state", "new"}
ReqIdle == [pc |-> "idle", path |-> None, image |-> None]
GcIdle == [pc |-> "idle", files |-> {}, marks |-> {}, todo |-> {}, cur |-> None]

GcTypeOK ==
  /\ stateFile \in [Paths -> Images \cup {None}]
  /\ newFile \in [Paths -> Images \cup {None}]
  /\ writing \in [Paths -> Images \cup {None}]
  /\ lock \in Requests \cup {None}
  /\ req \in [Requests -> [pc : {"marked", "inserted"}, path : Paths,
                           image : Images] \cup {ReqIdle}]
  /\ \A r \in Requests : lock = r <=> req[r].pc = "inserted"
  /\ indexes \subseteq Images
  /\ storing \in [Images -> {"no", "spawned", "marked"}]
  /\ fetched \subseteq {p \in Paths : writing[p] # None}
  /\ cached \subseteq Images
  /\ collecting = None \/ collecting \subseteq Images
  /\ gc \in [pc : {"idle", "set", "list", "mark", "sweep", "remove"},
             files : SUBSET Files, marks : SUBSET Images,
             todo : SUBSET Images, cur : Images \cup {None}]
  /\ pinned \subseteq Paths \X Images

GcInit ==
  /\ stateFile \in [Paths -> Images \cup {None}]
  /\ newFile = [p \in Paths |-> None]
  /\ writing = [p \in Paths |-> None]
  /\ lock = None
  /\ req = [r \in Requests |-> ReqIdle]
  /\ indexes \in SUBSET Images
  /\ \A p \in Paths : stateFile[p] # None => stateFile[p] \in indexes
  /\ storing = [i \in Images |-> "no"]
  /\ fetched = {}
  /\ cached = {}
  /\ collecting = None
  /\ gc = GcIdle
  /\ pinned = {}

\* Image i is published in p or on its way there.
Has(p, i) == i \in {stateFile[p], writing[p]}

\* Meta::mark_used: a no-op until the first collection.
Marked(i) == IF collecting = None THEN None ELSE collecting \cup {i}

\* What a path loses is no longer pinned.
StillPinned == pinned' = {x \in pinned : Has(x[1], x[2])'}

-----------------------------------------------------------------------------
(* Requests, downloads, cleanup.                                           *)

\* The first line of start_append and start_replace.
MarkUsed(r, p, i) ==
  /\ req[r] = ReqIdle
  /\ req' = [req EXCEPT ![r] = [pc |-> "marked", path |-> p, image |-> i]]
  /\ collecting' = Marked(i)
  /\ UNCHANGED <<stateFile, newFile, writing, lock, indexes, storing, fetched,
                 cached, gc, pinned>>

\* The mutex is taken: the path is free and a new entry is made, or the
\* request is answered in some other way.
Insert(r) ==
  LET p == req[r].path IN
  /\ req[r].pc = "marked"
  /\ lock = None
  /\ \/ /\ writing[p] = None
        /\ stateFile[p] # req[r].image
        /\ writing' = [writing EXCEPT ![p] = req[r].image]
        /\ lock' = r
        /\ req' = [req EXCEPT ![r].pc = "inserted"]
     \/ /\ writing[p] # None \/ stateFile[p] = req[r].image
        /\ req' = [req EXCEPT ![r] = ReqIdle]
        /\ UNCHANGED <<writing, lock>>
  /\ UNCHANGED <<stateFile, newFile, indexes, storing, fetched, cached,
                 collecting, gc, pinned>>

\* replace_file of `.new.state`, and the mutex is released.
WriteState(r) ==
  /\ req[r].pc = "inserted"
  /\ newFile' = [newFile EXCEPT ![req[r].path] = req[r].image]
  /\ lock' = None
  /\ req' = [req EXCEPT ![r] = ReqIdle]
  /\ UNCHANGED <<stateFile, writing, indexes, storing, fetched, cached,
                 collecting, gc>>
  /\ StillPinned

\* Indexes::get for the download of p.  The index is taken from the registry,
\* read from the store (and then never leaves the registry, see
\* IndexRegistry.tla), or fetched from a peer and stored.
GetIndex(p) ==
  LET i == newFile[p] IN
  /\ lock = None
  /\ writing[p] # None
  /\ newFile[p] # None
  /\ p \notin fetched
  /\ fetched' = fetched \cup {p}
  /\ \/ i \in cached /\ UNCHANGED <<cached, storing>>
     \/ /\ i \notin cached
        /\ i \in indexes
        /\ cached' = cached \cup {i}
        /\ UNCHANGED storing
     \/ /\ i \notin cached
        /\ i \notin indexes
        /\ storing' = [storing EXCEPT ![i] = "spawned"]
        /\ UNCHANGED cached
  /\ UNCHANGED <<stateFile, newFile, writing, lock, req, indexes, collecting,
                 gc, pinned>>

\* Meta::store_index on a thread of the pool: mark, then write.
StoreMark(i) ==
  /\ storing[i] = "spawned"
  /\ storing' = [storing EXCEPT ![i] = "marked"]
  /\ collecting' = Marked(i)
  /\ UNCHANGED <<stateFile, newFile, writing, lock, req, indexes, fetched,
                 cached, gc, pinned>>

StoreWrite(i) ==
  /\ storing[i] = "marked"
  /\ storing' = [storing EXCEPT ![i] = "no"]
  /\ indexes' = indexes \cup {i}
  /\ UNCHANGED <<stateFile, newFile, writing, lock, req, fetched, cached,
                 collecting, gc, pinned>>

\* The download ends: dir_committed or dir_aborted.
EndUpload(p, committed) ==
  /\ lock = None
  /\ writing[p] # None
  /\ committed => p \in fetched
  /\ writing' = [writing EXCEPT ![p] = None]
  /\ newFile' = [newFile EXCEPT ![p] = None]
  /\ stateFile' = IF committed THEN [stateFile EXCEPT ![p] = newFile[p]]
                               ELSE stateFile
  /\ fetched' = fetched \ {p}
  /\ UNCHANGED <<lock, req, indexes, storing, cached, collecting, gc>>
  /\ StillPinned

\* resume_upload of a missing directory: it does not mark the image.
ResumeUpload(p) ==
  /\ p \in Wipeable
  /\ lock = None
  /\ writing[p] = None
  /\ stateFile[p] # None
  /\ writing' = [writing EXCEPT ![p] = stateFile[p]]
  /\ newFile' = [newFile EXCEPT ![p] = stateFile[p]]
  /\ stateFile' = [stateFile EXCEPT ![p] = None]
  /\ pinned' = {x \in pinned : x[1] # p}
  /\ UNCHANGED <<lock, req, indexes, storing, fetched, cached, collecting, gc>>

\* remove_state_file.  The cleanup of a directory and the collection of indexes
\* are commands of the same loop (tracking/cleanup.rs), one after the other.
Cleanup(p) ==
  /\ gc.pc = "idle"
  /\ lock = None
  /\ writing[p] = None
  /\ stateFile[p] # None
  /\ stateFile' = [stateFile EXCEPT ![p] = None]
  /\ UNCHANGED <<newFile, writing, lock, req, indexes, storing, fetched, cached,
                 collecting, gc>>
  /\ StillPinned

-----------------------------------------------------------------------------
(* Meta::index_gc and index_gc::full_collection.                           *)

\* Mutant of GcSnapshot: the uploads under way are not looked at.
GcSnapshotEmpty ==
  /\ gc.pc = "idle"
  /\ lock = None
  /\ gc' = [gc EXCEPT !.pc = "set"]
  /\ pinned' = {x \in Paths \X Images : Has(x[1], x[2])}
  /\ UNCHANGED <<stateFile, newFile, writing, lock, req, indexes, storing,
                 fetched, cached, collecting>>

\* The images in `writing`, under its mutex.
GcSnapshot ==
  /\ gc.pc = "idle"
  /\ lock = None
  /\ gc' = [gc EXCEPT !.pc = "set",
                      !.marks = {writing[p] : p \in Paths} \ {None}]
  /\ pinned' = {x \in Paths \X Images : Has(x[1], x[2])}
  /\ UNCHANGED <<stateFile, newFile, writing, lock, req, indexes, storing,
                 fetched, cached, collecting>>

\* Only now can others mark.
GcSet ==
  /\ gc.pc = "set"
  /\ collecting' = gc.marks
  /\ gc' = [gc EXCEPT !.pc = "list"]
  /\ UNCHANGED <<stateFile, newFile, writing, lock, req, indexes, storing,
                 fetched, cached, pinned>>

\* collect_dir: list the `.state` and `.new.state` files...
GcList ==
  /\ gc.pc = "list"
  /\ gc' = [gc EXCEPT !.pc = "mark",
               !.files = {f \in Files : IF f[2] = "state" THEN stateFile[f[1]] # None
                                                         ELSE newFile[f[1]] # None}]
  /\ UNCHANGED <<stateFile, newFile, writing, lock, req, indexes, storing,
                 fetched, cached, collecting, pinned>>

\* ... and mark the image of each one that can still be read.
GcMark(f) ==
  LET i == IF f[2] = "state" THEN stateFile[f[1]] ELSE newFile[f[1]] IN
  /\ gc.pc = "mark"
  /\ f \in gc.files
  /\ gc' = [gc EXCEPT !.files = gc.files \ {f}]
  /\ collecting' = IF i = None THEN collecting ELSE Marked(i)
  /\ UNCHANGED <<stateFile, newFile, writing, lock, req, indexes, storing,
                 fetched, cached, pinned>>

\* The directories of the indexes, which go by a prefix of the id, are listed
\* one after the other as the sweep comes to them: here each has one index.
GcSweep ==
  /\ gc.pc = "mark"
  /\ gc.files = {}
  /\ gc' = [gc EXCEPT !.pc = "sweep", !.todo = Images]
  /\ UNCHANGED <<stateFile, newFile, writing, lock, req, indexes, storing,
                 fetched, cached, collecting, pinned>>

\* The look at the marks and the removal are two steps.
GcCheck(i) ==
  LET kept == i \notin indexes \/ i \in collecting IN
  /\ gc.pc = "sweep"
  /\ i \in gc.todo
  /\ gc' = [gc EXCEPT !.todo = gc.todo \ {i},
                      !.pc = IF kept THEN "sweep" ELSE "remove",
                      !.cur = IF kept THEN None ELSE i]
  /\ UNCHANGED <<stateFile, newFile, writing, lock, req, indexes, storing,
                 fetched, cached, collecting, pinned>>

GcRemove ==
  /\ gc.pc = "remove"
  /\ indexes' = indexes \ {gc.cur}
  /\ gc' = [gc EXCEPT !.pc = "sweep", !.cur = None]
  /\ UNCHANGED <<stateFile, newFile, writing, lock, req, storing, fetched,
                 cached, collecting, pinned>>

GcDone ==
  /\ gc.pc = "sweep"
  /\ gc.todo = {}
  /\ gc' = GcIdle
  /\ pinned' = {}
  /\ UNCHANGED <<stateFile, newFile, writing, lock, req, indexes, storing,
                 fetched, cached, collecting>>

-----------------------------------------------------------------------------
GcNext ==
  \/ \E r \in Requests :
       \/ \E p \in Paths, i \in Images : MarkUsed(r, p, i)
       \/ Insert(r) \/ WriteState(r)
  \/ \E p \in Paths :
       \/ GetIndex(p) \/ ResumeUpload(p) \/ Cleanup(p)
       \/ \E committed \in BOOLEAN : EndUpload(p, committed)
  \/ \E i \in Images : StoreMark(i) \/ StoreWrite(i) \/ GcCheck(i)
  \/ \E f \in Files : GcMark(f)
  \/ GcSnapshot \/ GcSet \/ GcList \/ GcSweep \/ GcRemove \/ GcDone

GcSpec == GcInit /\ [][GcNext]_gcVars

-----------------------------------------------------------------------------
(* Properties                                                              *)

\* The index of an image that a path had when the collection began, published
\* or being uploaded, and has had ever since, survives the collection; the
\* commit of an upload in the middle of it does no harm.  (A resume_upload does:
\* it renames `.state` between the collector's look at the names and its read.)
PinnedKept ==
  [][\A x \in pinned : x[2] \in indexes => x[2] \in indexes']_gcVars
=============================================================================
