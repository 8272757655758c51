----------------------------- MODULE Reconcile -----------------------------
(***************************************************************************)
(* Reconciliation of one base directory between the daemons of a cluster   *)
(* (src/daemon/tracking: reconciliation.rs, base_dir.rs, the rescan loop   *)
(* and reconcile_dir of mod.rs).                                           *)
(*                                                                         *)
(* Every daemon advertises a hash of what it has.  One that hears a hash   *)
(* it does not know asks for the list behind it, falling back to the other *)
(* hosts that advertised the same hash, and requests what it lacks from    *)
(* its own metadata store, as a client would.                              *)
(*                                                                         *)
(* The store changes on the threads of metadata/; the tracking thread      *)
(* hears of it later, through a callback or a channel (`callbacks`), and   *)
(* queues the rescan only then.                                            *)
(*                                                                         *)
(* Hashes have no collisions here: the hash of a list is the list.  A scan *)
(* of the store is a single step; Uploads.tla takes it apart, and has the  *)
(* entry of `writing` an I/O error leaves behind.  The directory has       *)
(* auto-clean off (the policy it would ask is the subject of               *)
(* Retention.tla).  recently_received, a hint on whom to ask for blocks,   *)
(* is left out: FetchBlocks.tla asks anyone.                               *)
(***************************************************************************)
EXTENDS Naturals, FiniteSets, FiniteSetsExt, Functions

CONSTANTS
  Nodes,            \* daemons
  Names,            \* image directories in the base directory
  Images,
  Requests,         \* what clients upload, to which node
  Scenarios,        \* what there is at the start, and what may go wrong
  AppendOnly,       \* append-only of the directory's config
  Throttle,         \* RECONCILE_BASEDIR_THROTTLE
  MaxDownloading,   \* RECONCILE_MAX_DOWNLOADING
  Retries,          \* tries of a host that terminates the connection (n < 2)
  None

ASSUME ReconcileAssumption ==
  /\ Requests \subseteq [node : Nodes, name : Names, image : Images,
                         stamp : Nat, replace : BOOLEAN]
  /\ AppendOnly \in BOOLEAN
  /\ {Throttle, MaxDownloading, Retries} \subseteq Nat
  /\ None \notin Images
  /\ \A s \in Scenarios :
       /\ s.hears \subseteq Nodes \X Nodes
       /\ s.stored \subseteq Requests /\ s.waiting \subseteq Requests
       /\ \A q, r \in s.stored : q.node = r.node /\ q.name = r.name => q = r
       /\ s.failures \in Nat /\ s.aborts \in Nat

\* database::signatures::State: an image and the stamps of its signatures.
Stamps(d, i) == {q.stamp : q \in {x \in Requests : x.name = d /\ x.image = i}}
Contents(d) ==
  {None} \cup
  UNION {{[image |-> i, stamps |-> S] : S \in (SUBSET Stamps(d, i)) \ {{}}} :
           i \in Images}

\* The lists of a base directory; also their hashes.
Lists == {f \in [Names -> UNION {Contents(d) : d \in Names}] :
            \A d \in Names : f[d] \in Contents(d)}

\* Option::None is no state and no list.
ASSUME NoneAssumption ==
  None \notin [image : Images, stamps : SUBSET Nat] /\ None \notin Lists

\* A request to the own metadata store: AppendDir, or ReplaceDir if `replace`.
\* `seen` is history: the stamps, at the scan, of the image it is to replace.
Ask == [name : Names, image : Images, stamp : Nat,
        replace : BOOLEAN, old : Images \cup {None}, seen : SUBSET Nat]

\* What the tracking thread is yet to hear of its store: a download to begin
\* (FetchDir), and the ends of downloads.
Callback == [kind : {"fetch", "committed", "aborted"}, name : Names, image : Images]

VARIABLES
  cur,          \* cur[n][d]: `.state`
  new,          \* new[n][d]: `.new.state`, which is in progress, or None
  base,         \* base[n]: the BaseDir, or None before the first scan
  callbacks,    \* callbacks[n]: on their way to the tracking thread
  progress,     \* progress[n]: the names in in_progress
  pending,      \* pending[n]: a rescan is queued
  scanning,     \* scanning[n]: what the running rescan has read, or None
  reconciling,  \* reconciling[n]: map from hashes to the hosts that have them
  task,         \* task[n]: map from hashes to reconciliation futures
  asks,         \* asks[n]: requests spawned to the own store
  deleted,      \* deleted[n]: recently_deleted, pairs of a name and an image
  hears,        \* pairs of daemons: gossip of the second reaches the first
  waiting,      \* requests clients are going to send
  failures, aborts,         \* how many requests and downloads may still fail
  missed        \* history: the last rescan of n failed

vars == <<cur, new, callbacks, progress, base, pending, scanning, reconciling,
          task, asks, deleted, hears, waiting, failures, aborts, missed>>

store == <<cur, new, callbacks>>
tracking == <<progress, deleted, pending>>
scans == <<base, scanning, missed>>
env == <<hears, waiting, failures, aborts>>

BaseDir == [hash : Lists, parents : SUBSET Lists]

\* pc "ask": GetBaseDir is sent to `host`; "scan": the answer had the hash,
\* the own directory is scanned; "merge": it was, into `local`.
Task == [pc : {"ask", "scan", "merge"}, host : Nodes, tries : 0 .. Retries,
         local : Lists \cup {None}]

TypeOK ==
  /\ cur \in [Nodes -> Lists]
  /\ new \in [Nodes -> Lists]
  /\ base \in [Nodes -> BaseDir \cup {None}]
  /\ callbacks \in [Nodes -> SUBSET Callback]
  /\ progress \in [Nodes -> SUBSET Names]
  /\ pending \in [Nodes -> BOOLEAN]
  /\ missed \in [Nodes -> BOOLEAN]
  /\ scanning \in [Nodes -> Lists \cup {None}]
  /\ DOMAIN reconciling = Nodes /\ DOMAIN task = Nodes
  /\ \A n \in Nodes :
       /\ DOMAIN reconciling[n] \cup DOMAIN task[n] \subseteq Lists
       /\ \A h \in DOMAIN reconciling[n] : reconciling[n][h] \subseteq Nodes \ {n}
       /\ \A h \in DOMAIN task[n] : task[n][h] \in Task /\ task[n][h].host # n
  /\ asks \in [Nodes -> SUBSET Ask]
  /\ deleted \in [Nodes -> SUBSET (Names \X Images)]
  /\ waiting \subseteq Requests
  /\ hears \subseteq Nodes \X Nodes
  /\ failures \in Nat /\ aborts \in Nat

Empty == [d \in Names |-> None]
NoMap == [h \in {} |-> None]

\* What the uploads before the start left at n.
AtStart(stored, n) ==
  [d \in Names |->
     LET S == {q \in stored : q.node = n /\ q.name = d} IN
     IF S = {} THEN None
     ELSE LET q == CHOOSE q \in S : TRUE IN
          [image |-> q.image, stamps |-> {q.stamp}]]

\* scan_base_dirs queues a scan of every directory it finds.
Init ==
  /\ \E s \in Scenarios :
       /\ hears = s.hears
       /\ cur = [n \in Nodes |-> AtStart(s.stored, n)]
       /\ waiting = s.waiting
       /\ failures = s.failures /\ aborts = s.aborts
  /\ new = [n \in Nodes |-> Empty]
  /\ callbacks = [n \in Nodes |-> {}]
  /\ progress = [n \in Nodes |-> {}]
  /\ base = [n \in Nodes |-> None]
  /\ missed = [n \in Nodes |-> FALSE]
  /\ pending = [n \in Nodes |-> cur[n] # Empty]
  /\ scanning = [n \in Nodes |-> None]
  /\ reconciling = [n \in Nodes |-> NoMap]
  /\ task = [n \in Nodes |-> NoMap]
  /\ asks = [n \in Nodes |-> {}]
  /\ deleted = [n \in Nodes |-> {}]

\* Meta::scan_dir: `.new.state` stands before `.state`.
Dirs(n) == [d \in Names |-> IF new[n][d] # None THEN new[n][d] ELSE cur[n][d]]

\* downloading_in_basedir; the only base directory, so in_progress.len() too.
Downloading(n) == Cardinality(progress[n])

First(s) == Min(s.stamps)
Last(s) == Max(s.stamps)

-----------------------------------------------------------------------------
(* The own store: start_append and start_replace, and the end of the        *)
(* download that Accept::New leads to.                                     *)

\* Mutant of Replaceable: the image it was to replace is not compared.
ReplaceableAny(n, r) == ~AppendOnly

\* start_replace goes on: not append-only, and the request names what is there.
Replaceable(n, r) ==
  /\ ~AppendOnly
  /\ r.old # None => cur[n][r.name].image = r.old

Tell(n, kind, d, i) ==
  callbacks' = [callbacks EXCEPT ![n] =
                  @ \cup {[kind |-> kind, name |-> d, image |-> i]}]

\* Accept::New: `.new.state` is written, and the download has yet to begin.
Started(n, r) ==
  /\ new' = [new EXCEPT ![n][r.name] = [image |-> r.image, stamps |-> {r.stamp}]]
  /\ Tell(n, "fetch", r.name, r.image)
  /\ UNCHANGED cur

\* Accept::InProgress and Accept::AlreadyDone extend the signatures, and nobody
\* is told; everything else is rejected.
Answer(n, r) ==
  LET d == r.name IN
  CASE new[n][d] # None /\ new[n][d].image = r.image ->
         /\ new' = [new EXCEPT ![n][d].stamps = @ \cup {r.stamp}]
         /\ UNCHANGED <<cur, callbacks>>
    [] new[n][d] # None /\ new[n][d].image # r.image -> UNCHANGED store
    [] new[n][d] = None /\ cur[n][d] = None /\ r.replace /\ AppendOnly ->
         UNCHANGED store
    [] new[n][d] = None /\ cur[n][d] = None /\ ~(r.replace /\ AppendOnly) ->
         Started(n, r)
    [] new[n][d] = None /\ cur[n][d] # None /\ cur[n][d].image = r.image ->
         /\ cur' = [cur EXCEPT ![n][d].stamps = @ \cup {r.stamp}]
         /\ UNCHANGED <<new, callbacks>>
    [] new[n][d] = None /\ cur[n][d] # None /\ cur[n][d].image # r.image ->
         IF r.replace /\ Replaceable(n, r) THEN Started(n, r) ELSE UNCHANGED store

\* A client's upload, which names no image it means to replace.
Upload(q) ==
  /\ q \in waiting
  /\ waiting' = waiting \ {q}
  /\ Answer(q.node, [name |-> q.name, image |-> q.image, stamp |-> q.stamp,
                     replace |-> q.replace, old |-> None, seen |-> {}])
  /\ UNCHANGED <<tracking, scans, reconciling, task, asks, hears, failures, aborts>>

\* A request of reconciliation reaches the store.
RunAsk(n, r) ==
  /\ r \in asks[n]
  /\ asks' = [asks EXCEPT ![n] = @ \ {r}]
  /\ Answer(n, r)
  /\ UNCHANGED <<tracking, scans, reconciling, task, env>>

\* The store answers with an error, which is logged.
AskFails(n, r) ==
  /\ r \in asks[n]
  /\ failures > 0
  /\ failures' = failures - 1
  /\ asks' = [asks EXCEPT ![n] = @ \ {r}]
  /\ UNCHANGED <<store, tracking, scans, reconciling, task, hears, waiting, aborts>>

\* fetch_dir::start has run for what is in `.new.state`.
Fetching(n, d) ==
  new[n][d] # None /\ \A c \in callbacks[n] : ~(c.kind = "fetch" /\ c.name = d)

\* meta.dir_committed.
Commit(n, d) ==
  /\ Fetching(n, d)
  /\ cur' = [cur EXCEPT ![n][d] = new[n][d]]
  /\ new' = [new EXCEPT ![n][d] = None]
  /\ Tell(n, "committed", d, new[n][d].image)
  /\ UNCHANGED <<tracking, scans, reconciling, task, asks, env>>

\* meta.dir_aborted.
Abort(n, d) ==
  /\ Fetching(n, d)
  /\ aborts > 0
  /\ aborts' = aborts - 1
  /\ new' = [new EXCEPT ![n][d] = None]
  /\ Tell(n, "aborted", d, new[n][d].image)
  /\ UNCHANGED <<cur, tracking, scans, reconciling, task, asks, hears, waiting,
                 failures>>

-----------------------------------------------------------------------------
(* The tracking thread hears of it: the first lines of fetch_dir::start,   *)
(* dir_committed and dir_aborted.                                          *)

\* Mutant of Hears: no rescan is queued when a download begins.
HearsUnseen(n, c) ==
  /\ callbacks' = [callbacks EXCEPT ![n] = @ \ {c}]
  /\ progress' = [progress EXCEPT ![n] =
       IF c.kind = "fetch" THEN @ \cup {c.name} ELSE @ \ {c.name}]
  /\ deleted' = [deleted EXCEPT ![n] =
       CASE c.kind = "fetch" -> @ \ {<<c.name, c.image>>}
         [] c.kind = "aborted" -> @ \cup {<<c.name, c.image>>}
         [] c.kind = "committed" -> @]
  /\ pending' = IF c.kind = "fetch" THEN pending ELSE [pending EXCEPT ![n] = TRUE]
  /\ UNCHANGED <<cur, new, scans, reconciling, task, asks, env>>

Hears(n, c) ==
  /\ callbacks' = [callbacks EXCEPT ![n] = @ \ {c}]
  /\ progress' = [progress EXCEPT ![n] =
       IF c.kind = "fetch" THEN @ \cup {c.name} ELSE @ \ {c.name}]
  /\ deleted' = [deleted EXCEPT ![n] =
       CASE c.kind = "fetch" -> @ \ {<<c.name, c.image>>}
         [] c.kind = "aborted" -> @ \cup {<<c.name, c.image>>}
         [] c.kind = "committed" -> @]
  /\ pending' = [pending EXCEPT ![n] = TRUE]
  /\ UNCHANGED <<cur, new, scans, reconciling, task, asks, env>>

\* AVOID_DOWNLOAD has passed.
ForgetDeleted(n) ==
  /\ \E x \in deleted[n] : deleted' = [deleted EXCEPT ![n] = @ \ {x}]
  /\ UNCHANGED <<store, progress, pending, scans, reconciling, task, asks, env>>

-----------------------------------------------------------------------------
(* The rescan loop.  Requests older than the scan that is starting are     *)
(* skipped when their turn comes; one made after its start is not.         *)

Rescan(n) ==
  /\ pending[n]
  /\ scanning[n] = None
  /\ pending' = [pending EXCEPT ![n] = FALSE]
  /\ scanning' = [scanning EXCEPT ![n] = Dirs(n)]
  /\ UNCHANGED <<store, progress, deleted, base, missed, reconciling, task, asks, env>>

\* Mutant of CommitScan: what was read is kept for the first time only.
CommitScanOnce(n) ==
  /\ scanning[n] # None
  /\ scanning' = [scanning EXCEPT ![n] = None]
  /\ base' = IF base[n] = None
       THEN [base EXCEPT ![n] = [hash |-> scanning[n], parents |-> {}]]
       ELSE [base EXCEPT ![n].parents = @ \cup {scanning[n]}]
  /\ missed' = [missed EXCEPT ![n] = FALSE]
  /\ UNCHANGED <<store, tracking, reconciling, task, asks, env>>

\* commit_scan: what we had is a subset of what we have, for all it knows.
CommitScan(n) ==
  /\ scanning[n] # None
  /\ scanning' = [scanning EXCEPT ![n] = None]
  /\ base' = [base EXCEPT ![n] =
       [hash |-> scanning[n],
        parents |-> IF @ = None THEN {}
                    ELSE @.parents \cup ({@.hash} \ {scanning[n]})]]
  /\ missed' = [missed EXCEPT ![n] = FALSE]
  /\ UNCHANGED <<store, tracking, reconciling, task, asks, env>>

\* A scan that fails is logged and its request is gone.  Requests as old as it
\* are not skipped then, since last_scan is what it was: there may be one.
ScanFails(n) ==
  /\ scanning[n] # None
  /\ failures > 0
  /\ failures' = failures - 1
  /\ scanning' = [scanning EXCEPT ![n] = None]
  /\ pending' \in {pending, [pending EXCEPT ![n] = TRUE]}
  /\ missed' = [missed EXCEPT ![n] = TRUE]
  /\ UNCHANGED <<store, progress, deleted, base, reconciling, task, asks, hears,
                 waiting, aborts>>

\* RETAIN_TIME has passed.
ForgetParent(n) ==
  /\ base[n] # None
  /\ \E h \in base[n].parents : base' = [base EXCEPT ![n].parents = @ \ {h}]
  /\ UNCHANGED <<store, tracking, scanning, missed, reconciling, task, asks, env>>

-----------------------------------------------------------------------------
(* A reconciliation.                                                       *)

IsSupersetOf(n, h) == base[n] # None /\ h \in {base[n].hash} \cup base[n].parents

Put(f, h, v) == [x \in DOMAIN f \cup {h} |-> IF x = h THEN v ELSE f[x]]

\* Gossip from k brings its hash: reconcile_dir.
ReconcileDir(n, k) ==
  /\ <<n, k>> \in hears
  /\ base[k] # None
  /\ Downloading(n) <= MaxDownloading
  /\ LET h == base[k].hash IN
     /\ ~IsSupersetOf(n, h)
     /\ \/ /\ h \in DOMAIN reconciling[n]
           /\ reconciling' = [reconciling EXCEPT ![n][h] = @ \cup {k}]
           /\ UNCHANGED task
        \/ /\ h \notin DOMAIN reconciling[n]
           /\ Downloading(n) < Throttle
           /\ reconciling' = [reconciling EXCEPT ![n] = Put(@, h, {k})]
           /\ task' = [task EXCEPT ![n] = Put(@, h,
                [pc |-> "ask", host |-> k, tries |-> 0, local |-> None])]
  /\ UNCHANGED <<store, tracking, scans, asks, env>>

\* The end of the future: the entry goes in any case.
Ended(n, h) ==
  /\ reconciling' = [reconciling EXCEPT ![n] = Restrict(@, DOMAIN @ \ {h})]
  /\ task' = [task EXCEPT ![n] = Restrict(@, DOMAIN @ \ {h})]

\* Mutants of NextHost: the host that failed stays in the set; giving up leaves
\* the entry behind.
NextHostAgain(n, h) ==
  \/ \E k \in reconciling[n][h] :
       /\ task' = [task EXCEPT ![n][h].host = k, ![n][h].tries = 0]
       /\ UNCHANGED reconciling
  \/ reconciling[n][h] = {} /\ Ended(n, h)
NextHostLeaking(n, h) ==
  LET left == reconciling[n][h] \ {task[n][h].host} IN
  \/ \E k \in left :
       /\ reconciling' = [reconciling EXCEPT ![n][h] = left \ {k}]
       /\ task' = [task EXCEPT ![n][h].host = k, ![n][h].tries = 0]
  \/ /\ left = {}
     /\ task' = [task EXCEPT ![n] = Restrict(@, DOMAIN @ \ {h})]
     /\ UNCHANGED reconciling

\* Another host that advertised the hash, or the end.
NextHost(n, h) ==
  LET left == reconciling[n][h] \ {task[n][h].host} IN
  \/ \E k \in left :
       /\ reconciling' = [reconciling EXCEPT ![n][h] = left \ {k}]
       /\ task' = [task EXCEPT ![n][h].host = k, ![n][h].tries = 0]
  \/ left = {} /\ Ended(n, h)

Asking(n, h) == task[n][h].pc = "ask"

\* The answer to GetBaseDir.
GotBaseDir(n, h) ==
  /\ Asking(n, h)
  /\ IF Dirs(task[n][h].host) = h
       THEN /\ task' = [task EXCEPT ![n][h].pc = "scan"]
            /\ UNCHANGED reconciling
       ELSE NextHost(n, h)
  /\ UNCHANGED <<store, tracking, scans, asks, env>>

\* UnexpectedTermination is tried again; other errors are not.
RequestFails(n, h) ==
  /\ Asking(n, h)
  /\ failures > 0
  /\ failures' = failures - 1
  /\ \/ /\ task[n][h].tries < Retries
        /\ task' = [task EXCEPT ![n][h].tries = @ + 1]
        /\ UNCHANGED reconciling
     \/ NextHost(n, h)
  /\ UNCHANGED <<store, tracking, scans, asks, hears, waiting, aborts>>

\* meta.scan_dir and read_keep_list of the own directory.
ScanLocal(n, h) ==
  /\ task[n][h].pc = "scan"
  /\ task' = [task EXCEPT ![n][h].pc = "merge", ![n][h].local = Dirs(n)]
  /\ UNCHANGED <<store, tracking, scans, reconciling, asks, env>>

ScanLocalFails(n, h) ==
  /\ task[n][h].pc = "scan"
  /\ failures > 0
  /\ failures' = failures - 1
  /\ Ended(n, h)
  /\ UNCHANGED <<store, tracking, scans, asks, hears, waiting, aborts>>

\* The remote image of d is wanted: it is not there and was not deleted of
\* late, or it is newer than another that is there.
Lacks(n, local, h, d) ==
  /\ h[d] # None
  /\ IF local[d] = None
       THEN <<d, h[d].image>> \notin deleted[n]
       ELSE /\ local[d].image # h[d].image
            /\ \A s \in local[d].stamps : s < First(h[d])

\* `took` may be what is requested of `wanted`: the newest, up to the throttle.
Taken(n, h, wanted, took) ==
  LET room == IF Downloading(n) < Throttle THEN Throttle - Downloading(n) ELSE 0
  IN /\ took \subseteq wanted
     /\ Cardinality(took) = Min({room, Cardinality(wanted)})
     /\ \A x \in took, y \in wanted \ took : Last(h[y]) <= Last(h[x])

\* What is lacking is requested, with the first signature only.  A hash that
\* was dealt with in full is remembered, if there is a BaseDir to remember it.
Merge(n, h) ==
  /\ task[n][h].pc = "merge"
  /\ LET local == task[n][h].local
         wanted == {d \in Names : Lacks(n, local, h, d)} IN
     \E took \in SUBSET wanted :
       /\ Taken(n, h, wanted, took)
       /\ asks' = [asks EXCEPT ![n] = @ \cup
            {[name |-> d, image |-> h[d].image, stamp |-> First(h[d]),
              replace |-> local[d] # None,
              old |-> IF local[d] = None THEN None ELSE local[d].image,
              seen |-> IF local[d] = None THEN {} ELSE local[d].stamps] :
                d \in took}]
       /\ base' = IF took = wanted /\ base[n] # None
                    THEN [base EXCEPT ![n].parents = @ \cup {h}]
                    ELSE base
  /\ Ended(n, h)
  /\ UNCHANGED <<store, tracking, scanning, missed, env>>

TaskStep(n, h) == GotBaseDir(n, h) \/ ScanLocal(n, h) \/ Merge(n, h)

Next ==
  \/ \E q \in Requests : Upload(q)
  \/ \E n \in Nodes :
    \/ \E r \in asks[n] : RunAsk(n, r) \/ AskFails(n, r)
    \/ \E d \in Names : Commit(n, d) \/ Abort(n, d)
    \/ \E c \in callbacks[n] : Hears(n, c)
    \/ ForgetDeleted(n)
    \/ Rescan(n)
    \/ CommitScan(n)
    \/ ScanFails(n)
    \/ ForgetParent(n)
    \/ \E k \in Nodes \ {n} : ReconcileDir(n, k)
    \/ \E h \in DOMAIN task[n] :
         TaskStep(n, h) \/ RequestFails(n, h) \/ ScanLocalFails(n, h)

Spec == Init /\ [][Next]_vars

\* The steps of a daemon that something drives: the threads of its store, the
\* rescan loop, its timers, the event loop, and gossip, which repeats the hash of
\* every base directory.  Nothing makes a download fail or a client act.
StoreStep(n) ==
  (\E r \in asks[n] : RunAsk(n, r)) \/ (\E d \in Names : Commit(n, d))
Fairness ==
  \A n \in Nodes :
    /\ WF_vars(StoreStep(n))
    /\ WF_vars(\E c \in callbacks[n] : Hears(n, c))
    /\ WF_vars(Rescan(n) \/ CommitScan(n))
    /\ WF_vars(ForgetDeleted(n) \/ ForgetParent(n))
    /\ WF_vars(\E k \in Nodes \ {n} : ReconcileDir(n, k))
    /\ WF_vars(\E h \in DOMAIN task[n] : TaskStep(n, h))

FairSpec == Spec /\ Fairness

-----------------------------------------------------------------------------
\* Every variable has its type (no counter wraps around), and
\* there is an entry in `reconciling` exactly while a future works on it: an
\* entry without one would shut the hash out for good, a future without an
\* entry could be started twice.
EntryHasTask ==
  TypeOK /\ \A n \in Nodes : DOMAIN reconciling[n] = DOMAIN task[n]

\* A later state of a list: the same images, perhaps signed again since.
SignedSince(f, g) ==
  \A d \in Names :
    /\ f[d] = None <=> g[d] = None
    /\ f[d] # None => f[d].image = g[d].image /\ f[d].stamps \subseteq g[d].stamps

\* A daemon advertises the hash of what it has, whatever was uploaded, fetched,
\* replaced or given up while its scans ran, once it has heard of all its
\* store did, no rescan is queued or running and the last one did not fail.
\* Signatures added since are not in it: nobody is told of them.
AdvertisedIsCurrent ==
  \A n \in Nodes :
    /\ callbacks[n] = {} /\ ~pending[n] /\ scanning[n] = None
    /\ base[n] # None /\ ~missed[n]
    => SignedSince(base[n].hash, Dirs(n))

\* A request of reconciliation never puts an older image in the place of a
\* newer one, though the store it was computed from has changed since: unless
\* what changed is that the very image it names was signed again.
NewestWins ==
  [][\A n \in Nodes : \A r \in asks[n] \ asks'[n] :
       LET was == Dirs(n)[r.name]
           is == Dirs(n)'[r.name]
           resigned == was.image = r.old /\ ~(was.stamps \subseteq r.seen) IN
       was # None => is.image = was.image \/ Last(was) < Last(is) \/ resigned]_vars

\* As of the start, an image has one signature under a name, and no other
\* image has its timestamp.
SignedOnce ==
  LET stamps(d, i) ==
        {q.stamp : q \in {x \in waiting : x.name = d /\ x.image = i}} \cup
        UNION {cur[n][d].stamps :
                 n \in {m \in Nodes : cur[m][d] # None /\ cur[m][d].image = i}}
  IN \A d \in Names, i \in Images :
       /\ Cardinality(stamps(d, i)) <= 1
       /\ \A j \in Images \ {i} : stamps(d, i) \cap stamps(d, j) = {}

\* Gossip goes both ways, and a rescan that fails is followed by one that does
\* not (nothing in the code sees to it: the next change of the store does).
Mutual == \A n, m \in Nodes : <<n, m>> \in hears => <<m, n>> \in hears
ScansMadeUp == \A n \in Nodes : []<>~missed[n]

\* Daemons that hear each other end up with the same images in a directory
\* that is not append-only, whichever requests, scans and downloads fail; if no
\* image is signed twice and no failed rescan is the last one.
Converges ==
  SignedOnce /\ Mutual /\ ScansMadeUp =>
    <>[](\A n, m \in Nodes : <<n, m>> \in hears => Dirs(n) = Dirs(m))

\* When clients are done and nothing fails any more, every reconciliation ends
\* and no new one begins, though remembered hashes are forgotten again; under
\* the same conditions.
Settles ==
  SignedOnce /\ Mutual /\ ScansMadeUp => <>[](\A n \in Nodes : task[n] = NoMap)
=============================================================================
