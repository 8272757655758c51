# ciruela: a verification project

Ciruela distributes images (directories of files) to a cluster. A client signs
the index of a directory (hashes of files in blocks) and asks a daemon to append
or to replace a virtual path; the daemon downloads index and blocks from
whoever has them, puts the directory in place and spreads the word by gossip.
The code is under `src/src/`: the daemon is `src/src/daemon/`, the client
library `src/src/cluster/`, what both share `src/src/proto/`.

This document has: the inventory of the system, the modules and how they
correspond to the code, the runs and what they show, the proofs, where code and
documentation disagree, what is left out, and the plan.

## 1. Inventory

### Threads

The daemon has one event loop (tk_easyloop, all futures of tracking, peers and
remote) and two thread pools: the *metadata* pool and the *disk* pool. Shared
state is behind named mutexes. A future that hands work to a pool continues
later on the event loop: everything may happen in between. That, the crash
between two such steps, and the unreliable network are where the code is hard.
The client is one event loop.

### Components

| component | state | operations | talks to | correct when |
|---|---|---|---|---|
| metadata store (`metadata/`) | `.state`, `.new.state`, index files; `writing`, `collecting` | start_append, start_replace, resume_upload, dir_committed, dir_aborted, remove_state_file, scan_dir, index_gc, store_index, read_index | tracking | one upload per path; append-only honoured; signatures kept; `.state` tells the truth; used indexes survive |
| upload life cycle (`tracking/fetch_dir.rs`, `tracking/mod.rs`) | `in_progress`, one `Downloading` each | append_dir, replace_dir, fetch_dir and its chain, dir_committed, dir_aborted | metadata, disk, registry, peers, remote | every accepted upload ends; nothing is leaked |
| start and resumption (`tracking/mod.rs`) | rescan channel, first-time flag | scan, check_exists, resume_dir | metadata, disk | interrupted uploads are resumed, the loop survives |
| cleanup (`tracking/cleanup.rs`, `cleanup/`) | queue of commands, keep list | find_unused, remove_state_file, remove_image | metadata, disk | removes only what the policy says and nobody uses |
| index registry (`tracking/fetch_index.rs`) | id → InProgress or Done(Weak) | get, read, fetch, deadline, drop | metadata, remote | one attempt at a time, every waiter is told |
| index collector (`metadata/index_gc.rs`) | set of marks | snapshot, mark, sweep | metadata | no index in use is removed |
| block fetching (`tracking/fetch_blocks.rs`, `progress.rs`) | slices, counters, futures, mask | fill_blocks, poll | remote, disk, gossip | no block lost, bounded, ends |
| reconciliation (`tracking/reconciliation.rs`) | `reconciling`: hash → hosts that have it | reconcile_dir, GetBaseDir and retries, merge, requests to the own store | peers, remote, metadata | directories become equal and calm, newer images win, does not fight the cleanup |
| base directories (`tracking/base_dir.rs`) | hash, recent parent hashes, counters | scan, commit_scan | metadata, gossip | the hash advertised is the hash of what is there |
| gossip and peers (`peers/`) | state and configuration of every host; watched paths | packets, timers, stall detection, notification of clients | tracking, remote | views converge whatever is lost; clients are told the truth, and are told; stalls found |
| remote (`remote/`, `proto/`, `failure_tracker.rs`) | connections, published images, channels, pending requests, back-off | connect, publish, request, respond, close | all | each request gets its own answer or fails; tables hold live connections |
| cluster library (`cluster/`) | connection set, channel of notifications, bookkeeping of the upload | connect, append or replace, count answers, time out | daemon | reports success only for what is there; ends; keeps trying |
| CLI, HTTP, configuration, wire formats, discovery | none or read-only | | | |

`PROJECT.json` lists every component with its status, and every hazard with the
line where it bites and the property that would catch it.

## 2. Modules

| module | models | uses |
|---|---|---|
| `PathLife` | the abstract life of a path: what the daemon promises | |
| `Metadata` | the store: one operator per operation | |
| `Uploads` | one daemon: store, tasks, scans, cleanup, start, crash; implements `PathLife` | `Metadata`, `PathLife` |
| `IndexRegistry` | the in-memory registry of indexes, for one image id | |
| `IndexGc` | the index collector beside uploads, cleanup and resumption | |
| `FetchBlocks` | the download of the blocks of one image | |
| `Retention` | the retention policy and its two users | |
| `Gossip` | the daemons' packets, what each knows of the others, what clients are told | |
| `Connections` | the connections of a daemon and the requests on them | |
| `ClusterSet` | the uploading client: its connection set and its upload | |
| `Reconcile` | reconciliation of a base directory between daemons | |
| `UploadsProofs` | theorems | `Uploads`, `Metadata`, `PathLife` |
| `IndexProofs` | theorems on both modules about indexes | `IndexRegistry`, `IndexGc` |
| `FetchBlocksProofs`, `RetentionProofs`, `GossipProofs`, `ConnectionsProofs`, `ClusterSetProofs`, `ReconcileProofs` | theorems | the module they are named for |
| `MC*` | symmetry sets and constants for TLC | the module they are named for |

Definitions whose comment starts with "Mutant of" are deliberately wrong
versions of the definition that follows; they document which error in the code
each property would reveal and belong to no specification.

### PathLife

Two variables, `published` and `uploading`, and six steps: Begin, Publish,
GiveUp, Withdraw, Remove, Forget. `Uploads` instantiates it (`PL`)
with `published[p]` the image of `.state` and `uploading[p]` the entry of `writing`. That `Uploads`
implements it says, of all the interleavings of requests, scans, cleanup,
resumption and crashes: an image is published only by the upload that holds the
path; an append-only path is never exchanged; nothing is removed while an upload
holds the path; a crash publishes nothing.

### Metadata and Uploads

`stateFile`, `newFile` are the two files of a path, `writing` the map behind the
mutex "metadata_writing". An operation that holds the mutex until it returns is
one action (AppendNew, ReplaceNew, AlreadyDone, InProgress, ResumeUpload,
DirCommitted, DirAborted, RemoveStateFile). `all_states` takes the mutex only to
look at one entry, so a scan is a process: ScanList, then per file ScanReadState
or ScanCheckNew, followed by ScanReadNew or ScanRemoveNew. File times are reduced
to `recent`: the files that are not older than the start of the last cleanup,
which is all that `is_fresher` asks.

`Uploads` adds the directory on disk (`dest`), download tasks, the table
`in_progress`, the cleanup loop and the first scan. A task goes through
accepted, fetch, commit, acking, committed (or aborting, aborted), idle: each
arrow is a hand-over between threads. The stages that only touch the temporary
directory are one phase, "fetch"; what happens in it is `IndexRegistry` and
`FetchBlocks`. The cleanup may judge any published image unused: the choice is
the policy in `Retention`. A crash loses all memory; files stay, except the
directories an operator removes (`Wipeable`).

An error of `resume_dir` ends the rescan loop (`boot.pc = "ended"`); after that
the next `rescan_dir` panics. The model takes the panic for the end of the
process (action RescanPanics): the supervisor restarts it.

`breached` is a history variable. It collects the paths on which one of six
windows was hit, after which `.state` may not describe the directory:

1. a scan removes the `.new.state` of a running upload (ScanRemove);
2. `remove_image` comes after the path was uploaded again (CleanImage);
3. a crash between `commit_image` and `dir_committed`;
4. `commit_image` exchanges the directories and fails to remove the old one;
5. the directory was removed while the daemon was down;
6. the rename of `.new.state` fails.

Outside them the store tells the truth, for every interleaving; that is the
main theorem. The first two are faults of the code (section 5).

### IndexRegistry

`entry` is the registry's entry for one id (entries of different ids do not
interact). An attempt reads the index from the store or fetches it, and sends it
to all users of its shared future. References are counted by looking at who
holds what; the drop of the last one is two steps (the count reaches zero, then
the mutex is taken), because it may run on a disk thread. `displaced` records
that a drop removed an entry that was not its own; `panicked` and `stuck` are
the two possible consequences, and RegistrySound says they have no other cause.
An index that was read from the store stays in the registry as InProgress for
good (`fetch_index.rs:298-305` sends the index without changing the entry),
which is why `Alive` looks at the entry too.

### IndexGc

Requests are split at the points the collector can see: mark, insert in
`writing`, write of `.new.state` with the mutex held. The collector is Snapshot,
Set, List, Mark per file, Sweep, then Check and Remove per index: whether an
index is there is looked up when the sweep comes to it. `cached` are
the images whose index stays in the registry (see above): their next upload does
not store it again.

### FetchBlocks

`poll` is a run through pc = poll, issue, parked. Each block is queued, fetching,
writing or written; `lost` would be a block whose slice was gone when its
request failed. `armed` are the futures polled in their present state, so that a
lost wakeup is visible. Time is two flags: FETCH_DEADLINE has passed (`late`),
RETRY_CLUSTER_FAILURE has passed without progress (`quiet`). Whether the rest of
the cluster is stalled (`check_stalled`) is left open here; `Gossip` has it.

### Retention

`SortOut` is `sort_out` as a relation, since equal timestamps come out in the
order of a hash map. `BiggestTimestamp` is the function of that name, which takes
the minimum. Clean and Reconcile are its two users. Clean may stop anywhere, as
the loop does at its first error; `leftover` is history: what the pass had judged
unused and did not come to.

### Gossip

Per node: its configuration, the peers whose id it knows (`peers`) and those it
only has an address of (`future`), the two halves of `ConfigMap` (`forward`,
`backward`), what it knows of each host (`byHost`: downloading, complete,
watching, deleted), and the part of tracking that gossip reads and writes
(`progress`, `store`, `deleted`, `watched`). `net` is a set of packets under
way. Sending puts any subset of the packets of a step on the network (the rest
is lost), delivery removes one or leaves it there to come again, and any packet
may be next: UDP.

Every handler is one action: the second's timer (SendGossips: BaseDirs to some
peers, with the ConfigSync that goes with it), one branch of the receiver per
message (ReceiveBaseDirs, ReceiveDownloading, ReceiveComplete,
ReceiveCompleteAck, ReceiveConfigSync, ReceiveReconcile) with the answers it
sends (Answers), the lookups of watched paths (PollWatched, LookupFails,
ForgetWatched), and what happens in tracking (FetchStart, Progressed, Stalls,
DirCommitted, DirAborted, DirDeleted, ReplaceRefused, DeletedExpires,
BaseDirChanged) and to clients. Restart loses memory and may change the
configuration. `CheckStalled` is the function of that name as a predicate.

`notified` and `had` are history: what the clients of a node were told, and what
each node ever had. `Requests` is what clients upload; other images are there
from the start, stored or half downloaded. A configuration hash stands for the
configuration.

### Connections

One daemon: connections through new, connecting, open, closed; the tables
`incoming`, `outgoing`, `declared_images`; per connection the channel (`queue`),
the registry of numbered requests and what the peer has yet to answer. Request
numbers wrap around at `IdSpace` and skip those in use (`SendNext` takes the next
free one, as the loop in `proto/request.rs` does). EnsureConnected, Fetch (the
tiers `fetch_block` goes through to choose a connection) and GetBaseDir put a
request in; Answer, with its error branch, Abandon (the future is dropped),
ConnectFails and Close (the connection is dropped with its channel and its
registry, the images it declared are taken back, the failure is counted) take
it out. Both back-off policies of `failure_tracker.rs` are a delay that grows
with each failure up to a maximum.

### ClusterSet

`ConnectionSet::poll` is a run through idle, read, connect, pending, wakeup,
upload; the tasks of the connections, which share the event loop, only act when
pc = "idle". Each round of its loop starts by arming the retry timer again if it
has fired (PollConnect). `chan` is the channel of notifications they fill; `book` is
`Bookkeeping` (accepted, rejected, done, discovered, aborted...); `Check` is
`Upload::poll`'s decision, with early success after `early_timeout`. Connections
fail, close and come back; hosts answer that they accept, reject or have the
image already, and name others; those others, or they, announce the image or
give it up, in any order. Servers also announce other images at a path that the
client watches, and the client does not compare the id: NotifyReceived has both
kinds, the other one of the hosts in `Holders`. `stored` and `others` are history: the hosts of which the one and the other
was announced. A panic of the client is the state pc = "panicked".

### Reconcile

Several daemons with one base directory. `base[n]` has the hash that is
advertised and the recent ones (`parents`); a hash is the list it is made of. A
daemon that hears an unknown hash (ReconcileDir) starts a task: ask for the list
(GotBaseDir, RequestFails with a retry and then NextHost), scan the own store
(ScanLocal), and Merge, which takes at most MaxDownloading new paths and leaves
the rest to the next round when throttled. What it takes becomes a request to
the own store (`asks`, RunAsk), which answers as it would to a client: accepted,
already done, in progress, refused; or with an error (AskFails). The store changes
on its own threads (Started, Commit, Abort); the tracking thread hears of it
later, through a callback or a channel (`callbacks`, Hears), and only then queues
a rescan. Rescan, CommitScan and ScanFails are the rescan loop. `missed` (the
last rescan failed) and `seen` of a request are history. Gossip reaches whom the
scenario says (`hears`).
What there is at the start, what clients will upload and how often something
fails is a scenario: a member of the constant `Scenarios`.

## 3. Runs

Passing:

| run | module | instance | states | properties |
|---|---|---|---|---|
| `uploads_crash` | MCUploads | 1 path, 2 images, 2 tasks, 1 scanner, I/O errors, 1 crash, directory may vanish | 102k | OneWriter, StateDescribesDir, UploadIntact, InProgressIsLive |
| `uploads_append` | MCUploads | append-only, 2 signatures of which 1 trusted, auto-clean, 1 crash | 106k | Vouched, AppendOnlyKept, SignaturesGrow, UploadsEnd, ImplementsPathLife |
| `index_registry` | MCIndexRegistry | 2 users, 3 attempts | 23k | RegistrySound, CacheHonest, Answered |
| `index_gc` | MCIndexGc | 1 path, 2 images, 2 requests | 168k | PinnedKept |
| `fetch_blocks` | MCFetchBlocks | 4 blocks, chunks of 1, 2 slices, limit 2, failing writes | 161k | ProgressHonest, DoneIsComplete, Bounded, WillWake, Ends |
| `retention` | MCRetention | 4 names, times 0..2, keep 1..2, recent 1 | 15k | PolicyKept, FetchedIsKept |
| `gossip` | MCGossip | 2 nodes (one uploads, one stores and may restart), 1 path, 2 images of which 1 is uploaded, 2 events, 1 packet under way | 150k | ConfigMapInverse, NotifiedIsTrue, ConfigsLearned, ViewsConverge, WatcherNotified, StallSeen |
| `connections` | MCConnections | 2 connections, 1 address, 1 image, 3 requests, 2 ids | 50k | NoOrphan, ReplyMatches, SourceIsReal, OutgoingLive, EveryRequestResolves |
| `cluster_upload` | MCClusterSet | 2 hosts of which 1 given, 2 initial connections, 1 loss, 1 unread notification; the learned host has an old image | 5.4M | OkIsSound, ConnectionsCounted |
| `cluster_progress` | MCClusterSet | 1 host, weak errors, 2 losses | 29k | UploadEnds, KeepsTrying |
| `reconcile` | MCReconcile | 7 scenarios with 2 or 3 daemons, 2 names, 3 images | 106k | EntryHasTask, AdvertisedIsCurrent, NewestWins, Converges, Settles |

Violated, on purpose: it states what an assertion of the code says.

| run | property | what TLC finds |
|---|---|---|
| `rescan_loop` | RescanLoopLives | An upload accepted during the first scan makes resume_dir fail, which ends the rescan loop; the next rescan_dir panics |

Why the bounds are enough.

- Store. Paths do not interact except through scans and the cleanup, which take
  them one by one, and the proofs are path by path, so one path shows what there
  is; two images are what it takes to replace one by another; two tasks are an
  upload and the one that follows it before the first has left `in_progress`; a
  second crash meets no state that one crash and an empty memory do not.
- Registry. Two users share an attempt while a third attempt is possible.
- Blocks. Four blocks in two slices give every slice more than one block,
  hardlinked blocks shift the numbering, and the limit of two is reached with
  both slices busy.
- Policy. Four names are two more than keep-max, so that a cleanup can remove
  something and still leave too much, or stop between two removals.
- Gossip. Nodes are told apart by what they do for an upload: one has the client
  and one has the image; a third would repeat the exchange of the pair. The
  second image is one that the storing node has, or is downloading over another,
  when the upload of the first comes in. One packet under way is not one packet in order: it may stay while both nodes
  change (two events, which may be the start of a download and its end, its
  commit and its deletion, or a commit and a restart), come late, and come twice.
  The safety properties are proved for any number of everything.
- Connections. Three requests on two ids make the number wrap around and meet
  one in use; two connections are an address that is closed and connected again,
  or one outgoing and one incoming. Each connection and request of the instance
  is used once, so the run may stop: deadlock is not checked.
- Client. Two hosts, one of which is only learned from the other's answer, give
  each order of answer, discovery, announcement and closing; with `initial = 2`
  the set is one connection short at the start. The learned host has an old image of
  the path, so its announcement may be of that one. Liveness needs one host that is
  lost and comes back, twice. A client that is done stops: no deadlock check.
- Reconciliation. Each scenario is what it takes for one mechanism to matter: two
  downloads under a throttle of one; a client's upload of a still newer image to
  the daemon that is about to fetch a newer one; a second signature of the image
  that is about to be replaced; an upload at the other daemon; a download that
  fails; two failures of requests, of scans or of the own store; a third daemon
  with two others to ask, one of which fails. The state in which daemons agree and
  are calm has no step.

Symmetry over images, tasks or names is used in the runs that check no liveness
property. `index_registry` does not check deadlock: a panicked or stuck daemon
stops, and that is what RegistrySound is about.

### Fairness

- Uploads: weak fairness of the steps of each task. The pools run what they are
  given; fetching the index and the blocks have deadlines (that the blocks' part
  ends is `Ends` in FetchBlocks). No fairness for requests, scans, cleanup, or
  the choice of success over failure. RescanPanics is fair: the `expect` is on
  the path of a task that goes on.
- IndexRegistry: weak fairness of each attempt (reads end, RETRY_FOR ends a
  fetch) and of each waiter's poll.
- FetchBlocks: weak fairness of poll, wake-ups, disk writes and the deadline
  timer; none for peers' answers.
- Gossip: the lookups of watched paths are made (weak); the timer fires and a
  peer, chosen at random, is chosen again and again (strong fairness of the timer
  step with each peer as its target); the network does not stop (weak fairness of
  the delivery of some packet), and a BaseDirs packet that is sent from one node
  to another again and again arrives, and with it, now and then, its answer
  (strong). No single packet has to arrive.
- Connections: connecting ends after 500 ms, the loop of an open connection sends
  what is in its channel, a peer that does not answer is dropped
  (`message_timeout`). The peer need not answer.
- ClusterSet: a task that was notified is polled; a name is at some time resolved
  or not; the retry timer fires when it is armed and the failures it looks at are
  at some time over; connecting, tried again and again, succeeds once. Servers need not answer
  and UploadEnds needs no more than the polls.
- Reconcile: the threads of the store, the rescan loop, the timers that forget
  deleted images and old hashes, the event loop, and gossip, which repeats every
  hash (`Gossip`). Nothing makes a download fail or a client act; failures are
  bounded by the scenario.

UploadsEnd is checked without I/O errors: with them a failed write of
`.new.state` leaves the entry in `writing` for ever, and TLC finds it violated
(see section 5). Converges and Settles are about what the last client leaves
behind, in a directory that is not append-only, where no image is signed twice and
no two have the same timestamp (`SignedOnce`), gossip goes both ways (`Mutual`) and
no failed rescan is the last one (`ScansMadeUp`); section 5 says what happens
otherwise. WatcherNotified leaves out a node that has named another image
complete in a refused replacement: without that premise TLC finds it violated.

## 4. Proofs

All for arbitrary constants, under the ASSUMEs of the modules (subsets of each
other, `None` is none of the values, limits are positive naturals, names and
hosts are finite sets). No theorem has a hypothesis besides them.

| theorem | says |
|---|---|
| `UploadsProofs!Typing` | TypeOK is invariant |
| `UploadsProofs!Safety` | OneWriter, StateDescribesDir and UploadIntact are invariant |
| `UploadsProofs!InProgressSafe` | InProgressIsLive |
| `UploadsProofs!VouchedSafe` | Vouched |
| `UploadsProofs!AppendOnlySafe` | AppendOnlyKept |
| `UploadsProofs!SignaturesSafe` | SignaturesGrow |
| `UploadsProofs!Refinement` | ImplementsPathLife: `Uploads` implements `PathLife` |
| `IndexProofs!RegistryTyping` | TypeOK of the registry |
| `IndexProofs!RegistrySafety` | RegistrySound |
| `IndexProofs!CacheSafe` | CacheHonest |
| `IndexProofs!GcTyping` | GcTypeOK |
| `IndexProofs!PinnedSafe` | PinnedKept |
| `FetchBlocksProofs!BlocksTyping` | TypeOK, so no counter wraps around |
| `FetchBlocksProofs!BlocksAccounted` | ProgressHonest |
| `FetchBlocksProofs!BlocksComplete` | DoneIsComplete |
| `FetchBlocksProofs!BlocksPolled` | Bounded and WillWake |
| `GossipProofs!GossipTyping` | TypeOK, and no node takes itself for a peer or sends to itself |
| `GossipProofs!ConfigMapSafe` | ConfigMapInverse |
| `GossipProofs!NotificationsSafe` | NotifiedIsTrue |
| `ConnectionsProofs!ConnectionsTyping` | TypeOK |
| `ConnectionsProofs!RequestsSafe` | NoOrphan and ReplyMatches |
| `ConnectionsProofs!TablesSafe` | SourceIsReal and OutgoingLive |
| `RetentionProofs!PolicySafe` | PolicyKept |
| `RetentionProofs!FetchedSafe` | FetchedIsKept |
| `ReconcileProofs!EntriesSafe` | EntryHasTask |
| `ReconcileProofs!AdvertisedSafe` | AdvertisedIsCurrent |
| `ReconcileProofs!NewestSafe` | NewestWins |
| `ClusterSetProofs!CountedSafe` | ConnectionsCounted |
| `ClusterSetProofs!OkSafe` | OkIsSound |

**Uploads.** StateDescribesDir is not inductive: dir_committed publishes what
`.new.state` says, so it must say what the task put on disk, and it must still be
there. UploadIntact adds that, and that a running upload is of another image than
the published one. OneWriter is needed for both: a second task on the path would
exchange the directory under the first. The three are proved together, one path
at a time (`PathInv(p)`): a step acts on one path, a frame lemma carries all the
others over, and each kind of step (a new upload, a commit, an abort, a
removal, a resumption, a restart) has a lemma. Window by window, `breached` gives
up StateDescribesDir and the parts of UploadIntact that depend on it, never
OneWriter. Vouched needs that `.new.state`, `.state` and whatever a scan has read
only hold images with a trusted signature; the refinement uses the same
invariants to show that each step is a step of PathLife or changes neither of
its variables.

**IndexRegistry.** One attempt at a time needs that an attempt under way has a
user waiting (so its shared future is not abandoned and its slot not reused) and
that an index being dropped is not the one an InProgress entry holds. With them
the rest follows: a fetcher that finds no InProgress entry, or an entry whose
removal would take the mutex again, needs a displaced entry.

**FetchBlocks.** Counters and slice list support each other: exact counters keep
a slice in the list while a block may still return to it, and as long as it is
listed its counter is kept exact. Then the mask and completion follow. The
wakeup argument (`Rounds`) says which futures have been polled at each stage of a
round.

**Gossip.** ConfigMapInverse needs that a node never hears of its own
configuration, hence that no packet goes back to its sender (`NoSelf`: nobody is
in its own list of peers). NotifiedIsTrue is the last link of a chain
(`Truthful`): a client is told what a packet claims of its sender, or what the
node's own lookup has found; a packet claims what its sender had stored, when it
was sent; `watched` holds what the store had when it was looked up. What a node
ever had only grows, so a packet stays true however late and however often it
comes.

**Connections.** NoOrphan and ReplyMatches rest on `Matched`: what the peer
has to answer is registered under the number it carries. It holds because an
abandoned request keeps its number until it is answered, and a new one is only
given a number that is free. `Tables` ties the phases to the tables: a new connection is in
none, an open one is in exactly one, a closed one holds nothing.

**IndexGc.** A pinned pair (p, i) is one that p has had since the collection
began. `Covered` follows it through the collector: until the set of marks is
shared it is in the snapshot or in the `.state` of p; while files are read it is
marked, or that `.state` is listed and still to be read; from the sweep on it is
marked, and so it is never the index about to be removed. The commit of an
upload moves i from `writing` to `.state`: it stays covered because it was in the
snapshot. `resume_upload` moves it out of `.state` without a mark, which
is why it ends the pin.

**Retention.** Sets of timestamps have a least member (`FirstStamp`, from the
well-foundedness of < on the naturals), so `BiggestTimestamp` is one of them.
`SortedOut` says what `sort_out` keeps, whichever of its answers comes out;
`FilledUp` counts: a cleanup that falls short of keep-min-directories fills up to
exactly that many. PolicyKept follows for a Clean in any
state where every directory has a timestamp, whatever part of the unused images
it comes to remove: KeepListHonoured and MinimumLeft speak of what is left, the
other parts of what was judged used, which is what is left when the pass comes to
its end. FetchedIsKept is about two calls of
`sort_out` on different sets: reconciliation calls it on the own directories and
the offered ones together, the cleanup on what there is then. The invariant
`FetchedUsed` keeps the first call as an existential (some larger set, some
stamps that agree on what is there, an answer that includes what was fetched),
and `NewestSame` and `SortedAgain` show that a second call on the smaller set
answers the same when no two timestamps are equal.

**Reconcile.** EntryHasTask is proved with `AsksSigned` (a request of
reconciliation asks for something some client has signed), without which the lists
could not be typed: a list holds sets of stamps that were really made; `HasLocal`
says that a task has scanned the own store by the time it merges.
AdvertisedIsCurrent needs the same of the scan under way (`ScanIsCurrent`): a scan
reads the store when it starts and is committed later, and any change in between
leaves a callback to be heard, which queues another one. Both are up to signatures
added since (`SignedSince`), of which nobody is told. NewestWins needs `AsksNewer`: a
request to replace was made from a list that is stale by the time it runs, but it
names the image it replaces and is newer than all the stamps the scan saw of it
(`seen`); unless that image was signed again they are still all there are.

**ClusterSet.** ConnectionsCounted is inductive as it stands, though not
conjunct by conjunct: `Tables` needs `Ends` (a Closed message is in the channel
only for a connection that is gone, once), since reading one empties the tables of
its host. Messages are numbered by their place in the channel, and `SentAt` and
`ReadAt` say how the places move. OkIsSound needs `Honest`: of what the channel
announces, and what the bookkeeping has as done, some server has said that it is
stored, or that another image is (`Told`); then each way to success in `Check` is
looked at.

The strengthened invariants were checked by TLC on the instances of the runs
before they were proved.

Only model-checked are the liveness properties (UploadsEnd, Answered, Ends,
ConfigsLearned, ViewsConverge, WatcherNotified, StallSeen, EveryRequestResolves,
UploadEnds, KeepsTrying, Converges, Settles): fairness and ENABLED are out of the
reach of TLAPS. Every invariant, every action property and the refinement of the
passing runs have a theorem.

## 5. Observations

Besides the violated run, reading the code for the models, and TLC's
counterexamples to first versions of the properties, showed the following. Each
is part of the models as it is; none is assumed away unless it says so here.

Store and uploads:

- `metadata/scan.rs:18`: `all_states` looks at `writing`, drops the mutex and then
  removes a `.new.state` it takes for stale, although an upload may have been
  accepted in between and have written it anew. That upload's commit publishes
  nothing (the failed rename is only logged, `metadata/mod.rs:145-164`) and
  ReceivedImage is still sent, while `doc/protocols/websocket.rst:204` says
  "received and commited". This is window 1.
- `tracking/cleanup.rs:84`: the mutex is let go before `remove_image` is queued on
  a disk thread; a new upload of the path may be committed in between, and its
  directory is then deleted. This is window 2.
- `upload.rs:117,142`: the entry of `writing` is made before `.new.state` is
  written. If the write fails the entry stays, and the path refuses every other
  image until a restart.
- `tracking/cleanup.rs:74-104`: unused images are removed one by one and the first
  error ends the pass, without a rescan: more than keep-max-directories stay, and
  older images than the ones removed may, until a later pass. MaximumLeft,
  OldestGoFirst and RecentKept are about what a pass has judged used.
- `metadata/mod.rs:171`: `.state` is removed when its mtime is old enough; that
  it is still the file the cleanup has judged is not checked (a TODO says so).
- `tracking/mod.rs:539`: the first-time scan is skipped when another scan of the
  directory was first, and then missing directories are not resumed.
- `tracking/mod.rs:514`: `dry_cleanup` ("start with no cleanup") only changes a
  log message (`cleanup.rs:35-37`); the removal goes on. The message says ten
  minutes, the timer that clears it is thirty seconds (`mod.rs:600`).

Indexes and blocks:

- `fetch_index.rs:228`: the drop of an old index removes whatever entry its id
  has; if a new attempt was started meanwhile its fetcher reaches
  `unreachable!()` (`fetch_index.rs:186`). RegistrySound says this is the only way
  there.
- `metadata/mod.rs:307`: a request that marks its image before the collector has
  made its set and enters `writing` after the snapshot is in neither: its index
  may be removed, against `doc/database/indexes.rst:26` ("we keep all indexes that
  are used"). PinnedKept is therefore about images pinned since before.
- `fetch_index.rs:298-305`: an index read from the store stays InProgress in the
  registry, memory included. After the collector has removed its file, a later
  upload takes it from memory and does not store it again.
- The bound on requests under way is CONCURRENCY + 1.
- Equal timestamps are sorted in the order of a hash map, so reconciliation and
  cleanup may choose differently among them; FetchedIsKept leaves ties out.

Reconciliation:

- A second signature of an image that is there or in progress is added to its
  file, but no rescan follows: the advertised hash is stale until something else
  causes one. GetBaseDir then answers with another hash than was asked for, which
  the comment at `reconciliation.rs:98-102` takes for a short-lived race.
  AdvertisedIsCurrent says that the images are right and signatures may be missing.
- A request to replace names the image it was computed for, not its signatures: an
  image that a client signs again after the scan is replaced by one that is older
  than that signature (`reconciliation.rs:195-199`, `upload.rs:192-198`). NewestWins
  names this case (`resigned`); without it TLC finds the property violated in the
  third scenario.
- A rescan that fails is logged and its request is gone (`tracking/mod.rs:594-597`):
  the advertised hash stays stale until the store changes again. AdvertisedIsCurrent
  excepts it (`missed`).
- A request of reconciliation that the own store answers with an error is logged,
  while the hash is already remembered as dealt with (`reconciliation.rs:243-246`,
  `290-293`): it is asked for again when the hash is forgotten.
- Different images with the same timestamps never replace each other, so two
  daemons that have them stay different.
- `doc/config/directory.rst:66-68` says that the contents of an append-only
  directory "can be changed as a part of reconciliation"; reconciliation sends a
  replacement, which `start_replace` refuses (`dir_is_append_only`). Two such
  directories with different images under one name do not become equal: with
  AppendOnly = TRUE TLC finds Converges violated.
- Of two images signed at times {1, 3} and {2} neither replaces the other.
- An image that was recently deleted is fetched again when the path has another
  image locally: the check is only made for missing paths.
- The throttle counts only `in_progress`, not the requests that were spawned and
  not answered yet.
- `num_downloading` (`base_dir.rs:76`) may wrap around; it is only shown.

Gossip:

- A refused replacement is answered, and gossiped, as if the image under way on
  that path was complete (`rpc.rs:100`, with a TODO): a client may get
  ReceivedImage before anything was committed. `had` records these (ReplaceRefused),
  and NotifiedIsTrue names the exception. If that image is then given up,
  `dir_aborted` (`tracking/mod.rs:454-468`) leaves `watched` with it, and the
  watchers of the image that is really there are never told: the premise of
  WatcherNotified.
- A watched path stays complete after the image was deleted, and what is known of
  a host is never forgotten when the host is gone for good.

Connections and client:

- PublishImage on an outgoing connection would enter a key of `declared_images`
  that nothing takes back; no peer sends it there.
- `cluster/set.rs:229`: a connection that is established and closed between two
  polls is closed before it is active, and `expect("duplicate close")` panics.
  The model reaches it (pc = "panicked"), and ConnectionsCounted and the liveness
  properties excuse the states after it: they say what holds until then.
- `set.rs:199-204` compares the path twice and never the image id. Servers send
  ReceivedImage to every connection that watches the path (`remote/mod.rs:134`), and
  forward what a peer has complete there, whichever image that is
  (`peers/gossip.rs:127-130`). A host that still has the old image of a replaced path
  is thus counted as done, and the client may report success with the new image
  stored nowhere. OkIsSound says that this is the only way: the hosts counted are
  those of which the image (`stored`) or another one (`others`) was announced.
- `--append-weak` (`doc/client/sync.rst:23`) with a single node that has another
  image ends by its deadline only (`upload.rs:119` has a TODO).
- `config.rs:36`, "keeping max `num` connections", is exceeded: a poll that finds
  one connection missing opens up to `num` new ones.
- An answer that is an error of the server is asked for again at once.
- Candidate hosts of fetches are never connected to (`set.rs:367-401`), and the
  retry timer is not armed for them.

## 6. Not modelled

- Fetches by the client (`cluster/download.rs`, `start_fetch_*` and `poll_fetch` of
  `set.rs`): the client is modelled for uploads.
- The command line, HTTP pages, wire formats, peer discovery: I/O or functions
  without state.
- File contents, permissions, fsync: a file operation happens or fails. Files
  that can not be decoded are left out. Writes into the temporary directory are
  left out: `commit_image` reads every file again and verifies it.
- The search for hardlink sources: its result is an input of FetchBlocks.
- Slice masks in packets, and `recently_received`: hints on whom to ask, and a
  wrong one costs a request. Notifications and responses in the channel of a
  connection: they take no number. The notification that is repeated when an
  image is appended again.
- The counters that are only shown.
- Actual times: a deadline may pass at any moment, a timer may fire at any
  moment after it is set.
- The composition of all of it: the modules meet at stated interfaces (the
  answers of the store in Reconcile, the phase "fetch" in Uploads, check_stalled
  in FetchBlocks), each side of which leaves open what the other may do.

## 7. Plan

Done: all modules of section 2, the refinement of PathLife, the proofs of
section 4.

Next, in this order:

1. The client's fetches.
2. The temporary directory and hardlink sources, to state that writes of an
   aborted download can not reach the next one's directory unnoticed.
3. Lemmas that bring the liveness properties closer: which measure each fair
   step lowers (steps left of a scan, blocks left of a download, answers left of
   an upload), as action properties that TLAPS can prove.
