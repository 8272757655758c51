------------------------------- MODULE Gossip -------------------------------
(***************************************************************************)
(* The gossip between daemons (peers/gossip.rs, peers/mod.rs,              *)
(* peers/two_way_map.rs) and the part of tracking it talks to: which paths *)
(* the clients of a node watch, what a node downloads, has complete, has   *)
(* deleted.  Packets go over UDP: any may be lost, delivered twice or out  *)
(* of order.  Every second a node sends its whole state to some peers      *)
(* (BaseDirs), and between those a packet per event (Downloading,          *)
(* Complete, Reconcile).  Which base directories a node is configured for  *)
(* is asked for by hash and sent only when it changed (ConfigSync).        *)
(*                                                                         *)
(* A hash stands for what it is a hash of; the slice mask of a download    *)
(* and the base directory hashes (see Reconcile.tla) are left out.  The    *)
(* event loop runs each handler to its end, so each is one action.         *)
(***************************************************************************)
EXTENDS Naturals, FiniteSets

CONSTANTS
  Nodes,          \* machine ids
  Paths,          \* virtual paths of images
  Images,
  Keys,           \* configured directories (the first component of a path)
  KeyOf,          \* KeyOf[p]: VPath::key_vpath
  None,
  Uploaders,      \* nodes clients connect to
  Requests,       \* <<path, image>> that are uploaded; others are there from the
                  \* start, stored or half downloaded
  Storers,        \* nodes that download images
  Restarting,     \* nodes that may be restarted
  PacketsAtOnce,  \* PACKETS_AT_ONCE
  MaxEvents,      \* bound on what happens to tracking before it is calm
  MaxPackets      \* bound on the packets under way

ASSUME GossipAssumption ==
  /\ KeyOf \in [Paths -> Keys]
  /\ Uploaders \subseteq Nodes /\ Storers \subseteq Nodes
  /\ Restarting \subseteq Nodes /\ Requests \subseteq Paths \X Images
  /\ PacketsAtOnce \in Nat \ {0}
  /\ MaxEvents \in Nat /\ MaxPackets \in Nat
  /\ Images \cap {"unknown", "absent", "checking"} = {}
  /\ None \notin Images
  /\ \A keys \in SUBSET Keys : None # keys

VARIABLES
  config,     \* config[n]: the directories node n is configured for
  peers,      \* peers[n]: nodes whose id and address are known to n
  future,     \* future[n]: nodes of the peer list whose id is not known yet
  forward,    \* ConfigMap::forward: forward[n][m] what n knows of config[m]
  backward,   \* ConfigMap::backward: backward[n][k] nodes having directory k
  byHost,     \* by_host: byHost[n][m] what n knows of the state of m
  clients,    \* clients[n]: <<path, image>> being uploaded through n
  progress,   \* progress[n][p]: State::in_progress
  store,      \* store[n][p]: the image metadata has for p
  deleted,    \* deleted[n]: State::recently_deleted
  watched,    \* watched[n][p]: State::watched
  notified,   \* history: <<path, image, host>> told to the clients of n
  had,        \* history: had[n] the <<path, image>> that were ever stored, or
              \* named when a replacement was refused
  events,     \* what has happened to tracking so far
  net         \* packets under way

peerVars == <<peers, future, forward, backward, byHost>>
trackVars == <<config, clients, progress, store, deleted, had>>
vars == <<peerVars, trackVars, watched, notified, events, net>>

-----------------------------------------------------------------------------
WatchedStatus == Images \cup {"unknown", "absent", "checking"}
ShortProgress == [image : Images, source : BOOLEAN, stalled : BOOLEAN]

\* An entry with nothing in it and none at all are the same to every reader.
HostData ==
  [downloading : [Paths -> ShortProgress \cup {None}],
   complete : [Paths -> Images \cup {None}],
   watching : SUBSET Paths,
   deleted : SUBSET (Paths \X Images)]
NoData ==
  [downloading |-> [p \in Paths |-> None], complete |-> [p \in Paths |-> None],
   watching |-> {}, deleted |-> {}]

Message ==
       [type : {"BaseDirs"}, data : HostData]
  \cup [type : {"Downloading"}, path : Paths, image : Images,
        source : BOOLEAN, watches : SUBSET Nodes]
  \cup [type : {"Complete"}, path : Paths, image : Images]
  \cup [type : {"CompleteAck"}, path : Paths]
  \cup [type : {"ConfigSync"}, paths : SUBSET Keys]
  \cup [type : {"Reconcile"}, watches : SUBSET (Paths \X Nodes)]
Types == {"BaseDirs", "Downloading", "Complete", "CompleteAck", "ConfigSync",
          "Reconcile"}

\* your_config: what the sender knows of the receiver's configuration.
Packet ==
  [from : Nodes, to : Nodes, your_config : {None} \cup SUBSET Keys,
   message : Message]

TypeOK ==
  /\ config \in [Nodes -> SUBSET Keys]
  /\ peers \in [Nodes -> SUBSET Nodes]
  /\ future \in [Nodes -> SUBSET Nodes]
  /\ forward \in [Nodes -> [Nodes -> {None} \cup SUBSET Keys]]
  /\ backward \in [Nodes -> [Keys -> SUBSET Nodes]]
  /\ byHost \in [Nodes -> [Nodes -> HostData]]
  /\ clients \in [Nodes -> SUBSET (Paths \X Images)]
  /\ progress \in
       [Nodes -> [Paths -> [image : Images, stalled : BOOLEAN] \cup {None}]]
  /\ store \in [Nodes -> [Paths -> Images \cup {None}]]
  /\ deleted \in [Nodes -> SUBSET (Paths \X Images)]
  /\ watched \in [Nodes -> [Paths -> WatchedStatus]]
  /\ notified \in [Nodes -> SUBSET (Paths \X Images \X Nodes)]
  /\ had \in [Nodes -> SUBSET (Paths \X Images)]
  /\ events \in 0 .. MaxEvents
  /\ net \subseteq Packet

\* Peers::new and gossip::start with a peer list: no id is known yet.  There
\* may be images from earlier runs and downloads that were resumed, maybe to
\* replace what is stored, and both these and clients may be faster than the
\* gossip.  (Where nothing is stored downloads are of what is uploaded, and
\* stalled; elsewhere those start in a step of their own.)
Init ==
  /\ config = [n \in Nodes |-> Keys]
  /\ peers = [n \in Nodes |-> {}]
  /\ future = [n \in Nodes |-> Nodes \ {n}]
  /\ forward = [n \in Nodes |-> [m \in Nodes |-> None]]
  /\ backward = [n \in Nodes |-> [k \in Keys |-> {}]]
  /\ byHost = [n \in Nodes |-> [m \in Nodes |-> NoData]]
  /\ clients \in [Nodes -> SUBSET Requests]
  /\ \A n \in Nodes \ Uploaders : clients[n] = {}
  /\ progress \in
       [Nodes -> [Paths -> [image : Images, stalled : BOOLEAN] \cup {None}]]
  /\ store \in [Nodes -> [Paths -> Images \cup {None}]]
  /\ \A n \in Nodes, p \in Paths : store[n][p] # None => n \in Storers
  /\ \A n \in Nodes, p \in Paths :
       progress[n][p] # None =>
         /\ progress[n][p].image # store[n][p]
         /\ progress[n][p].stalled <=> n \notin Storers
         /\ <<p, progress[n][p].image>> \in Requests <=> n \notin Storers
  /\ deleted = [n \in Nodes |-> {}]
  /\ watched = [n \in Nodes |-> [p \in Paths |-> "unknown"]]
  /\ notified = [n \in Nodes |-> {}]
  /\ had = [n \in Nodes |-> {x \in Paths \X Images : store[n][x[1]] = x[2]}]
  /\ events = 0
  /\ net = {}

-----------------------------------------------------------------------------
(* What the rest of the daemon is asked for.                               *)

GetWatching(n) == {c[1] : c \in clients[n]}
HasImageSource(n, image) == \E c \in clients[n] : c[2] = image

\* Mutant of Snapshot: a watched image counts as complete while it is fetched.
SnapshotHasty(n) ==
  [downloading |->
     [p \in Paths |-> IF progress[n][p] = None THEN None ELSE
        [image |-> progress[n][p].image,
         source |-> HasImageSource(n, progress[n][p].image),
         stalled |-> progress[n][p].stalled]],
   complete |->
     [p \in Paths |-> IF watched[n][p] \in Images THEN watched[n][p]
                      ELSE IF progress[n][p] # None THEN progress[n][p].image
                      ELSE None],
   watching |-> GetWatching(n),
   deleted |-> deleted[n]]

\* get_in_progress, get_complete, get_watching and get_deleted together.
Snapshot(n) ==
  [downloading |->
     [p \in Paths |-> IF progress[n][p] = None THEN None ELSE
        [image |-> progress[n][p].image,
         source |-> HasImageSource(n, progress[n][p].image),
         stalled |-> progress[n][p].stalled]],
   complete |->
     [p \in Paths |-> IF watched[n][p] \in Images THEN watched[n][p] ELSE None],
   watching |-> GetWatching(n),
   deleted |-> deleted[n]]

\* Tracking::check_watched: paths somebody watches are looked up in metadata.
CheckWatched(n, paths) ==
  watched' = [watched EXCEPT ![n] = [p \in Paths |->
    IF /\ p \in paths /\ @[p] = "unknown"
       /\ progress[n][p] = None
       /\ KeyOf[p] \in config[n]
      THEN "checking" ELSE @[p]]]

\* Remote::forward_notify_received_image, or notify_received_image if m is n:
\* clients that upload to the path or have published the image are told.
Forward(n, m, complete) ==
  notified' = [notified EXCEPT ![n] = @ \cup
    {<<p, complete[p], m>> : p \in {q \in Paths :
        /\ complete[q] # None
        /\ q \in GetWatching(n) \/ HasImageSource(n, complete[q])}}]

\* Mutant of CheckStalled: one more than all have to give up.
CheckStalledMore(n, p, image) ==
  LET needed == backward[n][KeyOf[p]]
      View(m) == byHost[n][m].downloading[p]
      Stalled(m) == View(m) # None /\ View(m).image = image /\ View(m).stalled
      Gone(m) == View(m) = None /\ <<p, image>> \in byHost[n][m].deleted
      Wrong(m) == View(m) # None /\ View(m).image # image
      gaveUp == {m \in needed : Stalled(m) \/ Gone(m)}
  IN /\ Cardinality(gaveUp) > Cardinality(needed)
     /\ \A m \in needed : Stalled(m) \/ Gone(m) \/ Wrong(m)
     /\ \A m \in needed : Stalled(m) => ~View(m).source

\* Peers::check_stalled.
CheckStalled(n, p, image) ==
  LET needed == backward[n][KeyOf[p]]
      View(m) == byHost[n][m].downloading[p]
      Stalled(m) == View(m) # None /\ View(m).image = image /\ View(m).stalled
      Gone(m) == View(m) = None /\ <<p, image>> \in byHost[n][m].deleted
      Wrong(m) == View(m) # None /\ View(m).image # image
      gaveUp == {m \in needed : Stalled(m) \/ Gone(m)}
  IN /\ Cardinality(gaveUp) >= Cardinality(needed)
     /\ \A m \in needed : Stalled(m) \/ Gone(m) \/ Wrong(m)
     /\ \A m \in needed : Stalled(m) => ~View(m).source

-----------------------------------------------------------------------------
(* Sending.                                                                *)

Pkt(n, m, msg) ==
  [from |-> n, to |-> m, your_config |-> forward[n][m], message |-> msg]

\* What is sent and not lost joins what is under way.
Put(rest, sent) ==
  /\ net' = rest \cup sent
  /\ Cardinality(net') <= MaxPackets
Send(rest, packets) == \E kept \in SUBSET packets : Put(rest, kept)

\* dest_for_packet: all peers that watch the path, then random ones until
\* there are enough (and the next one in the order of ids, which is just one
\* of the choices here).
Destinations(n, p) ==
  LET watchers == {m \in peers[n] : p \in byHost[n][m].watching}
      enough == IF Cardinality(peers[n]) < PacketsAtOnce
                  THEN Cardinality(peers[n]) ELSE PacketsAtOnce
  IN {to \in SUBSET peers[n] : watchers \subseteq to /\ Cardinality(to) >= enough}

\* write_messages, for a message that fill_msg has been applied to.
Notify(n, p, msg) ==
  \E to \in Destinations(n, p) : Send(net, {Pkt(n, m, msg) : m \in to})

NotifyProgress(n, p, image) ==
  Notify(n, p,
    [type |-> "Downloading", path |-> p, image |-> image,
     source |-> HasImageSource(n, image),
     watches |-> {m \in Nodes : p \in byHost[n][m].watching}
                 \cup {m \in {n} : p \in GetWatching(n)}])

NotifyComplete(n, p, image) ==
  Notify(n, p, [type |-> "Complete", path |-> p, image |-> image])

\* send_gossips, every second: to every peer whose id is not known and to a
\* random choice of the others, of which `to` are not lost.
SendGossips(n, to) ==
  /\ to \subseteq peers[n] \cup future[n]
  /\ Put(net, {Pkt(n, m, [type |-> "BaseDirs", data |-> Snapshot(n)]) : m \in to})
  /\ UNCHANGED <<peerVars, trackVars, watched, notified, events>>

-----------------------------------------------------------------------------
(* Receiving: read_messages.                                               *)

\* Mutant of ConfigMapSet: the host stays listed under what it gave up.
ConfigMapSetAdding(n, m, paths) ==
  /\ forward' = [forward EXCEPT ![n][m] = paths]
  /\ backward' = [backward EXCEPT ![n] = [k \in Keys |->
        IF k \in paths THEN @[k] \cup {m} ELSE @[k]]]

\* ConfigMap::set; a directory nobody has is the same as one not in the map.
ConfigMapSet(n, m, paths) ==
  LET old == IF forward[n][m] = None THEN {} ELSE forward[n][m] IN
  /\ forward' = [forward EXCEPT ![n][m] = paths]
  /\ backward' =
       IF forward[n][m] = paths THEN backward ELSE
         [backward EXCEPT ![n] = [k \in Keys |->
            IF k \in paths THEN @[k] \cup {m}
            ELSE IF k \in old THEN @[k] \ {m} ELSE @[k]]]

\* A peer of the list whose id was not known has become known.
LearnPeer(n, m) ==
  /\ future' = [future EXCEPT ![n] = @ \ {m}]
  /\ peers' = [peers EXCEPT ![n] = IF m \in future[n] THEN @ \cup {m} ELSE @]

Watch(data, paths) == [data EXCEPT !.watching = @ \cup paths]

\* The watchers a third node tells of; what it says of n itself is skipped.
Relay(n, view, watches) ==
  [m \in Nodes |-> IF m = n THEN view[m]
     ELSE Watch(view[m], {w[1] : w \in {x \in watches : x[2] = m}})]

\* Mutant of Answers: the configuration is sent to those who know none.
AnswersOnce(n, pkt) ==
  LET m == pkt.from
      msg == pkt.message
      acked == {p \in Paths :
                  \/ msg.type = "BaseDirs" /\ msg.data.complete[p] # None
                  \/ msg.type = "Complete" /\ msg.path = p}
  IN (IF pkt.your_config # None THEN {}
      ELSE {Pkt(n, m, [type |-> "ConfigSync", paths |-> config[n]])})
     \cup (IF m \notin peers[n] \cup future[n] THEN {} ELSE
           {Pkt(n, m, [type |-> "CompleteAck", path |-> p]) : p \in acked})

\* The answers: the own configuration, if the sender has another idea of it,
\* and an acknowledgement for each completed image if the sender is a peer.
Answers(n, pkt) ==
  LET m == pkt.from
      msg == pkt.message
      acked == {p \in Paths :
                  \/ msg.type = "BaseDirs" /\ msg.data.complete[p] # None
                  \/ msg.type = "Complete" /\ msg.path = p}
  IN (IF pkt.your_config = config[n] THEN {}
      ELSE {Pkt(n, m, [type |-> "ConfigSync", paths |-> config[n]])})
     \cup (IF m \notin peers[n] \cup future[n] THEN {} ELSE
           {Pkt(n, m, [type |-> "CompleteAck", path |-> p]) : p \in acked})

Completed(n, m, complete) ==
  IF m \in peers[n] \cup future[n] THEN Forward(n, m, complete) ELSE UNCHANGED notified

\* Mutant of ReceiveBaseDirs: what the host has deleted is added up.
ReceiveBaseDirsMerging(n, m, msg) ==
  /\ msg.type = "BaseDirs"
  /\ byHost' = [byHost EXCEPT ![n][m] =
        [msg.data EXCEPT !.deleted = @ \cup byHost[n][m].deleted]]
  /\ CheckWatched(n, msg.data.watching)
  /\ Completed(n, m, msg.data.complete)
  /\ UNCHANGED <<forward, backward>>

ReceiveBaseDirs(n, m, msg) ==
  /\ msg.type = "BaseDirs"
  /\ byHost' = [byHost EXCEPT ![n][m] = msg.data]
  /\ CheckWatched(n, msg.data.watching)
  /\ Completed(n, m, msg.data.complete)
  /\ UNCHANGED <<forward, backward>>

ReceiveDownloading(n, m, msg) ==
  LET view == [byHost[n] EXCEPT ![m].downloading[msg.path] =
        [image |-> msg.image, source |-> msg.source, stalled |-> FALSE]] IN
  /\ msg.type = "Downloading"
  /\ byHost' = [byHost EXCEPT ![n] =
        Relay(n, view, {msg.path} \X msg.watches)]
  /\ CheckWatched(n, {msg.path})
  /\ UNCHANGED <<forward, backward, notified>>

ReceiveComplete(n, m, msg) ==
  LET complete == [NoData.complete EXCEPT ![msg.path] = msg.image] IN
  /\ msg.type = "Complete"
  /\ byHost' = [byHost EXCEPT ![n][m] = [@ EXCEPT !.downloading[msg.path] = None,
                                                 !.complete[msg.path] = msg.image]]
  /\ Completed(n, m, complete)
  /\ UNCHANGED <<forward, backward, watched>>

ReceiveCompleteAck(n, m, msg) ==
  /\ msg.type = "CompleteAck"
  /\ byHost' = [byHost EXCEPT ![n][m].watching = @ \ {msg.path}]
  /\ UNCHANGED <<forward, backward, watched, notified>>

ReceiveConfigSync(n, m, msg) ==
  /\ msg.type = "ConfigSync"
  /\ ConfigMapSet(n, m, msg.paths)
  /\ UNCHANGED <<byHost, watched, notified>>

ReceiveReconcile(n, m, msg) ==
  /\ msg.type = "Reconcile"
  /\ byHost' = [byHost EXCEPT ![n] = Relay(n, @, msg.watches)]
  /\ UNCHANGED <<forward, backward, watched, notified>>

\* `rest`: what is under way without this packet, or with it if it is
\* delivered once more; `kept`: the answers that are not lost.
Receive(pkt, rest, kept) ==
  LET n == pkt.to  m == pkt.from  msg == pkt.message IN
  /\ LearnPeer(n, m)
  /\ \/ ReceiveBaseDirs(n, m, msg) \/ ReceiveDownloading(n, m, msg)
     \/ ReceiveComplete(n, m, msg) \/ ReceiveCompleteAck(n, m, msg)
     \/ ReceiveConfigSync(n, m, msg) \/ ReceiveReconcile(n, m, msg)
  /\ kept \subseteq Answers(n, pkt)
  /\ Put(rest, kept)
  /\ UNCHANGED <<trackVars, events>>

Calm == events = MaxEvents

Deliver(pkt) == \E kept \in SUBSET Answers(pkt.to, pkt) :
                  Receive(pkt, net \ {pkt}, kept)
Duplicate(pkt) == /\ ~Calm
                  /\ \E kept \in SUBSET Answers(pkt.to, pkt) :
                       Receive(pkt, net, kept)
DeliverSyncing(pkt) ==
  Receive(pkt, net \ {pkt},
          {x \in Answers(pkt.to, pkt) : x.message.type = "ConfigSync"})
From(m, n, kind, pkt) ==
  pkt.from = m /\ pkt.to = n /\ pkt.message.type \in kind

-----------------------------------------------------------------------------
(* The timers of tracking.                                                 *)

\* State::poll_watched: the lookup of a watched path has ended.  It is polled
\* before each gossip, by the 15 second timer and by the HTTP interface.
PollWatched(n, p) ==
  /\ watched[n][p] = "checking"
  /\ watched' = [watched EXCEPT ![n][p] =
        IF store[n][p] = None THEN "absent" ELSE store[n][p]]
  /\ IF store[n][p] = None THEN UNCHANGED net
     ELSE NotifyComplete(n, p, store[n][p])
  /\ UNCHANGED <<peerVars, trackVars, notified, events>>

\* The 15 second timer: paths that nobody watches or downloads any more.
ForgetWatched(n) ==
  LET all == GetWatching(n) \cup UNION {byHost[n][m].watching \cup
               {p \in Paths : byHost[n][m].downloading[p] # None} : m \in Nodes}
  IN /\ watched' = [watched EXCEPT ![n] =
           [p \in Paths |-> IF p \in all THEN @[p] ELSE "unknown"]]
     /\ UNCHANGED <<peerVars, trackVars, notified, events, net>>

-----------------------------------------------------------------------------
(* What happens to tracking, MaxEvents times at most.                      *)

Happens == events < MaxEvents /\ events' = events + 1

\* A client starts to upload through n: it publishes the image and asks for
\* the path.
ClientConnects(n, p, image) ==
  /\ Happens
  /\ clients' = [clients EXCEPT ![n] = @ \cup {<<p, image>>}]
  /\ UNCHANGED <<peerVars, config, progress, store, deleted, had, watched,
                 notified, net>>

ClientLeaves(n) ==
  /\ Happens
  /\ clients[n] # {}
  /\ clients' = [clients EXCEPT ![n] = {}]
  /\ notified' = [notified EXCEPT ![n] = {}]
  /\ UNCHANGED <<peerVars, config, progress, store, deleted, had, watched, net>>

\* fetch_dir::start.
FetchStart(n, p, image) ==
  /\ Happens
  /\ KeyOf[p] \in config[n]
  /\ progress[n][p] = None /\ store[n][p] # image
  /\ progress' = [progress EXCEPT ![n][p] = [image |-> image, stalled |-> FALSE]]
  /\ deleted' = [deleted EXCEPT ![n] = @ \ {<<p, image>>}]
  /\ NotifyProgress(n, p, image)
  /\ UNCHANGED <<peerVars, config, clients, store, had, watched, notified>>

\* A slice, or the index, has come: the download is not stalled.
Progressed(n, p) ==
  /\ Happens
  /\ progress[n][p] # None
  /\ progress' = [progress EXCEPT ![n][p].stalled = FALSE]
  /\ NotifyProgress(n, p, progress[n][p].image)
  /\ UNCHANGED <<peerVars, config, clients, store, deleted, had, watched,
                 notified>>

Stalls(n, p) ==
  /\ Happens
  /\ progress[n][p] # None
  /\ progress' = [progress EXCEPT ![n][p].stalled = TRUE]
  /\ UNCHANGED <<peerVars, config, clients, store, deleted, had, watched,
                 notified, net>>

\* Mutant of DirCommitted: a lookup under way is left alone.
DirCommittedLate(n, p) ==
  LET image == progress[n][p].image IN
  /\ Happens
  /\ progress[n][p] # None
  /\ progress' = [progress EXCEPT ![n][p] = None]
  /\ store' = [store EXCEPT ![n][p] = image]
  /\ had' = [had EXCEPT ![n] = @ \cup {<<p, image>>}]
  /\ watched' = [watched EXCEPT ![n][p] = IF @ = "absent" THEN @ ELSE image]
  /\ Forward(n, n, [NoData.complete EXCEPT ![p] = image])
  /\ NotifyComplete(n, p, image)
  /\ UNCHANGED <<peerVars, config, clients, deleted>>

\* Subsystem::dir_committed.
DirCommitted(n, p) ==
  LET image == progress[n][p].image IN
  /\ Happens
  /\ progress[n][p] # None
  /\ progress' = [progress EXCEPT ![n][p] = None]
  /\ store' = [store EXCEPT ![n][p] = image]
  /\ had' = [had EXCEPT ![n] = @ \cup {<<p, image>>}]
  /\ watched' = [watched EXCEPT ![n][p] = image]
  /\ Forward(n, n, [NoData.complete EXCEPT ![p] = image])
  /\ NotifyComplete(n, p, image)
  /\ UNCHANGED <<peerVars, config, clients, deleted>>

\* Subsystem::dir_aborted.
DirAborted(n, p) ==
  /\ Happens
  /\ progress[n][p] # None
  /\ progress' = [progress EXCEPT ![n][p] = None]
  /\ deleted' = [deleted EXCEPT ![n] = @ \cup {<<p, progress[n][p].image>>}]
  /\ UNCHANGED <<peerVars, config, clients, store, had, watched, notified, net>>

\* Subsystem::dir_deleted, after the cleanup removed an image.
DirDeleted(n, p) ==
  /\ Happens
  /\ progress[n][p] = None /\ store[n][p] # None
  /\ store' = [store EXCEPT ![n][p] = None]
  /\ deleted' = [deleted EXCEPT ![n] = @ \cup {<<p, store[n][p]>>}]
  /\ UNCHANGED <<peerVars, config, clients, progress, had, watched, notified,
                 net>>

\* Tracking::replace_dir, when the metadata refuses because it has another
\* image for the path: this one is named complete from now on, though it may
\* be an upload in progress ("TODO not always complete").
ReplaceRefused(n, p) ==
  LET other == IF progress[n][p] # None THEN progress[n][p].image
               ELSE store[n][p] IN
  /\ Happens
  /\ KeyOf[p] \in config[n]
  /\ other # None
  /\ watched' = [watched EXCEPT ![n][p] = other]
  /\ had' = [had EXCEPT ![n] = @ \cup {<<p, other>>}]
  /\ UNCHANGED <<peerVars, config, clients, progress, store, deleted, notified,
                 net>>

\* The lookup of a watched path fails, for the error of a disk say.
LookupFails(n, p) ==
  /\ Happens
  /\ watched[n][p] = "checking"
  /\ watched' = [watched EXCEPT ![n][p] = "unknown"]
  /\ UNCHANGED <<peerVars, trackVars, notified, net>>

\* DELETED_RETENTION is over.
DeletedExpires(n) ==
  /\ Happens
  /\ deleted[n] # {}
  /\ deleted' = [deleted EXCEPT ![n] = {}]
  /\ UNCHANGED <<peerVars, config, clients, progress, store, had, watched,
                 notified, net>>

\* A rescan changed the hash of a base directory: notify_basedir, with the
\* watchers of the paths in it.
BaseDirChanged(n, p) ==
  /\ Happens
  /\ Notify(n, p, [type |-> "Reconcile", watches |->
       {w \in Paths \X Nodes : 
          /\ KeyOf[w[1]] = KeyOf[p]
          /\ \/ w[1] \in byHost[n][w[2]].watching
             \/ w[2] = n /\ w[1] \in GetWatching(n)}])
  /\ UNCHANGED <<peerVars, trackVars, watched, notified>>

\* The daemon is restarted, maybe with another configuration.
Restart(n, keys) ==
  /\ Happens
  /\ config' = [config EXCEPT ![n] = keys]
  /\ peers' = [peers EXCEPT ![n] = {}]
  /\ future' = [future EXCEPT ![n] = Nodes \ {n}]
  /\ forward' = [forward EXCEPT ![n] = [m \in Nodes |-> None]]
  /\ backward' = [backward EXCEPT ![n] = [k \in Keys |-> {}]]
  /\ byHost' = [byHost EXCEPT ![n] = [m \in Nodes |-> NoData]]
  /\ clients' = [clients EXCEPT ![n] = {}]
  /\ progress' = [progress EXCEPT ![n] = [p \in Paths |-> None]]
  /\ deleted' = [deleted EXCEPT ![n] = {}]
  /\ watched' = [watched EXCEPT ![n] = [p \in Paths |-> "unknown"]]
  /\ notified' = [notified EXCEPT ![n] = {}]
  /\ UNCHANGED <<store, had, net>>

\* Nothing more happens to tracking.
BecomesCalm ==
  /\ events < MaxEvents
  /\ events' = MaxEvents
  /\ UNCHANGED <<peerVars, trackVars, watched, notified, net>>

Event ==
  \/ \E r \in Requests :
       \/ \E n \in Uploaders : ClientConnects(n, r[1], r[2])
       \/ \E n \in Storers : FetchStart(n, r[1], r[2])
  \/ \E n \in Uploaders : ClientLeaves(n)
  \/ \E n \in Storers, p \in Paths :
       \/ Progressed(n, p) \/ Stalls(n, p) \/ DirCommitted(n, p)
       \/ DirAborted(n, p) \/ DirDeleted(n, p) \/ BaseDirChanged(n, p)
       \/ ReplaceRefused(n, p) \/ LookupFails(n, p)
  \/ \E n \in Storers : DeletedExpires(n)
  \/ \E n \in Restarting, keys \in SUBSET Keys : Restart(n, keys)
  \/ BecomesCalm

Next ==
  \/ Event
  \/ \E n \in Nodes, to \in SUBSET Nodes : SendGossips(n, to)
  \/ \E pkt \in net : Deliver(pkt) \/ Duplicate(pkt)
  \/ \E n \in Nodes, p \in Paths : PollWatched(n, p)
  \/ \E n \in Nodes : ForgetWatched(n)

Spec == Init /\ [][Next]_vars

\* The timers run, peers are chosen at random and the network neither stops nor
\* loses every packet of a kind between two nodes: what is sent again and again
\* arrives.
Fairness ==
  /\ \A n \in Nodes, p \in Paths : WF_vars(PollWatched(n, p))
  /\ WF_vars(\E pkt \in net : Deliver(pkt))
  /\ \A n \in Nodes : \A m \in Nodes \ {n} :
       /\ SF_vars(SendGossips(m, {n}))
       /\ SF_vars(\E pkt \in net : From(m, n, {"BaseDirs"}, pkt) /\ DeliverSyncing(pkt))
FairSpec == Spec /\ Fairness

-----------------------------------------------------------------------------
(* Properties                                                              *)

\* The two halves of ConfigMap stay inverse to each other, so the
\* `unreachable!()` of ConfigMap::set is, and no node is listed for itself
\* ("current peer is never in the list", dest_for_packet).
ConfigMapInverse ==
  \A n, m \in Nodes : \A k \in Keys :
    /\ m \in backward[n][k] <=> forward[n][m] # None /\ k \in forward[n][m]
    /\ n \notin backward[n][k]

\* A client is only told of a host that did commit the image, however late,
\* doubled or out of order the packets come; the exception is a host that
\* refused a replacement in favour of the image (see ReplaceRefused).
NotifiedIsTrue ==
  \A n \in Nodes : \A t \in notified[n] : <<t[1], t[2]>> \in had[t[3]]

\* Whatever was lost, once things are calm every node knows the configuration
\* of every other one, and goes on to.
ConfigsLearned ==
  <>[](Calm => \A n, m \in Nodes : n # m => forward[n][m] = config[m])

\* ... and what the others download and have deleted.
ViewsConverge ==
  <>[](Calm => \A n, m \in Nodes : n # m =>
         /\ byHost[n][m].downloading = Snapshot(m).downloading
         /\ byHost[n][m].deleted = deleted[m])

\* A client that waits for its image to arrive at the nodes is told of each
\* that has one in place, though a lookup may have been under way when it was
\* committed and the entry forgotten before the client's interest was known;
\* unless the node has named another image complete (see ReplaceRefused), whose
\* download was given up after that.
WatcherNotified ==
  \A n \in Uploaders, m \in Storers : \A p \in Paths :
    (/\ Calm /\ n # m /\ p \in GetWatching(n) /\ KeyOf[p] \in config[m]
     /\ store[m][p] # None /\ progress[m][p] = None
     /\ watched[m][p] \notin Images \ {store[m][p]})
      ~> (<<p, store[m][p], m>> \in notified[n])

\* When every node with the directory has stalled on an image or has given it
\* up, and nobody is a source, each of them finds out (and gives it up).
StallSeen ==
  \A n \in Nodes : \A p \in Paths :
    LET image == progress[n][p].image IN
    (/\ Calm /\ progress[n][p] # None
     /\ \A m \in {x \in Nodes : KeyOf[p] \in config[x]} :
          \/ /\ progress[m][p] = [image |-> image, stalled |-> TRUE]
             /\ ~HasImageSource(m, image)
          \/ progress[m][p] = None /\ <<p, image>> \in deleted[m])
      ~> (progress[n][p] # None /\ CheckStalled(n, p, image))

=============================================================================
