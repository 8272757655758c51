---------------------------- MODULE GossipProofs ----------------------------
(***************************************************************************)
(* Proofs about Gossip.tla: the types, ConfigMapInverse and                *)
(* NotifiedIsTrue, for any nodes, paths, images and directories and any    *)
(* number of packets.                                                      *)
(***************************************************************************)
EXTENDS Gossip, TLAPS

USE GossipAssumption DEF Happens

-----------------------------------------------------------------------------
(* What the operators return.                                              *)

\* What is known of a host before its first packet is well formed.
LEMMA NoDataTyped == NoData \in HostData
BY DEF NoData, HostData

\* What get_in_progress, get_complete, get_watching and get_deleted return.
LEMMA SnapshotTyped ==
  ASSUME TypeOK, NEW n \in Nodes
  PROVE  Snapshot(n) \in HostData
<1>1. ASSUME NEW p \in Paths, progress[n][p] # None
      PROVE  [image |-> progress[n][p].image,
              source |-> HasImageSource(n, progress[n][p].image),
              stalled |-> progress[n][p].stalled] \in ShortProgress
  <2>1. progress[n][p] \in [image : Images, stalled : BOOLEAN]
    BY <1>1 DEF TypeOK
  <2>2. HasImageSource(n, progress[n][p].image) \in BOOLEAN
    BY DEF HasImageSource
  <2> QED BY <2>1, <2>2 DEF ShortProgress
<1>2. [p \in Paths |-> IF progress[n][p] = None THEN None ELSE
        [image |-> progress[n][p].image,
         source |-> HasImageSource(n, progress[n][p].image),
         stalled |-> progress[n][p].stalled]]
      \in [Paths -> ShortProgress \cup {None}]
  BY <1>1
<1>3. [p \in Paths |-> IF watched[n][p] \in Images THEN watched[n][p] ELSE None]
      \in [Paths -> Images \cup {None}]
  OBVIOUS
<1>4. GetWatching(n) \in SUBSET Paths
  BY DEF GetWatching, TypeOK
<1>5. deleted[n] \in SUBSET (Paths \X Images)
  BY DEF TypeOK
<1> QED BY <1>2, <1>3, <1>4, <1>5 DEF Snapshot, HostData

\* What a message of each type carries.
LEMMA MessageFields ==
  ASSUME NEW msg \in Message
  PROVE  /\ msg.type \in Types
         /\ msg.type = "BaseDirs" => msg.data \in HostData
         /\ msg.type = "Downloading" =>
              /\ msg.path \in Paths /\ msg.image \in Images
              /\ msg.source \in BOOLEAN /\ msg.watches \in SUBSET Nodes
         /\ msg.type = "Complete" => msg.path \in Paths /\ msg.image \in Images
         /\ msg.type = "CompleteAck" => msg.path \in Paths
         /\ msg.type = "ConfigSync" => msg.paths \in SUBSET Keys
         /\ msg.type = "Reconcile" => msg.watches \in SUBSET (Paths \X Nodes)
BY DEF Message, Types

\* A packet that is sent.
LEMMA PktTyped ==
  ASSUME TypeOK, NEW n \in Nodes, NEW m \in Nodes, NEW msg \in Message
  PROVE  /\ Pkt(n, m, msg) \in Packet
         /\ Pkt(n, m, msg).from = n /\ Pkt(n, m, msg).to = m
         /\ Pkt(n, m, msg).message = msg
<1>1. forward[n][m] \in {None} \cup SUBSET Keys
  BY DEF TypeOK
<1> QED BY <1>1 DEF Pkt, Packet

-----------------------------------------------------------------------------
(* The network only ever holds packets to others.                          *)

\* A node is no peer of its own, and sends nothing to itself.
NoSelf ==
  /\ \A n \in Nodes : n \notin peers[n] /\ n \notin future[n]
  /\ \A pkt \in net : pkt.from # pkt.to

\* What may be under way after a step in which n sends messages of `msgs`.
Sent(n, msgs) ==
  \A pkt \in net' : \/ pkt \in net
                    \/ /\ pkt \in Packet /\ pkt.from = n /\ pkt.to # n
                       /\ pkt.message \in msgs

\* notify sends well-formed packets to other nodes only.
LEMMA NotifySent ==
  ASSUME TypeOK, NoSelf, NEW n \in Nodes, NEW p, NEW msg \in Message,
         Notify(n, p, msg)
  PROVE  Sent(n, {msg})
<1>1. PICK to \in Destinations(n, p) : Send(net, {Pkt(n, m, msg) : m \in to})
  BY DEF Notify
<1>2. to \subseteq Nodes /\ n \notin to
  BY <1>1 DEF Destinations, NoSelf, TypeOK
<1>3. \A m \in to : /\ Pkt(n, m, msg) \in Packet /\ Pkt(n, m, msg).from = n
                    /\ Pkt(n, m, msg).to # n /\ Pkt(n, m, msg).message = msg
  BY <1>2, PktTyped
<1>4. PICK kept \in SUBSET {Pkt(n, m, msg) : m \in to} : net' = net \cup kept
  BY <1>1 DEF Send, Put
<1> QED BY <1>3, <1>4 DEF Sent

\* notify_progress.
LEMMA NotifyProgressSent ==
  ASSUME TypeOK, NoSelf, NEW n \in Nodes, NEW p \in Paths, NEW image \in Images,
         NotifyProgress(n, p, image)
  PROVE  Sent(n, [type : {"Downloading"}, path : Paths, image : Images,
                  source : BOOLEAN, watches : SUBSET Nodes])
<1> DEFINE msg == [type |-> "Downloading", path |-> p, image |-> image,
                   source |-> HasImageSource(n, image),
                   watches |-> {m \in Nodes : p \in byHost[n][m].watching}
                               \cup {m \in {n} : p \in GetWatching(n)}]
           all == [type : {"Downloading"}, path : Paths, image : Images,
                   source : BOOLEAN, watches : SUBSET Nodes]
<1>1. HasImageSource(n, image) \in BOOLEAN
  BY DEF HasImageSource
<1>2. msg \in all
  BY <1>1
<1>3. msg \in Message
  BY <1>2 DEF Message
<1>4. Notify(n, p, msg)
  BY DEF NotifyProgress
<1> HIDE DEF msg, all
<1>5. Sent(n, {msg})
  BY <1>3, <1>4, NotifySent
<1>6. Sent(n, all)
  BY <1>2, <1>5 DEF Sent
<1> QED BY <1>6 DEF all

\* notify_complete.
LEMMA NotifyCompleteSent ==
  ASSUME TypeOK, NoSelf, NEW n \in Nodes, NEW p \in Paths, NEW image \in Images,
         NotifyComplete(n, p, image)
  PROVE  Sent(n, {[type |-> "Complete", path |-> p, image |-> image]})
<1>1. [type |-> "Complete", path |-> p, image |-> image] \in Message
  BY DEF Message
<1> QED BY <1>1, NotifySent DEF NotifyComplete

\* The answers to a packet.
LEMMA AnswersSent ==
  ASSUME TypeOK, NoSelf, NEW pkt \in net, NEW rest \in SUBSET net,
         NEW kept \in SUBSET Answers(pkt.to, pkt), Put(rest, kept)
  PROVE  Sent(pkt.to, [type : {"ConfigSync"}, paths : SUBSET Keys]
                      \cup [type : {"CompleteAck"}, path : Paths])
<1> DEFINE n == pkt.to
           m == pkt.from
           sync == [type |-> "ConfigSync", paths |-> config[n]]
           ack(p) == [type |-> "CompleteAck", path |-> p]
           msgs == [type : {"ConfigSync"}, paths : SUBSET Keys]
                   \cup [type : {"CompleteAck"}, path : Paths]
<1>1. n \in Nodes /\ m \in Nodes /\ m # n
  BY DEF TypeOK, NoSelf, Packet
<1>2. sync \in msgs /\ sync \in Message
  BY <1>1 DEF TypeOK, Message
<1>3. \A p \in Paths : ack(p) \in msgs /\ ack(p) \in Message
  BY DEF Message
<1>4. Pkt(n, m, sync) \in Packet /\ Pkt(n, m, sync).from = n
      /\ Pkt(n, m, sync).to = m /\ Pkt(n, m, sync).message = sync
  <2> HIDE DEF sync
  <2> QED BY <1>1, <1>2, PktTyped
<1>5. \A p \in Paths :
        /\ Pkt(n, m, ack(p)) \in Packet /\ Pkt(n, m, ack(p)).from = n
        /\ Pkt(n, m, ack(p)).to = m /\ Pkt(n, m, ack(p)).message = ack(p)
  <2> HIDE DEF ack
  <2> QED BY <1>1, <1>3, PktTyped
<1>6. \A x \in Answers(n, pkt) :
        x = Pkt(n, m, sync) \/ \E p \in Paths : x = Pkt(n, m, ack(p))
  BY DEF Answers
<1>7. net' \subseteq net \cup kept
  BY DEF Put
<1> HIDE DEF n, m, sync, ack, msgs
<1>8. \A x \in Answers(n, pkt) :
        x \in Packet /\ x.from = n /\ x.to # n /\ x.message \in msgs
  BY <1>1, <1>2, <1>3, <1>4, <1>5, <1>6
<1>9. Sent(n, msgs)
  BY <1>7, <1>8 DEF Sent, n
<1> QED BY <1>9 DEF n, msgs

\* Sending well-formed packets keeps the network well formed.
LEMMA SentKeeps ==
  ASSUME TypeOK, NoSelf, NEW n, NEW msgs, Sent(n, msgs)
  PROVE  net' \subseteq Packet /\ \A pkt \in net' : pkt.from # pkt.to
BY DEF Sent, TypeOK, NoSelf

-----------------------------------------------------------------------------
(* Types.                                                                  *)

\* check_watched and forward_notify_received_image keep types.
LEMMA CheckWatchedTyped ==
  ASSUME TypeOK, NEW n \in Nodes, NEW paths, CheckWatched(n, paths)
  PROVE  watched' \in [Nodes -> [Paths -> WatchedStatus]]
BY DEF CheckWatched, TypeOK, WatchedStatus

\* What clients are told is well formed.
LEMMA ForwardTyped ==
  ASSUME TypeOK, NEW n \in Nodes, NEW m \in Nodes,
         NEW complete \in [Paths -> Images \cup {None}], Forward(n, m, complete)
  PROVE  notified' \in [Nodes -> SUBSET (Paths \X Images \X Nodes)]
<1>1. {<<p, complete[p], m>> : p \in {q \in Paths :
          /\ complete[q] # None
          /\ q \in GetWatching(n) \/ HasImageSource(n, complete[q])}}
      \in SUBSET (Paths \X Images \X Nodes)
  OBVIOUS
<1> QED BY <1>1 DEF Forward, TypeOK

\* The effect of a Complete on notified clients is well formed.
LEMMA CompletedTyped ==
  ASSUME TypeOK, NEW n \in Nodes, NEW m \in Nodes,
         NEW complete \in [Paths -> Images \cup {None}], Completed(n, m, complete)
  PROVE  notified' \in [Nodes -> SUBSET (Paths \X Images \X Nodes)]
BY ForwardTyped DEF Completed, TypeOK

\* The watchers told of by a third node.
LEMMA RelayTyped ==
  ASSUME NEW n \in Nodes, NEW view \in [Nodes -> HostData],
         NEW watches \in SUBSET (Paths \X Nodes)
  PROVE  Relay(n, view, watches) \in [Nodes -> HostData]
<1>1. ASSUME NEW m \in Nodes
      PROVE  Watch(view[m], {w[1] : w \in {x \in watches : x[2] = m}}) \in HostData
  <2> DEFINE W == {w[1] : w \in {x \in watches : x[2] = m}}
  <2>1. W \subseteq Paths
    OBVIOUS
  <2>2. view[m] \in HostData
    OBVIOUS
  <2> HIDE DEF W
  <2>3. \A data \in HostData : [data EXCEPT !.watching = @ \cup W] \in HostData
    BY <2>1 DEF HostData
  <2>4. Watch(view[m], W) \in HostData
    BY <2>2, <2>3 DEF Watch
  <2> QED BY <2>4 DEF W
<1> QED BY <1>1 DEF Relay

\* ConfigMap::set.
LEMMA ConfigMapSetTyped ==
  ASSUME TypeOK, NEW n \in Nodes, NEW m \in Nodes, NEW paths \in SUBSET Keys,
         ConfigMapSet(n, m, paths)
  PROVE  /\ forward' \in [Nodes -> [Nodes -> {None} \cup SUBSET Keys]]
         /\ backward' \in [Nodes -> [Keys -> SUBSET Nodes]]
BY DEF ConfigMapSet, TypeOK

\* read_messages.
LEMMA ReceiveTyped ==
  ASSUME TypeOK, NoSelf, NEW pkt \in net, NEW rest \in SUBSET net,
         NEW kept \in SUBSET Answers(pkt.to, pkt), Receive(pkt, rest, kept)
  PROVE  TypeOK' /\ NoSelf'
<1> DEFINE n == pkt.to
           m == pkt.from
           msg == pkt.message
<1>1. n \in Nodes /\ m \in Nodes /\ m # n /\ msg \in Message
  BY DEF TypeOK, NoSelf, Packet
<1>2. Put(rest, kept) /\ LearnPeer(n, m) /\ UNCHANGED <<trackVars, events>>
  BY DEF Receive
<1>3. net' \subseteq Packet /\ \A x \in net' : x.from # x.to
  BY <1>2, AnswersSent, SentKeeps
<1>4. /\ peers' \in [Nodes -> SUBSET Nodes] /\ future' \in [Nodes -> SUBSET Nodes]
      /\ \A x \in Nodes : x \notin peers'[x] /\ x \notin future'[x]
  BY <1>1, <1>2 DEF LearnPeer, TypeOK, NoSelf
<1> HIDE DEF n, m, msg
<1>5. /\ forward' \in [Nodes -> [Nodes -> {None} \cup SUBSET Keys]]
      /\ backward' \in [Nodes -> [Keys -> SUBSET Nodes]]
      /\ byHost' \in [Nodes -> [Nodes -> HostData]]
      /\ watched' \in [Nodes -> [Paths -> WatchedStatus]]
      /\ notified' \in [Nodes -> SUBSET (Paths \X Images \X Nodes)]
  <2>1. CASE ReceiveBaseDirs(n, m, msg)
    <3>1. msg.data \in HostData
      BY <1>1, <2>1, MessageFields DEF ReceiveBaseDirs
    <3>2. msg.data.complete \in [Paths -> Images \cup {None}]
      BY <3>1 DEF HostData
    <3>3. byHost' \in [Nodes -> [Nodes -> HostData]]
      BY <1>1, <2>1, <3>1 DEF ReceiveBaseDirs, TypeOK
    <3> QED BY <1>1, <2>1, <3>2, <3>3, CheckWatchedTyped, CompletedTyped
            DEF ReceiveBaseDirs, TypeOK
  <2>2. CASE ReceiveDownloading(n, m, msg)
    <3> DEFINE new == [image |-> msg.image, source |-> msg.source, stalled |-> FALSE]
               view == [byHost[n] EXCEPT ![m].downloading[msg.path] = new]
    <3>1. /\ msg.path \in Paths /\ msg.image \in Images
          /\ msg.source \in BOOLEAN /\ msg.watches \in SUBSET Nodes
      BY <1>1, <2>2, MessageFields DEF ReceiveDownloading
    <3>2. new \in ShortProgress
      BY <3>1 DEF ShortProgress
    <3> HIDE DEF new
    <3>3. byHost[n] \in [Nodes -> HostData] /\ byHost[n][m] \in HostData
      BY <1>1 DEF TypeOK
    <3>4. [byHost[n][m] EXCEPT !.downloading[msg.path] = new] \in HostData
      BY <3>1, <3>2, <3>3 DEF HostData
    <3>5. view \in [Nodes -> HostData]
      BY <1>1, <3>3, <3>4
    <3>6. {msg.path} \X msg.watches \in SUBSET (Paths \X Nodes)
      BY <3>1
    <3>7. byHost' = [byHost EXCEPT ![n] = Relay(n, view, {msg.path} \X msg.watches)]
      BY <2>2 DEF ReceiveDownloading, new
    <3> HIDE DEF view
    <3>8. byHost' \in [Nodes -> [Nodes -> HostData]]
      BY <1>1, <3>5, <3>6, <3>7, RelayTyped DEF TypeOK
    <3> QED BY <1>1, <2>2, <3>8, CheckWatchedTyped DEF ReceiveDownloading, TypeOK
  <2>3. CASE ReceiveComplete(n, m, msg)
    <3>1. msg.path \in Paths /\ msg.image \in Images
      BY <1>1, <2>3, MessageFields DEF ReceiveComplete
    <3>2. [NoData.complete EXCEPT ![msg.path] = msg.image]
          \in [Paths -> Images \cup {None}]
      BY <3>1 DEF NoData
    <3> DEFINE data == [byHost[n][m] EXCEPT !.downloading[msg.path] = None,
                                            !.complete[msg.path] = msg.image]
    <3>3. byHost[n][m] \in HostData
      BY <1>1 DEF TypeOK
    <3>4. data \in HostData
      BY <3>1, <3>3 DEF HostData
    <3>5. byHost' = [byHost EXCEPT ![n][m] = data]
      BY <1>1, <2>3 DEF ReceiveComplete, TypeOK
    <3> HIDE DEF data
    <3>6. byHost' \in [Nodes -> [Nodes -> HostData]]
      BY <1>1, <3>4, <3>5 DEF TypeOK
    <3> QED BY <1>1, <2>3, <3>2, <3>6, CompletedTyped DEF ReceiveComplete, TypeOK
  <2>4. CASE ReceiveCompleteAck(n, m, msg)
    <3> DEFINE data == [byHost[n][m] EXCEPT !.watching = @ \ {msg.path}]
    <3>1. byHost[n][m] \in HostData
      BY <1>1 DEF TypeOK
    <3>2. data \in HostData
      BY <3>1 DEF HostData
    <3>3. byHost' = [byHost EXCEPT ![n][m] = data]
      BY <1>1, <2>4 DEF ReceiveCompleteAck, TypeOK
    <3> HIDE DEF data
    <3>4. byHost' \in [Nodes -> [Nodes -> HostData]]
      BY <1>1, <3>2, <3>3 DEF TypeOK
    <3> QED BY <2>4, <3>4 DEF ReceiveCompleteAck, TypeOK
  <2>5. CASE ReceiveConfigSync(n, m, msg)
    BY <1>1, <2>5, MessageFields, ConfigMapSetTyped DEF ReceiveConfigSync, TypeOK
  <2>6. CASE ReceiveReconcile(n, m, msg)
    <3>1. msg.watches \in SUBSET (Paths \X Nodes)
      BY <1>1, <2>6, MessageFields DEF ReceiveReconcile
    <3>2. byHost[n] \in [Nodes -> HostData]
      BY <1>1 DEF TypeOK
    <3>3. byHost' \in [Nodes -> [Nodes -> HostData]]
      BY <1>1, <2>6, <3>1, <3>2, RelayTyped DEF ReceiveReconcile, TypeOK
    <3> QED BY <2>6, <3>3 DEF ReceiveReconcile, TypeOK
  <2> QED BY <2>1, <2>2, <2>3, <2>4, <2>5, <2>6 DEF Receive, n, m, msg
<1> QED BY <1>2, <1>3, <1>4, <1>5 DEF TypeOK, NoSelf, trackVars

\* A change of tracking that sends nothing, or what Sent says.
LEMMA SameNet ==
  ASSUME TypeOK, NoSelf, UNCHANGED <<peers, future>>,
         net' = net \/ \E n, msgs : Sent(n, msgs)
  PROVE  NoSelf' /\ net' \subseteq Packet
<1>1. net' \subseteq Packet /\ \A pkt \in net' : pkt.from # pkt.to
  BY SentKeeps DEF TypeOK, NoSelf
<1> QED BY <1>1 DEF NoSelf

\* What happens to tracking.
LEMMA EventTyped ==
  ASSUME TypeOK, NoSelf, Event
  PROVE  TypeOK' /\ NoSelf'
<1> USE DEF peerVars, trackVars
<1>0. Happens \/ events' = MaxEvents => events' \in 0 .. MaxEvents
  BY DEF TypeOK
<1>1. ASSUME NEW n \in Uploaders, NEW p \in Paths, NEW image \in Images,
             ClientConnects(n, p, image)
      PROVE  TypeOK' /\ NoSelf'
  BY <1>0, <1>1 DEF ClientConnects, TypeOK, NoSelf
<1>2. ASSUME NEW n \in Uploaders, ClientLeaves(n)
      PROVE  TypeOK' /\ NoSelf'
  BY <1>0, <1>2 DEF ClientLeaves, TypeOK, NoSelf
<1>3. ASSUME NEW n \in Storers, NEW p \in Paths, NEW image \in Images,
             FetchStart(n, p, image)
      PROVE  TypeOK' /\ NoSelf'
  <2>1. n \in Nodes /\ NotifyProgress(n, p, image) /\ UNCHANGED <<peers, future>>
    BY <1>3 DEF FetchStart
  <2>2. NoSelf' /\ net' \subseteq Packet
    BY <2>1, NotifyProgressSent, SameNet
  <2> QED BY <1>0, <1>3, <2>1, <2>2 DEF FetchStart, TypeOK
<1>4. ASSUME NEW n \in Storers, NEW p \in Paths, Progressed(n, p)
      PROVE  TypeOK' /\ NoSelf'
  <2>1. /\ n \in Nodes /\ progress[n][p] \in [image : Images, stalled : BOOLEAN]
        /\ NotifyProgress(n, p, progress[n][p].image) /\ UNCHANGED <<peers, future>>
    BY <1>4 DEF Progressed, TypeOK
  <2>2. NoSelf' /\ net' \subseteq Packet
    BY <2>1, NotifyProgressSent, SameNet
  <2> QED BY <1>0, <1>4, <2>1, <2>2 DEF Progressed, TypeOK
<1>5. ASSUME NEW n \in Storers, NEW p \in Paths, Stalls(n, p)
      PROVE  TypeOK' /\ NoSelf'
  <2>1. n \in Nodes /\ progress[n][p] \in [image : Images, stalled : BOOLEAN]
    BY <1>5 DEF Stalls, TypeOK
  <2> QED BY <1>0, <1>5, <2>1 DEF Stalls, TypeOK, NoSelf
<1>6. ASSUME NEW n \in Storers, NEW p \in Paths, DirCommitted(n, p)
      PROVE  TypeOK' /\ NoSelf'
  <2> DEFINE image == progress[n][p].image
  <2>1. n \in Nodes /\ image \in Images
    BY <1>6 DEF DirCommitted, TypeOK
  <2>2. NotifyComplete(n, p, image) /\ UNCHANGED <<peers, future>>
    BY <1>6 DEF DirCommitted
  <2>3. [NoData.complete EXCEPT ![p] = image] \in [Paths -> Images \cup {None}]
    BY <2>1 DEF NoData
  <2>4. Forward(n, n, [NoData.complete EXCEPT ![p] = image])
    BY <1>6 DEF DirCommitted
  <2> HIDE DEF image
  <2>5. NoSelf' /\ net' \subseteq Packet
    BY <2>1, <2>2, NotifyCompleteSent, SameNet
  <2>6. notified' \in [Nodes -> SUBSET (Paths \X Images \X Nodes)]
    BY <2>1, <2>3, <2>4, ForwardTyped
  <2>7. watched' \in [Nodes -> [Paths -> WatchedStatus]]
    BY <1>6, <2>1 DEF DirCommitted, TypeOK, WatchedStatus, image
  <2> QED BY <1>0, <1>6, <2>1, <2>5, <2>6, <2>7 DEF DirCommitted, TypeOK, image
<1>7. ASSUME NEW n \in Storers, NEW p \in Paths, DirAborted(n, p)
      PROVE  TypeOK' /\ NoSelf'
  <2>1. n \in Nodes /\ progress[n][p].image \in Images
    BY <1>7 DEF DirAborted, TypeOK
  <2> QED BY <1>0, <1>7, <2>1 DEF DirAborted, TypeOK, NoSelf
<1>8. ASSUME NEW n \in Storers, NEW p \in Paths, DirDeleted(n, p)
      PROVE  TypeOK' /\ NoSelf'
  <2>1. n \in Nodes /\ store[n][p] \in Images
    BY <1>8 DEF DirDeleted, TypeOK
  <2> QED BY <1>0, <1>8, <2>1 DEF DirDeleted, TypeOK, NoSelf
<1>9. ASSUME NEW n \in Storers, NEW p \in Paths, BaseDirChanged(n, p)
      PROVE  TypeOK' /\ NoSelf'
  <2> DEFINE watches == {w \in Paths \X Nodes :
                /\ KeyOf[w[1]] = KeyOf[p]
                /\ \/ w[1] \in byHost[n][w[2]].watching
                   \/ w[2] = n /\ w[1] \in GetWatching(n)}
             msg == [type |-> "Reconcile", watches |-> watches]
  <2>1. watches \in SUBSET (Paths \X Nodes)
    OBVIOUS
  <2>2. n \in Nodes /\ Notify(n, p, msg) /\ UNCHANGED <<peers, future>>
    BY <1>9 DEF BaseDirChanged
  <2> HIDE DEF watches
  <2>3. msg \in Message
    BY <2>1 DEF Message
  <2> HIDE DEF msg
  <2>4. NoSelf' /\ net' \subseteq Packet
    BY <2>2, <2>3, NotifySent, SameNet
  <2> QED BY <1>0, <1>9, <2>4 DEF BaseDirChanged, TypeOK
<1>10. ASSUME NEW n \in Storers, NEW p \in Paths, ReplaceRefused(n, p)
       PROVE  TypeOK' /\ NoSelf'
  <2> DEFINE other == IF progress[n][p] # None THEN progress[n][p].image
                      ELSE store[n][p]
  <2>1. n \in Nodes /\ other \in Images
    BY <1>10 DEF ReplaceRefused, TypeOK
  <2> QED BY <1>0, <1>10, <2>1 DEF ReplaceRefused, TypeOK, NoSelf, WatchedStatus
<1>11. ASSUME NEW n \in Storers, NEW p \in Paths, LookupFails(n, p)
       PROVE  TypeOK' /\ NoSelf'
  BY <1>0, <1>11 DEF LookupFails, TypeOK, NoSelf, WatchedStatus
<1>12. ASSUME NEW n \in Storers, DeletedExpires(n)
       PROVE  TypeOK' /\ NoSelf'
  BY <1>0, <1>12 DEF DeletedExpires, TypeOK, NoSelf
<1>13. ASSUME NEW n \in Restarting, NEW keys \in SUBSET Keys, Restart(n, keys)
       PROVE  TypeOK' /\ NoSelf'
  <2>1. byHost' \in [Nodes -> [Nodes -> HostData]]
    BY <1>13, NoDataTyped DEF Restart, TypeOK
  <2> QED BY <1>0, <1>13, <2>1 DEF Restart, TypeOK, NoSelf, WatchedStatus
<1>14. CASE BecomesCalm
  BY <1>0, <1>14 DEF BecomesCalm, TypeOK, NoSelf
<1> QED BY <1>1, <1>2, <1>3, <1>4, <1>5, <1>6, <1>7, <1>8, <1>9, <1>10, <1>11,
           <1>12, <1>13, <1>14 DEF Event

\* Every step keeps the types, and no node becomes its own peer.
LEMMA TypedStep ==
  ASSUME TypeOK, NoSelf, [Next]_vars
  PROVE  TypeOK' /\ NoSelf'
<1> USE DEF peerVars, trackVars
<1>1. CASE Event
  BY <1>1, EventTyped
<1>2. ASSUME NEW n \in Nodes, NEW to \in SUBSET Nodes, SendGossips(n, to)
      PROVE  TypeOK' /\ NoSelf'
  <2> DEFINE msg == [type |-> "BaseDirs", data |-> Snapshot(n)]
  <2>1. msg \in Message
    BY SnapshotTyped DEF Message
  <2>2. n \notin to /\ net' = net \cup {Pkt(n, m, msg) : m \in to}
    BY <1>2 DEF SendGossips, Put, NoSelf
  <2> HIDE DEF msg
  <2>3. \A m \in to : Pkt(n, m, msg) \in Packet /\ Pkt(n, m, msg).from = n
                      /\ Pkt(n, m, msg).to = m /\ Pkt(n, m, msg).message = msg
    BY <2>1, PktTyped
  <2>4. Sent(n, {msg})
    BY <2>2, <2>3 DEF Sent
  <2>5. NoSelf' /\ net' \subseteq Packet
    BY <1>2, <2>4, SameNet DEF SendGossips
  <2> QED BY <1>2, <2>5 DEF SendGossips, TypeOK
<1>3. ASSUME NEW pkt \in net, Deliver(pkt) \/ Duplicate(pkt)
      PROVE  TypeOK' /\ NoSelf'
  BY <1>3, ReceiveTyped DEF Deliver, Duplicate
<1>4. ASSUME NEW n \in Nodes, NEW p \in Paths, PollWatched(n, p)
      PROVE  TypeOK' /\ NoSelf'
  <2>1. store[n][p] \in Images \cup {None} /\ UNCHANGED <<peers, future>>
    BY <1>4 DEF PollWatched, TypeOK
  <2>2. net' = net \/ \E x, msgs : Sent(x, msgs)
    BY <1>4, <2>1, NotifyCompleteSent DEF PollWatched
  <2>3. NoSelf' /\ net' \subseteq Packet
    BY <2>1, <2>2, SameNet
  <2> QED BY <1>4, <2>1, <2>3 DEF PollWatched, TypeOK, WatchedStatus
<1>5. ASSUME NEW n \in Nodes, ForgetWatched(n)
      PROVE  TypeOK' /\ NoSelf'
  <2>1. watched' \in [Nodes -> [Paths -> WatchedStatus]]
    BY <1>5 DEF ForgetWatched, TypeOK, WatchedStatus
  <2> QED BY <1>5, <2>1 DEF ForgetWatched, TypeOK, NoSelf
<1>6. CASE UNCHANGED vars
  BY <1>6 DEF vars, TypeOK, NoSelf
<1> QED BY <1>1, <1>2, <1>3, <1>4, <1>5, <1>6 DEF Next

\* They hold at the start.
LEMMA TypedInit == Init => TypeOK /\ NoSelf
<1> SUFFICES ASSUME Init PROVE TypeOK /\ NoSelf
  OBVIOUS
<1>1. byHost \in [Nodes -> [Nodes -> HostData]]
  BY NoDataTyped DEF Init
<1>2. had \in [Nodes -> SUBSET (Paths \X Images)]
  BY DEF Init
<1> QED BY <1>1, <1>2 DEF Init, TypeOK, NoSelf, WatchedStatus

\* Types, for any cluster and any number of packets under way: what a packet
\* carries is what HostData and ConfigMap can take.
THEOREM GossipTyping == Spec => [](TypeOK /\ NoSelf)
BY TypedInit, TypedStep, PTL DEF Spec

-----------------------------------------------------------------------------
(* ConfigMap.                                                              *)

\* What an event may do to the map: only a restart empties it.
LEMMA EventConfig ==
  ASSUME TypeOK, ConfigMapInverse, Event
  PROVE  ConfigMapInverse'
<1>1. ASSUME NEW n \in Restarting, NEW keys \in SUBSET Keys, Restart(n, keys)
      PROVE  ConfigMapInverse'
  BY <1>1 DEF Restart, TypeOK, ConfigMapInverse
<1>2. CASE UNCHANGED <<forward, backward>>
  BY <1>2 DEF ConfigMapInverse
<1> USE DEF peerVars
<1>3. ASSUME NEW n, NEW p,
             \/ Progressed(n, p) \/ Stalls(n, p) \/ DirCommitted(n, p)
             \/ DirAborted(n, p) \/ DirDeleted(n, p)
      PROVE  UNCHANGED <<forward, backward>>
  BY <1>3 DEF Progressed, Stalls, DirCommitted, DirAborted, DirDeleted
<1>4. ASSUME NEW n, NEW p,
             BaseDirChanged(n, p) \/ ReplaceRefused(n, p) \/ LookupFails(n, p)
      PROVE  UNCHANGED <<forward, backward>>
  BY <1>4 DEF BaseDirChanged, ReplaceRefused, LookupFails
<1>5. ASSUME NEW n, NEW p, NEW image,
             ClientConnects(n, p, image) \/ FetchStart(n, p, image)
      PROVE  UNCHANGED <<forward, backward>>
  BY <1>5 DEF ClientConnects, FetchStart
<1>6. ASSUME NEW n, ClientLeaves(n) \/ DeletedExpires(n) \/ BecomesCalm
      PROVE  UNCHANGED <<forward, backward>>
  BY <1>6 DEF ClientLeaves, DeletedExpires, BecomesCalm
<1> QED BY <1>1, <1>2, <1>3, <1>4, <1>5, <1>6 DEF Event

\* ConfigMap::set for another node.
LEMMA ConfigMapSetInverse ==
  ASSUME TypeOK, ConfigMapInverse, NEW n \in Nodes, NEW m \in Nodes, m # n,
         NEW paths \in SUBSET Keys, ConfigMapSet(n, m, paths)
  PROVE  ConfigMapInverse'
<1> SUFFICES ASSUME NEW x \in Nodes, NEW y \in Nodes, NEW k \in Keys
             PROVE  /\ y \in backward'[x][k] <=>
                         forward'[x][y] # None /\ k \in forward'[x][y]
                    /\ x \notin backward'[x][k]
  BY DEF ConfigMapInverse
<1>1. CASE x # n
  BY <1>1 DEF ConfigMapSet, TypeOK, ConfigMapInverse
<1>2. CASE x = n /\ y # m
  BY <1>2 DEF ConfigMapSet, TypeOK, ConfigMapInverse
<1>3. CASE x = n /\ y = m
  BY <1>3 DEF ConfigMapSet, TypeOK, ConfigMapInverse
<1> QED BY <1>1, <1>2, <1>3

\* Every step keeps the two halves of ConfigMap inverse.
LEMMA ConfigStep ==
  ASSUME TypeOK, NoSelf, ConfigMapInverse, [Next]_vars
  PROVE  ConfigMapInverse'
<1>1. CASE Event
  BY <1>1, EventConfig
<1>2. ASSUME NEW pkt \in net, NEW rest, NEW kept, Receive(pkt, rest, kept)
      PROVE  ConfigMapInverse'
  <2>1. /\ pkt.to \in Nodes /\ pkt.from \in Nodes /\ pkt.from # pkt.to
        /\ pkt.message \in Message
    BY DEF TypeOK, NoSelf, Packet
  <2>2. CASE ReceiveConfigSync(pkt.to, pkt.from, pkt.message)
    <3>1. pkt.message.paths \in SUBSET Keys
      BY <2>1, <2>2, MessageFields DEF ReceiveConfigSync
    <3> QED BY <2>1, <2>2, <3>1, ConfigMapSetInverse DEF ReceiveConfigSync
  <2>3. CASE UNCHANGED <<forward, backward>>
    BY <2>3 DEF ConfigMapInverse
  <2> QED BY <1>2, <2>2, <2>3 DEF Receive, ReceiveBaseDirs, ReceiveDownloading,
             ReceiveComplete, ReceiveCompleteAck, ReceiveReconcile
<1>3. CASE UNCHANGED <<forward, backward>>
  BY <1>3 DEF ConfigMapInverse
<1> QED BY <1>1, <1>2, <1>3 DEF Next, Deliver, Duplicate, SendGossips,
           PollWatched, ForgetWatched, vars, peerVars

\* The halves of ConfigMap stay inverse to each other and no node lists itself,
\* whatever configurations are announced, in whatever order they arrive.
THEOREM ConfigMapSafe == Spec => []ConfigMapInverse
<1>1. Init => ConfigMapInverse
  BY DEF Init, ConfigMapInverse
<1> QED BY <1>1, ConfigStep, GossipTyping, PTL DEF Spec

-----------------------------------------------------------------------------
(* What clients are told.                                                  *)

\* The images a message says its sender has.
Claims(msg) ==
  {x \in Paths \X Images :
     \/ msg.type = "BaseDirs" /\ msg.data.complete[x[1]] = x[2]
     \/ msg.type = "Complete" /\ x = <<msg.path, msg.image>>}

\* What is stored, believed complete, under way or was told is in `had`.
StoreTrue == \A n \in Nodes, p \in Paths :
  store[n][p] # None => <<p, store[n][p]>> \in had[n]
WatchedTrue == \A n \in Nodes, p \in Paths :
  watched[n][p] \in Images => <<p, watched[n][p]>> \in had[n]
NetTrue == \A pkt \in net : Claims(pkt.message) \subseteq had[pkt.from]
Truthful == StoreTrue /\ WatchedTrue /\ NetTrue /\ NotifiedIsTrue

Grows == \A n \in Nodes : had[n] \subseteq had'[n]

\* The steps of an induction over what is sent.
LEMMA SentTrue ==
  ASSUME TypeOK, NetTrue, Grows, NEW n, NEW msgs, Sent(n, msgs),
         \A msg \in msgs : Claims(msg) \subseteq had'[n]
  PROVE  NetTrue'
<1> SUFFICES ASSUME NEW pkt \in net'
             PROVE  Claims(pkt.message) \subseteq had'[pkt.from]
  BY DEF NetTrue, Claims
<1>1. CASE pkt \in net
  <2>1. pkt.from \in Nodes
    BY <1>1 DEF TypeOK, Packet
  <2> QED BY <1>1, <2>1 DEF NetTrue, Grows
<1> QED BY <1>1 DEF Sent

\* Progress, reconciliation, configuration and acknowledgements claim nothing.
LEMMA NoClaims ==
  ASSUME NEW msg, msg.type # "BaseDirs", msg.type # "Complete"
  PROVE  Claims(msg) = {}
BY DEF Claims

\* A notification of what the sender has.
LEMMA ForwardTrue ==
  ASSUME TypeOK, NotifiedIsTrue, Grows, NEW n \in Nodes, NEW m \in Nodes,
         NEW complete \in [Paths -> Images \cup {None}], Forward(n, m, complete),
         \A p \in Paths : complete[p] # None => <<p, complete[p]>> \in had'[m]
  PROVE  NotifiedIsTrue'
<1> SUFFICES ASSUME NEW x \in Nodes, NEW t \in notified'[x]
             PROVE  <<t[1], t[2]>> \in had'[t[3]]
  BY DEF NotifiedIsTrue
<1>1. CASE t \in notified[x]
  <2>1. t[3] \in Nodes /\ <<t[1], t[2]>> \in had[t[3]]
    BY <1>1 DEF TypeOK, NotifiedIsTrue
  <2> QED BY <2>1 DEF Grows
<1>2. CASE t \notin notified[x]
  <2>1. PICK p \in Paths : t = <<p, complete[p], m>> /\ complete[p] # None
    BY <1>2 DEF Forward, TypeOK
  <2> QED BY <2>1
<1> QED BY <1>1, <1>2

\* `had` only grows, and when nobody is told anything what was told stays true.
LEMMA StillTrue ==
  ASSUME TypeOK, NotifiedIsTrue, Grows,
         \A n \in Nodes : notified'[n] \subseteq notified[n]
  PROVE  NotifiedIsTrue'
<1> SUFFICES ASSUME NEW x \in Nodes, NEW t \in notified'[x]
             PROVE  <<t[1], t[2]>> \in had'[t[3]]
  BY DEF NotifiedIsTrue
<1>1. t[3] \in Nodes /\ <<t[1], t[2]>> \in had[t[3]]
  BY DEF TypeOK, NotifiedIsTrue
<1> QED BY <1>1 DEF Grows

\* What happens to tracking and to clients keeps all claims true.
LEMMA EventTrue ==
  ASSUME TypeOK, TypeOK', NoSelf, Truthful, Event
  PROVE  Truthful'
<1> USE DEF Truthful, peerVars, trackVars
<1>1. ASSUME UNCHANGED <<had, store, watched, net>>,
             \A n \in Nodes : notified'[n] \subseteq notified[n]
      PROVE  Truthful'
  BY <1>1, StillTrue DEF StoreTrue, WatchedTrue, NetTrue, Claims, Grows
<1>2. ASSUME NEW n \in Uploaders, NEW p \in Paths, NEW image \in Images,
             ClientConnects(n, p, image)
      PROVE  Truthful'
  BY <1>1, <1>2 DEF ClientConnects
<1>3. ASSUME NEW n \in Uploaders, ClientLeaves(n)
      PROVE  Truthful'
  BY <1>1, <1>3 DEF ClientLeaves, TypeOK
<1>4. ASSUME NEW n \in Nodes, NEW msgs, Sent(n, msgs),
             UNCHANGED <<had, store, watched, notified>>,
             \A msg \in msgs : Claims(msg) \subseteq had[n]
      PROVE  Truthful'
  <2>1. Grows
    BY <1>4 DEF Grows
  <2> QED BY <1>4, <2>1, StillTrue, SentTrue DEF StoreTrue, WatchedTrue
<1> DEFINE progressing ==
             [type : {"Downloading"}, path : Paths, image : Images,
              source : BOOLEAN, watches : SUBSET Nodes]
<1>5. ASSUME NEW n \in Nodes, NEW p \in Paths, NEW image \in Images,
             NotifyProgress(n, p, image),
             UNCHANGED <<had, store, watched, notified>>
      PROVE  Truthful'
  <2>1. Sent(n, progressing)
    BY <1>5, NotifyProgressSent
  <2>2. \A msg \in progressing : Claims(msg) = {}
    BY NoClaims
  <2> HIDE DEF progressing
  <2>3. \A msg \in progressing : Claims(msg) \subseteq had[n]
    BY <2>2
  <2> QED BY <1>4, <1>5, <2>1, <2>3
<1>6. ASSUME NEW n \in Storers, NEW p \in Paths, NEW image \in Images,
             FetchStart(n, p, image)
      PROVE  Truthful'
  BY <1>5, <1>6 DEF FetchStart
<1>7. ASSUME NEW n \in Storers, NEW p \in Paths, Progressed(n, p)
      PROVE  Truthful'
  <2>1. n \in Nodes /\ progress[n][p].image \in Images
    BY <1>7 DEF Progressed, TypeOK
  <2>2. /\ NotifyProgress(n, p, progress[n][p].image)
        /\ UNCHANGED <<had, store, watched, notified>>
    BY <1>7 DEF Progressed
  <2> QED BY <1>5, <2>1, <2>2
<1>8. ASSUME NEW n \in Storers, NEW p \in Paths, Stalls(n, p)
      PROVE  Truthful'
  BY <1>1, <1>8 DEF Stalls
<1>9. ASSUME NEW n \in Storers, NEW p \in Paths, DirCommitted(n, p)
      PROVE  Truthful'
  <2> DEFINE image == progress[n][p].image
             complete == [NoData.complete EXCEPT ![p] = image]
  <2>1. n \in Nodes /\ image \in Images
    BY <1>9 DEF DirCommitted, TypeOK
  <2>2. /\ store' = [store EXCEPT ![n][p] = image]
        /\ had' = [had EXCEPT ![n] = @ \cup {<<p, image>>}]
        /\ watched' = [watched EXCEPT ![n][p] = image]
        /\ NotifyComplete(n, p, image) /\ Forward(n, n, complete)
    BY <1>9 DEF DirCommitted
  <2>3. /\ complete \in [Paths -> Images \cup {None}]
        /\ \A x \in Paths : complete[x] # None => x = p /\ complete[x] = image
    BY <2>1 DEF NoData
  <2> HIDE DEF image, complete
  <2>4. Grows /\ <<p, image>> \in had'[n]
    BY <2>1, <2>2 DEF TypeOK, Grows
  <2>5. StoreTrue' /\ WatchedTrue'
    BY <2>1, <2>2, <2>4 DEF StoreTrue, WatchedTrue, Grows, TypeOK
  <2>6. NotifiedIsTrue'
    BY <2>1, <2>2, <2>3, <2>4, ForwardTrue
  <2>7. NetTrue'
    <3> DEFINE msg == [type |-> "Complete", path |-> p, image |-> image]
    <3>1. Sent(n, {msg})
      BY <2>1, <2>2, NotifyCompleteSent
    <3>2. Claims(msg) \subseteq had'[n]
      BY <2>4 DEF Claims
    <3> HIDE DEF msg
    <3> QED BY <2>4, <3>1, <3>2, SentTrue
  <2> QED BY <2>5, <2>6, <2>7
<1>10. ASSUME NEW n \in Storers, NEW p \in Paths, DirAborted(n, p)
       PROVE  Truthful'
  BY <1>1, <1>10 DEF DirAborted
<1>11. ASSUME NEW n \in Storers, NEW p \in Paths, DirDeleted(n, p)
       PROVE  Truthful'
  <2>1. StoreTrue' /\ UNCHANGED <<had, watched, net, notified>>
    BY <1>11 DEF DirDeleted, TypeOK, StoreTrue
  <2> QED BY <2>1, StillTrue DEF WatchedTrue, NetTrue, Claims, Grows
<1>12. ASSUME NEW n \in Storers, NEW p \in Paths, BaseDirChanged(n, p)
       PROVE  Truthful'
  <2> DEFINE watches == {w \in Paths \X Nodes :
                /\ KeyOf[w[1]] = KeyOf[p]
                /\ \/ w[1] \in byHost[n][w[2]].watching
                   \/ w[2] = n /\ w[1] \in GetWatching(n)}
             msg == [type |-> "Reconcile", watches |-> watches]
  <2>1. watches \in SUBSET (Paths \X Nodes)
    OBVIOUS
  <2>2. /\ n \in Nodes /\ Notify(n, p, msg)
        /\ UNCHANGED <<had, store, watched, notified>>
    BY <1>12 DEF BaseDirChanged
  <2> HIDE DEF watches
  <2>3. msg \in Message /\ Claims(msg) = {}
    BY <2>1 DEF Message, Claims
  <2> HIDE DEF msg
  <2>4. Sent(n, {msg})
    BY <2>2, <2>3, NotifySent
  <2>5. \A x \in {msg} : Claims(x) \subseteq had[n]
    BY <2>3
  <2> QED BY <1>4, <2>2, <2>4, <2>5
<1>13. ASSUME NEW n \in Storers, NEW p \in Paths, ReplaceRefused(n, p)
       PROVE  Truthful'
  <2> DEFINE other == IF progress[n][p] # None THEN progress[n][p].image
                      ELSE store[n][p]
  <2>1. n \in Nodes /\ other \in Images
    BY <1>13 DEF ReplaceRefused, TypeOK
  <2>2. /\ had' = [had EXCEPT ![n] = @ \cup {<<p, other>>}]
        /\ watched' = [watched EXCEPT ![n][p] = other]
        /\ UNCHANGED <<store, notified, net>>
    BY <1>13 DEF ReplaceRefused
  <2> HIDE DEF other
  <2>3. Grows /\ <<p, other>> \in had'[n]
    BY <2>1, <2>2 DEF TypeOK, Grows
  <2>4. StoreTrue' /\ WatchedTrue'
    BY <2>1, <2>2, <2>3 DEF StoreTrue, WatchedTrue, Grows, TypeOK
  <2>5. NetTrue'
    BY <2>2, <2>3, SentTrue DEF Sent
  <2> QED BY <2>2, <2>3, <2>4, <2>5, StillTrue
<1>14. ASSUME NEW n \in Storers, NEW p \in Paths, LookupFails(n, p)
       PROVE  Truthful'
  <2>1. WatchedTrue' /\ UNCHANGED <<had, store, net, notified>>
    BY <1>14 DEF LookupFails, TypeOK, WatchedTrue
  <2> QED BY <2>1, StillTrue DEF StoreTrue, NetTrue, Claims, Grows
<1>15. ASSUME NEW n \in Storers, DeletedExpires(n)
       PROVE  Truthful'
  BY <1>1, <1>15 DEF DeletedExpires
<1>16. ASSUME NEW n \in Restarting, NEW keys \in SUBSET Keys, Restart(n, keys)
       PROVE  Truthful'
  <2>1. WatchedTrue' /\ UNCHANGED <<had, store, net>>
    BY <1>16 DEF Restart, TypeOK, WatchedTrue
  <2>2. \A x \in Nodes : notified'[x] \subseteq notified[x]
    BY <1>16 DEF Restart, TypeOK
  <2> QED BY <2>1, <2>2, StillTrue DEF StoreTrue, NetTrue, Claims, Grows
<1>17. CASE BecomesCalm
  BY <1>1, <1>17 DEF BecomesCalm
<1> QED BY <1>2, <1>3, <1>6, <1>7, <1>8, <1>9, <1>10, <1>11, <1>12, <1>13,
           <1>14, <1>15, <1>16, <1>17 DEF Event

\* read_messages: the claims of a packet are passed on, the answers make none.
LEMMA ReceiveTrue ==
  ASSUME TypeOK, NoSelf, Truthful, NEW pkt \in net, NEW rest \in SUBSET net,
         NEW kept \in SUBSET Answers(pkt.to, pkt), Receive(pkt, rest, kept)
  PROVE  Truthful'
<1> DEFINE n == pkt.to
           m == pkt.from
           msg == pkt.message
<1>1. n \in Nodes /\ m \in Nodes /\ msg \in Message
  BY DEF TypeOK, Packet
<1>2. Put(rest, kept) /\ UNCHANGED <<store, had>>
  BY DEF Receive, trackVars
<1>3. Grows
  BY <1>2 DEF Grows
<1>4. NetTrue'
  <2> DEFINE msgs == [type : {"ConfigSync"}, paths : SUBSET Keys]
                     \cup [type : {"CompleteAck"}, path : Paths]
  <2>1. Sent(n, msgs)
    BY <1>2, AnswersSent
  <2>2. \A x \in msgs : Claims(x) = {}
    BY NoClaims
  <2> HIDE DEF msgs
  <2> QED BY <1>3, <2>1, <2>2, SentTrue DEF Truthful
<1>5. StoreTrue'
  BY <1>2 DEF Truthful, StoreTrue
<1>6. Claims(msg) \subseteq had[m]
  BY DEF Truthful, NetTrue
<1> HIDE DEF n, m, msg
<1>7. ASSUME NEW paths, CheckWatched(n, paths)
      PROVE  WatchedTrue'
  BY <1>1, <1>2, <1>7 DEF CheckWatched, WatchedTrue, Truthful, TypeOK
<1>8. ASSUME NEW complete \in [Paths -> Images \cup {None}],
             Completed(n, m, complete),
             \A p \in Paths : complete[p] # None => <<p, complete[p]>> \in had[m]
      PROVE  NotifiedIsTrue'
  BY <1>1, <1>2, <1>3, <1>8, ForwardTrue, StillTrue DEF Completed, Truthful
<1>9. UNCHANGED notified => NotifiedIsTrue'
  BY <1>3, StillTrue DEF Truthful
<1>10. UNCHANGED watched => WatchedTrue'
  BY <1>2 DEF WatchedTrue, Truthful
<1>11. WatchedTrue' /\ NotifiedIsTrue'
  <2>1. CASE ReceiveBaseDirs(n, m, msg)
    <3>1. msg.type = "BaseDirs" /\ msg.data \in HostData
      BY <1>1, <2>1, MessageFields DEF ReceiveBaseDirs
    <3>2. msg.data.complete \in [Paths -> Images \cup {None}]
      BY <3>1 DEF HostData
    <3>3. \A p \in Paths : msg.data.complete[p] # None =>
            <<p, msg.data.complete[p]>> \in had[m]
      BY <1>6, <3>1, <3>2 DEF Claims
    <3> QED BY <1>7, <1>8, <2>1, <3>2, <3>3 DEF ReceiveBaseDirs
  <2>2. CASE ReceiveDownloading(n, m, msg)
    BY <1>7, <1>9, <2>2 DEF ReceiveDownloading
  <2>3. CASE ReceiveComplete(n, m, msg)
    <3> DEFINE complete == [NoData.complete EXCEPT ![msg.path] = msg.image]
    <3>1. msg.type = "Complete" /\ msg.path \in Paths /\ msg.image \in Images
      BY <1>1, <2>3, MessageFields DEF ReceiveComplete
    <3>2. /\ complete \in [Paths -> Images \cup {None}]
          /\ \A p \in Paths : complete[p] # None => p = msg.path /\ complete[p] = msg.image
      BY <3>1 DEF NoData
    <3>3. <<msg.path, msg.image>> \in had[m]
      BY <1>6, <3>1 DEF Claims
    <3>4. Completed(n, m, complete)
      BY <2>3 DEF ReceiveComplete
    <3> HIDE DEF complete
    <3> QED BY <1>8, <1>10, <2>3, <3>2, <3>3, <3>4 DEF ReceiveComplete
  <2>4. CASE \/ ReceiveCompleteAck(n, m, msg) \/ ReceiveConfigSync(n, m, msg)
             \/ ReceiveReconcile(n, m, msg)
    BY <1>9, <1>10, <2>4 DEF ReceiveCompleteAck, ReceiveConfigSync, ReceiveReconcile
  <2> QED BY <2>1, <2>2, <2>3, <2>4 DEF Receive, n, m, msg
<1> QED BY <1>4, <1>5, <1>11 DEF Truthful

\* Every step keeps all claims true.
LEMMA TruthfulStep ==
  ASSUME TypeOK, TypeOK', NoSelf, Truthful, [Next]_vars
  PROVE  Truthful'
<1> USE DEF peerVars, trackVars
<1>1. CASE Event
  BY <1>1, EventTrue
<1>2. ASSUME NEW n \in Nodes, NEW to \in SUBSET Nodes, SendGossips(n, to)
      PROVE  Truthful'
  <2> DEFINE msg == [type |-> "BaseDirs", data |-> Snapshot(n)]
  <2>1. msg \in Message
    BY SnapshotTyped DEF Message
  <2>2. n \notin to /\ net' = net \cup {Pkt(n, m, msg) : m \in to}
    BY <1>2 DEF SendGossips, Put, NoSelf
  <2>3. UNCHANGED <<store, had, watched, notified>>
    BY <1>2 DEF SendGossips
  <2>4. Claims(msg) \subseteq had[n]
    BY DEF Claims, Snapshot, Truthful, WatchedTrue
  <2> HIDE DEF msg
  <2>5. \A m \in to : Pkt(n, m, msg) \in Packet /\ Pkt(n, m, msg).from = n
                      /\ Pkt(n, m, msg).to = m /\ Pkt(n, m, msg).message = msg
    BY <2>1, PktTyped
  <2>6. Sent(n, {msg})
    BY <2>2, <2>5 DEF Sent
  <2>7. Grows
    BY <2>3 DEF Grows
  <2> QED BY <2>3, <2>4, <2>6, <2>7, SentTrue, StillTrue
          DEF Truthful, StoreTrue, WatchedTrue
<1>3. ASSUME NEW pkt \in net, Deliver(pkt) \/ Duplicate(pkt)
      PROVE  Truthful'
  BY <1>3, ReceiveTrue DEF Deliver, Duplicate
<1>4. ASSUME NEW n \in Nodes, NEW p \in Paths, PollWatched(n, p)
      PROVE  Truthful'
  <2>1. UNCHANGED <<store, had, notified>> /\ Grows
    BY <1>4 DEF PollWatched, Grows
  <2>2. store[n][p] # None => store[n][p] \in Images /\ <<p, store[n][p]>> \in had[n]
    BY DEF TypeOK, Truthful, StoreTrue
  <2> DEFINE found == IF store[n][p] = None THEN "absent" ELSE store[n][p]
  <2>3. WatchedTrue'
    <3>1. found \in Images => <<p, found>> \in had[n]
      <4>1. "absent" \notin Images
        OBVIOUS
      <4> QED BY <2>2, <4>1
    <3>2. watched' = [watched EXCEPT ![n][p] = found]
      BY <1>4 DEF PollWatched
    <3> HIDE DEF found
    <3>3. \A x \in Nodes, y \in Paths :
            watched'[x][y] = IF x = n /\ y = p THEN found ELSE watched[x][y]
      BY <3>2 DEF TypeOK
    <3>4. had' = had /\ WatchedTrue
      BY <2>1 DEF Truthful
    <3> QED BY <3>1, <3>3, <3>4 DEF WatchedTrue
  <2>4. NetTrue'
    <3>1. CASE store[n][p] = None
      BY <1>4, <2>1, <3>1 DEF PollWatched, Truthful, NetTrue, Claims
    <3>2. CASE store[n][p] # None
      <4> DEFINE msg == [type |-> "Complete", path |-> p, image |-> store[n][p]]
      <4>1. Sent(n, {msg})
        BY <1>4, <2>2, <3>2, NotifyCompleteSent DEF PollWatched
      <4>2. Claims(msg) \subseteq had'[n]
        BY <2>1, <2>2, <3>2 DEF Claims
      <4> HIDE DEF msg
      <4> QED BY <2>1, <4>1, <4>2, SentTrue DEF Truthful
    <3> QED BY <3>1, <3>2
  <2> QED BY <2>1, <2>3, <2>4, StillTrue DEF Truthful, StoreTrue
<1>5. ASSUME NEW n \in Nodes, ForgetWatched(n)
      PROVE  Truthful'
  <2>1. UNCHANGED <<store, had, notified, net>> /\ Grows
    BY <1>5 DEF ForgetWatched, Grows
  <2>2. WatchedTrue'
    BY <1>5, <2>1 DEF ForgetWatched, TypeOK, Truthful, WatchedTrue
  <2> QED BY <2>1, <2>2, StillTrue DEF Truthful, StoreTrue, NetTrue, Claims
<1>6. CASE UNCHANGED vars
  <2>1. UNCHANGED <<store, had, notified, net, watched>> /\ Grows
    BY <1>6 DEF vars, Grows
  <2> QED BY <2>1, StillTrue DEF Truthful, StoreTrue, WatchedTrue, NetTrue, Claims
<1> QED BY <1>1, <1>2, <1>3, <1>4, <1>5, <1>6 DEF Next

\* A client is only told of a host that has committed the image, or refused
\* another for it, in any cluster and however packets are lost, doubled and
\* reordered: Complete and BaseDirs never claim more than the sender has had.
THEOREM NotificationsSafe == Spec => []NotifiedIsTrue
<1>1. Init => Truthful
  BY DEF Init, Truthful, StoreTrue, WatchedTrue, NetTrue, NotifiedIsTrue
<1>2. Truthful => NotifiedIsTrue
  BY DEF Truthful
<1>3. TypeOK /\ NoSelf /\ Truthful /\ [Next]_vars => Truthful'
  BY TypedStep, TruthfulStep
<1> QED BY <1>1, <1>2, <1>3, GossipTyping, PTL DEF Spec
=============================================================================
