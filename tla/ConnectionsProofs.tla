------------------------- MODULE ConnectionsProofs -------------------------
(***************************************************************************)
(* Proofs about Connections.tla, for any number of connections, requests,  *)
(* addresses and images and any size of the id space: nobody waits for an  *)
(* answer that cannot come, answers go to the request they are for, and    *)
(* the tables of connections and of published images are exact.            *)
(***************************************************************************)
EXTENDS Connections, TLAPS

USE ConnectionsAssumption

-----------------------------------------------------------------------------
(* The inductive invariant.                                                *)

\* What the phase of a connection says of the tables it is in.
Tables ==
  \A c \in Conns :
    /\ phase[c] \in {"new", "closed"} =>
         /\ c \notin incoming /\ queue[c] = << >>
         /\ registry[c] = NoRequests /\ peer[c] = {}
    /\ c \in incoming => phase[c] = "open"
    /\ Live(c) /\ c \notin incoming => addr[c] \in Addrs
    /\ phase[c] = "new" => images[c] = {}

\* What the peer has to answer is registered under the same id.
Matched == \A c \in Conns : \A x \in peer[c] : registry[c][x[1]] = x[2]

ConnInv ==
  /\ TypeOK /\ Tables /\ Matched
  /\ OutgoingLive /\ SourceIsReal /\ NoOrphan /\ ReplyMatches

-----------------------------------------------------------------------------
(* Channels.                                                               *)

\* Appending to a channel adds one request to those it holds.
LEMMA AppendSet ==
  ASSUME NEW s \in Seq(Requests), NEW r \in Requests
  PROVE  ToSet(Append(s, r)) = ToSet(s) \cup {r}
<1>1. DOMAIN s = 1 .. Len(s) /\ DOMAIN Append(s, r) = 1 .. Len(s) + 1
  OBVIOUS
<1>2. /\ \A i \in 1 .. Len(s) : Append(s, r)[i] = s[i]
      /\ Append(s, r)[Len(s) + 1] = r /\ Len(s) \in Nat
  OBVIOUS
<1>3. \A x : x \in ToSet(Append(s, r)) <=> \E i \in 1 .. Len(s) + 1 : Append(s, r)[i] = x
  BY <1>1 DEF ToSet
<1>4. \A x : x \in ToSet(s) <=> \E i \in 1 .. Len(s) : s[i] = x
  BY <1>1 DEF ToSet
<1>5. \A x : x \in ToSet(Append(s, r)) <=> x \in ToSet(s) \/ x = r
  BY <1>2, <1>3, <1>4
<1> QED BY <1>5

\* Taking the head out of a channel leaves the rest.
LEMMA HeadTailSet ==
  ASSUME NEW s \in Seq(Requests), s # << >>
  PROVE  /\ Head(s) \in Requests /\ Tail(s) \in Seq(Requests)
         /\ ToSet(s) = {Head(s)} \cup ToSet(Tail(s))
<1>1. Head(s) \in Requests /\ Tail(s) \in Seq(Requests) /\ Len(s) > 0
  OBVIOUS
<1>2. \A i \in 1 .. Len(s) : i = 1 \/ (i - 1 \in 1 .. Len(Tail(s)) /\ Tail(s)[i - 1] = s[i])
  OBVIOUS
<1>3. \A i \in 1 .. Len(Tail(s)) : i + 1 \in 1 .. Len(s) /\ Tail(s)[i] = s[i + 1]
  OBVIOUS
<1>4. \A x : x \in ToSet(s) <=> \E i \in 1 .. Len(s) : s[i] = x
  <2>1. DOMAIN s = 1 .. Len(s)
    OBVIOUS
  <2> QED BY <2>1 DEF ToSet
<1>5. \A x : x \in ToSet(Tail(s)) <=> \E i \in 1 .. Len(Tail(s)) : Tail(s)[i] = x
  <2>1. DOMAIN Tail(s) = 1 .. Len(Tail(s))
    BY <1>1
  <2> QED BY <2>1 DEF ToSet
<1>6. Head(s) = s[1] /\ 1 \in 1 .. Len(s)
  BY <1>1
<1>7. \A x : x \in ToSet(s) <=> x = Head(s) \/ x \in ToSet(Tail(s))
  BY <1>2, <1>3, <1>4, <1>5, <1>6
<1> QED BY <1>1, <1>7

\* Who is waited for only depends on the channels and the registries.
LEMMA SameHeld ==
  ASSUME UNCHANGED <<queue, registry>>, NEW c
  PROVE  Held(c)' = Held(c)
BY DEF Held, Registered

\* An empty channel holds nothing.
LEMMA EmptySet == ToSet(<< >>) = {}
BY DEF ToSet

-----------------------------------------------------------------------------
(* One lemma for each operation.                                           *)

\* A daemon starts without connections.
LEMMA InitInv == Init => ConnInv
<1> SUFFICES ASSUME Init PROVE ConnInv
  OBVIOUS
<1> USE DEF Init
<1>1. TypeOK
  <2>1. NoRequests \in [Ids -> Requests \cup {None}] /\ 0 \in Ids
    BY DEF NoRequests, Ids
  <2>2. << >> \in Seq(Requests) /\ 0 \in 0 .. MaxFailures
    OBVIOUS
  <2> QED BY <2>1, <2>2 DEF TypeOK, Statuses
<1>2. Tables /\ Matched
  BY DEF Tables, Matched, Live
<1>3. OutgoingLive /\ SourceIsReal /\ NoOrphan /\ ReplyMatches
  BY DEF OutgoingLive, SourceIsReal, Members, NoOrphan, ReplyMatches, Live
<1> QED BY <1>1, <1>2, <1>3 DEF ConnInv

\* A client or another daemon connects.
LEMMA AcceptInv ==
  ASSUME ConnInv, NEW c \in Conns, Accept(c)
  PROVE  ConnInv'
<1> USE DEF Accept, imageVars, wireVars, reqVars, failVars
<1>1. TypeOK'
  BY DEF ConnInv, TypeOK
<1>2. Tables' /\ Matched'
  BY DEF ConnInv, TypeOK, Tables, Matched, Live
<1>3. OutgoingLive'
  BY DEF ConnInv, TypeOK, Tables, OutgoingLive, Live
<1>4. SourceIsReal'
  <2>1. images[c] = {} /\ declared' = declared /\ images' = images
    BY DEF ConnInv, Tables
  <2>2. \A d \in Conns : d # c => phase'[d] = phase[d]
    BY DEF ConnInv, TypeOK
  <2>3. \A i \in Images : {d \in incoming' : phase'[d] = "open" /\ i \in images'[d]}
                          = {d \in incoming : phase[d] = "open" /\ i \in images[d]}
    BY <2>1, <2>2 DEF ConnInv, TypeOK
  <2> QED BY <2>1, <2>3 DEF ConnInv, SourceIsReal, Members
<1>5. NoOrphan' /\ ReplyMatches'
  BY SameHeld DEF ConnInv, TypeOK, NoOrphan, ReplyMatches, Live
<1> QED BY <1>1, <1>2, <1>3, <1>4, <1>5 DEF ConnInv

\* PublishImage.
LEMMA PublishInv ==
  ASSUME ConnInv, NEW c \in Conns, NEW i \in Images, Publish(c, i)
  PROVE  ConnInv'
<1> USE DEF Publish, connVars, wireVars, reqVars, failVars
<1>1. TypeOK'
  BY DEF ConnInv, TypeOK, Members
<1>2. Tables' /\ Matched'
  BY DEF ConnInv, TypeOK, Tables, Matched, Live
<1>3. OutgoingLive'
  BY DEF ConnInv, OutgoingLive, Live
<1>4. SourceIsReal'
  <2> SUFFICES ASSUME NEW j \in Images
               PROVE  /\ Members(j)' = {d \in incoming : phase[d] = "open"
                                                        /\ j \in images'[d]}
                      /\ declared'[j] # {}
    BY DEF SourceIsReal
  <2>1. /\ Members(j) = {d \in incoming : phase[d] = "open" /\ j \in images[d]}
        /\ declared[j] # {}
    BY DEF ConnInv, SourceIsReal
  <2>2. declared[j] \in (SUBSET Conns) \cup {None} /\ Members(j) \in SUBSET Conns
    BY DEF ConnInv, TypeOK, Members
  <2>3. CASE j # i
    <3>1. declared'[j] = declared[j] /\ \A d \in Conns : j \in images'[d] <=> j \in images[d]
      BY <2>3 DEF ConnInv, TypeOK
    <3> QED BY <2>1, <3>1 DEF ConnInv, TypeOK, Members
  <2>4. CASE j = i
    <3>1. declared'[j] = Members(j) \cup {c} /\ declared'[j] # None
      BY <2>2, <2>4 DEF ConnInv, TypeOK
    <3>2. \A d \in Conns : j \in images'[d] <=> j \in images[d] \/ d = c
      BY <2>4 DEF ConnInv, TypeOK
    <3>3. Members(j)' = Members(j) \cup {c}
      BY <3>1 DEF Members
    <3> QED BY <2>1, <3>1, <3>2, <3>3 DEF ConnInv, TypeOK
  <2> QED BY <2>3, <2>4
<1>5. NoOrphan' /\ ReplyMatches'
  BY SameHeld DEF ConnInv, NoOrphan, ReplyMatches, Live
<1> QED BY <1>1, <1>2, <1>3, <1>4, <1>5 DEF ConnInv

\* RequestClient::request on a connection of the tables.
LEMMA PushInv ==
  ASSUME ConnInv, NEW r \in Requests, NEW c \in Conns, Live(c), Push(r, c),
         UNCHANGED connVars
  PROVE  ConnInv'
<1> USE DEF Push, connVars, imageVars, failVars
<1>1. TypeOK'
  BY DEF ConnInv, TypeOK, Statuses
<1>2. Tables' /\ Matched'
  BY DEF ConnInv, TypeOK, Tables, Matched, Live
<1>3. OutgoingLive' /\ SourceIsReal'
  BY DEF ConnInv, OutgoingLive, SourceIsReal, Members, Live
<1>4. ReplyMatches'
  BY DEF ConnInv, ReplyMatches
<1>5. \A d \in Conns : Held(d) \subseteq Held(d)'
  BY AppendSet DEF ConnInv, TypeOK, Held, Registered
<1>6. r \in Held(c)'
  BY AppendSet DEF ConnInv, TypeOK, Held
<1>7. NoOrphan'
  BY <1>5, <1>6 DEF ConnInv, TypeOK, NoOrphan, Live
<1> QED BY <1>1, <1>2, <1>3, <1>4, <1>7 DEF ConnInv

\* ensure_connected when there is no connection.
LEMMA ConnectInv ==
  ASSUME ConnInv, NEW r \in Requests, NEW c \in Conns, NEW a \in Addrs,
         outgoing[a] = None, phase[c] = "new",
         phase' = [phase EXCEPT ![c] = "connecting"],
         addr' = [addr EXCEPT ![c] = a],
         outgoing' = [outgoing EXCEPT ![a] = c],
         Push(r, c), UNCHANGED incoming
  PROVE  ConnInv'
<1> USE DEF Push, imageVars, failVars
<1>1. TypeOK'
  BY DEF ConnInv, TypeOK, Statuses
<1>2. Tables' /\ Matched'
  BY DEF ConnInv, TypeOK, Tables, Matched, Live
<1>3. OutgoingLive'
  BY DEF ConnInv, TypeOK, Tables, OutgoingLive, Live
<1>4. SourceIsReal'
  BY DEF ConnInv, TypeOK, Tables, SourceIsReal, Members
<1>5. ReplyMatches'
  BY DEF ConnInv, ReplyMatches
<1>6. \A d \in Conns : Held(d) \subseteq Held(d)'
  BY AppendSet DEF ConnInv, TypeOK, Held, Registered
<1>7. r \in Held(c)'
  BY AppendSet DEF ConnInv, TypeOK, Held
<1>8. NoOrphan'
  BY <1>6, <1>7 DEF ConnInv, TypeOK, NoOrphan, Live
<1> QED BY <1>1, <1>2, <1>3, <1>4, <1>5, <1>8 DEF ConnInv

\* A request goes to the connection of its address or to a new one.
LEMMA EnsureConnectedInv ==
  ASSUME ConnInv, NEW r \in Requests, NEW a \in Addrs, EnsureConnected(r, a)
  PROVE  ConnInv'
<1>1. outgoing[a] # None => outgoing[a] \in Conns /\ Live(outgoing[a])
  BY DEF ConnInv, TypeOK, OutgoingLive
<1> QED BY <1>1, PushInv, ConnectInv DEF EnsureConnected

\* get_connection_by_mask only gives out live connections.
LEMMA CandidateLive ==
  ASSUME ConnInv, NEW i \in Images, NEW masked \in SUBSET Addrs,
         NEW recent \in SUBSET Addrs, NEW having \in SUBSET Addrs,
         NEW x \in Candidates(i, masked, recent, having), x \in Conns
  PROVE  Live(x)
<1> DEFINE tiers == Tiers(i, masked, recent, having)
           some == {k \in DOMAIN tiers : tiers[k] # {}}
<1>1. \E k \in some : x \in tiers[k]
  <2>1. some # {}
    BY DEF Candidates
  <2>2. DOMAIN tiers = 1 .. 7
    BY DEF Tiers
  <2> HIDE DEF tiers
  <2>3. \E k \in some : \A l \in some : k <= l
    <3>1. some \subseteq 1 .. 7
      BY <2>2
    <3> HIDE DEF some
    <3> QED BY <2>1, <3>1
  <2> QED BY <2>1, <2>3 DEF Candidates, tiers
<1>2. /\ \A as \in SUBSET Addrs : x \in Connected(as) => Live(x)
      /\ \A as \in SUBSET Addrs : x \notin NotConnected(as)
  BY DEF Connected, NotConnected, ConnInv, OutgoingLive
<1>3. x \in Members(i) => Live(x)
  BY DEF ConnInv, SourceIsReal, Live
<1> QED BY <1>1, <1>2, <1>3 DEF Tiers

\* fetch_block: a request goes to any of the connections it may choose.
LEMMA FetchInv ==
  ASSUME ConnInv, NEW r \in Requests, NEW i \in Images, NEW masked \in SUBSET Addrs,
         NEW recent \in SUBSET Addrs, NEW having \in SUBSET Addrs,
         Fetch(r, i, masked, recent, having)
  PROVE  ConnInv'
BY CandidateLive, EnsureConnectedInv, PushInv DEF Fetch

\* PacketStream::poll: from the channel to the registry.
LEMMA SendNextInv ==
  ASSUME ConnInv, NEW c \in Conns, SendNext(c)
  PROVE  ConnInv'
<1> USE DEF SendNext, connVars, imageVars, reqVars, failVars
<1> DEFINE r == Head(queue[c])
<1>1. queue[c] \in Seq(Requests) /\ queue[c] # << >>
  BY DEF ConnInv, TypeOK
<1>2. /\ r \in Requests /\ Tail(queue[c]) \in Seq(Requests)
      /\ ToSet(queue[c]) = {r} \cup ToSet(Tail(queue[c]))
  BY <1>1, HeadTailSet
<1>3. PICK id \in FreeIds(c) :
        /\ lastId' = [lastId EXCEPT ![c] = id]
        /\ registry' = [registry EXCEPT ![c][id] = r]
        /\ peer' = [peer EXCEPT ![c] = @ \cup {<<id, r>>}]
  OBVIOUS
<1>4. id \in Ids /\ registry[c][id] = None
  BY DEF FreeIds
<1>5. queue' = [queue EXCEPT ![c] = Tail(@)] /\ phase[c] = "open"
  OBVIOUS
<1>6. UNCHANGED <<connVars, imageVars, reqVars, failVars>>
  OBVIOUS
<1> HIDE DEF r, SendNext
<1>7. TypeOK'
  BY <1>2, <1>3, <1>4, <1>5, <1>6 DEF ConnInv, TypeOK
<1>8. Tables'
  BY <1>3, <1>5, <1>6 DEF ConnInv, TypeOK, Tables, Live
<1>9. Matched'
  <2> SUFFICES ASSUME NEW d \in Conns, NEW x \in peer'[d]
               PROVE  registry'[d][x[1]] = x[2]
    BY DEF Matched
  <2>1. CASE d # c
    BY <1>3, <2>1 DEF ConnInv, TypeOK, Matched
  <2>2. CASE d = c /\ x = <<id, r>>
    BY <1>3, <1>4, <2>2 DEF ConnInv, TypeOK
  <2>3. CASE d = c /\ x \in peer[c]
    <3>1. x[1] \in Ids /\ x[2] \in Requests /\ registry[c][x[1]] = x[2]
      BY <2>3 DEF ConnInv, TypeOK, Matched
    <3>2. x[1] # id
      BY <1>4, <3>1
    <3> QED BY <1>3, <1>4, <2>3, <3>1, <3>2 DEF ConnInv, TypeOK
  <2> QED BY <1>3, <2>1, <2>2, <2>3 DEF ConnInv, TypeOK
<1>10. OutgoingLive' /\ SourceIsReal' /\ ReplyMatches'
  BY <1>6 DEF ConnInv, OutgoingLive, SourceIsReal, Members, ReplyMatches, Live
<1>11. \A d \in Conns : Held(d) \subseteq Held(d)'
  <2> SUFFICES ASSUME NEW d \in Conns, NEW q \in Held(d) PROVE q \in Held(d)'
    OBVIOUS
  <2>1. CASE d # c
    BY <1>3, <1>5, <2>1 DEF ConnInv, TypeOK, Held, Registered
  <2>2. r \in Held(c)'
    BY <1>2, <1>3, <1>4 DEF ConnInv, TypeOK, Held, Registered
  <2>3. CASE d = c /\ q \in ToSet(Tail(queue[c]))
    BY <1>5, <2>3 DEF ConnInv, TypeOK, Held
  <2>4. CASE d = c /\ q \in Registered(c)
    <3>1. PICK k \in Ids : registry[c][k] = q /\ q # None
      BY <2>4 DEF Registered
    <3>2. registry'[c][k] = q
      BY <1>3, <1>4, <3>1 DEF ConnInv, TypeOK
    <3> QED BY <2>4, <3>1, <3>2 DEF Held, Registered
  <2> QED BY <1>2, <2>1, <2>2, <2>3, <2>4 DEF Held
<1>12. NoOrphan'
  BY <1>6, <1>11 DEF ConnInv, NoOrphan, Live
<1> QED BY <1>7, <1>8, <1>9, <1>10, <1>12 DEF ConnInv

\* respond and respond_error.
LEMMA AnswerInv ==
  ASSUME ConnInv, NEW c \in Conns, NEW x \in peer[c], NEW ok \in BOOLEAN,
         Answer(c, x, ok)
  PROVE  ConnInv'
<1> DEFINE r == registry[c][x[1]]
<1>1. x[1] \in Ids /\ x[2] \in Requests /\ x = <<x[1], x[2]>> /\ r = x[2]
  BY DEF ConnInv, TypeOK, Matched
<1>2. /\ phase[c] = "open"
      /\ peer' = [peer EXCEPT ![c] = @ \ {x}]
      /\ registry' = [registry EXCEPT ![c][x[1]] = None]
      /\ UNCHANGED <<connVars, imageVars, queue, lastId, failVars>>
  BY DEF Answer
<1>3. IF status[r] = "waiting"
        THEN /\ status' = [status EXCEPT ![r] = IF ok THEN "answered" ELSE "failed"]
             /\ got' = [got EXCEPT ![r] = IF ok THEN x[2] ELSE @]
        ELSE UNCHANGED reqVars
  BY <1>1 DEF Answer
<1> USE DEF connVars, imageVars, reqVars, failVars
<1> HIDE DEF r
<1>4. /\ status' \in [Requests -> Statuses] /\ got' \in [Requests -> Requests \cup {None}]
      /\ status'[r] # "waiting"
      /\ \A q \in Requests : q # r => status'[q] = status[q] /\ got'[q] = got[q]
      /\ got'[r] \in {got[r], x[2]}
  <2>1. status \in [Requests -> Statuses] /\ got \in [Requests -> Requests \cup {None}]
    BY DEF ConnInv, TypeOK
  <2>2. CASE status[r] = "waiting"
    <3>1. (IF ok THEN "answered" ELSE "failed") \in Statuses \ {"waiting"}
      BY DEF Statuses
    <3>2. (IF ok THEN x[2] ELSE got[r]) \in Requests \cup {None}
      BY <1>1, <2>1
    <3> QED BY <1>1, <1>3, <2>1, <2>2, <3>1, <3>2
  <2>3. CASE status[r] # "waiting"
    BY <1>3, <2>1, <2>3
  <2> QED BY <2>2, <2>3
<1>5. TypeOK'
  BY <1>1, <1>2, <1>4 DEF ConnInv, TypeOK
<1>6. Tables'
  BY <1>2 DEF ConnInv, TypeOK, Tables, Live
<1>7. Matched'
  <2> SUFFICES ASSUME NEW d \in Conns, NEW y \in peer'[d]
               PROVE  registry'[d][y[1]] = y[2]
    BY DEF Matched
  <2>1. CASE d # c
    BY <1>2, <2>1 DEF ConnInv, TypeOK, Matched
  <2>2. CASE d = c
    <3>1. y \in peer[c] /\ y # x
      BY <1>2, <2>2 DEF ConnInv, TypeOK
    <3>2. y[1] \in Ids /\ y = <<y[1], y[2]>> /\ registry[c][y[1]] = y[2]
      BY <3>1 DEF ConnInv, TypeOK, Matched
    <3>3. y[1] # x[1]
      BY <1>1, <3>1, <3>2 DEF r
    <3> QED BY <1>1, <1>2, <2>2, <3>2, <3>3 DEF ConnInv, TypeOK
  <2> QED BY <2>1, <2>2
<1>8. OutgoingLive' /\ SourceIsReal'
  BY <1>2 DEF ConnInv, OutgoingLive, SourceIsReal, Members, Live
<1>9. ReplyMatches'
  BY <1>1, <1>4 DEF ConnInv, ReplyMatches
<1>10. ASSUME NEW q \in Requests, status'[q] = "waiting"
       PROVE  \E d \in Conns : Live(d)' /\ q \in Held(d)'
  <2>1. q # r /\ status[q] = "waiting"
    BY <1>4, <1>10
  <2>2. PICK d \in Conns : Live(d) /\ q \in Held(d)
    BY <2>1 DEF ConnInv, NoOrphan
  <2>3. CASE q \in ToSet(queue[d])
    BY <1>2, <2>2, <2>3 DEF Held, Live
  <2>4. CASE q \in Registered(d)
    <3>1. PICK k \in Ids : registry[d][k] = q /\ q # None
      BY <2>4 DEF Registered
    <3>2. registry'[d][k] = q
      BY <1>1, <1>2, <2>1, <3>1 DEF ConnInv, TypeOK, r
    <3> QED BY <1>2, <2>2, <3>1, <3>2 DEF Held, Registered, Live
  <2> QED BY <2>2, <2>3, <2>4 DEF Held
<1>11. NoOrphan'
  BY <1>10 DEF NoOrphan
<1> QED BY <1>5, <1>6, <1>7, <1>8, <1>9, <1>11 DEF ConnInv

\* The RequestFuture is dropped.
LEMMA AbandonInv ==
  ASSUME ConnInv, NEW r \in Requests, Abandon(r)
  PROVE  ConnInv'
<1> USE DEF Abandon, connVars, imageVars, wireVars, failVars
<1>1. TypeOK'
  BY DEF ConnInv, TypeOK, Statuses
<1>2. Tables' /\ Matched'
  BY DEF ConnInv, Tables, Matched, Live
<1>3. OutgoingLive' /\ SourceIsReal' /\ ReplyMatches'
  BY DEF ConnInv, OutgoingLive, SourceIsReal, Members, ReplyMatches, Live
<1>4. NoOrphan'
  BY SameHeld DEF ConnInv, TypeOK, NoOrphan, Live
<1> QED BY <1>1, <1>2, <1>3, <1>4 DEF ConnInv

\* The handshake of an outgoing connection is done.
LEMMA HandshakeInv ==
  ASSUME ConnInv, NEW c \in Conns, Handshake(c)
  PROVE  ConnInv'
<1> USE DEF Handshake, imageVars, wireVars, reqVars
<1>1. c \notin incoming /\ addr[c] \in Addrs
  BY DEF ConnInv, Tables, Live
<1>2. TypeOK'
  BY <1>1 DEF ConnInv, TypeOK
<1>3. Tables' /\ Matched'
  BY <1>1 DEF ConnInv, TypeOK, Tables, Matched, Live
<1>4. OutgoingLive' /\ ReplyMatches'
  BY <1>1 DEF ConnInv, TypeOK, OutgoingLive, ReplyMatches, Live
<1>5. SourceIsReal'
  <2>1. \A d \in incoming : phase'[d] = phase[d]
    BY <1>1 DEF ConnInv, TypeOK
  <2>2. \A i \in Images : {d \in incoming' : phase'[d] = "open" /\ i \in images'[d]}
                          = {d \in incoming : phase[d] = "open" /\ i \in images[d]}
    BY <2>1
  <2> QED BY <2>2 DEF ConnInv, SourceIsReal, Members
<1>6. NoOrphan'
  BY SameHeld DEF ConnInv, TypeOK, NoOrphan, Live
<1> QED BY <1>2, <1>3, <1>4, <1>5, <1>6 DEF ConnInv

\* Token::drop and the end of the channel, the dispatcher and the registry.
LEMMA DropInv ==
  ASSUME ConnInv, NEW c \in Conns, Live(c), Drop(c)
  PROVE  ConnInv'
<1>1. /\ phase' = [phase EXCEPT ![c] = "closed"] /\ incoming' = incoming \ {c}
      /\ outgoing' = [a \in Addrs |-> IF outgoing[a] = c THEN None ELSE outgoing[a]]
      /\ queue' = [queue EXCEPT ![c] = << >>]
      /\ registry' = [registry EXCEPT ![c] = NoRequests]
      /\ peer' = [peer EXCEPT ![c] = {}]
      /\ UNCHANGED <<addr, images, lastId, got>>
  BY DEF Drop
<1>2. declared' = Undeclare(c)
  BY DEF Drop
<1>3. status' = [r \in Requests |->
        IF r \in Held(c) /\ status[r] = "waiting" THEN "failed" ELSE status[r]]
  BY DEF Drop
<1>4. failures' \in [Addrs -> 0 .. MaxFailures] /\ backoff' \in [Addrs -> 0 .. MaxFailures]
  <2>1. ASSUME NEW a \in Addrs, AddFailure(a)
        PROVE  failures' \in [Addrs -> 0 .. MaxFailures]
               /\ backoff' \in [Addrs -> 0 .. MaxFailures]
    BY <2>1 DEF AddFailure, ConnInv, TypeOK
  <2>2. addr[c] # None => addr[c] \in Addrs
    BY DEF ConnInv, TypeOK
  <2> QED BY <2>1, <2>2 DEF Drop, failVars, ConnInv, TypeOK
<1>5. NoRequests \in [Ids -> Requests \cup {None}]
  BY DEF NoRequests
<1>6. \A i \in Images :
        /\ declared[i] \in (SUBSET Conns) \cup {None} /\ declared[i] # {}
        /\ Members(i) = {d \in incoming : phase[d] = "open" /\ i \in images[d]}
  BY DEF ConnInv, TypeOK, SourceIsReal
<1>7. \A i \in Images :
        /\ declared'[i] \in (SUBSET Conns) \cup {None} /\ declared'[i] # {}
        /\ Members(i)' = Members(i) \ {c}
  <2> SUFFICES ASSUME NEW i \in Images
               PROVE  /\ declared'[i] \in (SUBSET Conns) \cup {None}
                      /\ declared'[i] # {}
                      /\ Members(i)' = Members(i) \ {c}
    OBVIOUS
  <2>1. c \in Members(i) <=> c \in incoming /\ i \in images[c]
    BY <1>6 DEF ConnInv, Tables
  <2>2. CASE c \in incoming /\ i \in images[c]
    <3>1. declared[i] \in SUBSET Conns /\ Members(i) = declared[i]
      BY <1>6, <2>1, <2>2 DEF Members
    <3>2. declared'[i] = IF declared[i] \subseteq {c} THEN None ELSE declared[i] \ {c}
      BY <1>2, <2>2, <3>1 DEF Undeclare
    <3>3. CASE declared[i] \subseteq {c}
      BY <3>1, <3>2, <3>3 DEF Members
    <3>4. CASE ~(declared[i] \subseteq {c})
      <4>1. declared[i] \ {c} \in SUBSET Conns /\ declared[i] \ {c} # {}
        BY <3>1, <3>4
      <4> QED BY <3>1, <3>2, <3>4, <4>1 DEF Members
    <3> QED BY <3>3, <3>4
  <2>3. CASE ~(c \in incoming /\ i \in images[c])
    <3>1. declared'[i] = declared[i]
      BY <1>2, <2>3 DEF Undeclare
    <3> QED BY <1>6, <2>1, <2>3, <3>1 DEF Members
  <2> QED BY <2>2, <2>3
<1>8. DOMAIN declared' = Images /\ declared' = [i \in Images |-> declared'[i]]
  BY <1>2 DEF Undeclare
<1>9. TypeOK'
  <2>1. declared' \in [Images -> (SUBSET Conns) \cup {None}]
    BY <1>7, <1>8
  <2>2. status' \in [Requests -> Statuses]
    BY <1>3 DEF ConnInv, TypeOK, Statuses
  <2> QED BY <1>1, <1>4, <1>5, <2>1, <2>2 DEF ConnInv, TypeOK
<1>10. Tables'
  BY <1>1 DEF ConnInv, TypeOK, Tables, Live
<1>11. Matched'
  BY <1>1 DEF ConnInv, TypeOK, Matched
<1>12. OutgoingLive'
  BY <1>1 DEF ConnInv, TypeOK, Tables, OutgoingLive, Live
<1>13. SourceIsReal'
  <2>1. \A d \in incoming' : d # c /\ d \in incoming /\ phase'[d] = phase[d]
    BY <1>1 DEF ConnInv, TypeOK
  <2>2. \A i \in Images : {d \in incoming' : phase'[d] = "open" /\ i \in images'[d]}
            = {d \in incoming : phase[d] = "open" /\ i \in images[d]} \ {c}
    BY <1>1, <2>1
  <2> QED BY <1>6, <1>7, <2>2 DEF SourceIsReal
<1>14. ReplyMatches'
  BY <1>1 DEF ConnInv, ReplyMatches
<1>15. \A d \in Conns : d # c => Held(d)' = Held(d) /\ (Live(d)' <=> Live(d))
  BY <1>1 DEF ConnInv, TypeOK, Held, Registered, Live
<1>16. NoOrphan'
  <2> SUFFICES ASSUME NEW r \in Requests, status'[r] = "waiting"
               PROVE  \E d \in Conns : Live(d)' /\ r \in Held(d)'
    BY DEF NoOrphan
  <2>1. r \notin Held(c) /\ status[r] = "waiting"
    BY <1>3
  <2> QED BY <1>15, <2>1 DEF ConnInv, NoOrphan
<1> QED BY <1>9, <1>10, <1>11, <1>12, <1>13, <1>14, <1>16 DEF ConnInv

\* Every step keeps the inductive invariant.
LEMMA ConnStep ==
  ASSUME ConnInv, [Next]_vars
  PROVE  ConnInv'
<1>1. ASSUME NEW c \in Conns,
             \/ Accept(c) \/ SendNext(c) \/ Handshake(c) \/ ConnectFails(c) \/ Close(c)
             \/ \E i \in Images : Publish(c, i)
             \/ \E x \in peer[c], ok \in BOOLEAN : Answer(c, x, ok)
      PROVE  ConnInv'
  <2>1. CASE ConnectFails(c) \/ Close(c)
    BY <2>1, DropInv DEF ConnectFails, Close, Live
  <2> QED BY <1>1, <2>1, AcceptInv, SendNextInv, HandshakeInv, PublishInv, AnswerInv
<1>2. ASSUME NEW r \in Requests,
             \/ Abandon(r)
             \/ \E a \in Addrs : GetBaseDir(r, a)
             \/ \E i \in Images, masked, recent, having \in SUBSET Addrs :
                  Fetch(r, i, masked, recent, having)
      PROVE  ConnInv'
  BY <1>2, AbandonInv, EnsureConnectedInv, FetchInv DEF GetBaseDir
<1>3. CASE Tick
  <2> USE DEF Tick, connVars, imageVars, wireVars, reqVars
  <2>1. TypeOK'
    BY <1>3 DEF ConnInv, TypeOK
  <2>2. Tables' /\ Matched' /\ OutgoingLive' /\ SourceIsReal' /\ ReplyMatches'
    BY <1>3 DEF ConnInv, Tables, Matched, OutgoingLive, SourceIsReal, Members,
                ReplyMatches, Live
  <2>3. NoOrphan'
    BY <1>3, SameHeld DEF ConnInv, NoOrphan, Live
  <2> QED BY <2>1, <2>2, <2>3 DEF ConnInv
<1>4. CASE UNCHANGED vars
  <2> USE DEF vars, connVars, imageVars, wireVars, reqVars, failVars
  <2>1. TypeOK'
    BY <1>4 DEF ConnInv, TypeOK
  <2>2. Tables' /\ Matched' /\ OutgoingLive' /\ SourceIsReal' /\ ReplyMatches'
    BY <1>4 DEF ConnInv, Tables, Matched, OutgoingLive, SourceIsReal, Members,
                ReplyMatches, Live
  <2>3. NoOrphan'
    BY <1>4, SameHeld DEF ConnInv, NoOrphan, Live
  <2> QED BY <2>1, <2>2, <2>3 DEF ConnInv
<1> QED BY <1>1, <1>2, <1>3, <1>4 DEF Next

\* The inductive invariant holds always.
LEMMA ConnInvariant == Spec => []ConnInv
BY InitInv, ConnStep, PTL DEF Spec

\* Types, for any number of connections, requests, ids and failures.
THEOREM ConnectionsTyping == Spec => []TypeOK
<1>1. ConnInv => TypeOK
  BY DEF ConnInv
<1> QED BY <1>1, ConnInvariant, PTL

\* Every request that is waited for is held by a live connection, and an answer
\* is only given to the request it answers, whatever size the id space has.
THEOREM RequestsSafe == Spec => [](NoOrphan /\ ReplyMatches)
<1>1. ConnInv => NoOrphan /\ ReplyMatches
  BY DEF ConnInv
<1> QED BY <1>1, ConnInvariant, PTL

\* declared_images holds exactly what live clients have published, and the
\* table of outgoing connections exactly one live connection per address.
THEOREM TablesSafe == Spec => [](SourceIsReal /\ OutgoingLive)
<1>1. ConnInv => SourceIsReal /\ OutgoingLive
  BY DEF ConnInv
<1> QED BY <1>1, ConnInvariant, PTL
=============================================================================
