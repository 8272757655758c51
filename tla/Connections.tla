---------------------------- MODULE Connections ----------------------------
(***************************************************************************)
(* The connections of a daemon and the requests that go over them          *)
(* (daemon/remote, proto/request.rs, failure_tracker.rs).                  *)
(*                                                                         *)
(* There is one outgoing connection for an address, opened when there is   *)
(* something to ask; clients and other daemons connect to this one, and a  *)
(* client publishes the images it can be asked for.  A request waits in    *)
(* the channel of a connection until the websocket loop takes it out,      *)
(* gives it a number and keeps it in the registry until it is answered.    *)
(* The peer answers in any order.  The requester may lose interest at any  *)
(* time, and the connection may be gone at any time.                       *)
(*                                                                         *)
(* Everything runs in one event loop: an action is one callback of it.     *)
(* Notifications and responses share the channel with requests, take no    *)
(* number and are left out.                                                *)
(***************************************************************************)
EXTENDS Integers, Sequences, FiniteSets, SequencesExt

CONSTANTS
  Conns,        \* Connection::id, each is used once
  Addrs,        \* addresses of peers
  Images,
  Requests,     \* each is made once
  IdSpace,      \* request ids are 0 .. IdSpace - 1 and wrap around
  MaxFailures,  \* bound on Failure::subsequent
  None

Ids == 0 .. IdSpace - 1

ASSUME ConnectionsAssumption ==
  /\ IdSpace \in Nat \ {0}
  /\ MaxFailures \in Nat \ {0}
  /\ None \notin Conns \cup Addrs \cup Requests
  /\ Conns \cap Addrs = {}
  /\ \A cs \in SUBSET Conns : None # cs

VARIABLES
  phase,        \* phase[c]: "new", "connecting", "open" or "closed"
  addr,         \* addr[c]: the address c goes to, None if it came in
  incoming,     \* Connections::incoming
  outgoing,     \* outgoing[a]: Connections::outgoing
  declared,     \* declared[i]: declared_images, None if i is not a key
  images,       \* images[c]: ConnectionState::images
  queue,        \* queue[c]: requests in the channel
  registry,     \* registry[c][id]: RegistryInner::requests
  lastId,       \* lastId[c]: last_request_id
  peer,         \* peer[c]: <<id, request>> the peer has not answered
  status,       \* status[r]: what the requester knows
  got,          \* got[r]: the request whose answer r was given
  failures,     \* failures[a]: Failure::subsequent, 0 if there is no entry
  backoff       \* backoff[a]: seconds until can_try

connVars == <<phase, addr, incoming, outgoing>>
imageVars == <<declared, images>>
wireVars == <<queue, registry, lastId, peer>>
reqVars == <<status, got>>
failVars == <<failures, backoff>>
vars == <<connVars, imageVars, wireVars, reqVars, failVars>>

-----------------------------------------------------------------------------
Live(c) == phase[c] \in {"connecting", "open"}

Statuses == {"new", "waiting", "answered", "failed", "abandoned"}

NoRequests == [id \in Ids |-> None]

TypeOK ==
  /\ phase \in [Conns -> {"new", "connecting", "open", "closed"}]
  /\ addr \in [Conns -> Addrs \cup {None}]
  /\ incoming \in SUBSET Conns
  /\ outgoing \in [Addrs -> Conns \cup {None}]
  /\ declared \in [Images -> (SUBSET Conns) \cup {None}]
  /\ images \in [Conns -> SUBSET Images]
  /\ queue \in [Conns -> Seq(Requests)]
  /\ registry \in [Conns -> [Ids -> Requests \cup {None}]]
  /\ lastId \in [Conns -> Ids]
  /\ peer \in [Conns -> SUBSET (Ids \X Requests)]
  /\ status \in [Requests -> Statuses]
  /\ got \in [Requests -> Requests \cup {None}]
  /\ failures \in [Addrs -> 0 .. MaxFailures]
  /\ backoff \in [Addrs -> 0 .. MaxFailures]

Init ==
  /\ phase = [c \in Conns |-> "new"]
  /\ addr = [c \in Conns |-> None]
  /\ incoming = {}
  /\ outgoing = [a \in Addrs |-> None]
  /\ declared = [i \in Images |-> None]
  /\ images = [c \in Conns |-> {}]
  /\ queue = [c \in Conns |-> << >>]
  /\ registry = [c \in Conns |-> NoRequests]
  /\ lastId = [c \in Conns |-> 0]
  /\ peer = [c \in Conns |-> {}]
  /\ status = [r \in Requests |-> "new"]
  /\ got = [r \in Requests |-> None]
  /\ failures = [a \in Addrs |-> 0]
  /\ backoff = [a \in Addrs |-> 0]

-----------------------------------------------------------------------------
(* Clients come in and publish images.                                     *)

Accept(c) ==
  /\ phase[c] = "new"
  /\ phase' = [phase EXCEPT ![c] = "open"]
  /\ incoming' = incoming \cup {c}
  /\ UNCHANGED <<addr, outgoing, imageVars, wireVars, reqVars, failVars>>

Members(i) == IF declared[i] = None THEN {} ELSE declared[i]

\* Dispatcher::frame, PublishImage: only clients send it.
Publish(c, i) ==
  /\ phase[c] = "open" /\ c \in incoming
  /\ images' = [images EXCEPT ![c] = @ \cup {i}]
  /\ declared' = [declared EXCEPT ![i] = Members(i) \cup {c}]
  /\ UNCHANGED <<connVars, wireVars, reqVars, failVars>>

-----------------------------------------------------------------------------
(* Requests.                                                               *)

\* RequestClient::request; all connections in the tables are live, so the
\* channel has a receiver.
Push(r, c) ==
  /\ status[r] = "new"
  /\ status' = [status EXCEPT ![r] = "waiting"]
  /\ queue' = [queue EXCEPT ![c] = Append(@, r)]
  /\ UNCHANGED <<imageVars, registry, lastId, peer, got, failVars>>

\* Mutant of EnsureConnected: a connection that is being made does not count.
EnsureConnectedOpen(r, a) ==
  \/ /\ outgoing[a] # None /\ phase[outgoing[a]] = "open"
     /\ Push(r, outgoing[a])
     /\ UNCHANGED connVars
  \/ /\ outgoing[a] # None => phase[outgoing[a]] # "open"
     /\ \E c \in Conns :
          /\ phase[c] = "new"
          /\ phase' = [phase EXCEPT ![c] = "connecting"]
          /\ addr' = [addr EXCEPT ![c] = a]
          /\ outgoing' = [outgoing EXCEPT ![a] = c]
          /\ Push(r, c)
     /\ UNCHANGED incoming

\* Remote::ensure_connected, and the request that it is for.
EnsureConnected(r, a) ==
  \/ /\ outgoing[a] # None
     /\ Push(r, outgoing[a])
     /\ UNCHANGED connVars
  \/ /\ outgoing[a] = None
     /\ \E c \in Conns :
          /\ phase[c] = "new"
          /\ phase' = [phase EXCEPT ![c] = "connecting"]
          /\ addr' = [addr EXCEPT ![c] = a]
          /\ outgoing' = [outgoing EXCEPT ![a] = c]
          /\ Push(r, c)
     /\ UNCHANGED incoming

CanTry(a) == backoff[a] = 0

\* Remote::split_connected.
Connected(as) == {outgoing[a] : a \in {x \in as : outgoing[x] # None}}
NotConnected(as) == {a \in as : outgoing[a] = None /\ CanTry(a)}

\* Tracking::get_connection_by_mask: the connections and addresses to choose
\* from, the best first.  `masked`, `recent` and `having` are the addresses
\* of the peers that have the block, that the path was reconciled from and
\* that have the base directory, without those the task has failed with.
Tiers(i, masked, recent, having) ==
  <<Connected(masked), Members(i), NotConnected(masked),
    Connected(recent), NotConnected(recent),
    Connected(having), NotConnected(having)>>

Candidates(i, masked, recent, having) ==
  LET tiers == Tiers(i, masked, recent, having)
      some == {k \in DOMAIN tiers : tiers[k] # {}}
  IN IF some = {} THEN {}
     ELSE tiers[CHOOSE k \in some : \A l \in some : k <= l]

\* A block or an index is asked for.
Fetch(r, i, masked, recent, having) ==
  \E x \in Candidates(i, masked, recent, having) :
    \/ x \in Addrs /\ EnsureConnected(r, x)
    \/ x \in Conns /\ Push(r, x) /\ UNCHANGED connVars

\* Reconciliation asks a peer for a base directory, whether it failed or not.
GetBaseDir(r, a) == EnsureConnected(r, a)

\* Mutant of FreeIds: an id still in use is not passed over.
FreeIdsAll(c) == Ids

FreeIds(c) == {id \in Ids : registry[c][id] = None}

\* How far id is from the last one that was given out; IdSpace for itself.
Distance(c, id) == ((id - lastId[c] - 1) % IdSpace) + 1

\* PacketStream::poll: the next request gets the next id that is not in use.
SendNext(c) ==
  /\ phase[c] = "open" /\ queue[c] # << >>
  /\ \E id \in FreeIds(c) :
       /\ \A other \in FreeIds(c) : Distance(c, id) <= Distance(c, other)
       /\ lastId' = [lastId EXCEPT ![c] = id]
       /\ registry' = [registry EXCEPT ![c][id] = Head(queue[c])]
       /\ peer' = [peer EXCEPT ![c] = @ \cup {<<id, Head(queue[c])>>}]
  /\ queue' = [queue EXCEPT ![c] = Tail(@)]
  /\ UNCHANGED <<connVars, imageVars, reqVars, failVars>>

\* Mutant of Answer: an error is logged and nobody is woken.
AnswerLogged(c, x, ok) ==
  LET r == registry[c][x[1]] IN
  /\ phase[c] = "open" /\ x \in peer[c]
  /\ peer' = [peer EXCEPT ![c] = @ \ {x}]
  /\ registry' = [registry EXCEPT ![c][x[1]] = None]
  /\ IF r # None /\ ok /\ status[r] = "waiting"
       THEN /\ status' = [status EXCEPT ![r] = "answered"]
            /\ got' = [got EXCEPT ![r] = x[2]]
       ELSE UNCHANGED reqVars
  /\ UNCHANGED <<connVars, imageVars, queue, lastId, failVars>>

\* RequestDispatcher::respond: the answer to request x[2], under id x[1].
\* An error just closes the channel of the requester.
Answer(c, x, ok) ==
  LET r == registry[c][x[1]] IN
  /\ phase[c] = "open" /\ x \in peer[c]
  /\ peer' = [peer EXCEPT ![c] = @ \ {x}]
  /\ registry' = [registry EXCEPT ![c][x[1]] = None]
  /\ IF r # None /\ status[r] = "waiting"
       THEN /\ status' = [status EXCEPT ![r] = IF ok THEN "answered" ELSE "failed"]
            /\ got' = [got EXCEPT ![r] = IF ok THEN x[2] ELSE @]
       ELSE UNCHANGED reqVars
  /\ UNCHANGED <<connVars, imageVars, queue, lastId, failVars>>

\* The RequestFuture is dropped; the entry waits for the answer.
Abandon(r) ==
  /\ status[r] = "waiting"
  /\ status' = [status EXCEPT ![r] = "abandoned"]
  /\ UNCHANGED <<connVars, imageVars, wireVars, got, failVars>>

-----------------------------------------------------------------------------
(* Connections are made and go away.                                       *)

Handshake(c) ==
  /\ phase[c] = "connecting"
  /\ phase' = [phase EXCEPT ![c] = "open"]
  /\ failures' = [failures EXCEPT ![addr[c]] = 0]
  /\ backoff' = [backoff EXCEPT ![addr[c]] = 0]
  /\ UNCHANGED <<addr, incoming, outgoing, imageVars, wireVars, reqVars>>

Registered(c) == {registry[c][id] : id \in Ids} \ {None}
Held(c) == ToSet(queue[c]) \cup Registered(c)

\* Failures::add_failure, for the addresses somebody may connect to again.
AddFailure(a) ==
  LET n == IF failures[a] < MaxFailures THEN failures[a] + 1 ELSE failures[a] IN
  /\ failures' = [failures EXCEPT ![a] = n]
  /\ backoff' = [backoff EXCEPT ![a] = n]

\* Mutant of Undeclare: an image nobody has stays a key.
UndeclareKept(c) ==
  [i \in Images |->
     IF c \in incoming /\ i \in images[c] THEN Members(i) \ {c} ELSE declared[i]]

\* Token::drop: the images of an incoming connection.
Undeclare(c) ==
  [i \in Images |->
     IF c \in incoming /\ i \in images[c]
       THEN IF Members(i) \subseteq {c} THEN None ELSE declared[i] \ {c}
       ELSE declared[i]]

\* The future of the connection ends: the channel, the dispatcher and the
\* token are dropped, and with them the last references to the registry.
Drop(c) ==
  /\ phase' = [phase EXCEPT ![c] = "closed"]
  /\ incoming' = incoming \ {c}
  /\ outgoing' = [a \in Addrs |-> IF outgoing[a] = c THEN None ELSE outgoing[a]]
  /\ declared' = Undeclare(c)
  /\ queue' = [queue EXCEPT ![c] = << >>]
  /\ registry' = [registry EXCEPT ![c] = NoRequests]
  /\ peer' = [peer EXCEPT ![c] = {}]
  /\ status' = [r \in Requests |->
        IF r \in Held(c) /\ status[r] = "waiting" THEN "failed" ELSE status[r]]
  /\ IF addr[c] # None /\ (phase[c] = "connecting" \/ Registered(c) # {})
       THEN AddFailure(addr[c]) ELSE UNCHANGED failVars
  /\ UNCHANGED <<addr, images, lastId, got>>

\* Mutant of ConnectFails: no timeout for a host that has failed before.
ConnectFailsOnce(c) == phase[c] = "connecting" /\ failures[addr[c]] = 0 /\ Drop(c)

\* The connection is refused, the handshake fails or 500 ms have passed.
ConnectFails(c) == phase[c] = "connecting" /\ Drop(c)

\* The peer closes, the network fails, or nothing was heard for too long.
Close(c) == phase[c] = "open" /\ Drop(c)

\* A second passes.
Tick ==
  /\ \E a \in Addrs : backoff[a] > 0
  /\ backoff' = [a \in Addrs |-> IF backoff[a] > 0 THEN backoff[a] - 1 ELSE 0]
  /\ UNCHANGED <<connVars, imageVars, wireVars, reqVars, failures>>

Next ==
  \/ \E c \in Conns :
       \/ Accept(c) \/ SendNext(c) \/ Handshake(c) \/ ConnectFails(c) \/ Close(c)
       \/ \E i \in Images : Publish(c, i)
       \/ \E x \in peer[c], ok \in BOOLEAN : Answer(c, x, ok)
  \/ \E r \in Requests :
       \/ Abandon(r)
       \/ \E a \in Addrs : GetBaseDir(r, a)
       \/ \E i \in Images, masked, recent, having \in SUBSET Addrs :
            Fetch(r, i, masked, recent, having)
  \/ Tick

Spec == Init /\ [][Next]_vars

\* The loop of a connection sends what is queued, connecting is limited to
\* 500 ms and a silent peer is dropped after message_timeout.
Fairness ==
  \A c \in Conns :
    /\ WF_vars(ConnectFails(c))
    /\ WF_vars(SendNext(c))
    /\ WF_vars(Registered(c) # {} /\ Close(c))
FairSpec == Spec /\ Fairness

-----------------------------------------------------------------------------
(* Properties                                                              *)

\* Nobody waits for an answer that cannot come: what is waited for is in the
\* channel or the registry of a live connection, through failed handshakes,
\* closing and errors (RequestFuture has no timeout of its own).
NoOrphan ==
  \A r \in Requests : status[r] = "waiting" =>
    \E c \in Conns : Live(c) /\ r \in Held(c)

\* An answer is given to the request it answers, though ids wrap around,
\* answers come in any order and abandoned requests are answered too.
ReplyMatches == \A r \in Requests : got[r] \in {r, None}

\* has_image_source and get_incoming_connection_for_image: an image is a key
\* of declared_images if and only if a live client has published it.  (With
\* a stale key check_stalled would count a source forever.)
SourceIsReal ==
  \A i \in Images :
    Members(i) = {c \in incoming : phase[c] = "open" /\ i \in images[c]}
    /\ declared[i] # {}

\* There is one live connection per address, and the table has it.
OutgoingLive ==
  /\ \A a \in Addrs : outgoing[a] # None =>
       Live(outgoing[a]) /\ addr[outgoing[a]] = a
  /\ \A c \in Conns : Live(c) /\ c \notin incoming => outgoing[addr[c]] = c

\* Every request is answered, fails or is abandoned.
EveryRequestResolves ==
  \A r \in Requests : status[r] = "waiting" ~> status[r] # "waiting"

=============================================================================
