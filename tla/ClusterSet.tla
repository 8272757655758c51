----------------------------- MODULE ClusterSet -----------------------------
(***************************************************************************)
(* The uploading client (cluster/set.rs, cluster/upload.rs,                *)
(* cluster/addr.rs, proto/client.rs): one upload to a cluster.             *)
(*                                                                         *)
(* The client connects to some of the addresses it was given, asks each    *)
(* server to append the image, learns from the answers which other servers *)
(* have the directory, and waits until they are told to have the image.    *)
(* Connections are tasks of their own: they send what they hear into the   *)
(* channel of ConnectionSet, and resolve futures that it polls.            *)
(*                                                                         *)
(* ConnectionSet::poll is split into its steps; the tasks of connections   *)
(* run in the same event loop, so they take steps only between two polls.  *)
(* A server, its address, its name and its machine id are one host.        *)
(***************************************************************************)
EXTENDS Naturals, Sequences, FiniteSets

CONSTANTS
  Hosts,
  Initial,             \* the hosts the client was told of
  InitialConnections,  \* Config::initial_connections
  EarlyHosts,          \* Config::early_hosts
  EarlyNum, EarlyDen,  \* Config::early_fraction
  Weak,                \* Stats::weak_errors
  Holders,             \* hosts that have another image at the path
  MaxLosses,           \* bound on failed and closed connections
  MaxChan,             \* bound on unread notifications
  None

ASSUME ClusterSetAssumption ==
  /\ IsFiniteSet(Hosts) /\ Initial \subseteq Hosts /\ Holders \subseteq Hosts
  /\ InitialConnections \in Nat \ {0}
  /\ EarlyHosts \in Nat
  /\ EarlyNum \in Nat /\ EarlyDen \in Nat \ {0}
  /\ Weak \in BOOLEAN
  /\ MaxLosses \in Nat /\ MaxChan \in Nat
  /\ None \notin {"ok", "rejected", "deadline"}

VARIABLES
  pc,           \* the step of ConnectionSet::poll
  repeat,       \* its loop variable
  woken,        \* the task has been notified
  retry,        \* the retry timer has fired and is not armed again
  unresolved,   \* AddrCell: initial names that are being resolved
  initialAddr,  \* AddrCell: addresses got so far
  chan,         \* messages
  pending,      \* ConnectionSet::pending
  active,       \* ConnectionSet::active
  task,         \* task[h]: the task of the connection to h
  asked,        \* hosts that were sent the request over this connection
  connections,  \* Upload::connections
  futures,      \* futures[h]: Upload::futures, and what came of them
  candidates,   \* Upload::candidate_hosts
  addrs,        \* names that are resolved
  resolving,    \* ConnectionSet::pending_addrs
  failed,       \* hosts that cannot be tried now
  failedNames,  \* names that cannot be resolved now
  book,         \* Bookkeeping
  early,        \* early_timeout has passed
  deadline,     \* maximum_timeout has passed
  outcome,      \* what Upload::resolve was sent
  stored,       \* history: hosts that some server has announced to have the image
  others,       \* history: hosts announced to have another image at the path only
  losses

setVars == <<pending, active, failed, addrs, resolving, failedNames>>
addrVars == <<unresolved, initialAddr>>
upVars == <<connections, candidates, book, outcome>>
timerVars == <<retry, early, deadline>>
history == <<stored, others>>
vars == <<pc, repeat, woken, addrVars, chan, task, asked, futures, setVars,
          upVars, timerVars, history, losses>>

-----------------------------------------------------------------------------
Min2(a, b) == IF a < b THEN a ELSE b
Max2(a, b) == IF a < b THEN b ELSE a

\* sample_iter: any n of the set, or all of it if it is smaller.
Samples(set, n) ==
  {s \in SUBSET set : Cardinality(s) = Min2(n, Cardinality(set))}

Reasons == {"already_exists", "no_config", "other"}
Response ==
       [state : {"answered"}, accepted : {TRUE}, reason : {None}, hosts : SUBSET Hosts]
  \cup [state : {"answered"}, accepted : {FALSE}, reason : Reasons, hosts : SUBSET Hosts]
NoFuture == [state |-> "none"]
Waiting == [state |-> "waiting"]
Error == [state |-> "error"]   \* UnexpectedTermination, the only one there is

Message ==
       [type : {"Received"}, via : Hosts, host : Hosts]
  \cup [type : {"Aborted", "Closed"}, via : Hosts]

Books ==
  [accepted_ips : SUBSET Hosts, discovered : SUBSET Hosts,
   done_ips : SUBSET Hosts, done_servers : SUBSET Hosts,
   aborted : SUBSET Hosts, no_config : SUBSET Hosts, rejected : SUBSET Hosts]

Steps == {"idle", "read", "connect", "pending", "wakeup", "upload", "panicked"}

TypeOK ==
  /\ pc \in Steps
  /\ {repeat, woken, retry, early, deadline} \subseteq BOOLEAN
  /\ unresolved \subseteq Initial /\ initialAddr \subseteq Initial
  /\ chan \in Seq(Message)
  /\ pending \subseteq Hosts /\ active \subseteq Hosts
  /\ task \in [Hosts -> {"none", "connecting", "failed", "open", "gone"}]
  /\ asked \subseteq Hosts /\ connections \subseteq Hosts
  /\ futures \in [Hosts -> Response \cup {NoFuture, Waiting, Error}]
  /\ candidates \subseteq Hosts /\ addrs \subseteq Hosts
  /\ resolving \subseteq Hosts
  /\ failed \subseteq Hosts /\ failedNames \subseteq Hosts
  /\ book \in Books
  /\ outcome \in {None, "ok", "rejected", "deadline"}
  /\ stored \subseteq Hosts /\ others \subseteq Hosts
  /\ losses \in 0 .. MaxLosses

EmptyBook ==
  [accepted_ips |-> {}, discovered |-> {}, done_ips |-> {}, done_servers |-> {},
   aborted |-> {}, no_config |-> {}, rejected |-> {}]

\* ConnectionSet::spawn and start_upload.
Init ==
  /\ pc = "idle" /\ repeat = FALSE /\ woken = TRUE
  /\ retry = FALSE /\ early = FALSE /\ deadline = FALSE
  /\ unresolved = Initial /\ initialAddr = {}
  /\ chan = << >>
  /\ pending = {} /\ active = {} /\ failed = {}
  /\ addrs = {} /\ resolving = {} /\ failedNames = {}
  /\ task = [h \in Hosts |-> "none"]
  /\ asked = {}
  /\ connections = {} /\ candidates = {}
  /\ futures = [h \in Hosts |-> NoFuture]
  /\ book = EmptyBook /\ outcome = None
  /\ stored = {} /\ others = {}
  /\ losses = 0

-----------------------------------------------------------------------------
(* ConnectionSet::poll.                                                    *)

Uploading == outcome = None

\* initial_addr.poll: of the names that were resolved `ok` have an address.
PollStart(done, ok) ==
  /\ pc = "idle" /\ woken
  /\ done \subseteq unresolved /\ ok \subseteq done
  /\ unresolved' = unresolved \ done
  /\ initialAddr' = initialAddr \cup ok
  /\ pc' = "read"
  /\ woken' = FALSE
  /\ UNCHANGED <<repeat, chan, task, asked, futures, setVars, upVars, timerVars,
                 history, losses>>

\* Stats::received_image.
ReceivedImage(b, msg) ==
  [b EXCEPT !.done_ips = IF msg.via = msg.host THEN @ \cup {msg.via} ELSE @,
            !.done_servers = @ \cup {msg.host},
            !.discovered = @ \cup {msg.host}]

\* read_messages, one message; `expect("duplicate close")` is the panic.  Of
\* an image that was received the path is compared and the id is not.
ReadMessage ==
  LET msg == Head(chan) IN
  /\ pc = "read" /\ chan # << >>
  /\ chan' = Tail(chan)
  /\ \/ /\ msg.type = "Received"
        /\ book' = IF Uploading THEN ReceivedImage(book, msg) ELSE book
        /\ UNCHANGED <<pc, active, task, connections>>
     \/ /\ msg.type = "Aborted"
        /\ book' = IF Uploading THEN [book EXCEPT !.aborted = @ \cup {msg.via}] ELSE book
        /\ UNCHANGED <<pc, active, task, connections>>
     \/ /\ msg.type = "Closed"
        /\ connections' = connections \ {msg.via}
        /\ active' = active \ {msg.via}
        /\ task' = [task EXCEPT ![msg.via] = "none"]
        /\ pc' = IF msg.via \in active THEN pc ELSE "panicked"
        /\ UNCHANGED book
  /\ UNCHANGED <<repeat, woken, addrVars, asked, futures, pending, failed,
                 addrs, resolving, failedNames, candidates, outcome, timerVars,
                 history, losses>>

IsRejected(h) == h \in book.rejected \cup book.no_config

\* Mutant of Free: a host that is connected may be connected to again.
FreeAgain(h) == ~IsRejected(h) /\ h \notin pending /\ h \notin failed

\* A host that may be connected to now.
Free(h) ==
  /\ ~IsRejected(h)
  /\ h \notin pending /\ h \notin active /\ h \notin failed

NeedsConnections ==
  /\ Uploading
  /\ Cardinality(connections) < InitialConnections
  /\ Cardinality({h \in pending \cup active : ~IsRejected(h)}) < InitialConnections

\* Mutant of PollConnect: the retry timer is not armed again.
PollConnectUnarmed ==
  /\ pc = "connect" \/ (pc = "read" /\ chan = << >>)
  /\ pc' = "pending"
  /\ UNCHANGED retry
  /\ \/ /\ ~NeedsConnections
        /\ repeat' = FALSE
        /\ UNCHANGED <<pending, task, resolving>>
     \/ /\ NeedsConnections
        /\ \E known \in Samples({h \in candidates \cap addrs : Free(h)},
                                InitialConnections) :
           LET left == InitialConnections - Cardinality(known) IN
           \E names \in Samples((candidates \ addrs) \ (failedNames \cup resolving), left),
              first \in Samples({h \in initialAddr \ connections : Free(h)}, left) :
             /\ resolving' = resolving \cup names
             /\ pending' = pending \cup known \cup first
             /\ task' = [h \in Hosts |->
                           IF h \in known \cup first THEN "connecting" ELSE task[h]]
             /\ repeat' = (known \cup first # {})
  /\ UNCHANGED <<woken, addrVars, chan, asked, futures, active, failed, addrs,
                 failedNames, upVars, early, deadline, history, losses>>

\* A round of the loop: the retry timer is armed again while there are
\* uploads, then poll_connect: new_conns_for_upload.
PollConnect ==
  /\ pc = "connect" \/ (pc = "read" /\ chan = << >>)
  /\ pc' = "pending"
  /\ retry' = (retry /\ ~Uploading)
  /\ \/ /\ ~NeedsConnections
        /\ repeat' = (retry /\ Uploading)
        /\ UNCHANGED <<pending, task, resolving>>
     \/ /\ NeedsConnections
        /\ \E known \in Samples({h \in candidates \cap addrs : Free(h)},
                                InitialConnections) :
           LET left == InitialConnections - Cardinality(known) IN
           \E names \in Samples((candidates \ addrs) \ (failedNames \cup resolving), left),
              first \in Samples({h \in initialAddr \ connections : Free(h)}, left) :
             /\ resolving' = resolving \cup names
             /\ pending' = pending \cup known \cup first
             /\ task' = [h \in Hosts |->
                           IF h \in known \cup first THEN "connecting" ELSE task[h]]
             /\ repeat' = (retry \/ known \cup first # {})
  /\ UNCHANGED <<woken, addrVars, chan, asked, futures, active, failed, addrs,
                 failedNames, upVars, early, deadline, history, losses>>

\* poll_pending: connections that are made or failed, names that are resolved.
PollPending ==
  /\ pc = "pending" /\ pc' = "wakeup"
  /\ pending' = {h \in pending : task[h] = "connecting"}
  /\ active' = active \cup {h \in pending : task[h] \in {"open", "gone"}}
  /\ failed' = failed \cup {h \in pending : task[h] = "failed"}
  /\ task' = [h \in Hosts |-> IF task[h] = "failed" THEN "none" ELSE task[h]]
  /\ \E done \in SUBSET resolving : \E ok \in SUBSET done :
       /\ resolving' = resolving \ done
       /\ addrs' = addrs \cup ok
       /\ failedNames' = failedNames \cup (done \ ok)
       /\ repeat' = (repeat \/ pending' # pending \/ done # {})
  /\ UNCHANGED <<woken, addrVars, chan, asked, futures, upVars, timerVars,
                 history, losses>>

\* wakeup_uploads: a request over a connection that is gone fails at once.
WakeupUploads ==
  LET new == IF Uploading /\ Cardinality(connections) < InitialConnections
               THEN {h \in active \ connections : ~IsRejected(h)} ELSE {}
  IN /\ pc = "wakeup" /\ pc' = "upload"
     /\ connections' = connections \cup new
     /\ futures' = [h \in Hosts |-> IF h \notin new THEN futures[h]
                      ELSE IF task[h] = "open" THEN Waiting ELSE Error]
     /\ asked' = asked \cup {h \in new : task[h] = "open"}
     /\ UNCHANGED <<repeat, woken, addrVars, chan, task, setVars, candidates,
                    book, outcome, timerVars, history, losses>>

\* Stats::add_response for all the answers: who was accepted, in the end.
Answered == {h \in Hosts : futures[h].state = "answered"}
Accepts(h) == \/ futures[h].accepted
              \/ Weak /\ futures[h].reason = "already_exists"

AddResponses ==
  LET yes == {h \in Answered : Accepts(h)}
      no == Answered \ yes
      why(reasons) == {h \in no : futures[h].reason \in reasons}
  IN [book EXCEPT
       !.accepted_ips = @ \cup yes,
       !.done_ips = @ \cup {h \in yes : ~futures[h].accepted},
       !.no_config = @ \cup why({"no_config"}),
       !.rejected = @ \cup why(Reasons \ {"no_config"}),
       !.discovered = @ \cup UNION {futures[h].hosts : h \in Answered}]

\* Bookkeeping::discovered_num.
DiscoveredNum(b) ==
  Cardinality(b.discovered) +
  IF Cardinality(b.accepted_ips) = 1 /\ b.rejected = {} /\ b.no_config = {}
    THEN 1 ELSE 0

\* How many hosts are enough after the early timeout.
EarlyEnough(b) ==
  LET n == DiscoveredNum(b)
      fraction == (n * EarlyNum + EarlyDen - 1) \div EarlyDen
  IN Min2(n, Max2(EarlyHosts, fraction))

\* Mutant of Check: the servers found by others are not waited for.
CheckAccepted(b, cands) ==
  IF /\ b.accepted_ips = {} /\ unresolved = {} /\ cands = {}
     /\ b.rejected \cup b.no_config # {}
     /\ initialAddr \subseteq b.rejected \cup b.aborted \cup b.no_config
    THEN "rejected"
  ELSE IF /\ b.done_servers # {}
          /\ IF early
               THEN /\ EarlyEnough(b) > 0
                    /\ Cardinality(b.done_servers) >= EarlyEnough(b)
               ELSE b.accepted_ips \subseteq b.done_ips
    THEN IF b.rejected # {} \/ b.aborted # {} THEN "rejected" ELSE "ok"
  ELSE None

\* upload::check; None: nothing can be said yet.  Servers do not forward that
\* others have aborted, so aborted_ips and aborted_ids are the same.
Check(b, cands) ==
  IF /\ b.accepted_ips = {} /\ unresolved = {} /\ cands = {}
     /\ b.rejected \cup b.no_config # {}
     /\ initialAddr \subseteq b.rejected \cup b.aborted \cup b.no_config
    THEN "rejected"
  ELSE IF IF early
            THEN /\ EarlyEnough(b) > 0
                 /\ Cardinality(b.done_servers) >= EarlyEnough(b)
            ELSE /\ b.accepted_ips \subseteq b.done_ips
                 /\ b.discovered \subseteq b.done_servers
                 /\ b.done_servers # {}
    THEN IF b.rejected # {} \/ b.aborted # {} THEN "rejected" ELSE "ok"
  ELSE None

\* Mutant of PollUpload: it never exits when a request is hanging.
PollUploadHanging ==
  LET b == AddResponses
      cands == candidates \cup UNION {futures[h].hosts : h \in Answered}
      waiting == {h \in Hosts : futures[h] = Waiting}
      responses == b.accepted_ips \cup b.rejected \cup b.no_config
      check == Check(b, cands)
      result == IF waiting = {} /\ responses # {} /\ check # None THEN check
                ELSE IF deadline /\ waiting = {} THEN IF check # None THEN check ELSE "deadline"
                ELSE None
  IN /\ pc = "upload"
     /\ IF Uploading
          THEN /\ book' = b /\ candidates' = cands
               /\ connections' = connections \ ({h \in Hosts : futures[h] = Error}
                                   \cup {h \in Answered : ~Accepts(h)})
               /\ futures' = [h \in Hosts |-> IF h \in waiting /\ result = None
                                THEN Waiting ELSE NoFuture]
               /\ outcome' = result
          ELSE UNCHANGED <<book, candidates, connections, futures, outcome>>
     /\ pc' = IF repeat \/ outcome' # outcome THEN "connect" ELSE "idle"
     /\ repeat' = FALSE
     /\ UNCHANGED <<woken, addrVars, chan, task, asked, setVars, timerVars,
                    history, losses>>

\* poll_uploads.
PollUpload ==
  LET b == AddResponses
      cands == candidates \cup UNION {futures[h].hosts : h \in Answered}
      waiting == {h \in Hosts : futures[h] = Waiting}
      responses == b.accepted_ips \cup b.rejected \cup b.no_config
      check == Check(b, cands)
      result == IF waiting = {} /\ responses # {} /\ check # None THEN check
                ELSE IF deadline THEN IF check # None THEN check ELSE "deadline"
                ELSE None
  IN /\ pc = "upload"
     /\ IF Uploading
          THEN /\ book' = b /\ candidates' = cands
               /\ connections' = connections \ ({h \in Hosts : futures[h] = Error}
                                   \cup {h \in Answered : ~Accepts(h)})
               /\ futures' = [h \in Hosts |-> IF h \in waiting /\ result = None
                                THEN Waiting ELSE NoFuture]
               /\ outcome' = result
          ELSE UNCHANGED <<book, candidates, connections, futures, outcome>>
     /\ pc' = IF repeat \/ outcome' # outcome THEN "connect" ELSE "idle"
     /\ repeat' = FALSE
     /\ UNCHANGED <<woken, addrVars, chan, task, asked, setVars, timerVars,
                    history, losses>>

-----------------------------------------------------------------------------
(* The tasks of the connections and the servers: between two polls, until  *)
(* the upload has ended.                                                   *)

Between == pc = "idle" /\ Uploading
Lose == losses < MaxLosses /\ losses' = losses + 1

ConnectionMade(h) ==
  /\ Between /\ task[h] = "connecting"
  /\ task' = [task EXCEPT ![h] = "open"]
  /\ woken' = TRUE
  /\ UNCHANGED <<pc, repeat, addrVars, chan, asked, futures, setVars, upVars,
                 timerVars, history, losses>>

ConnectFails(h) ==
  /\ Between /\ task[h] = "connecting" /\ Lose
  /\ task' = [task EXCEPT ![h] = "failed"]
  /\ woken' = TRUE
  /\ UNCHANGED <<pc, repeat, addrVars, chan, asked, futures, setVars, upVars,
                 timerVars, history>>

\* The loop of the connection ends; MyDispatcher::drop tells of it.
ConnectionEnds(h) ==
  /\ Between /\ task[h] = "open" /\ Lose
  /\ task' = [task EXCEPT ![h] = "gone"]
  /\ asked' = asked \ {h}
  /\ futures' = [futures EXCEPT ![h] = IF @ = Waiting THEN Error ELSE @]
  /\ chan' = Append(chan, [type |-> "Closed", via |-> h])
  /\ woken' = TRUE
  /\ UNCHANGED <<pc, repeat, addrVars, setVars, upVars, timerVars, history>>

\* A server answers AppendDir or ReplaceDir; it lists the peers it knows to
\* have the directory, which it is not among.
Respond(h, r) ==
  /\ Between /\ futures[h] = Waiting
  /\ futures' = [futures EXCEPT ![h] = r]
  /\ woken' = TRUE
  /\ UNCHANGED <<pc, repeat, addrVars, chan, task, asked, setVars, upVars,
                 timerVars, history, losses>>

Say(msg) ==
  /\ Len(chan) < MaxChan
  /\ chan' = Append(chan, msg)
  /\ woken' = TRUE

\* The server `via` tells that a `host` has an image at the path.  It tells all
\* who have declared that image and all who watch the path, so the image need
\* not be the one that is uploaded (`ours`): a peer may have an older one.
NotifyReceived(via, host, ours) ==
  /\ Between /\ task[via] = "open" /\ via \in asked
  /\ ours \/ host \in Holders
  /\ stored' = IF ours THEN stored \cup {host} ELSE stored
  /\ others' = IF ours THEN others \ {host} ELSE others \cup ({host} \ stored)
  /\ Say([type |-> "Received", via |-> via, host |-> host])
  /\ UNCHANGED <<pc, repeat, addrVars, task, asked, futures, setVars, upVars,
                 timerVars, losses>>

\* The server gives up the download.
NotifyAborted(h) ==
  /\ Between /\ task[h] = "open" /\ h \in asked
  /\ h \notin stored
  /\ Say([type |-> "Aborted", via |-> h])
  /\ UNCHANGED <<pc, repeat, addrVars, task, asked, futures, setVars, upVars,
                 timerVars, history, losses>>

\* The retry timer, which fires once after it was armed: what failed may be
\* tried again, at least after some time.
RetryFires(still, names) ==
  /\ Between /\ ~retry
  /\ retry' = TRUE /\ woken' = TRUE
  /\ still \subseteq failed /\ failed' = still
  /\ names \subseteq failedNames /\ failedNames' = names
  /\ UNCHANGED <<pc, repeat, addrVars, chan, task, asked, futures, pending,
                 active, addrs, resolving, upVars, early, deadline, history,
                 losses>>

EarlyPasses ==
  /\ Between /\ ~early
  /\ early' = TRUE /\ woken' = TRUE
  /\ UNCHANGED <<pc, repeat, addrVars, chan, task, asked, futures, setVars,
                 upVars, retry, deadline, history, losses>>

DeadlinePasses ==
  /\ Between /\ early /\ ~deadline
  /\ deadline' = TRUE /\ woken' = TRUE
  /\ UNCHANGED <<pc, repeat, addrVars, chan, task, asked, futures, setVars,
                 upVars, retry, early, history, losses>>

Poll ==
  \/ \E done \in SUBSET unresolved : \E ok \in SUBSET done : PollStart(done, ok)
  \/ ReadMessage \/ PollConnect \/ PollPending
  \/ WakeupUploads \/ PollUpload

Responses(h) ==
  {r \in Response : h \notin r.hosts} \cup {Error}

Next ==
  \/ Poll
  \/ \E h \in Hosts :
       \/ ConnectionMade(h) \/ ConnectFails(h) \/ ConnectionEnds(h)
       \/ \E r \in Responses(h) : Respond(h, r)
       \/ NotifyAborted(h)
       \/ \E host \in Hosts, ours \in BOOLEAN : NotifyReceived(h, host, ours)
  \/ \E still \in SUBSET failed, names \in SUBSET failedNames :
       RetryFires(still, names)
  \/ EarlyPasses \/ DeadlinePasses

Spec == Init /\ [][Next]_vars

\* The event loop polls a task that was notified, the names are resolved or
\* not at some time, timers fire and connecting ends.
Fairness ==
  /\ WF_vars(Poll)
  /\ SF_vars(\E ok \in SUBSET unresolved : PollStart(unresolved, ok))
  /\ SF_vars(RetryFires({}, {}))
  /\ \A h \in Hosts : SF_vars(ConnectionMade(h))
FairSpec == Spec /\ Fairness

-----------------------------------------------------------------------------
(* Properties                                                              *)

Panicked == pc = "panicked"
ClosedAt(i, h) == chan[i].type = "Closed" /\ chan[i].via = h

\* Success is reported only if the image was announced of every host that is
\* counted, and, unless the early timeout has passed, of every host that took
\* the upload and every one that the servers have told of; and never when a
\* host has rejected it.  The exception is a host that was announced to have
\* another image at the path: the client does not tell the two apart and
\* counts it as well.
OkIsSound ==
  outcome = "ok" =>
    /\ book.done_servers # {} /\ book.done_servers \subseteq stored \cup others
    /\ book.rejected = {}
    /\ ~early => book.discovered \cup (IF Weak THEN {} ELSE book.accepted_ips)
                   \subseteq stored \cup others

\* The client has at most one connection to a host, each is in exactly one
\* table, and its end is told once; what the upload uses is active.  (TypeOK
\* beside it: servers are counted by machine id.)
ConnectionsCounted ==
  /\ TypeOK
  /\ ~Panicked =>
    /\ pending \cap active = {}
    /\ connections \subseteq active
    /\ \A h \in Hosts :
         /\ task[h] # "none" => h \in pending \cup active
         /\ task[h] = "gone" <=> \E i \in DOMAIN chan : ClosedAt(i, h)
         /\ \A i, j \in DOMAIN chan : ClosedAt(i, h) /\ ClosedAt(j, h) => i = j

\* After the deadline the upload ends, whatever connections and servers do.
UploadEnds == deadline ~> outcome # None \/ Panicked

\* While there is a host left that has not rejected the image the client does
\* not stop trying: it is connected to one again (without any further wakeup
\* than the retry timer).
KeepsTrying ==
  outcome = None ~>
    \/ outcome # None \/ Panicked
    \/ connections # {}
    \/ unresolved = {} /\ \A h \in initialAddr : IsRejected(h)

=============================================================================
