-------------------------- MODULE ClusterSetProofs --------------------------
(***************************************************************************)
(* Proofs about ClusterSet.tla, for any finite set of hosts and any        *)
(* configuration: the tables of connections stay consistent, and success   *)
(* is reported only on announcements of an image from every host that is   *)
(* counted.                                                                *)
(***************************************************************************)
EXTENDS ClusterSet, FiniteSetTheorems, TLAPS

USE ClusterSetAssumption

-----------------------------------------------------------------------------
(* Types.                                                                  *)

\* The parts of the types.
LoopTyped ==
  /\ pc \in Steps
  /\ repeat \in BOOLEAN /\ woken \in BOOLEAN /\ retry \in BOOLEAN
  /\ early \in BOOLEAN /\ deadline \in BOOLEAN
  /\ losses \in 0 .. MaxLosses
HostsTyped ==
  /\ unresolved \subseteq Initial /\ initialAddr \subseteq Initial
  /\ pending \subseteq Hosts /\ active \subseteq Hosts
  /\ asked \subseteq Hosts /\ connections \subseteq Hosts
  /\ candidates \subseteq Hosts /\ addrs \subseteq Hosts
  /\ resolving \subseteq Hosts
  /\ failed \subseteq Hosts /\ failedNames \subseteq Hosts
  /\ stored \subseteq Hosts /\ others \subseteq Hosts
TasksTyped ==
  /\ chan \in Seq(Message)
  /\ task \in [Hosts -> {"none", "connecting", "failed", "open", "gone"}]
  /\ futures \in [Hosts -> Response \cup {NoFuture, Waiting, Error}]
BookTyped ==
  /\ book \in Books
  /\ outcome \in {None, "ok", "rejected", "deadline"}

\* The types are their parts.
LEMMA Parts ==
  /\ TypeOK <=> LoopTyped /\ HostsTyped /\ TasksTyped /\ BookTyped
  /\ TypeOK' <=> LoopTyped' /\ HostsTyped' /\ TasksTyped' /\ BookTyped'
<1>1. {repeat, woken, retry, early, deadline} \subseteq BOOLEAN
        <=> /\ repeat \in BOOLEAN /\ woken \in BOOLEAN /\ retry \in BOOLEAN
            /\ early \in BOOLEAN /\ deadline \in BOOLEAN
  BY Zenon
<1>2. {repeat', woken', retry', early', deadline'} \subseteq BOOLEAN
        <=> /\ repeat' \in BOOLEAN /\ woken' \in BOOLEAN /\ retry' \in BOOLEAN
            /\ early' \in BOOLEAN /\ deadline' \in BOOLEAN
  BY Zenon
<1>3. TypeOK <=> LoopTyped /\ HostsTyped /\ TasksTyped /\ BookTyped
  BY <1>1 DEF TypeOK, LoopTyped, HostsTyped, TasksTyped, BookTyped
<1>4. TypeOK' <=> LoopTyped' /\ HostsTyped' /\ TasksTyped' /\ BookTyped'
  BY <1>2 DEF TypeOK, LoopTyped, HostsTyped, TasksTyped, BookTyped
<1> QED BY <1>3, <1>4

\* A sample is taken of the set.
LEMMA SampleOf ==
  ASSUME NEW S, NEW n, NEW s \in Samples(S, n)
  PROVE  s \subseteq S
BY DEF Samples

\* The loop variables keep their types in every step.
LEMMA LoopStep ==
  ASSUME TypeOK, Next
  PROVE  LoopTyped'
<1>0. LoopTyped
  BY Parts
<1>1. CASE Poll
  <2>1. ASSUME NEW done, NEW ok, PollStart(done, ok) PROVE LoopTyped'
    BY <1>0, <2>1 DEF PollStart, LoopTyped, Steps, timerVars
  <2>2. CASE ReadMessage
    BY <1>0, <2>2 DEF ReadMessage, LoopTyped, Steps, timerVars
  <2>3. CASE PollConnect
    BY <1>0, <2>3 DEF PollConnect, LoopTyped, Steps
  <2>4. CASE PollPending
    BY <1>0, <2>4 DEF PollPending, LoopTyped, Steps, timerVars
  <2>5. CASE WakeupUploads
    BY <1>0, <2>5 DEF WakeupUploads, LoopTyped, Steps, timerVars
  <2>6. CASE PollUpload
    BY <1>0, <2>6 DEF PollUpload, LoopTyped, Steps, timerVars
  <2> QED BY <1>1, <2>1, <2>2, <2>3, <2>4, <2>5, <2>6 DEF Poll
<1>2. ASSUME NEW h \in Hosts,
             \/ ConnectionMade(h) \/ ConnectFails(h) \/ ConnectionEnds(h)
             \/ \E r \in Responses(h) : Respond(h, r)
             \/ NotifyAborted(h)
             \/ \E host \in Hosts, ours \in BOOLEAN : NotifyReceived(h, host, ours)
      PROVE  LoopTyped'
  <2>1. pc' = pc /\ repeat' = repeat /\ UNCHANGED timerVars /\ woken' = TRUE
    BY <1>2 DEF ConnectionMade, ConnectFails, ConnectionEnds, Respond, NotifyAborted,
       NotifyReceived, Say
  <2>2. losses' = losses \/ Lose
    BY <1>2 DEF ConnectionMade, ConnectFails, ConnectionEnds, Respond, NotifyAborted,
       NotifyReceived
  <2>3. losses' \in 0 .. MaxLosses
    BY <1>0, <2>2 DEF Lose, LoopTyped
  <2> QED BY <1>0, <2>1, <2>3 DEF LoopTyped, timerVars
<1>3. ASSUME NEW still, NEW names, RetryFires(still, names) PROVE LoopTyped'
  BY <1>0, <1>3 DEF RetryFires, LoopTyped
<1>4. CASE EarlyPasses \/ DeadlinePasses
  BY <1>0, <1>4 DEF EarlyPasses, DeadlinePasses, LoopTyped
<1> QED BY <1>1, <1>2, <1>3, <1>4 DEF Next

\* What the answers name are hosts.
LEMMA AnswersTyped ==
  ASSUME TypeOK
  PROVE  /\ Answered \subseteq Hosts
         /\ \A h \in Answered : futures[h] \in Response
         /\ UNION {futures[h].hosts : h \in Answered} \subseteq Hosts
<1>1. Answered \subseteq Hosts
  BY DEF Answered
<1>2. ASSUME NEW h \in Answered PROVE futures[h] \in Response
  <2>1. h \in Hosts /\ futures[h].state = "answered"
    BY <1>2 DEF Answered
  <2>2. futures[h] \in Response \cup {NoFuture, Waiting, Error}
    BY <2>1, Parts DEF TasksTyped
  <2>3. NoFuture.state # "answered" /\ Waiting.state # "answered" /\ Error.state # "answered"
    BY DEF NoFuture, Waiting, Error
  <2> QED BY <2>1, <2>2, <2>3
<1>3. \A r \in Response : r.hosts \subseteq Hosts
  BY DEF Response
<1> QED BY <1>1, <1>2, <1>3

\* So do the sets of hosts.
LEMMA HostsStep ==
  ASSUME TypeOK, Next
  PROVE  HostsTyped'
<1>0. HostsTyped /\ TasksTyped
  BY Parts
<1> USE DEF setVars, addrVars, upVars, history
<1>1. CASE Poll
  <2>1. ASSUME NEW done, NEW ok, PollStart(done, ok) PROVE HostsTyped'
    BY <1>0, <2>1 DEF PollStart, HostsTyped
  <2>2. CASE ReadMessage
    BY <1>0, <2>2 DEF ReadMessage, HostsTyped
  <2>3. CASE PollConnect
    <3>1. pending' \subseteq Hosts /\ resolving' \subseteq Hosts
      <4>1. CASE UNCHANGED <<pending, resolving>>
        BY <1>0, <4>1 DEF HostsTyped
      <4>2. ASSUME NEW known, known \subseteq {h \in candidates \cap addrs : Free(h)},
                   NEW names, names \subseteq (candidates \ addrs) \ (failedNames \cup resolving),
                   NEW first, first \subseteq {h \in initialAddr \ connections : Free(h)},
                   resolving' = resolving \cup names,
                   pending' = pending \cup known \cup first
            PROVE  pending' \subseteq Hosts /\ resolving' \subseteq Hosts
        BY <1>0, <4>2 DEF HostsTyped
      <4> QED BY <2>3, <4>1, <4>2, SampleOf DEF PollConnect
    <3> QED BY <1>0, <2>3, <3>1 DEF PollConnect, HostsTyped
  <2>4. CASE PollPending
    <3>1. /\ pending' \subseteq pending /\ active' \subseteq active \cup pending
          /\ failed' \subseteq failed \cup pending
      BY <2>4 DEF PollPending
    <3>2. PICK done \in SUBSET resolving : \E ok \in SUBSET done :
            /\ resolving' = resolving \ done
            /\ addrs' = addrs \cup ok
            /\ failedNames' = failedNames \cup (done \ ok)
      BY <2>4 DEF PollPending
    <3>3. resolving' \subseteq Hosts /\ addrs' \subseteq Hosts /\ failedNames' \subseteq Hosts
      BY <1>0, <3>2 DEF HostsTyped
    <3> QED BY <1>0, <2>4, <3>1, <3>3 DEF PollPending, HostsTyped
  <2>5. CASE WakeupUploads
    <3>1. connections' \subseteq connections \cup active /\ asked' \subseteq asked \cup active
      BY <2>5 DEF WakeupUploads
    <3> QED BY <1>0, <2>5, <3>1 DEF WakeupUploads, HostsTyped
  <2>6. CASE PollUpload
    <3>1. UNION {futures[h].hosts : h \in Answered} \subseteq Hosts
      BY AnswersTyped
    <3>2. /\ candidates' \subseteq candidates \cup UNION {futures[h].hosts : h \in Answered}
          /\ connections' \subseteq connections
      BY <2>6 DEF PollUpload
    <3> QED BY <1>0, <2>6, <3>1, <3>2 DEF PollUpload, HostsTyped
  <2> QED BY <1>1, <2>1, <2>2, <2>3, <2>4, <2>5, <2>6 DEF Poll
<1>2. ASSUME NEW h \in Hosts,
             \/ ConnectionMade(h) \/ ConnectFails(h) \/ ConnectionEnds(h)
             \/ \E r \in Responses(h) : Respond(h, r)
             \/ NotifyAborted(h)
             \/ \E host \in Hosts, ours \in BOOLEAN : NotifyReceived(h, host, ours)
      PROVE  HostsTyped'
  <2>1. /\ UNCHANGED <<setVars, addrVars, upVars>>
        /\ asked' \subseteq asked /\ stored' \subseteq Hosts /\ others' \subseteq Hosts
    BY <1>0, <1>2 DEF ConnectionMade, ConnectFails, ConnectionEnds, Respond, NotifyAborted,
       NotifyReceived, HostsTyped
  <2> QED BY <1>0, <2>1 DEF HostsTyped
<1>3. ASSUME NEW still, NEW names, RetryFires(still, names) PROVE HostsTyped'
  BY <1>0, <1>3 DEF RetryFires, HostsTyped
<1>4. CASE EarlyPasses \/ DeadlinePasses
  BY <1>0, <1>4 DEF EarlyPasses, DeadlinePasses, HostsTyped
<1> QED BY <1>1, <1>2, <1>3, <1>4 DEF Next

\* Answers and notifications are of their types.
LEMMA Sent ==
  ASSUME NEW h \in Hosts, NEW host \in Hosts
  PROVE  /\ Responses(h) \subseteq Response \cup {NoFuture, Waiting, Error}
         /\ [type |-> "Received", via |-> h, host |-> host] \in Message
         /\ [type |-> "Aborted", via |-> h] \in Message
         /\ [type |-> "Closed", via |-> h] \in Message
<1>1. Responses(h) \subseteq Response \cup {NoFuture, Waiting, Error}
  BY DEF Responses
<1>2. [type |-> "Received", via |-> h, host |-> host] \in Message
  BY DEF Message
<1>3. [type |-> "Aborted", via |-> h] \in Message /\ [type |-> "Closed", via |-> h] \in Message
  BY DEF Message
<1> QED BY <1>1, <1>2, <1>3

\* A channel stays one when a message is sent.
LEMMA SentMore ==
  ASSUME NEW c \in Seq(Message), NEW m \in Message
  PROVE  Append(c, m) \in Seq(Message)
OBVIOUS

\* The tasks, their channel and their futures.
LEMMA TasksStep ==
  ASSUME TypeOK, Next
  PROVE  TasksTyped'
<1>0. TasksTyped
  BY Parts
<1> DEFINE Future == Response \cup {NoFuture, Waiting, Error}
           State == {"none", "connecting", "failed", "open", "gone"}
<1>t. chan \in Seq(Message) /\ task \in [Hosts -> State] /\ futures \in [Hosts -> Future]
  BY <1>0 DEF TasksTyped
<1>f. NoFuture \in Future /\ Waiting \in Future /\ Error \in Future
  OBVIOUS
<1> SUFFICES chan' \in Seq(Message) /\ task' \in [Hosts -> State] /\ futures' \in [Hosts -> Future]
  BY DEF TasksTyped
<1> DEFINE Goal == chan' \in Seq(Message) /\ task' \in [Hosts -> State] /\ futures' \in [Hosts -> Future]
<1> HIDE DEF Future
<1>1. ASSUME Poll PROVE Goal
  <2>1. ASSUME NEW done, NEW ok, PollStart(done, ok) PROVE Goal
    BY <1>t, <2>1 DEF PollStart
  <2>2. ASSUME ReadMessage PROVE Goal
    <3>1. chan # << >> /\ chan' = Tail(chan) /\ UNCHANGED futures
      BY <2>2 DEF ReadMessage
    <3>2. chan' \in Seq(Message)
      BY <1>t, <3>1
    <3>3. task' \in [Hosts -> State]
      BY <1>t, <2>2 DEF ReadMessage
    <3> QED BY <1>t, <3>1, <3>2, <3>3
  <2>3. ASSUME PollConnect PROVE Goal
    <3>1. task' \in [Hosts -> State]
      BY <1>t, <2>3 DEF PollConnect
    <3> QED BY <1>t, <2>3, <3>1 DEF PollConnect
  <2>4. ASSUME PollPending PROVE Goal
    BY <1>t, <2>4 DEF PollPending
  <2>5. ASSUME WakeupUploads PROVE Goal
    BY <1>t, <1>f, <2>5 DEF WakeupUploads
  <2>6. ASSUME PollUpload PROVE Goal
    BY <1>t, <1>f, <2>6 DEF PollUpload
  <2> QED BY <1>1, <2>1, <2>2, <2>3, <2>4, <2>5, <2>6 DEF Poll
<1>2. ASSUME NEW h \in Hosts,
             \/ ConnectionMade(h) \/ ConnectFails(h) \/ ConnectionEnds(h)
             \/ \E r \in Responses(h) : Respond(h, r)
             \/ NotifyAborted(h)
             \/ \E host \in Hosts, ours \in BOOLEAN : NotifyReceived(h, host, ours)
      PROVE  Goal
  <2>1. ASSUME ConnectionMade(h) \/ ConnectFails(h) PROVE Goal
    BY <1>t, <2>1 DEF ConnectionMade, ConnectFails
  <2>2. ASSUME ConnectionEnds(h) PROVE Goal
    <3>1. chan' \in Seq(Message)
      BY <1>t, <2>2, Sent, SentMore DEF ConnectionEnds
    <3> QED BY <1>t, <1>f, <2>2, <3>1 DEF ConnectionEnds
  <2>3. ASSUME NEW r \in Responses(h), Respond(h, r) PROVE Goal
    BY <1>t, <2>3, Sent DEF Respond, Future
  <2>4. ASSUME NotifyAborted(h) PROVE Goal
    BY <1>t, <2>4, Sent, SentMore DEF NotifyAborted, Say
  <2>5. ASSUME NEW host \in Hosts, NEW ours \in BOOLEAN,
              NotifyReceived(h, host, ours) PROVE Goal
    BY <1>t, <2>5, Sent, SentMore DEF NotifyReceived, Say
  <2> QED BY <1>2, <2>1, <2>2, <2>3, <2>4, <2>5
<1>3. ASSUME NEW still, NEW names, RetryFires(still, names) PROVE Goal
  BY <1>t, <1>3 DEF RetryFires
<1>4. ASSUME EarlyPasses \/ DeadlinePasses PROVE Goal
  BY <1>t, <1>4 DEF EarlyPasses, DeadlinePasses
<1> QED BY <1>1, <1>2, <1>3, <1>4 DEF Next

\* A notification is entered in the books.
LEMMA ReceivedTyped ==
  ASSUME NEW b \in Books, NEW msg, msg.via \in Hosts, msg.host \in Hosts
  PROVE  ReceivedImage(b, msg) \in Books
<1>1. [b EXCEPT !.done_ips = IF msg.via = msg.host THEN @ \cup {msg.via} ELSE @] \in Books
  BY DEF Books
<1> QED BY <1>1 DEF Books, ReceivedImage

\* The answers are entered in the books.
LEMMA AddResponsesTyped ==
  ASSUME TypeOK
  PROVE  AddResponses \in Books
<1> DEFINE yes == {h \in Answered : Accepts(h)}
           no == Answered \ yes
           why(reasons) == {h \in no : futures[h].reason \in reasons}
           H == UNION {futures[h].hosts : h \in Answered}
           done == {h \in yes : ~futures[h].accepted}
           W1 == why({"no_config"})
           W2 == why(Reasons \ {"no_config"})
<1>1. yes \subseteq Hosts /\ done \subseteq Hosts /\ W1 \subseteq Hosts /\ W2 \subseteq Hosts
      /\ H \subseteq Hosts
  BY AnswersTyped
<1>2. book \in Books
  BY Parts DEF BookTyped
<1>3. AddResponses = [book EXCEPT !.accepted_ips = @ \cup yes, !.done_ips = @ \cup done,
        !.no_config = @ \cup W1, !.rejected = @ \cup W2, !.discovered = @ \cup H]
  BY DEF AddResponses
<1> HIDE DEF yes, done, W1, W2, H
<1> QED BY <1>1, <1>2, <1>3 DEF Books

\* What check may say.
LEMMA CheckTyped ==
  ASSUME NEW b, NEW cands
  PROVE  Check(b, cands) \in {None, "ok", "rejected", "deadline"}
BY DEF Check

\* The bookkeeping of the upload stays well typed: answers, notifications and
\* timeouts only add hosts to it.
LEMMA BookStep ==
  ASSUME TypeOK, Next
  PROVE  BookTyped'
<1>0. BookTyped /\ TasksTyped
  BY Parts
<1>1. CASE Poll
  <2>1. ASSUME NEW done, NEW ok, PollStart(done, ok) PROVE BookTyped'
    BY <1>0, <2>1 DEF PollStart, BookTyped, upVars
  <2>2. CASE ReadMessage
    <3> DEFINE msg == Head(chan)
    <3>1. msg \in Message
      BY <1>0, <2>2 DEF ReadMessage, TasksTyped
    <3>2. msg.type = "Received" => msg.via \in Hosts /\ msg.host \in Hosts
      BY <3>1 DEF Message
    <3>3. msg.type = "Received" => ReceivedImage(book, msg) \in Books
      <4> HIDE DEF msg
      <4> QED BY <1>0, <3>2, ReceivedTyped DEF BookTyped
    <3>4. msg.type = "Aborted" => [book EXCEPT !.aborted = @ \cup {msg.via}] \in Books
      <4>1. msg.type = "Aborted" => msg.via \in Hosts
        BY <3>1 DEF Message
      <4> HIDE DEF msg
      <4> QED BY <1>0, <4>1 DEF BookTyped, Books
    <3> QED BY <1>0, <2>2, <3>3, <3>4 DEF ReadMessage, BookTyped
  <2>3. CASE PollConnect
    BY <1>0, <2>3 DEF PollConnect, BookTyped, upVars
  <2>4. CASE PollPending
    BY <1>0, <2>4 DEF PollPending, BookTyped, upVars
  <2>5. CASE WakeupUploads
    BY <1>0, <2>5 DEF WakeupUploads, BookTyped
  <2>6. CASE PollUpload
    <3>1. outcome' \in {None, "ok", "rejected", "deadline"}
      BY <1>0, <2>6, CheckTyped DEF PollUpload, BookTyped
    <3>2. book' \in Books
      BY <1>0, <2>6, AddResponsesTyped DEF PollUpload, BookTyped
    <3> QED BY <3>1, <3>2 DEF BookTyped
  <2> QED BY <1>1, <2>1, <2>2, <2>3, <2>4, <2>5, <2>6 DEF Poll
<1>2. CASE UNCHANGED upVars
  BY <1>0, <1>2 DEF BookTyped, upVars
<1> QED BY <1>1, <1>2 DEF Next, ConnectionMade, ConnectFails, ConnectionEnds, Respond,
       NotifyAborted, NotifyReceived, RetryFires, EarlyPasses, DeadlinePasses

\* The types, from the start and in every step.
LEMMA Typing ==
  /\ Init => TypeOK
  /\ TypeOK /\ [Next]_vars => TypeOK'
<1>1. ASSUME Init PROVE TypeOK
  <2>1. LoopTyped
    <3>1. losses \in 0 .. MaxLosses
      BY <1>1 DEF Init
    <3> QED BY <1>1, <3>1 DEF Init, LoopTyped, Steps
  <2>4. HostsTyped
    BY <1>1 DEF Init, HostsTyped
  <2>2. TasksTyped
    BY <1>1 DEF Init, TasksTyped
  <2>3. BookTyped
    BY <1>1 DEF Init, BookTyped, Books, EmptyBook
  <2> QED BY <2>1, <2>2, <2>3, <2>4, Parts
<1>2. ASSUME TypeOK, Next PROVE TypeOK'
  BY <1>2, LoopStep, HostsStep, TasksStep, BookStep, Parts
<1>3. ASSUME TypeOK, UNCHANGED vars PROVE TypeOK'
  BY <1>3, Zenon DEF vars, setVars, addrVars, upVars, timerVars, history, TypeOK
<1> QED BY <1>1, <1>2, <1>3

-----------------------------------------------------------------------------
(* The tables of connections.                                              *)

\* ConnectionsCounted beside the types: the tables, and the unread ends.
Tables ==
  /\ pending \cap active = {}
  /\ connections \subseteq active
  /\ \A h \in Hosts : task[h] # "none" => h \in pending \cup active
Ends ==
  \A h \in Hosts :
    /\ task[h] = "gone" <=> \E i \in DOMAIN chan : ClosedAt(i, h)
    /\ \A i, j \in DOMAIN chan : ClosedAt(i, h) /\ ClosedAt(j, h) => i = j

\* The property is these.
LEMMA CountedParts ==
  /\ ConnectionsCounted <=> TypeOK /\ (~Panicked => Tables /\ Ends)
  /\ ConnectionsCounted' <=> TypeOK' /\ (~Panicked' => Tables' /\ Ends')
<1>1. ConnectionsCounted <=> TypeOK /\ (~Panicked => Tables /\ Ends)
  BY Zenon DEF ConnectionsCounted, Tables, Ends
<1>2. ConnectionsCounted' <=> TypeOK' /\ (~Panicked' => Tables' /\ Ends')
  BY Zenon DEF ConnectionsCounted, Tables, Ends
<1> QED BY <1>1, <1>2

\* What is in the channel after a message was sent, and after one was read.
LEMMA SentAt ==
  ASSUME NEW c \in Seq(Message), NEW m \in Message
  PROVE  /\ DOMAIN c = 1 .. Len(c) /\ Len(c) \in Nat
         /\ DOMAIN Append(c, m) = 1 .. Len(c) + 1
         /\ Append(c, m)[Len(c) + 1] = m
         /\ \A i \in 1 .. Len(c) : Append(c, m)[i] = c[i]
OBVIOUS

\* Reading a message takes the first one; the others move up by one.
LEMMA ReadAt ==
  ASSUME NEW c \in Seq(Message), c # << >>
  PROVE  /\ DOMAIN c = 1 .. Len(c) /\ Len(c) \in Nat \ {0}
         /\ Head(c) = c[1] /\ Head(c) \in Message
         /\ DOMAIN Tail(c) = 1 .. Len(c) - 1
         /\ \A i \in 1 .. Len(c) - 1 : Tail(c)[i] = c[i + 1]
OBVIOUS

\* The ends are the same as long as nobody ends and none is sent or read.
LEMMA EndsKept ==
  ASSUME Ends, UNCHANGED chan, \A h \in Hosts : task'[h] = "gone" <=> task[h] = "gone"
  PROVE  Ends'
BY DEF Ends, ClosedAt

\* Another notification is no end.
LEMMA EndsSaid ==
  ASSUME Ends, NEW m \in Message, m.type # "Closed", chan \in Seq(Message),
         chan' = Append(chan, m), UNCHANGED task
  PROVE  Ends'
<1> SUFFICES ASSUME NEW h \in Hosts
             PROVE  /\ task'[h] = "gone" <=> \E i \in DOMAIN chan' : ClosedAt(i, h)'
                    /\ \A i, j \in DOMAIN chan' : ClosedAt(i, h)' /\ ClosedAt(j, h)' => i = j
  BY DEF Ends
<1>1. \A i \in DOMAIN chan' : ClosedAt(i, h)' => i \in DOMAIN chan /\ ClosedAt(i, h)
  BY SentAt DEF ClosedAt
<1>2. \A i \in DOMAIN chan : i \in DOMAIN chan' /\ (ClosedAt(i, h) => ClosedAt(i, h)')
  BY SentAt DEF ClosedAt
<1> QED BY <1>1, <1>2 DEF Ends

\* The end of a connection is told once.
LEMMA EndsEnded ==
  ASSUME Ends, NEW k \in Hosts, task[k] # "gone", chan \in Seq(Message),
         task' = [task EXCEPT ![k] = "gone"], DOMAIN task = Hosts,
         chan' = Append(chan, [type |-> "Closed", via |-> k])
  PROVE  Ends'
<1> DEFINE m == [type |-> "Closed", via |-> k]
<1>0. m \in Message /\ m.type = "Closed" /\ m.via = k
  BY DEF Message
<1>s. chan' = Append(chan, m)
  OBVIOUS
<1> HIDE DEF m
<1> SUFFICES ASSUME NEW h \in Hosts
             PROVE  /\ task'[h] = "gone" <=> \E i \in DOMAIN chan' : ClosedAt(i, h)'
                    /\ \A i, j \in DOMAIN chan' : ClosedAt(i, h)' /\ ClosedAt(j, h)' => i = j
  BY DEF Ends
<1>e. PICK e : e = Len(chan) + 1
  OBVIOUS
<1>1. \A i \in DOMAIN chan' :
        ClosedAt(i, h)' => \/ i \in DOMAIN chan /\ ClosedAt(i, h)
                           \/ i = e /\ h = k
  BY <1>0, <1>s, <1>e, SentAt DEF ClosedAt
<1>2. \A i \in DOMAIN chan : i \in DOMAIN chan' /\ (ClosedAt(i, h) => ClosedAt(i, h)')
  BY <1>0, <1>s, SentAt DEF ClosedAt
<1>3. e \in DOMAIN chan' /\ ClosedAt(e, k)'
  BY <1>0, <1>s, <1>e, SentAt DEF ClosedAt
<1>4. CASE h = k
  <2>1. \A i \in DOMAIN chan : ~ClosedAt(i, k)
    BY DEF Ends
  <2>2. task'[h] = "gone"
    BY <1>4
  <2> QED BY <1>1, <1>3, <1>4, <2>1, <2>2
<1>5. CASE h # k
  <2>1. task'[h] = task[h]
    BY <1>5
  <2> QED BY <1>1, <1>2, <1>5, <2>1 DEF Ends
<1> QED BY <1>4, <1>5

\* A notification is read.
LEMMA EndsRead ==
  ASSUME Ends, chan \in Seq(Message), chan # << >>, chan' = Tail(chan), DOMAIN task = Hosts,
         \/ Head(chan).type # "Closed" /\ UNCHANGED task
         \/ Head(chan).type = "Closed" /\ task' = [task EXCEPT ![Head(chan).via] = "none"]
  PROVE  Ends'
<1> DEFINE m == Head(chan)
<1>0. m = chan[1] /\ 1 \in DOMAIN chan
  BY ReadAt
<1>1. DOMAIN chan' = 1 .. Len(chan) - 1 /\ DOMAIN chan = 1 .. Len(chan) /\ Len(chan) \in Nat
  BY ReadAt
<1> SUFFICES ASSUME NEW h \in Hosts
             PROVE  /\ task'[h] = "gone" <=> \E i \in DOMAIN chan' : ClosedAt(i, h)'
                    /\ \A i, j \in DOMAIN chan' : ClosedAt(i, h)' /\ ClosedAt(j, h)' => i = j
  BY DEF Ends
<1>2. \A i \in DOMAIN chan' : i + 1 \in DOMAIN chan /\ (ClosedAt(i, h)' <=> ClosedAt(i + 1, h))
  BY <1>1, ReadAt DEF ClosedAt
<1>3. \A i, j \in DOMAIN chan' : ClosedAt(i, h)' /\ ClosedAt(j, h)' => i = j
  <2> TAKE i, j \in DOMAIN chan'
  <2> HAVE ClosedAt(i, h)' /\ ClosedAt(j, h)'
  <2>1. i + 1 = j + 1
    BY <1>2 DEF Ends
  <2> QED BY <1>1, <2>1
<1>4. CASE m.type = "Closed" /\ m.via = h
  <2>1. ClosedAt(1, h)
    BY <1>0, <1>4 DEF ClosedAt
  <2>2. \A i \in DOMAIN chan' : ~ClosedAt(i, h)'
    <3> TAKE i \in DOMAIN chan'
    <3>1. i + 1 # 1
      BY <1>1
    <3> QED BY <1>0, <1>2, <2>1, <3>1 DEF Ends
  <2>3. task'[h] = "none"
    BY <1>4
  <2> QED BY <1>3, <2>2, <2>3
<1>5. CASE ~(m.type = "Closed" /\ m.via = h)
  <2>1. task'[h] = task[h]
    BY <1>5
  <2>2. ~ClosedAt(1, h)
    BY <1>0, <1>5 DEF ClosedAt
  <2>3. ASSUME NEW i \in DOMAIN chan, ClosedAt(i, h)
        PROVE  i - 1 \in DOMAIN chan' /\ ClosedAt(i - 1, h)'
    <3>1. i # 1
      BY <2>2, <2>3
    <3>2. i - 1 \in DOMAIN chan' /\ (i - 1) + 1 = i
      BY <1>1, <3>1
    <3> QED BY <1>2, <2>3, <3>2
  <2> QED BY <1>2, <1>3, <2>1, <2>3 DEF Ends
<1> QED BY <1>4, <1>5

\* A host that may be connected to has no connection, nor an unread end.
LEMMA FreeHasNone ==
  ASSUME Tables, NEW h \in Hosts, Free(h)
  PROVE  task[h] = "none"
BY DEF Tables, Free

\* Every step keeps the tables and the ends, unless the client panics.
LEMMA CountedStep ==
  ASSUME ConnectionsCounted, Next, ~Panicked'
  PROVE  Tables' /\ Ends'
<1>0. /\ TypeOK /\ LoopTyped /\ HostsTyped /\ TasksTyped
      /\ (~Panicked => Tables /\ Ends)
  BY CountedParts, Parts
<1>n. ~Panicked
  BY DEF Next, Poll, PollStart, ReadMessage, PollConnect, PollPending, WakeupUploads, PollUpload,
     ConnectionMade, ConnectFails, ConnectionEnds, Respond, NotifyAborted, NotifyReceived,
     RetryFires, EarlyPasses, DeadlinePasses, Between, Panicked
<1>i. Tables /\ Ends /\ DOMAIN task = Hosts /\ chan \in Seq(Message)
  BY <1>0, <1>n DEF TasksTyped
<1> DEFINE Goal == Tables' /\ Ends'
<1>s. ASSUME UNCHANGED <<pending, active, connections, task, chan>> PROVE Goal
  BY <1>i, <1>s, EndsKept DEF Tables
<1>1. ASSUME NEW done, NEW ok, PollStart(done, ok) PROVE Goal
  BY <1>s, <1>1 DEF PollStart, setVars, upVars
<1>2. ASSUME ReadMessage PROVE Goal
  <2>1. Ends'
    BY <1>i, <1>2, EndsRead DEF ReadMessage
  <2>2. Tables'
    <3>1. CASE UNCHANGED <<active, task, connections>>
      BY <1>i, <1>2, <3>1 DEF ReadMessage, Tables
    <3>2. CASE /\ connections' = connections \ {Head(chan).via}
               /\ active' = active \ {Head(chan).via}
               /\ task' = [task EXCEPT ![Head(chan).via] = "none"]
      BY <1>i, <1>2, <3>2 DEF ReadMessage, Tables
    <3> QED BY <1>2, <3>1, <3>2 DEF ReadMessage
  <2> QED BY <2>1, <2>2
<1>3. ASSUME PollConnect PROVE Goal
  <2>1. UNCHANGED <<active, connections, chan>>
    BY <1>3 DEF PollConnect, upVars
  <2>2. CASE UNCHANGED <<pending, task>>
    BY <1>s, <2>1, <2>2
  <2>3. ASSUME NEW K, K \subseteq {h \in Hosts : Free(h)},
               pending' = pending \cup K,
               task' = [h \in Hosts |-> IF h \in K THEN "connecting" ELSE task[h]]
        PROVE  Goal
    <3>1. \A h \in K : h \in Hosts /\ task[h] = "none" /\ h \notin active
      BY <1>i, <2>3, FreeHasNone DEF Free
    <3>2. \A h \in Hosts : task'[h] = "gone" <=> task[h] = "gone"
      BY <2>3, <3>1
    <3>3. Ends'
      BY <1>i, <2>1, <3>2, EndsKept
    <3>4. Tables'
      BY <1>i, <2>1, <2>3, <3>1 DEF Tables
    <3> QED BY <3>3, <3>4
  <2>4. CASE ~UNCHANGED <<pending, task>>
    <3>1. PICK known \in Samples({h \in candidates \cap addrs : Free(h)}, InitialConnections) :
            LET left == InitialConnections - Cardinality(known) IN
            \E names \in Samples((candidates \ addrs) \ (failedNames \cup resolving), left),
               first \in Samples({h \in initialAddr \ connections : Free(h)}, left) :
              /\ pending' = pending \cup known \cup first
              /\ task' = [h \in Hosts |->
                            IF h \in known \cup first THEN "connecting" ELSE task[h]]
      BY <1>3, <2>4, Zenon DEF PollConnect
    <3> DEFINE n == InitialConnections - Cardinality(known)
    <3>2. PICK first \in Samples({h \in initialAddr \ connections : Free(h)}, n) :
            /\ pending' = pending \cup known \cup first
            /\ task' = [h \in Hosts |->
                          IF h \in known \cup first THEN "connecting" ELSE task[h]]
      BY <3>1
    <3> DEFINE K == known \cup first
    <3>3. /\ known \subseteq {h \in candidates \cap addrs : Free(h)}
          /\ first \subseteq {h \in initialAddr \ connections : Free(h)}
      BY SampleOf
    <3>4. K \subseteq {h \in Hosts : Free(h)}
      BY <1>0, <3>3 DEF HostsTyped
    <3>5. /\ pending' = pending \cup K
          /\ task' = [h \in Hosts |-> IF h \in K THEN "connecting" ELSE task[h]]
      BY <3>2
    <3> HIDE DEF K
    <3> QED BY <2>3, <3>4, <3>5
  <2> QED BY <2>2, <2>4
<1>4. ASSUME PollPending PROVE Goal
  <2>1. /\ pending' = {h \in pending : task[h] = "connecting"}
        /\ active' = active \cup {h \in pending : task[h] \in {"open", "gone"}}
        /\ task' = [h \in Hosts |-> IF task[h] = "failed" THEN "none" ELSE task[h]]
        /\ UNCHANGED <<chan, connections>>
    BY <1>4 DEF PollPending, upVars
  <2>2. Ends'
    BY <1>i, <2>1, EndsKept
  <2>3. Tables'
    BY <1>0, <1>i, <2>1 DEF Tables, TasksTyped
  <2> QED BY <2>2, <2>3
<1>5. ASSUME WakeupUploads PROVE Goal
  <2>1. /\ connections' \subseteq connections \cup active
        /\ UNCHANGED <<pending, active, task, chan>>
    BY <1>5 DEF WakeupUploads, setVars
  <2> QED BY <1>i, <2>1, EndsKept DEF Tables
<1>6. ASSUME PollUpload PROVE Goal
  <2>1. connections' \subseteq connections /\ UNCHANGED <<pending, active, task, chan>>
    BY <1>6 DEF PollUpload, setVars
  <2> QED BY <1>i, <2>1, EndsKept DEF Tables
<1>7. ASSUME NEW h \in Hosts, ConnectionMade(h) \/ ConnectFails(h) PROVE Goal
  <2>1. /\ task[h] = "connecting" /\ UNCHANGED <<pending, active, connections, chan>>
        /\ task' \in {[task EXCEPT ![h] = "open"], [task EXCEPT ![h] = "failed"]}
    BY <1>7 DEF ConnectionMade, ConnectFails, setVars, upVars
  <2>2. \A k \in Hosts : task'[k] = "gone" <=> task[k] = "gone"
    BY <1>i, <2>1
  <2>3. Tables'
    BY <1>i, <2>1 DEF Tables
  <2> QED BY <1>i, <2>1, <2>2, <2>3, EndsKept
<1>8. ASSUME NEW h \in Hosts, ConnectionEnds(h) PROVE Goal
  <2>1. /\ task[h] = "open" /\ UNCHANGED <<pending, active, connections>>
        /\ task' = [task EXCEPT ![h] = "gone"]
        /\ chan' = Append(chan, [type |-> "Closed", via |-> h])
    BY <1>8 DEF ConnectionEnds, setVars, upVars
  <2>2. Ends'
    BY <1>i, <2>1, EndsEnded
  <2> QED BY <1>i, <2>1, <2>2 DEF Tables
<1>9. ASSUME NEW h \in Hosts, NEW r, Respond(h, r) PROVE Goal
  BY <1>s, <1>9 DEF Respond, setVars, upVars
<1>10. ASSUME NEW h \in Hosts, NotifyAborted(h) PROVE Goal
  <2> DEFINE m == [type |-> "Aborted", via |-> h]
  <2>1. chan' = Append(chan, m) /\ UNCHANGED <<pending, active, connections, task>>
    BY <1>10 DEF NotifyAborted, Say, setVars, upVars
  <2>2. m \in Message /\ m.type # "Closed"
    BY Sent
  <2> HIDE DEF m
  <2> QED BY <1>i, <2>1, <2>2, EndsSaid DEF Tables
<1>11. ASSUME NEW h \in Hosts, NEW host \in Hosts, NEW ours \in BOOLEAN,
              NotifyReceived(h, host, ours) PROVE Goal
  <2> DEFINE m == [type |-> "Received", via |-> h, host |-> host]
  <2>1. chan' = Append(chan, m) /\ UNCHANGED <<pending, active, connections, task>>
    BY <1>11 DEF NotifyReceived, Say, setVars, upVars
  <2>2. m \in Message /\ m.type # "Closed"
    BY Sent
  <2> HIDE DEF m
  <2> QED BY <1>i, <2>1, <2>2, EndsSaid DEF Tables
<1>12. ASSUME NEW still, NEW names, RetryFires(still, names) PROVE Goal
  BY <1>s, <1>12 DEF RetryFires, upVars
<1>13. ASSUME EarlyPasses \/ DeadlinePasses PROVE Goal
  BY <1>s, <1>13 DEF EarlyPasses, DeadlinePasses, setVars, upVars
<1> QED BY <1>1, <1>2, <1>3, <1>4, <1>5, <1>6, <1>7, <1>8, <1>9, <1>10, <1>11, <1>12, <1>13
        DEF Next, Poll

\* Whatever connections are made, fail or end, between any two polls: the
\* client has at most one connection to a host, in exactly one table, and one
\* unread end for each that is gone.
THEOREM CountedSafe == Spec => []ConnectionsCounted
<1>1. Init => ConnectionsCounted
  <2> SUFFICES ASSUME Init PROVE ConnectionsCounted
    OBVIOUS
  <2>1. TypeOK
    BY Typing
  <2>2. Tables
    BY DEF Init, Tables
  <2>3. Ends
    BY DEF Init, Ends
  <2> QED BY <2>1, <2>2, <2>3, CountedParts
<1>2. ConnectionsCounted /\ [Next]_vars => ConnectionsCounted'
  <2>1. ASSUME ConnectionsCounted, Next PROVE ConnectionsCounted'
    BY <2>1, CountedStep, CountedParts, Typing
  <2>2. ASSUME ConnectionsCounted, UNCHANGED vars PROVE ConnectionsCounted'
    <3>1. TypeOK' /\ Panicked' = Panicked
      BY <2>2, Typing, CountedParts DEF vars, Panicked
    <3>2. ~Panicked => Tables' /\ Ends'
      BY <2>2, CountedParts, EndsKept DEF vars, setVars, upVars, Tables
    <3> QED BY <3>1, <3>2, CountedParts
  <2> QED BY <2>1, <2>2
<1> QED BY <1>1, <1>2, PTL DEF Spec

-----------------------------------------------------------------------------
(* What success means.                                                     *)

\* The hosts that were announced to have the image, or taken for that.
Told == stored \cup others

\* What is under way and what is in the books was announced; only weak errors
\* count a host by its answer.
Honest ==
  /\ \A i \in DOMAIN chan : chan[i].type = "Received" => chan[i].host \in Told
  /\ book.done_servers \subseteq Told
  /\ ~Weak => book.done_ips \subseteq Told

SoundInv == TypeOK /\ Honest /\ OkIsSound

USE DEF Told, history

\* A notification that is entered adds its host.
LEMMA ReceivedBook ==
  ASSUME NEW b \in Books, NEW msg
  PROVE  /\ ReceivedImage(b, msg).done_servers = b.done_servers \cup {msg.host}
         /\ ReceivedImage(b, msg).done_ips \subseteq b.done_ips \cup {msg.host}
BY DEF Books, ReceivedImage

\* Answers add no server, and without weak errors nothing to what is done.
LEMMA AnswersBook ==
  ASSUME TypeOK
  PROVE  /\ AddResponses.done_servers = book.done_servers
         /\ ~Weak => AddResponses.done_ips = book.done_ips
<1>1. book \in Books
  BY Parts DEF BookTyped
<1>2. AddResponses.done_servers = book.done_servers
  BY <1>1 DEF AddResponses, Books
<1>3. AddResponses.done_ips =
        book.done_ips \cup {h \in {k \in Answered : Accepts(k)} : ~futures[h].accepted}
  BY <1>1 DEF AddResponses, Books
<1>4. ~Weak => {h \in {k \in Answered : Accepts(k)} : ~futures[h].accepted} = {}
  BY DEF Accepts
<1> QED BY <1>2, <1>3, <1>4

\* Enough hosts are at least one.
LEMMA EnoughIsSome ==
  ASSUME NEW b \in Books, EarlyEnough(b) > 0, Cardinality(b.done_servers) >= EarlyEnough(b)
  PROVE  b.done_servers # {}
<1>1. b.discovered \subseteq Hosts /\ b.accepted_ips \subseteq Hosts
  BY DEF Books
<1>2. Cardinality(b.discovered) \in Nat
  BY <1>1, FS_Subset, FS_CardinalityType
<1>3. DiscoveredNum(b) \in Nat
  BY <1>2 DEF DiscoveredNum
<1>4. (DiscoveredNum(b) * EarlyNum + EarlyDen - 1) \div EarlyDen \in Int
  <2>1. DiscoveredNum(b) * EarlyNum + EarlyDen - 1 \in Int
    BY <1>3
  <2> QED BY <2>1
<1>5. EarlyEnough(b) \in Int
  BY <1>3, <1>4 DEF EarlyEnough, Min2, Max2
<1>6. Cardinality({}) = 0
  BY FS_EmptySet
<1> QED BY <1>5, <1>6

\* What makes check report success.
LEMMA CheckOk ==
  ASSUME NEW b \in Books, NEW cands, Check(b, cands) = "ok"
  PROVE  /\ b.rejected = {} /\ b.done_servers # {}
         /\ ~early => /\ b.accepted_ips \subseteq b.done_ips
                      /\ b.discovered \subseteq b.done_servers
BY EnoughIsSome DEF Check

\* The poll that ends the upload.
LEMMA PollUploadSound ==
  ASSUME SoundInv, PollUpload
  PROVE  Honest' /\ OkIsSound'
<1>1. TypeOK /\ Honest /\ UNCHANGED <<chan, history, early>>
  BY DEF SoundInv, PollUpload, timerVars
<1>2. CASE Uploading
  <2> DEFINE b == AddResponses
  <2>1. b \in Books /\ b.done_servers = book.done_servers /\ (~Weak => b.done_ips = book.done_ips)
    BY <1>1, AddResponsesTyped, AnswersBook
  <2>2. book' = b
    BY <1>2 DEF PollUpload
  <2>3. Honest'
    BY <1>1, <2>1, <2>2 DEF Honest
  <2>4. ASSUME outcome' = "ok"
        PROVE  \E cands : Check(b, cands) = "ok"
    BY <1>2, <2>4 DEF PollUpload
  <2>5. OkIsSound'
    <3> SUFFICES ASSUME outcome' = "ok"
                 PROVE  /\ b.done_servers # {} /\ b.done_servers \subseteq Told
                        /\ b.rejected = {}
                        /\ ~early => b.discovered \cup (IF Weak THEN {} ELSE b.accepted_ips)
                                       \subseteq Told
      BY <1>1, <2>2 DEF OkIsSound
    <3>1. /\ b.rejected = {} /\ b.done_servers # {}
          /\ ~early => /\ b.accepted_ips \subseteq b.done_ips
                       /\ b.discovered \subseteq b.done_servers
      <4> HIDE DEF b
      <4> QED BY <2>1, <2>4, CheckOk
    <3> HIDE DEF b
    <3> QED BY <1>1, <2>1, <3>1 DEF Honest
  <2> QED BY <2>3, <2>5
<1>3. CASE ~Uploading
  BY <1>1, <1>3 DEF PollUpload, SoundInv, Honest, OkIsSound
<1> QED BY <1>2, <1>3

\* No step makes the bookkeeping claim what is not so, nor the outcome: it is
\* set by the checks at the end of a poll, from what the bookkeeping has by then.
LEMMA SoundStep ==
  ASSUME SoundInv, Next
  PROVE  Honest' /\ OkIsSound'
<1> DEFINE Goal == Honest' /\ OkIsSound'
<1>0. TypeOK /\ Honest /\ OkIsSound /\ chan \in Seq(Message) /\ book \in Books
  BY Parts DEF SoundInv, TasksTyped, BookTyped
<1>s. ASSUME UNCHANGED <<chan, book, outcome, early, history>> PROVE Goal
  BY <1>0, <1>s DEF Honest, OkIsSound
\* While the upload lasts there is nothing to show about its outcome.
<1>u. ASSUME outcome = None, UNCHANGED outcome PROVE OkIsSound'
  BY <1>u DEF OkIsSound
<1>1. ASSUME NEW done, NEW ok, PollStart(done, ok) PROVE Goal
  BY <1>s, <1>1 DEF PollStart, upVars, timerVars
<1>2. ASSUME ReadMessage PROVE Goal
  <2> DEFINE m == Head(chan)
  <2>0. chan # << >> /\ chan' = Tail(chan) /\ UNCHANGED <<outcome, early, history>>
    BY <1>2 DEF ReadMessage, timerVars
  <2>1. m = chan[1] /\ 1 \in DOMAIN chan
    BY <1>0, <2>0, ReadAt
  <2>2. \A i \in DOMAIN chan' : i + 1 \in DOMAIN chan /\ chan'[i] = chan[i + 1]
    BY <1>0, <2>0, ReadAt
  <2>3. \A i \in DOMAIN chan' : chan'[i].type = "Received" => chan'[i].host \in Told'
    BY <1>0, <2>0, <2>2 DEF Honest
  <2>4. CASE Uploading
    <3>1. CASE m.type = "Received"
      <4>1. book' = ReceivedImage(book, m) /\ m.host \in Told
        BY <1>0, <1>2, <2>1, <2>4, <3>1 DEF ReadMessage, Honest
      <4> HIDE DEF m
      <4> QED BY <1>0, <1>u, <2>0, <2>3, <2>4, <4>1, ReceivedBook DEF Honest, Uploading
    <3>2. CASE m.type # "Received"
      <4>1. book' = book \/ book' = [book EXCEPT !.aborted = @ \cup {m.via}]
        BY <1>2, <3>2 DEF ReadMessage
      <4>2. book'.done_servers = book.done_servers /\ book'.done_ips = book.done_ips
        BY <1>0, <4>1 DEF Books
      <4> QED BY <1>0, <1>u, <2>0, <2>3, <2>4, <4>2 DEF Honest, Uploading
    <3> QED BY <3>1, <3>2
  <2>5. CASE ~Uploading
    <3>1. book' = book
      BY <1>2, <2>5 DEF ReadMessage
    <3> QED BY <1>0, <2>0, <2>3, <3>1 DEF Honest, OkIsSound
  <2> QED BY <2>4, <2>5
<1>3. ASSUME PollConnect PROVE Goal
  BY <1>s, <1>3 DEF PollConnect, upVars
<1>4. ASSUME PollPending PROVE Goal
  BY <1>s, <1>4 DEF PollPending, upVars, timerVars
<1>5. ASSUME WakeupUploads PROVE Goal
  BY <1>s, <1>5 DEF WakeupUploads, timerVars
<1>6. ASSUME PollUpload PROVE Goal
  BY <1>6, PollUploadSound
<1>7. ASSUME NEW h \in Hosts, ConnectionMade(h) \/ ConnectFails(h) PROVE Goal
  BY <1>s, <1>7 DEF ConnectionMade, ConnectFails, upVars, timerVars
<1>8. ASSUME NEW h \in Hosts, NEW r, Respond(h, r) PROVE Goal
  BY <1>s, <1>8 DEF Respond, upVars, timerVars
<1>m. ASSUME NEW m \in Message, Between, chan' = Append(chan, m), UNCHANGED upVars,
             Told \subseteq Told', m.type = "Received" => m.host \in Told'
      PROVE  Goal
  <2>1. \A i \in DOMAIN chan' : chan'[i] = m \/ (i \in DOMAIN chan /\ chan'[i] = chan[i])
    BY <1>0, <1>m, SentAt
  <2>2. \A i \in DOMAIN chan' : chan'[i].type = "Received" => chan'[i].host \in Told'
    BY <1>0, <1>m, <2>1 DEF Honest
  <2> QED BY <1>0, <1>m, <1>u, <2>2 DEF Honest, Between, Uploading, upVars
<1>9. ASSUME NEW h \in Hosts, ConnectionEnds(h) PROVE Goal
  <2> DEFINE m == [type |-> "Closed", via |-> h]
  <2>1. /\ chan' = Append(chan, m) /\ UNCHANGED <<upVars, history>> /\ Between
        /\ m \in Message /\ m.type # "Received"
    BY <1>9, Sent DEF ConnectionEnds
  <2> HIDE DEF m
  <2> QED BY <1>m, <2>1
<1>10. ASSUME NEW h \in Hosts, NotifyAborted(h) PROVE Goal
  <2> DEFINE m == [type |-> "Aborted", via |-> h]
  <2>1. /\ chan' = Append(chan, m) /\ UNCHANGED <<upVars, history>> /\ Between
        /\ m \in Message /\ m.type # "Received"
    BY <1>10, Sent DEF NotifyAborted, Say
  <2> HIDE DEF m
  <2> QED BY <1>m, <2>1
<1>11. ASSUME NEW h \in Hosts, NEW host \in Hosts, NEW ours \in BOOLEAN,
              NotifyReceived(h, host, ours) PROVE Goal
  <2> DEFINE m == [type |-> "Received", via |-> h, host |-> host]
  <2>1. /\ chan' = Append(chan, m) /\ UNCHANGED upVars /\ Told' = Told \cup {host}
        /\ Between /\ m \in Message /\ m.host = host
    BY <1>11, Sent DEF NotifyReceived, Say
  <2> HIDE DEF m
  <2> QED BY <1>m, <2>1
<1>12. ASSUME NEW still, NEW names, RetryFires(still, names) PROVE Goal
  BY <1>s, <1>12 DEF RetryFires, upVars
<1>13. ASSUME EarlyPasses \/ DeadlinePasses PROVE Goal
  <2>1. outcome = None /\ UNCHANGED <<chan, book, outcome, history>>
    BY <1>13 DEF EarlyPasses, DeadlinePasses, Between, Uploading, upVars
  <2> QED BY <1>0, <1>u, <2>1 DEF Honest
<1> QED BY <1>1, <1>2, <1>3, <1>4, <1>5, <1>6, <1>7, <1>8, <1>9, <1>10, <1>11, <1>12, <1>13
        DEF Next, Poll

\* Whatever order answers, notifications, failures and timeouts come in, the
\* client reports success only if an image at the path was announced of every
\* host it counts, no host has rejected it and, before the early timeout, of
\* every host which took the upload or was named by a server; and where that
\* image is not the one that is uploaded, the server had told of another one.
THEOREM OkSafe == Spec => []OkIsSound
<1>1. Init => SoundInv
  <2> SUFFICES ASSUME Init PROVE SoundInv
    OBVIOUS
  <2>1. TypeOK
    BY Typing
  <2>2. Honest
    BY DEF Init, EmptyBook, Honest
  <2>3. OkIsSound
    BY DEF Init, OkIsSound
  <2> QED BY <2>1, <2>2, <2>3 DEF SoundInv
<1>2. SoundInv /\ [Next]_vars => SoundInv'
  <2>1. ASSUME SoundInv, Next PROVE SoundInv'
    BY <2>1, SoundStep, Typing DEF SoundInv
  <2>2. ASSUME SoundInv, UNCHANGED vars PROVE SoundInv'
    <3>1. TypeOK'
      BY <2>2, Typing DEF SoundInv
    <3>2. UNCHANGED <<chan, book, outcome, early, history>>
      BY <2>2 DEF vars, upVars, timerVars
    <3> QED BY <2>2, <3>1, <3>2 DEF SoundInv, Honest, OkIsSound
  <2> QED BY <2>1, <2>2
<1>3. SoundInv => OkIsSound
  BY DEF SoundInv
<1> QED BY <1>1, <1>2, <1>3, PTL DEF Spec
=============================================================================
