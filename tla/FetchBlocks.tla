---------------------------- MODULE FetchBlocks ----------------------------
(***************************************************************************)
(* The download of the blocks of one image: fill_blocks (progress.rs) cuts *)
(* the blocks that were not hardlinked into slices, FetchBlocks::poll      *)
(* (fetch_blocks.rs) asks peers for them, a few at a time, hands what      *)
(* arrives to the disk threads and reports finished slices in the mask     *)
(* that is gossiped.                                                       *)
(*                                                                         *)
(* FetchBlocks is one future on the event loop.  A poll of it is a run     *)
(* through the stages of `pc` from "poll" to "parked"; answers of peers    *)
(* are delivered by the same loop, so only while it is parked, but disk    *)
(* threads finish writes at any time.  The order within queues and which   *)
(* connection get_connection_by_mask picks are left open.                  *)
(***************************************************************************)
EXTENDS Naturals, FiniteSets

CONSTANTS
  LastBlock,    \* blocks are 1 .. LastBlock, in the order of the index
  Linkable,     \* sets of blocks of files that may be found to hardlink
  ChunkSize,    \* blocks per chunk (100 in the code)
  MaxSlices,    \* MAX_SLICES (15); the mask's next bit is the index bit
  Concurrency,  \* CONCURRENCY (10)
  IoErrors      \* whether the write of a block may fail

Blocks == 1 .. LastBlock

ASSUME FetchBlocksAssumption ==
  /\ LastBlock \in Nat
  /\ Linkable \subseteq SUBSET Blocks
  /\ ChunkSize \in Nat \ {0}
  /\ MaxSlices \in Nat \ {0}
  /\ Concurrency \in Nat \ {0}
  /\ IoErrors \in BOOLEAN

VARIABLES
  pc,           \* the stage of poll
  where,        \* where[b]: where block b is
  slice,        \* slice[b]: the index of its slice
  answer,       \* answer[b]: outcome of its request or of its write
  slices,       \* indexes of the slices in Downloading::slices
  count,        \* count[s]: Slice::in_progress
  mask,         \* bits set in Downloading::mask
  todo,         \* futures this round of poll has not polled yet
  armed,        \* futures that were polled and will wake the task
  turn,         \* slices this round has not gone through yet
  new,          \* this round has made a request
  stalled,      \* Downloading::stalled
  retry,        \* retry_timeout is set
  quiet,        \* RETRY_CLUSTER_FAILURE has passed since last_okay
  late          \* FETCH_DEADLINE has passed

vars == <<pc, where, slice, answer, slices, count, mask, todo, armed, turn,
          new, stalled, retry, quiet, late>>

SliceIndexes == 0 .. MaxSlices - 1
Bits == 0 .. MaxSlices
Final == {"done", "failed", "exited"}
InFlight == {"fetching", "writing"}

TypeOK ==
  /\ pc \in {"fill", "poll", "issue", "parked"} \cup Final
  /\ where \in [Blocks -> {"queued", "written", "lost"} \cup InFlight]
  /\ slice \in [Blocks -> SliceIndexes]
  /\ answer \in [Blocks -> {"none", "good", "bad"}]
  /\ slices \subseteq SliceIndexes
  /\ count \in [SliceIndexes -> Nat]
  /\ mask \subseteq Bits
  /\ todo \subseteq Blocks
  /\ armed \subseteq Blocks
  /\ turn \subseteq SliceIndexes
  /\ new \in BOOLEAN /\ stalled \in BOOLEAN /\ retry \in BOOLEAN
  /\ quiet \in BOOLEAN /\ late \in BOOLEAN

Init ==
  /\ pc = "fill"
  /\ where = [b \in Blocks |-> "queued"]
  /\ slice = [b \in Blocks |-> 0]
  /\ answer = [b \in Blocks |-> "none"]
  /\ slices = {}
  /\ count = [s \in SliceIndexes |-> 0]
  /\ mask = {}
  /\ todo = {}
  /\ armed = {}
  /\ turn = {}
  /\ new = FALSE
  /\ stalled = FALSE
  /\ retry = FALSE
  /\ quiet = FALSE
  /\ late = FALSE

Futures == {b \in Blocks : where[b] \in InFlight}
Queued(s) == {b \in Blocks : where[b] = "queued" /\ slice[b] = s}
Fetching(s) == {b \in Blocks : where[b] = "fetching" /\ slice[b] = s}

-----------------------------------------------------------------------------
\* fill_blocks: chunks of the blocks that are left go to the slices in turn.
FillBlocks(linked) ==
  LET rest == Blocks \ linked
      at(b) == Cardinality({c \in rest : c < b}) \div ChunkSize
  IN
  /\ pc = "fill"
  /\ pc' = "poll"
  /\ where' = [b \in Blocks |-> IF b \in linked THEN "written" ELSE "queued"]
  /\ slice' = [b \in Blocks |-> at(b) % MaxSlices]
  /\ slices' = {at(b) % MaxSlices : b \in rest}
  /\ mask' = Bits \ slices'
  /\ UNCHANGED <<answer, count, todo, armed, turn, new, stalled, retry, quiet, late>>

\* The future of b is pending: it stays and will wake the task.
PollPending(b) ==
  /\ pc = "poll"
  /\ b \in todo
  /\ answer[b] = "none"
  /\ todo' = todo \ {b}
  /\ armed' = armed \cup {b}
  /\ UNCHANGED <<pc, where, slice, answer, slices, count, mask, turn, new,
                 stalled, retry, quiet, late>>

\* FetchBlock::poll, Fetching, the right bytes: a write is spawned and polled
\* in the same turn of the loop.
PollReceived(b) ==
  /\ pc = "poll"
  /\ b \in todo
  /\ where[b] = "fetching"
  /\ answer[b] = "good"
  /\ count' = IF slice[b] \in slices THEN [count EXCEPT ![slice[b]] = @ - 1]
                                     ELSE count
  /\ where' = [where EXCEPT ![b] = "writing"]
  /\ answer' = [answer EXCEPT ![b] = "none"]
  /\ quiet' = FALSE
  /\ stalled' = FALSE
  /\ UNCHANGED <<pc, slice, slices, mask, todo, armed, turn, new, retry, late>>

\* Fetching, an error or the wrong bytes: the block goes back to its slice.
PollFailed(b) ==
  /\ pc = "poll"
  /\ b \in todo
  /\ where[b] = "fetching"
  /\ answer[b] = "bad"
  /\ \/ /\ slice[b] \in slices
        /\ count' = [count EXCEPT ![slice[b]] = @ - 1]
        /\ where' = [where EXCEPT ![b] = "queued"]
     \/ /\ slice[b] \notin slices
        /\ where' = [where EXCEPT ![b] = "lost"]
        /\ UNCHANGED count
  /\ answer' = [answer EXCEPT ![b] = "none"]
  /\ todo' = todo \ {b}
  /\ UNCHANGED <<pc, slice, slices, mask, armed, turn, new, stalled, retry,
                 quiet, late>>

\* Writing: done, or the process exits.
PollWritten(b) ==
  /\ pc = "poll"
  /\ b \in todo
  /\ where[b] = "writing"
  /\ \/ /\ answer[b] = "good"
        /\ where' = [where EXCEPT ![b] = "written"]
        /\ UNCHANGED pc
     \/ /\ answer[b] = "bad"
        /\ pc' = "exited"
        /\ UNCHANGED where
  /\ todo' = todo \ {b}
  /\ UNCHANGED <<slice, answer, slices, count, mask, armed, turn, new, stalled,
                 retry, quiet, late>>

\* Mutants of RetainSlices: a slice is finished when its queue is empty; the
\* writes under way are not waited for; the deadline is not looked at.
RetainSlicesEarly ==
  LET busy == {s \in slices : Queued(s) # {}} IN
  /\ pc = "poll"
  /\ todo = {}
  /\ slices' = busy
  /\ mask' = mask \cup (slices \ busy)
  /\ pc' = IF Futures = {} /\ busy = {} THEN "done"
           ELSE IF late THEN "failed"
           ELSE IF Cardinality(Futures) >= Concurrency THEN "parked"
           ELSE "issue"
  /\ turn' = IF pc' = "issue" THEN busy ELSE {}
  /\ new' = FALSE
  /\ UNCHANGED <<where, slice, answer, count, todo, armed, stalled, retry,
                 quiet, late>>
RetainSlicesHasty ==
  LET busy == {s \in slices : count[s] > 0 \/ Queued(s) # {}} IN
  /\ pc = "poll"
  /\ todo = {}
  /\ slices' = busy
  /\ mask' = mask \cup (slices \ busy)
  /\ pc' = IF busy = {} THEN "done"
           ELSE IF late THEN "failed"
           ELSE IF Cardinality(Futures) >= Concurrency THEN "parked"
           ELSE "issue"
  /\ turn' = IF pc' = "issue" THEN busy ELSE {}
  /\ new' = FALSE
  /\ UNCHANGED <<where, slice, answer, count, todo, armed, stalled, retry,
                 quiet, late>>
RetainSlicesForever ==
  LET busy == {s \in slices : count[s] > 0 \/ Queued(s) # {}} IN
  /\ pc = "poll"
  /\ todo = {}
  /\ slices' = busy
  /\ mask' = mask \cup (slices \ busy)
  /\ pc' = IF Futures = {} /\ busy = {} THEN "done"
           ELSE IF Cardinality(Futures) >= Concurrency THEN "parked"
           ELSE "issue"
  /\ turn' = IF pc' = "issue" THEN busy ELSE {}
  /\ new' = FALSE
  /\ UNCHANGED <<where, slice, answer, count, todo, armed, stalled, retry,
                 quiet, late>>

\* All futures are polled: finished slices are dropped and reported, then it
\* is decided how to go on.
RetainSlices ==
  LET busy == {s \in slices : count[s] > 0 \/ Queued(s) # {}} IN
  /\ pc = "poll"
  /\ todo = {}
  /\ slices' = busy
  /\ mask' = mask \cup (slices \ busy)
  /\ pc' = IF Futures = {} /\ busy = {} THEN "done"
           ELSE IF late THEN "failed"
           ELSE IF Cardinality(Futures) >= Concurrency THEN "parked"
           ELSE "issue"
  /\ turn' = IF pc' = "issue" THEN busy ELSE {}
  /\ new' = FALSE
  /\ UNCHANGED <<where, slice, answer, count, todo, armed, stalled, retry,
                 quiet, late>>

\* Mutant of Request: the limit is not looked at.
RequestUnlimited(s) ==
  /\ pc = "issue"
  /\ s \in turn
  /\ \E b \in Queued(s) : where' = [where EXCEPT ![b] = "fetching"]
  /\ count' = [count EXCEPT ![s] = @ + 1]
  /\ new' = TRUE
  /\ UNCHANGED <<pc, todo, turn, armed, slice, answer, slices, mask, stalled,
                 retry, quiet, late>>

\* A block of slice s is requested; above the limit the futures are polled.
Request(s) ==
  /\ pc = "issue"
  /\ s \in turn
  /\ \E b \in Queued(s) :
       /\ where' = [where EXCEPT ![b] = "fetching"]
       /\ IF Cardinality(Futures) + 1 > Concurrency
            THEN pc' = "poll" /\ todo' = Futures \cup {b} /\ turn' = {} /\ armed' = {}
            ELSE UNCHANGED <<pc, todo, turn, armed>>
  /\ count' = [count EXCEPT ![s] = @ + 1]
  /\ new' = TRUE
  /\ UNCHANGED <<slice, answer, slices, mask, stalled, retry, quiet, late>>

\* No block is left in slice s, or no connection is to be had for it.
NextSlice(s) ==
  /\ pc = "issue"
  /\ s \in turn
  /\ turn' = turn \ {s}
  /\ UNCHANGED <<pc, where, slice, answer, slices, count, mask, todo, armed,
                 new, stalled, retry, quiet, late>>

\* Mutant of EndRound: new futures are not polled.
EndRoundAsleep ==
  /\ pc = "issue"
  /\ turn = {}
  /\ pc' = "parked"
  /\ stalled' = (stalled \/ Futures = {})
  /\ retry' = (Futures = {})
  /\ UNCHANGED <<where, slice, answer, slices, count, mask, todo, armed, turn,
                 new, quiet, late>>

\* New futures must be polled; with none at all the download is stalled, and
\* is given up when the whole cluster is (check_stalled), or tried again.
EndRound ==
  /\ pc = "issue"
  /\ turn = {}
  /\ \/ /\ new
        /\ pc' = "poll"
        /\ todo' = Futures
        /\ armed' = {}
        /\ UNCHANGED <<stalled, retry>>
     \/ /\ ~new
        /\ Futures # {}
        /\ pc' = "parked"
        /\ UNCHANGED <<todo, armed, stalled, retry>>
     \/ /\ ~new
        /\ Futures = {}
        /\ stalled' = TRUE
        /\ \/ quiet /\ pc' = "failed" /\ UNCHANGED retry
           \/ pc' = "parked" /\ retry' = TRUE
        /\ UNCHANGED <<todo, armed>>
  /\ UNCHANGED <<where, slice, answer, slices, count, mask, turn, new, quiet, late>>

\* The task is polled again: for the retry timer only, while it is set.
Wake ==
  /\ pc = "parked"
  /\ retry \/ late \/ \E b \in armed : answer[b] # "none"
  /\ pc' = "poll"
  /\ retry' = FALSE
  /\ todo' = Futures
  /\ armed' = {}
  /\ UNCHANGED <<where, slice, answer, slices, count, mask, turn, new, stalled,
                 quiet, late>>

-----------------------------------------------------------------------------
(* The environment: peers, disk threads, time.                             *)

Answer(b, how) ==
  /\ pc = "parked"
  /\ where[b] = "fetching"
  /\ answer[b] = "none"
  /\ answer' = [answer EXCEPT ![b] = how]
  /\ UNCHANGED <<pc, where, slice, slices, count, mask, todo, armed, turn, new,
                 stalled, retry, quiet, late>>

WriteBlock(b, how) ==
  /\ where[b] = "writing"
  /\ answer[b] = "none"
  /\ pc \notin Final
  /\ how = "bad" => IoErrors
  /\ answer' = [answer EXCEPT ![b] = how]
  /\ UNCHANGED <<pc, where, slice, slices, count, mask, todo, armed, turn, new,
                 stalled, retry, quiet, late>>

QuietPasses ==
  /\ pc \notin Final \cup {"fill"}
  /\ quiet' = TRUE
  /\ UNCHANGED <<pc, where, slice, answer, slices, count, mask, todo, armed,
                 turn, new, stalled, retry, late>>

DeadlinePasses ==
  /\ pc \notin Final \cup {"fill"}
  /\ late' = TRUE
  /\ UNCHANGED <<pc, where, slice, answer, slices, count, mask, todo, armed,
                 turn, new, stalled, retry, quiet>>

Finished == pc \in Final /\ UNCHANGED vars

PollStep ==
  \/ \E b \in Blocks :
       PollPending(b) \/ PollReceived(b) \/ PollFailed(b) \/ PollWritten(b)
  \/ RetainSlices
  \/ \E s \in SliceIndexes : Request(s) \/ NextSlice(s)
  \/ EndRound

Next ==
  \/ \E linked \in Linkable : FillBlocks(linked)
  \/ PollStep
  \/ Wake
  \/ \E b \in Blocks, how \in {"good", "bad"} : Answer(b, how) \/ WriteBlock(b, how)
  \/ QuietPasses \/ DeadlinePasses
  \/ Finished

Spec == Init /\ [][Next]_vars

\* The event loop polls what was woken, the disk threads work, time passes.
\* Peers need not answer.
Fairness ==
  /\ WF_vars(\E linked \in Linkable : FillBlocks(linked))
  /\ WF_vars(PollStep)
  /\ WF_vars(Wake)
  /\ WF_vars(DeadlinePasses)
  /\ \A b \in Blocks : WF_vars(\E how \in {"good", "bad"} : WriteBlock(b, how))
FairSpec == Spec /\ Fairness

-----------------------------------------------------------------------------
(* Properties                                                              *)

\* No block is ever lost: Slice::in_progress counts exactly the requests under
\* way, so a slice stays in the list as long as one of its blocks may still
\* come back to it, and the counter never goes below zero.
Accounted ==
  pc # "fill" =>
    /\ \A s \in SliceIndexes : count[s] = Cardinality(Fetching(s))
    /\ \A b \in Blocks : where[b] \in {"queued", "fetching"} => slice[b] \in slices
    /\ \A b \in Blocks : where[b] # "lost"

\* commit_image is called only when every block is on disk.
DoneIsComplete == pc = "done" => \A b \in Blocks : where[b] = "written"

\* A bit of the gossiped mask stands for a slice, as this node cut it, whose
\* blocks have all been received; the last of them may still be on their way
\* to the disk.
MaskHonest ==
  \A b \in Blocks : slice[b] \in mask => where[b] \in {"writing", "written"}

\* What this node believes and tells of its progress is true: the counters of
\* the slices, the list of slices that are still needed, the gossiped mask.
ProgressHonest == TypeOK /\ Accounted /\ MaskHonest

\* The number of requests and writes under way is bounded (by one more than
\* CONCURRENCY: the test comes after the push).
Bounded == Cardinality(Futures) <= Concurrency + 1

\* No lost wakeup: when poll returns NotReady, every future has been polled in
\* its present state, or there is none and the retry timer runs.
WillWake ==
  pc = "parked" => Futures \subseteq armed /\ (Futures = {} => retry)

\* The download of the blocks ends, whatever the peers do.
Ends == <>(pc \in Final)
=============================================================================
