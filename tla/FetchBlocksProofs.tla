------------------------- MODULE FetchBlocksProofs -------------------------
(***************************************************************************)
(* Proofs about FetchBlocks, for any number of blocks, any size of chunks, *)
(* any number of slices and any limit.  The counters and the list of       *)
(* slices support each other: a counter that is exact keeps its slice in   *)
(* the list, and a slice that is in the list keeps its counter exact.      *)
(***************************************************************************)
EXTENDS FetchBlocks, FiniteSetTheorems, TLAPS

USE FetchBlocksAssumption

\* Before fill_blocks nothing has been counted or asked for.
Unfilled ==
  pc = "fill" =>
    /\ \A b \in Blocks : where[b] = "queued"
    /\ \A s \in SliceIndexes : count[s] = 0
    /\ mask = {}

Core == TypeOK /\ Unfilled /\ Accounted /\ MaskHonest

\* The rounds of poll: what has been polled, and how many may be under way.
Rounds ==
  /\ pc \in {"fill", "issue"} => todo = {}
  /\ todo \subseteq Futures
  /\ pc = "poll" => Futures \subseteq armed \cup todo
  /\ pc = "issue" => new \/ Futures \subseteq armed
  /\ pc = "issue" => Cardinality(Futures) <= Concurrency
  /\ pc = "fill" => Futures = {}

\* Cardinalities in this module are those of finite sets.
LEMMA Finite ==
  /\ IsFiniteSet(Blocks)
  /\ \A s : IsFiniteSet(Fetching(s)) /\ Cardinality(Fetching(s)) \in Nat
  /\ IsFiniteSet(Futures) /\ Cardinality(Futures) \in Nat
<1>1. IsFiniteSet(Blocks)
  BY FS_Interval DEF Blocks
<1>2. ASSUME NEW s PROVE IsFiniteSet(Fetching(s))
  BY <1>1, FS_Subset DEF Fetching
<1>3. IsFiniteSet(Futures)
  BY <1>1, FS_Subset DEF Futures
<1> QED BY <1>1, <1>2, <1>3, FS_CardinalityType

\* fill_blocks gives every block the index of a slice.
LEMMA SliceInRange ==
  ASSUME NEW n \in Nat
  PROVE  (n \div ChunkSize) % MaxSlices \in SliceIndexes
<1>1. n \div ChunkSize \in Nat
  BY SMT
<1>2. \A k \in Nat : k % MaxSlices \in 0 .. MaxSlices - 1
  BY SMT
<1> QED BY <1>1, <1>2 DEF SliceIndexes

\* Core holds before fill_blocks.
LEMMA CoreInit == Init => Core
<1> SUFFICES ASSUME Init PROVE Core
  OBVIOUS
<1>1. TypeOK
  <2>1. 0 \in SliceIndexes
    BY DEF SliceIndexes
  <2>2. /\ where \in [Blocks -> {"queued", "written", "lost"} \cup InFlight]
        /\ slice \in [Blocks -> SliceIndexes]
        /\ answer \in [Blocks -> {"none", "good", "bad"}]
        /\ count \in [SliceIndexes -> Nat]
    BY <2>1 DEF Init
  <2> QED BY <2>2 DEF Init, TypeOK
<1>2. Unfilled /\ Accounted /\ MaskHonest
  BY DEF Init, Unfilled, Accounted, MaskHonest
<1> QED BY <1>1, <1>2 DEF Core

\* fill_blocks puts every block that is left into a listed slice.
LEMMA CoreFill ==
  ASSUME Core, NEW linked \in Linkable, FillBlocks(linked)
  PROVE  Core'
<1> DEFINE rest == Blocks \ linked
           before(b) == {c \in rest : c < b}
           at(b) == Cardinality(before(b)) \div ChunkSize
<1>1. ASSUME NEW b \in Blocks PROVE at(b) % MaxSlices \in SliceIndexes
  <2>1. before(b) \in SUBSET Blocks
    OBVIOUS
  <2>2. Cardinality(before(b)) \in Nat
    BY <2>1, Finite, FS_Subset, FS_CardinalityType
  <2> HIDE DEF before
  <2> QED BY <2>2, SliceInRange
<1>2. /\ pc = "fill" /\ pc' = "poll"
      /\ where' = [b \in Blocks |-> IF b \in linked THEN "written" ELSE "queued"]
      /\ slice' = [b \in Blocks |-> at(b) % MaxSlices]
      /\ slices' = {at(b) % MaxSlices : b \in rest}
      /\ mask' = Bits \ slices'
      /\ UNCHANGED <<answer, count, todo, armed, turn, new, stalled, retry,
                     quiet, late>>
  BY Zenon DEF FillBlocks
<1> HIDE DEF at
<1>3. TypeOK'
  BY <1>1, <1>2 DEF Core, TypeOK
<1>4. Fetching(0)' = {} /\ \A s \in SliceIndexes : Fetching(s)' = {}
  BY <1>2 DEF Fetching
<1>5. Accounted'
  <2>1. \A s \in SliceIndexes : count'[s] = Cardinality(Fetching(s)')
    BY <1>2, <1>4, FS_EmptySet DEF Core, Unfilled
  <2>2. \A b \in Blocks : where'[b] \in {"queued", "fetching"} => slice'[b] \in slices'
    BY <1>2
  <2>3. \A b \in Blocks : where'[b] # "lost"
    BY <1>2
  <2> QED BY <2>1, <2>2, <2>3 DEF Accounted, Fetching
<1>6. MaskHonest'
  BY <1>2 DEF MaskHonest
<1> QED BY <1>2, <1>3, <1>5, <1>6 DEF Core, Unfilled

\* A request ends: its slice is in the list and is counted down.
LEMMA CoreReceived ==
  ASSUME Core, NEW b \in Blocks, PollReceived(b) \/ PollFailed(b)
  PROVE  Core'
<1> PICK s \in SliceIndexes : s = slice[b]
  BY DEF Core, TypeOK
<1>1. /\ where[b] = "fetching" /\ s \in slices /\ pc = "poll" /\ pc' = "poll"
      /\ b \in Fetching(s)
      /\ count[s] = Cardinality(Fetching(s))
  BY DEF PollReceived, PollFailed, Core, Accounted, Fetching
<1>2. count[s] \in Nat \ {0}
  BY <1>1, Finite, FS_EmptySet
<1>3. /\ count' = [count EXCEPT ![s] = @ - 1]
      /\ \E w \in {"writing", "queued"} : where' = [where EXCEPT ![b] = w]
      /\ answer' = [answer EXCEPT ![b] = "none"]
      /\ todo' \in {todo, todo \ {b}}
      /\ UNCHANGED <<slice, slices, mask, armed, turn, new, retry, late>>
  BY <1>1 DEF PollReceived, PollFailed
<1> PICK w \in {"writing", "queued"} : where' = [where EXCEPT ![b] = w]
  BY <1>3
<1>4. TypeOK'
  <2>1. quiet' \in BOOLEAN /\ stalled' \in BOOLEAN
    BY DEF PollReceived, PollFailed, Core, TypeOK
  <2>2. count' \in [SliceIndexes -> Nat]
    BY <1>2, <1>3 DEF Core, TypeOK
  <2>3. where' \in [Blocks -> {"queued", "written", "lost"} \cup InFlight]
    BY <1>3 DEF Core, TypeOK, InFlight
  <2> QED BY <1>1, <1>3, <2>1, <2>2, <2>3 DEF Core, TypeOK
<1>5. /\ Fetching(s)' = Fetching(s) \ {b}
      /\ \A x \in SliceIndexes : x # s => Fetching(x)' = Fetching(x)
  BY <1>3 DEF Fetching, Core, TypeOK
<1>6. Cardinality(Fetching(s)') = count[s] - 1
  <2>1. IsFiniteSet(Fetching(s))
    BY Finite
  <2>2. Cardinality(Fetching(s) \ {b}) = Cardinality(Fetching(s)) - 1
    BY <1>1, <2>1, FS_RemoveElement
  <2> QED BY <1>1, <1>5, <2>2
<1>7. Accounted'
  <2>1. ASSUME NEW x \in SliceIndexes PROVE count'[x] = Cardinality(Fetching(x)')
    <3>1. CASE x = s
      BY <1>3, <1>6, <3>1 DEF Core, TypeOK
    <3>2. CASE x # s
      <4>1. count'[x] = count[x] /\ count[x] = Cardinality(Fetching(x))
        BY <1>1, <1>3, <3>2 DEF Core, TypeOK, Accounted
      <4> QED BY <1>5, <3>2, <4>1
    <3> QED BY <3>1, <3>2
  <2>2. \A c \in Blocks : where'[c] \in {"queued", "fetching"} => slice'[c] \in slices'
    BY <1>1, <1>3 DEF Core, TypeOK, Accounted
  <2>3. \A c \in Blocks : where'[c] # "lost"
    BY <1>1, <1>3 DEF Core, TypeOK, Accounted
  <2> QED BY <2>1, <2>2, <2>3 DEF Accounted, Fetching
<1>8. MaskHonest'
  BY <1>1, <1>3 DEF Core, TypeOK, MaskHonest
<1> QED BY <1>1, <1>4, <1>7, <1>8 DEF Core, Unfilled

\* The end of a write: written blocks are no slice's business any more.
LEMMA CoreWritten ==
  ASSUME Core, NEW b \in Blocks, PollWritten(b)
  PROVE  Core'
<1>1. /\ where[b] = "writing" /\ pc = "poll" /\ pc' \in {"poll", "exited"}
      /\ \E w \in {"writing", "written"} : where' = [where EXCEPT ![b] = w]
      /\ todo' = todo \ {b}
      /\ UNCHANGED <<slice, answer, slices, count, mask, armed, turn, new,
                     stalled, retry, quiet, late>>
  BY DEF PollWritten, Core, TypeOK
<1> PICK w \in {"writing", "written"} : where' = [where EXCEPT ![b] = w]
  BY <1>1
<1>2. TypeOK'
  BY <1>1 DEF Core, TypeOK, InFlight, Final
<1>3. \A s \in SliceIndexes : Fetching(s)' = Fetching(s)
  BY <1>1 DEF Fetching, Core, TypeOK
<1>4. Accounted'
  <2>1. \A x \in SliceIndexes : count'[x] = Cardinality(Fetching(x)')
    BY <1>1, <1>3 DEF Core, Accounted
  <2>2. \A c \in Blocks : where'[c] \in {"queued", "fetching"} => slice'[c] \in slices'
    BY <1>1 DEF Core, TypeOK, Accounted
  <2>3. \A c \in Blocks : where'[c] # "lost"
    BY <1>1 DEF Core, TypeOK, Accounted
  <2> QED BY <2>1, <2>2, <2>3 DEF Accounted, Fetching
<1>5. MaskHonest'
  BY <1>1 DEF Core, TypeOK, MaskHonest
<1> QED BY <1>1, <1>2, <1>4, <1>5 DEF Core, Unfilled

\* A slice with a counter of zero and an empty queue has nothing outstanding.
LEMMA OutstandingIsBusy ==
  ASSUME Core, pc # "fill", NEW b \in Blocks,
         where[b] \in {"queued", "fetching"}
  PROVE  /\ slice[b] \in slices
         /\ count[slice[b]] > 0 \/ Queued(slice[b]) # {}
<1>1. slice[b] \in slices /\ slice[b] \in SliceIndexes
  BY DEF Core, Accounted, TypeOK
<1>2. CASE where[b] = "queued"
  BY <1>1, <1>2 DEF Queued
<1>3. CASE where[b] = "fetching"
  <2>1. b \in Fetching(slice[b])
    BY <1>3 DEF Fetching
  <2>2. count[slice[b]] = Cardinality(Fetching(slice[b]))
    BY <1>1 DEF Core, Accounted
  <2>3. Cardinality(Fetching(slice[b])) \in Nat \ {0}
    BY <2>1, Finite, FS_EmptySet
  <2> QED BY <1>1, <2>2, <2>3
<1> QED BY <1>2, <1>3

\* Slices are dropped, and reported, only when nothing of them is outstanding.
LEMMA CoreRetain ==
  ASSUME Core, RetainSlices
  PROVE  Core'
<1> DEFINE busy == {s \in slices : count[s] > 0 \/ Queued(s) # {}}
<1>1. /\ pc = "poll" /\ slices' = busy
      /\ mask' = mask \cup (slices \ busy)
      /\ pc' \in {"done", "failed", "parked", "issue"}
      /\ turn' \in {busy, {}} /\ new' = FALSE
      /\ UNCHANGED <<where, slice, answer, count, todo, armed, stalled, retry,
                     quiet, late>>
  BY DEF RetainSlices
<1>2. \A b \in Blocks : where[b] \in {"queued", "fetching"} => slice[b] \in busy
  BY <1>1, OutstandingIsBusy
<1>3. TypeOK'
  <2>1. busy \subseteq SliceIndexes /\ slices \subseteq Bits
    <3>1. busy \subseteq slices
      OBVIOUS
    <3>2. SliceIndexes \subseteq Bits
      BY DEF SliceIndexes, Bits
    <3> HIDE DEF busy
    <3> QED BY <3>1, <3>2 DEF Core, TypeOK
  <2> HIDE DEF busy
  <2> QED BY <1>1, <2>1 DEF Core, TypeOK, Final
<1> HIDE DEF busy
<1>4. Accounted'
  <2>1. \A x \in SliceIndexes : Fetching(x)' = Fetching(x)
    BY <1>1 DEF Fetching
  <2>2. \A x \in SliceIndexes : count'[x] = Cardinality(Fetching(x)')
    BY <1>1, <2>1 DEF Core, Accounted
  <2>3. \A c \in Blocks : where'[c] \in {"queued", "fetching"} => slice'[c] \in slices'
    BY <1>1, <1>2
  <2>4. \A c \in Blocks : where'[c] # "lost"
    BY <1>1 DEF Core, Accounted
  <2> QED BY <2>2, <2>3, <2>4 DEF Accounted, Fetching
<1>5. MaskHonest'
  <2> SUFFICES ASSUME NEW b \in Blocks, slice[b] \in mask \cup (slices \ busy)
               PROVE  where[b] \in {"writing", "written"}
    BY <1>1 DEF MaskHonest
  <2>1. CASE slice[b] \in mask
    BY <2>1 DEF Core, MaskHonest
  <2>2. CASE slice[b] \notin busy
    <3>1. where[b] \notin {"queued", "fetching", "lost"}
      BY <2>2, <1>1, <1>2 DEF Core, Accounted
    <3> QED BY <3>1 DEF Core, TypeOK, InFlight
  <2> QED BY <2>1, <2>2
<1> QED BY <1>1, <1>3, <1>4, <1>5 DEF Core, Unfilled

\* A request moves a block from its slice's queue to its counter.
LEMMA CoreRequest ==
  ASSUME Core, NEW s \in SliceIndexes, Request(s)
  PROVE  Core'
<1> PICK b \in Queued(s) :
      /\ where' = [where EXCEPT ![b] = "fetching"]
      /\ IF Cardinality(Futures) + 1 > Concurrency
           THEN pc' = "poll" /\ todo' = Futures \cup {b} /\ turn' = {} /\ armed' = {}
           ELSE UNCHANGED <<pc, todo, turn, armed>>
  BY DEF Request
<1>1. /\ b \in Blocks /\ where[b] = "queued" /\ slice[b] = s
      /\ pc = "issue" /\ pc' \in {"poll", "issue"}
      /\ todo' \in {todo, Futures \cup {b}} /\ turn' \in {turn, {}}
      /\ armed' \in {armed, {}}
      /\ count' = [count EXCEPT ![s] = @ + 1]
      /\ new' = TRUE
      /\ UNCHANGED <<slice, answer, slices, mask, stalled, retry, quiet, late>>
  BY DEF Queued, Request
<1>2. TypeOK'
  BY <1>1 DEF Core, TypeOK, InFlight, Futures
<1>3. /\ Fetching(s)' = Fetching(s) \cup {b} /\ b \notin Fetching(s)
      /\ \A x \in SliceIndexes : x # s => Fetching(x)' = Fetching(x)
  BY <1>1 DEF Fetching, Core, TypeOK
<1>4. Cardinality(Fetching(s)') = Cardinality(Fetching(s)) + 1
  BY <1>3, Finite, FS_AddElement
<1>5. Accounted'
  <2>1. \A x \in SliceIndexes : count'[x] = Cardinality(Fetching(x)')
    BY <1>1, <1>3, <1>4 DEF Core, TypeOK, Accounted
  <2>2. \A c \in Blocks : where'[c] \in {"queued", "fetching"} => slice'[c] \in slices'
    BY <1>1 DEF Core, TypeOK, Accounted
  <2>3. \A c \in Blocks : where'[c] # "lost"
    BY <1>1 DEF Core, TypeOK, Accounted
  <2> QED BY <2>1, <2>2, <2>3 DEF Accounted, Fetching
<1>6. MaskHonest'
  BY <1>1 DEF Core, TypeOK, MaskHonest
<1> QED BY <1>1, <1>2, <1>5, <1>6 DEF Core, Unfilled

\* Steps that move no block and change no slice.
LEMMA CoreIdle ==
  ASSUME Core, TypeOK', UNCHANGED <<where, slice, slices, count, mask>>,
         pc' = "fill" <=> pc = "fill"
  PROVE  Core'
<1>1. \A x : Fetching(x)' = Fetching(x)
  BY DEF Fetching
<1>2. Unfilled' /\ MaskHonest'
  BY DEF Core, Unfilled, MaskHonest
<1>3. Accounted'
  <2>1. \A x \in SliceIndexes : pc # "fill" => count'[x] = Cardinality(Fetching(x)')
    BY <1>1 DEF Core, Accounted
  <2> QED BY <2>1 DEF Core, Accounted, Fetching
<1> QED BY <1>2, <1>3 DEF Core

\* Core is inductive: one case per stage of poll and per answer.
LEMMA CoreStep == Core /\ [Next]_vars => Core'
<1> SUFFICES ASSUME Core, [Next]_vars PROVE Core'
  OBVIOUS
<1>1. ASSUME NEW linked \in Linkable, FillBlocks(linked) PROVE Core'
  BY <1>1, CoreFill
<1>2. ASSUME NEW b \in Blocks, PollReceived(b) \/ PollFailed(b) PROVE Core'
  BY <1>2, CoreReceived
<1>3. ASSUME NEW b \in Blocks, PollWritten(b) PROVE Core'
  BY <1>3, CoreWritten
<1>4. CASE RetainSlices
  BY <1>4, CoreRetain
<1>5. ASSUME NEW s \in SliceIndexes, Request(s) PROVE Core'
  BY <1>5, CoreRequest
<1>6. ASSUME NEW b \in Blocks, PollPending(b) PROVE Core'
  BY <1>6, CoreIdle DEF PollPending, Core, TypeOK
<1>7. ASSUME NEW s \in SliceIndexes, NextSlice(s) PROVE Core'
  BY <1>7, CoreIdle DEF NextSlice, Core, TypeOK
<1>8. CASE EndRound
  <2>1. TypeOK'
    BY <1>8 DEF EndRound, Core, TypeOK, Futures, Final
  <2> QED BY <1>8, <2>1, CoreIdle DEF EndRound
<1>9. CASE Wake
  <2>1. TypeOK'
    BY <1>9 DEF Wake, Core, TypeOK, Futures, Final
  <2> QED BY <1>9, <2>1, CoreIdle DEF Wake
<1>10. ASSUME NEW b \in Blocks, NEW how \in {"good", "bad"},
              Answer(b, how) \/ WriteBlock(b, how)
       PROVE  Core'
  <2>1. TypeOK'
    BY <1>10 DEF Answer, WriteBlock, Core, TypeOK
  <2> QED BY <1>10, <2>1, CoreIdle DEF Answer, WriteBlock
<1>11. CASE QuietPasses \/ DeadlinePasses
  BY <1>11, CoreIdle DEF QuietPasses, DeadlinePasses, Core, TypeOK
<1>12. CASE UNCHANGED vars
  BY <1>12, CoreIdle DEF vars, Core, TypeOK
<1> QED BY <1>1, <1>2, <1>3, <1>4, <1>5, <1>6, <1>7, <1>8, <1>9, <1>10, <1>11,
           <1>12 DEF Next, PollStep, Finished

\* The types hold, in particular no counter of a slice ever goes below zero.
THEOREM BlocksTyping == Spec => []TypeOK
<1>1. Core => TypeOK
  BY DEF Core
<1> QED BY <1>1, CoreInit, CoreStep, PTL DEF Spec

\* No block is lost and the mask promises only slices that were received,
\* however many blocks there are and however requests fail.
THEOREM BlocksAccounted == Spec => []ProgressHonest
<1>1. Core => ProgressHonest
  BY DEF Core, ProgressHonest
<1> QED BY <1>1, CoreInit, CoreStep, PTL DEF Spec

-----------------------------------------------------------------------------
\* Completion: nothing moves any more once the download is done.
LEMMA DoneStep ==
  ASSUME Core, DoneIsComplete, [Next]_vars
  PROVE  DoneIsComplete'
<1>1. CASE RetainSlices
  <2> DEFINE busy == {s \in slices : count[s] > 0 \/ Queued(s) # {}}
  <2>1. SUFFICES ASSUME pc' = "done", NEW b \in Blocks PROVE where'[b] = "written"
    BY DEF DoneIsComplete
  <2>2. pc = "poll" /\ where' = where /\ Futures = {} /\ busy = {}
    BY <1>1, <2>1 DEF RetainSlices
  <2>3. where[b] \notin {"queued", "fetching"}
    BY <2>2, OutstandingIsBusy
  <2>4. where[b] \notin {"writing", "lost"}
    BY <2>2 DEF Futures, InFlight, Core, Accounted
  <2> QED BY <2>2, <2>3, <2>4 DEF Core, TypeOK, InFlight
<1>2. CASE UNCHANGED vars
  BY <1>2 DEF vars, DoneIsComplete
<1>3. CASE Next /\ ~RetainSlices
  <2>1. pc' = "done" => pc = "done" /\ where' = where
    BY <1>3 DEF Next, PollStep, FillBlocks, PollPending, PollReceived, PollFailed,
       PollWritten, Request, NextSlice, EndRound, Wake, Answer, WriteBlock,
       QuietPasses, DeadlinePasses, Finished, vars
  <2> QED BY <2>1 DEF DoneIsComplete
<1> QED BY <1>1, <1>2, <1>3

\* FetchBlocks never reports success with a block missing.
THEOREM BlocksComplete == Spec => []DoneIsComplete
<1>1. Init => DoneIsComplete
  BY DEF Init, DoneIsComplete
<1> QED BY <1>1, CoreInit, CoreStep, DoneStep, PTL DEF Spec

-----------------------------------------------------------------------------
\* The limit and the wakeups.
Polling == Rounds /\ Bounded /\ WillWake

\* A step that leaves the set of futures alone.
LEMMA SameFutures ==
  ASSUME Polling, Futures' = Futures, Rounds', WillWake'
  PROVE  Polling'
BY DEF Polling, Bounded

\* A step that takes a future out.
LEMMA FewerFutures ==
  ASSUME Polling, NEW b, Futures' = Futures \ {b}, Rounds', WillWake'
  PROVE  Polling'
<1>1. Cardinality(Futures \ {b}) <= Cardinality(Futures)
  BY Finite, FS_Subset
<1>2. Cardinality(Futures \ {b}) \in Nat
  BY Finite, FS_Subset, FS_CardinalityType
<1> QED BY <1>1, <1>2, Finite DEF Polling, Bounded

\* The limit and the wakeups are inductive, given Core.
LEMMA PollingStep ==
  ASSUME Core, Polling, [Next]_vars
  PROVE  Polling'
<1> USE DEF Rounds, WillWake
<1>1. ASSUME NEW linked \in Linkable, FillBlocks(linked) PROVE Polling'
  <2>1. pc = "fill" /\ pc' = "poll" /\ todo' = todo /\ Futures' = {}
    BY <1>1, Zenon DEF FillBlocks, Futures, InFlight
  <2> QED BY <2>1, SameFutures DEF Polling
<1>2. ASSUME NEW b \in Blocks, PollPending(b) PROVE Polling'
  <2>1. Futures' = Futures
    BY <1>2 DEF PollPending, Futures
  <2>2. pc = "poll" /\ pc' = "poll" /\ todo' = todo \ {b} /\ armed' = armed \cup {b}
    BY <1>2 DEF PollPending
  <2> QED BY <2>1, <2>2, SameFutures DEF Polling
<1>3. ASSUME NEW b \in Blocks, PollReceived(b) PROVE Polling'
  <2>1. Futures' = Futures
    BY <1>3 DEF PollReceived, Futures, InFlight, Core, TypeOK
  <2>2. pc = "poll" /\ pc' = "poll" /\ todo' = todo /\ armed' = armed
    BY <1>3 DEF PollReceived
  <2> QED BY <2>1, <2>2, SameFutures DEF Polling
<1>4. ASSUME NEW b \in Blocks, PollFailed(b) PROVE Polling'
  <2>1. Futures' = Futures \ {b}
    BY <1>4 DEF PollFailed, Futures, InFlight, Core, TypeOK
  <2>2. pc = "poll" /\ pc' = "poll" /\ todo' = todo \ {b} /\ armed' = armed
    BY <1>4 DEF PollFailed
  <2> QED BY <2>1, <2>2, FewerFutures DEF Polling
<1>5. ASSUME NEW b \in Blocks, PollWritten(b) PROVE Polling'
  <2>1. CASE pc' = "poll" /\ where' = [where EXCEPT ![b] = "written"]
    <3>1. Futures' = Futures \ {b}
      BY <1>5, <2>1 DEF Futures, InFlight, Core, TypeOK
    <3>2. pc = "poll" /\ todo' = todo \ {b} /\ armed' = armed
      BY <1>5 DEF PollWritten
    <3> QED BY <2>1, <3>1, <3>2, FewerFutures DEF Polling
  <2>2. CASE pc' = "exited" /\ where' = where
    <3>1. Futures' = Futures /\ todo' = todo \ {b}
      BY <1>5, <2>2 DEF Futures, PollWritten
    <3> QED BY <2>2, <3>1, SameFutures DEF Polling
  <2> QED BY <1>5, <2>1, <2>2 DEF PollWritten
<1>6. CASE RetainSlices
  <2>1. /\ pc = "poll" /\ todo = {} /\ todo' = {} /\ armed' = armed
        /\ pc' \in {"done", "failed", "parked", "issue"}
        /\ pc' = "parked" => Cardinality(Futures) >= Concurrency
        /\ pc' = "issue" => ~(Cardinality(Futures) >= Concurrency)
        /\ where' = where
    BY <1>6 DEF RetainSlices
  <2>2. Futures' = Futures /\ Futures \subseteq armed
    BY <2>1 DEF Futures, Polling
  <2>3. pc' = "parked" => Futures # {}
    BY <2>1, FS_EmptySet
  <2>4. pc' = "issue" => Cardinality(Futures) <= Concurrency
    BY <2>1, Finite
  <2> QED BY <2>1, <2>2, <2>3, <2>4, SameFutures DEF Polling
<1>7. ASSUME NEW s \in SliceIndexes, Request(s) PROVE Polling'
  <2> PICK b \in Queued(s) :
        /\ where' = [where EXCEPT ![b] = "fetching"]
        /\ IF Cardinality(Futures) + 1 > Concurrency
             THEN pc' = "poll" /\ todo' = Futures \cup {b} /\ turn' = {} /\ armed' = {}
             ELSE UNCHANGED <<pc, todo, turn, armed>>
    BY <1>7 DEF Request
  <2>1. pc = "issue" /\ new' = TRUE /\ b \notin Futures /\ b \in Blocks
    BY <1>7 DEF Request, Queued, Futures, InFlight
  <2>2. Futures' = Futures \cup {b}
    BY <2>1 DEF Futures, InFlight, Core, TypeOK
  <2>3. Cardinality(Futures') = Cardinality(Futures) + 1
    BY <2>1, <2>2, Finite, FS_AddElement
  <2>4. Cardinality(Futures) <= Concurrency /\ todo = {}
    BY <2>1 DEF Polling
  <2>5. Bounded'
    BY <2>3, <2>4, Finite DEF Bounded
  <2>6. CASE Cardinality(Futures) + 1 > Concurrency
    BY <2>1, <2>2, <2>5, <2>6 DEF Polling
  <2>7. CASE ~(Cardinality(Futures) + 1 > Concurrency)
    <3>1. Cardinality(Futures') <= Concurrency
      BY <2>3, <2>7, Finite
    <3> QED BY <2>1, <2>2, <2>4, <2>5, <2>7, <3>1 DEF Polling
  <2> QED BY <2>6, <2>7
<1>8. ASSUME NEW s \in SliceIndexes, NextSlice(s) PROVE Polling'
  <2>1. Futures' = Futures
    BY <1>8 DEF NextSlice, Futures
  <2> QED BY <1>8, <2>1, SameFutures DEF NextSlice, Polling
<1>9. CASE EndRound
  <2>1. Futures' = Futures /\ pc = "issue" /\ todo = {}
    BY <1>9 DEF EndRound, Futures, Polling
  <2>2. CASE new /\ pc' = "poll" /\ todo' = Futures
    BY <2>1, <2>2, SameFutures DEF Polling
  <2>3. CASE ~new /\ Futures # {} /\ pc' = "parked" /\ todo' = todo /\ armed' = armed
    BY <2>1, <2>3, SameFutures DEF Polling
  <2>4. CASE /\ Futures = {} /\ todo' = todo /\ armed' = armed
             /\ pc' = "failed" \/ (pc' = "parked" /\ retry' = TRUE)
    BY <2>1, <2>4, SameFutures DEF Polling
  <2> QED BY <1>9, <2>2, <2>3, <2>4 DEF EndRound
<1>10. CASE Wake
  <2>1. Futures' = Futures
    BY <1>10 DEF Wake, Futures
  <2> QED BY <1>10, <2>1, SameFutures DEF Wake, Polling
<1>11. CASE UNCHANGED <<pc, where, todo, armed, new, retry>>
  <2>1. Futures' = Futures
    BY <1>11 DEF Futures
  <2> QED BY <1>11, <2>1, SameFutures DEF Polling
<1>12. ASSUME NEW b \in Blocks, NEW how \in {"good", "bad"},
              Answer(b, how) \/ WriteBlock(b, how)
       PROVE  Polling'
  BY <1>11, <1>12 DEF Answer, WriteBlock
<1>13. CASE QuietPasses \/ DeadlinePasses \/ UNCHANGED vars
  BY <1>11, <1>13 DEF QuietPasses, DeadlinePasses, vars
<1> QED BY <1>1, <1>2, <1>3, <1>4, <1>5, <1>6, <1>7, <1>8, <1>9, <1>10, <1>12,
           <1>13 DEF Next, PollStep, Finished

\* At most CONCURRENCY + 1 requests and writes are under way, and poll never
\* returns NotReady with a future that will not wake it.
THEOREM BlocksPolled == Spec => [](Bounded /\ WillWake)
<1>1. Init => Polling
  <2> SUFFICES ASSUME Init PROVE Polling
    OBVIOUS
  <2>1. Futures = {} /\ pc = "fill" /\ todo = {}
    BY DEF Init, Futures, InFlight
  <2>2. Cardinality(Futures) = 0
    BY <2>1, FS_EmptySet
  <2> QED BY <2>1, <2>2 DEF Polling, Rounds, WillWake, Bounded
<1>2. Polling => Bounded /\ WillWake
  BY DEF Polling
<1> QED BY <1>1, <1>2, CoreInit, CoreStep, PollingStep, PTL DEF Spec
=============================================================================
