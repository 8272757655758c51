--------------------------- MODULE IndexProofs -----------------------------
(***************************************************************************)
(* Proofs about the two modules on indexes.  IndexGc.tla, for any number   *)
(* of paths, images and requests: the collector never removes the index of *)
(* an image that a path has had since before the collection.               *)
(* IndexRegistry.tla, for any number of downloads and attempts: one        *)
(* attempt at a time and an honest cache, until an entry is displaced.     *)
(***************************************************************************)
EXTENDS IndexRegistry, IndexGc, TLAPS

USE RegistryAssumption, IndexGcAssumption

-----------------------------------------------------------------------------
(* The collector: the inductive invariant.                                 *)

\* A pinned pair is one the path still has.
PinnedHas == \A x \in pinned : Has(x[1], x[2])

\* Before it is in the set of marks, a pinned image is in a `.state` file that
\* the collector is yet to read.
OnItsWay(p, i, marks) == i \in marks \/ stateFile[p] = i

\* How far the collector has come with each pinned image.  The set that others
\* mark into is there once it was made; what is about to be removed may be marked
\* after the look at it, but it is not pinned.
Covered ==
  /\ gc.pc \notin {"idle", "set"} => collecting # None
  /\ \A x \in pinned :
       /\ gc.pc # "idle"
       /\ gc.pc = "set" => OnItsWay(x[1], x[2], gc.marks)
       /\ gc.pc = "list" => OnItsWay(x[1], x[2], collecting)
       /\ gc.pc = "mark" =>
            \/ x[2] \in collecting
            \/ stateFile[x[1]] = x[2] /\ <<x[1], "state">> \in gc.files
       /\ gc.pc \in {"sweep", "remove"} => x[2] \in collecting
       /\ gc.pc = "remove" => x[2] # gc.cur

GcInv == GcTypeOK /\ PinnedHas /\ Covered

-----------------------------------------------------------------------------
(* Types.                                                                  *)

\* Every step keeps the types: the mutex of `writing` has one owner, and only a
\* path with an entry in `writing` has an index.
LEMMA TypeStep == GcTypeOK /\ [GcNext]_gcVars => GcTypeOK'
<1> SUFFICES ASSUME GcTypeOK, [GcNext]_gcVars PROVE GcTypeOK'
  OBVIOUS
<1> USE DEF GcTypeOK
<1>1. ASSUME NEW r \in Requests, NEW p \in Paths, NEW i \in Images, MarkUsed(r, p, i)
      PROVE  GcTypeOK'
  BY <1>1 DEF MarkUsed, Marked, ReqIdle
<1>2. ASSUME NEW r \in Requests, Insert(r)
      PROVE  GcTypeOK'
  BY <1>2 DEF Insert, ReqIdle
<1>3. ASSUME NEW r \in Requests, WriteState(r)
      PROVE  GcTypeOK'
  BY <1>3 DEF WriteState, StillPinned, ReqIdle
<1>4. ASSUME NEW p \in Paths, GetIndex(p)
      PROVE  GcTypeOK'
  BY <1>4 DEF GetIndex
<1>5. ASSUME NEW p \in Paths, ResumeUpload(p)
      PROVE  GcTypeOK'
  BY <1>5 DEF ResumeUpload
<1>6. ASSUME NEW p \in Paths, Cleanup(p)
      PROVE  GcTypeOK'
  BY <1>6 DEF Cleanup, StillPinned
<1>7. ASSUME NEW p \in Paths, NEW committed \in BOOLEAN, EndUpload(p, committed)
      PROVE  GcTypeOK'
  BY <1>7 DEF EndUpload, StillPinned
<1>8. ASSUME NEW i \in Images, StoreMark(i) \/ StoreWrite(i) \/ GcCheck(i)
      PROVE  GcTypeOK'
  <2>1. CASE StoreMark(i)
    BY <2>1 DEF StoreMark, Marked
  <2>2. CASE StoreWrite(i)
    BY <2>2 DEF StoreWrite
  <2>3. CASE GcCheck(i)
    BY <2>3 DEF GcCheck
  <2> QED BY <1>8, <2>1, <2>2, <2>3
<1>9. ASSUME NEW f \in Files, GcMark(f)
      PROVE  GcTypeOK'
  BY <1>9 DEF GcMark, Marked, Files
<1>10. CASE GcSnapshot
  <2>1. gc' \in [pc : {"idle", "set", "list", "mark", "sweep", "remove"},
             files : SUBSET Files, marks : SUBSET Images,
             todo : SUBSET Images, cur : Images \cup {None}]
    <3>1. {writing[p] : p \in Paths} \ {None} \in SUBSET Images
      OBVIOUS
    <3> QED BY <1>10, <3>1 DEF GcSnapshot
  <2>2. pinned' \subseteq Paths \X Images
    BY <1>10 DEF GcSnapshot
  <2> QED BY <1>10, <2>1, <2>2 DEF GcSnapshot
<1>11. CASE GcSet \/ GcList \/ GcSweep \/ GcRemove \/ GcDone
  <2>1. CASE GcSet
    BY <2>1 DEF GcSet
  <2>4. CASE GcSweep
    BY <2>4 DEF GcSweep
  <2>5. CASE GcRemove
    BY <2>5 DEF GcRemove
  <2>2. CASE GcList
    <3>1. PICK S \in SUBSET Files : gc' = [gc EXCEPT !.pc = "mark", !.files = S]
      BY <2>2 DEF GcList
    <3>2. gc' \in [pc : {"idle", "set", "list", "mark", "sweep", "remove"},
                    files : SUBSET Files, marks : SUBSET Images,
                    todo : SUBSET Images, cur : Images \cup {None}]
      BY <3>1
    <3> QED BY <2>2, <3>2 DEF GcList
  <2>3. CASE GcDone
    BY <2>3 DEF GcDone, GcIdle
  <2> QED BY <1>11, <2>1, <2>2, <2>3, <2>4, <2>5
<1>12. CASE UNCHANGED gcVars
  BY <1>12 DEF gcVars
<1> QED BY <1>1, <1>2, <1>3, <1>4, <1>5, <1>6, <1>7, <1>8, <1>9, <1>10, <1>11,
           <1>12 DEF GcNext

-----------------------------------------------------------------------------
(* Pinned images.                                                          *)

\* What happens to the store is no harm to what stays pinned.
LEMMA StoreCovered ==
  ASSUME GcInv, GcTypeOK', UNCHANGED gc, collecting' = collecting \/ \E i \in Images : collecting' = Marked(i),
         pinned' \subseteq pinned,
         \A x \in pinned' : /\ Has(x[1], x[2])'
                            /\ stateFile[x[1]] = x[2] => stateFile'[x[1]] = x[2]
  PROVE  GcInv'
<1>1. collecting # None => collecting' # None /\ collecting \subseteq collecting'
  <2>1. ASSUME collecting # None, NEW i \in Images, collecting' = Marked(i)
        PROVE  collecting' \in SUBSET Images /\ collecting \subseteq collecting'
    BY <2>1 DEF Marked, GcTypeOK, GcInv
  <2> QED BY <2>1
<1>2. PinnedHas'
  BY DEF PinnedHas
<1>3. Covered'
  BY <1>1 DEF GcInv, Covered, OnItsWay
<1> QED BY <1>2, <1>3 DEF GcInv

\* Every step keeps the inductive invariant.
LEMMA GcStep == GcInv /\ [GcNext]_gcVars => GcInv'
<1> SUFFICES ASSUME GcInv, [GcNext]_gcVars PROVE GcInv'
  OBVIOUS
<1>0. GcTypeOK /\ GcTypeOK' /\ PinnedHas /\ Covered
  BY TypeStep DEF GcInv
<1>t. \A x \in pinned : x[1] \in Paths /\ x[2] \in Images /\ x[2] # None
  BY <1>0 DEF GcTypeOK
<1>1. ASSUME NEW r \in Requests, NEW p \in Paths, NEW i \in Images, MarkUsed(r, p, i)
      PROVE  GcInv'
  BY <1>0, <1>1, StoreCovered DEF MarkUsed, PinnedHas, Has
<1>2. ASSUME NEW r \in Requests, Insert(r)
      PROVE  GcInv'
  <2>1. \A x \in pinned : Has(x[1], x[2])'
    BY <1>0, <1>t, <1>2 DEF Insert, PinnedHas, Has, GcTypeOK, ReqIdle
  <2> QED BY <1>0, <1>2, <2>1, StoreCovered DEF Insert
<1>3. ASSUME NEW r \in Requests, WriteState(r)
      PROVE  GcInv'
  BY <1>0, <1>3, StoreCovered DEF WriteState, StillPinned
<1>4. ASSUME NEW p \in Paths, GetIndex(p)
      PROVE  GcInv'
  BY <1>0, <1>4, StoreCovered DEF GetIndex, PinnedHas, Has
<1>5. ASSUME NEW p \in Paths, ResumeUpload(p)
      PROVE  GcInv'
  <2>1. \A x \in pinned' : x \in pinned /\ x[1] # p
    BY <1>5 DEF ResumeUpload
  <2>2. \A x \in pinned' : Has(x[1], x[2])' /\ stateFile'[x[1]] = stateFile[x[1]]
    BY <1>0, <1>t, <1>5, <2>1 DEF ResumeUpload, PinnedHas, Has, GcTypeOK
  <2> QED BY <1>0, <1>5, <2>1, <2>2, StoreCovered DEF ResumeUpload
<1>6. ASSUME NEW p \in Paths, Cleanup(p)
      PROVE  GcInv'
  <2>1. pinned = {}
    BY <1>0, <1>6 DEF Cleanup, Covered
  <2> QED BY <1>0, <1>6, <2>1, StoreCovered DEF Cleanup, StillPinned
<1>7. ASSUME NEW p \in Paths, NEW committed \in BOOLEAN, EndUpload(p, committed)
      PROVE  GcInv'
  <2>1. \A x \in pinned' : x \in pinned /\ Has(x[1], x[2])'
    BY <1>7 DEF EndUpload, StillPinned
  <2>2. \A x \in pinned' : stateFile'[x[1]] = x[2] \/ x[1] # p
    BY <1>0, <1>t, <1>7, <2>1 DEF EndUpload, Has, GcTypeOK
  <2>3. \A x \in pinned' : stateFile[x[1]] = x[2] => stateFile'[x[1]] = x[2]
    BY <1>0, <1>t, <1>7, <2>1, <2>2 DEF EndUpload, GcTypeOK
  <2> QED BY <1>0, <1>7, <2>1, <2>3, StoreCovered DEF EndUpload, StillPinned
<1>8. ASSUME NEW i \in Images, StoreMark(i) \/ StoreWrite(i)
      PROVE  GcInv'
  BY <1>0, <1>8, StoreCovered DEF StoreMark, StoreWrite, PinnedHas, Has
<1>9. CASE GcSnapshot
  <2>1. \A x \in pinned' : /\ x[1] \in Paths /\ x[2] \in Images
                           /\ x[2] \in {stateFile[x[1]], writing[x[1]]}
    BY <1>9 DEF GcSnapshot, Has
  <2>2. gc'.marks = {writing[p] : p \in Paths} \ {None} /\ gc'.pc = "set"
    BY <1>0, <1>9 DEF GcSnapshot, GcTypeOK
  <2>3. PinnedHas' /\ Covered'
    BY <1>9, <2>1, <2>2 DEF GcSnapshot, PinnedHas, Has, Covered, OnItsWay
  <2> QED BY <1>0, <2>3 DEF GcInv
<1>10. ASSUME NEW f \in Files, GcMark(f)
      PROVE  GcInv'
  <2> DEFINE i == IF f[2] = "state" THEN stateFile[f[1]] ELSE newFile[f[1]]
  <2>1. gc'.pc = "mark" /\ gc'.files = gc.files \ {f} /\ collecting # None
    BY <1>0, <1>10 DEF GcMark, GcTypeOK, Covered
  <2>2. collecting \subseteq collecting' /\ collecting' # None /\ (i # None => i \in collecting')
    <3>1. collecting' \in SUBSET Images
      BY <1>0, <1>10, <2>1 DEF GcMark, Marked, GcTypeOK, Files
    <3>2. collecting \subseteq collecting' /\ (i # None => i \in collecting')
      BY <1>10, <2>1 DEF GcMark, Marked
    <3> QED BY <3>1, <3>2
  <2>3. ASSUME NEW x \in pinned
        PROVE  x[2] \in collecting' \/ (stateFile[x[1]] = x[2] /\ <<x[1], "state">> \in gc'.files)
    <3>1. CASE f = <<x[1], "state">> /\ stateFile[x[1]] = x[2]
      BY <1>t, <2>2, <3>1
    <3>2. CASE ~(f = <<x[1], "state">> /\ stateFile[x[1]] = x[2])
      BY <1>0, <1>10, <2>1, <2>2, <3>2 DEF Covered, GcMark
    <3> QED BY <3>1, <3>2
  <2>4. PinnedHas' /\ Covered'
    BY <1>0, <1>10, <2>1, <2>2, <2>3 DEF GcMark, PinnedHas, Has, Covered
  <2> QED BY <1>0, <2>4 DEF GcInv
<1>11. ASSUME NEW i \in Images, GcCheck(i)
      PROVE  GcInv'
  BY <1>0, <1>11 DEF GcInv, GcCheck, PinnedHas, Has, Covered, GcTypeOK
<1>12. CASE GcSet
  <2>1. gc'.pc = "list" /\ collecting' = gc.marks /\ collecting' # None
    BY <1>0, <1>12 DEF GcSet, GcTypeOK
  <2> QED BY <1>0, <1>12, <2>1 DEF GcInv, GcSet, PinnedHas, Has, Covered, OnItsWay
<1>13. CASE GcList
  <2>1. \A x \in pinned : stateFile[x[1]] = x[2] => <<x[1], "state">> \in gc'.files
    BY <1>0, <1>t, <1>13 DEF GcList, Files, GcTypeOK
  <2>2. gc'.pc = "mark"
    BY <1>0, <1>13 DEF GcList, GcTypeOK
  <2> QED BY <1>0, <1>13, <2>1, <2>2 DEF GcInv, GcList, PinnedHas, Has, Covered, OnItsWay
<1>14. CASE GcSweep \/ GcRemove \/ GcDone
  <2>1. CASE GcSweep
    BY <1>0, <2>1 DEF GcInv, GcSweep, PinnedHas, Has, Covered, GcTypeOK
  <2>2. CASE GcRemove
    BY <1>0, <2>2 DEF GcInv, GcRemove, PinnedHas, Has, Covered, GcTypeOK
  <2>3. CASE GcDone
    BY <1>0, <2>3 DEF GcInv, GcDone, GcIdle, PinnedHas, Covered
  <2> QED BY <1>14, <2>1, <2>2, <2>3
<1>15. CASE UNCHANGED gcVars
  BY <1>0, <1>15 DEF GcInv, gcVars, PinnedHas, Has, Covered, OnItsWay
<1> QED BY <1>1, <1>2, <1>3, <1>4, <1>5, <1>6, <1>7, <1>8, <1>9, <1>10, <1>11,
           <1>12, <1>13, <1>14, <1>15 DEF GcNext

\* The inductive invariant holds always.
LEMMA GcInvariant == GcSpec => []GcInv
<1>1. GcInit => GcInv
  BY DEF GcInit, GcInv, GcTypeOK, PinnedHas, Covered, GcIdle, ReqIdle
<1> QED BY <1>1, GcStep, PTL DEF GcSpec

\* Types, for any number of paths, images and requests; among them that at most
\* one request holds the mutex of `writing`.
THEOREM GcTyping == GcSpec => []GcTypeOK
<1>1. GcInv => GcTypeOK
  BY DEF GcInv
<1> QED BY <1>1, GcInvariant, PTL

\* index_gc never removes the index of an image that a path has had since before
\* the collection, however requests, downloads, commits, aborts and resumptions
\* interleave with its steps.
THEOREM PinnedSafe == GcSpec => PinnedKept
<1>1. GcInv /\ [GcNext]_gcVars => [\A x \in pinned : x[2] \in indexes => x[2] \in indexes']_gcVars
  <2> SUFFICES ASSUME GcInv, GcNext, NEW x \in pinned, x[2] \in indexes
               PROVE  x[2] \in indexes'
    OBVIOUS
  <2>1. CASE GcRemove
    BY <2>1 DEF GcRemove, GcInv, Covered
  <2>2. CASE ~GcRemove
    BY <2>2 DEF GcNext, MarkUsed, Insert, WriteState, GetIndex, ResumeUpload, Cleanup,
                EndUpload, StoreMark, StoreWrite, GcCheck, GcMark, GcSnapshot,
                GcSet, GcList, GcSweep, GcDone
  <2> QED BY <2>1, <2>2
<1> QED BY <1>1, GcInvariant, PTL DEF GcSpec, PinnedKept

-----------------------------------------------------------------------------
(* The registry.  Its inductive invariant adds to the checked properties   *)
(* that somebody waits for every attempt under way, that no entry keeps    *)
(* alive an index that is being dropped, and that a download that waits    *)
(* holds no index.                                                         *)

Busy(a) == phase[a] \in {"reading", "fetching"}

Support ==
  /\ \A a \in Attempts : Busy(a) => \E u \in Users : waiting[u] = a
  /\ \A a \in dropping : entry # InProgress(a)
  /\ \A u \in Users : waiting[u] # NoAttempt => holds[u] = NoAttempt

\* Every variable keeps its type, and only a finished index is held.
THEOREM RegistryTyping == Spec => []TypeOK
<1>1. Init => TypeOK
  BY DEF Init, TypeOK, Entries, Phases
<1>2. TypeOK /\ [Next]_vars => TypeOK'
  <2> SUFFICES ASSUME TypeOK, [Next]_vars PROVE TypeOK'
    OBVIOUS
  <2> USE DEF TypeOK
  <2>1. ASSUME NEW u \in Users, Get(u) PROVE TypeOK'
    <3>1. CASE entry.kind = "done" /\ Alive(entry.of)
               /\ holds' = [holds EXCEPT ![u] = entry.of]
               /\ UNCHANGED <<entry, phase, waiting>>
      <4>1. entry.of \in Attempts /\ phase[entry.of] = "sent"
        BY <3>1 DEF Entries, NoEntry, InProgress, Done, Alive
      <4> QED BY <2>1, <3>1, <4>1 DEF Get
    <3>2. CASE entry.kind = "progress"
               /\ waiting' = [waiting EXCEPT ![u] = entry.of]
               /\ UNCHANGED <<entry, phase, holds>>
      <4>1. entry.of \in Attempts
        BY <3>2 DEF Entries, NoEntry, InProgress, Done
      <4> QED BY <2>1, <3>2, <4>1 DEF Get
    <3>3. ASSUME NEW a \in Attempts, StartAttempt(u, a) PROVE TypeOK'
      BY <2>1, <3>3 DEF Get, StartAttempt, Free, Entries, Phases
    <3> QED BY <2>1, <3>1, <3>2, <3>3 DEF Get
  <2>2. ASSUME NEW u \in Users, Poll(u) PROVE TypeOK'
    BY <2>2 DEF Poll
  <2>3. ASSUME NEW u \in Users, Release(u) PROVE TypeOK'
    BY <2>3 DEF Release
  <2>4. ASSUME NEW a \in Attempts, ReadIndex(a) PROVE TypeOK'
    BY <2>4 DEF ReadIndex, Phases
  <2>5. ASSUME NEW a \in Attempts, Fetched(a) \/ Deadline(a) PROVE TypeOK'
    <3>1. stuck' \in BOOLEAN
      BY <2>5, Zenon DEF Fetched, Deadline, LastReference
    <3>2. /\ entry' \in Entries
          /\ \E x \in {"sent", "closed"} : phase' = [phase EXCEPT ![a] = x]
          /\ saving' \in BOOLEAN /\ phase[a] = "fetching"
          /\ UNCHANGED <<waiting, holds, dropping, onDisk, panicked, displaced>>
      BY <2>5 DEF Fetched, Deadline, Entries
    <3> QED BY <3>1, <3>2 DEF Phases
  <2>6. ASSUME NEW a \in Attempts, Unreachable(a) PROVE TypeOK'
    BY <2>6 DEF Unreachable
  <2>7. ASSUME NEW a \in Attempts, DropInner(a) PROVE TypeOK'
    <3>1. stuck' \in BOOLEAN /\ displaced' \in BOOLEAN
      BY <2>7, Zenon DEF DropInner, LastReference
    <3> QED BY <2>7, <3>1 DEF DropInner, Entries
  <2>8. CASE StoreIndex \/ CollectIndex
    BY <2>8 DEF StoreIndex, CollectIndex
  <2>9. CASE UNCHANGED vars
    BY <2>9 DEF vars
  <2> QED BY <2>1, <2>2, <2>3, <2>4, <2>5, <2>6, <2>7, <2>8, <2>9
          DEF Next, AttemptStep
<1> QED BY <1>1, <1>2, PTL DEF Spec

\* The creator waits for an attempt until it ends; Release looks at the entry
\* before the drop begins and a dropped attempt gets no entry.
LEMMA SupportStep ==
  ASSUME TypeOK, Support, [Next]_vars
  PROVE  Support'
<1> USE DEF TypeOK, Support, Busy
<1>1. ASSUME NEW u \in Users, Get(u) PROVE Support'
  BY <1>1 DEF Get, StartAttempt, Free, InProgress
<1>2. ASSUME NEW u \in Users, Poll(u) PROVE Support'
  BY <1>2 DEF Poll
<1>3. ASSUME NEW u \in Users, Release(u) PROVE Support'
  BY <1>3 DEF Release
<1>4. ASSUME NEW a \in Attempts, AttemptStep(a) \/ DropInner(a) PROVE Support'
  BY <1>4 DEF AttemptStep, ReadIndex, Fetched, Deadline, Unreachable, DropInner,
     NoEntry, InProgress, Done
<1>5. CASE StoreIndex \/ CollectIndex \/ UNCHANGED vars
  BY <1>5 DEF StoreIndex, CollectIndex, vars
<1> QED BY <1>1, <1>2, <1>3, <1>4, <1>5 DEF Next

\* The entry is the one of the attempt under way.
LEMMA OneAttemptStep ==
  ASSUME TypeOK, OneAttempt, [Next]_vars
  PROVE  OneAttempt'
<1> SUFFICES ASSUME ~displaced', NEW a \in Attempts, Busy(a)'
             PROVE  entry' = InProgress(a)
  BY DEF OneAttempt, Busy
<1>1. \A b \in Attempts : Busy(b) /\ ~displaced => entry = InProgress(b)
  BY DEF OneAttempt, Busy
<1>2. ASSUME NEW u \in Users, Get(u) PROVE entry' = InProgress(a)
  <2>1. ~displaced
    BY <1>2 DEF Get
  <2>2. ASSUME NEW b \in Attempts, StartAttempt(u, b), entry.kind \in {"none", "done"}
        PROVE  a = b
    BY <1>1, <2>1, <2>2 DEF StartAttempt, Busy, TypeOK, InProgress
  <2> QED BY <1>1, <1>2, <2>1, <2>2 DEF Get, StartAttempt, Busy
<1>3. ASSUME NEW u \in Users, Poll(u) \/ Release(u) PROVE entry' = InProgress(a)
  BY <1>1, <1>3 DEF Poll, Release, Busy
<1>4. ASSUME NEW b \in Attempts, ReadIndex(b) \/ Unreachable(b)
      PROVE  entry' = InProgress(a)
  BY <1>1, <1>4 DEF ReadIndex, Unreachable, Busy, TypeOK
<1>5. ASSUME NEW b \in Attempts, Fetched(b) \/ Deadline(b)
      PROVE  entry' = InProgress(a)
  <2>1. Busy(b) /\ ~Busy(b)' /\ Busy(a) /\ a # b /\ ~displaced
    BY <1>5 DEF Fetched, Deadline, Busy, TypeOK
  <2> QED BY <1>1, <2>1 DEF InProgress
<1>6. ASSUME NEW b \in Attempts, DropInner(b) PROVE entry' = InProgress(a)
  <2>1. ~displaced /\ entry.of \in {b, NoAttempt} /\ Busy(a)
    BY <1>6 DEF DropInner, Busy
  <2>2. entry = InProgress(a) /\ a = b
    BY <1>1, <2>1 DEF InProgress
  <2>3. ~Busy(b)
    BY <1>6 DEF DropInner, Busy, TypeOK
  <2> QED BY <2>1, <2>2, <2>3
<1>7. CASE StoreIndex \/ CollectIndex \/ UNCHANGED vars
  <2>1. UNCHANGED <<entry, phase, displaced>>
    BY <1>7 DEF StoreIndex, CollectIndex, vars
  <2> QED BY <1>1, <2>1 DEF Busy
<1> QED BY <1>2, <1>3, <1>4, <1>5, <1>6, <1>7 DEF Next, AttemptStep

\* Without a displaced entry no fetcher misses its entry and no drop happens
\* under the mutex.
LEMMA OnlyByDisplacementStep ==
  ASSUME TypeOK, Support, OneAttempt, OnlyByDisplacement, [Next]_vars
  PROVE  OnlyByDisplacement'
<1> SUFFICES ASSUME ~displaced' PROVE ~panicked' /\ ~stuck'
  BY DEF OnlyByDisplacement
<1> USE DEF OnlyByDisplacement
<1>1. ASSUME NEW u \in Users, Get(u) \/ Poll(u) \/ Release(u)
      PROVE  ~panicked' /\ ~stuck'
  BY <1>1 DEF Get, Poll, Release
<1>2. ASSUME NEW a \in Attempts, ReadIndex(a) PROVE ~panicked' /\ ~stuck'
  BY <1>2 DEF ReadIndex
<1>3. ASSUME NEW a \in Attempts, phase[a] = "fetching", ~displaced
      PROVE  entry = InProgress(a) /\ entry.kind = "progress"
             /\ ~LastReference /\ \E u \in Users : waiting[u] = a
  BY <1>3 DEF OneAttempt, Support, Busy, InProgress, LastReference
<1>4. ASSUME NEW a \in Attempts, Fetched(a) \/ Deadline(a)
      PROVE  ~panicked' /\ ~stuck'
  <2>1. phase[a] = "fetching" /\ ~displaced /\ panicked' = panicked /\ ~panicked
    BY <1>4 DEF Fetched, Deadline, Running
  <2>2. ~LastReference /\ ~(\A u \in Users : waiting[u] # a)
    BY <1>3, <2>1
  <2>3. CASE Fetched(a)
    <3>1. stuck' = (LastReference \/ \A u \in Users : waiting[u] # a)
      BY <2>3 DEF Fetched
    <3> QED BY <2>1, <2>2, <3>1, Zenon
  <2>4. CASE Deadline(a)
    BY <2>1, <2>2, <2>4 DEF Deadline
  <2> QED BY <1>4, <2>3, <2>4
<1>5. ASSUME NEW a \in Attempts, Unreachable(a) PROVE ~panicked' /\ ~stuck'
  BY <1>3, <1>5 DEF Unreachable
<1>6. ASSUME NEW a \in Attempts, DropInner(a) PROVE ~panicked' /\ ~stuck'
  <2>1. ~displaced /\ entry.of \in {a, NoAttempt} /\ ~panicked' /\ stuck' = LastReference
    BY <1>6 DEF DropInner
  <2>2. ~LastReference
    <3>1. SUFFICES ASSUME LastReference PROVE FALSE
      OBVIOUS
    <3>2. entry = InProgress(a)
      BY <2>1, <3>1 DEF LastReference, TypeOK, Entries, NoEntry, InProgress, Done
    <3> QED BY <1>6, <3>2 DEF DropInner, Support
  <2> QED BY <2>1, <2>2
<1>7. CASE StoreIndex \/ CollectIndex \/ UNCHANGED vars
  <2>1. panicked' = panicked /\ stuck' = stuck /\ displaced' = displaced
    BY <1>7 DEF StoreIndex, CollectIndex, vars
  <2> QED BY <2>1
<1> QED BY <1>1, <1>2, <1>4, <1>5, <1>6, <1>7 DEF Next, AttemptStep

\* One attempt at a time, and no panic or self-deadlock, until the drop of an
\* older index removes the entry of a newer attempt.
THEOREM RegistrySafety == Spec => []RegistrySound
<1>1. Init => Support /\ OneAttempt /\ OnlyByDisplacement
  BY DEF Init, Support, Busy, OneAttempt, OnlyByDisplacement
<1>2. TypeOK /\ Support /\ OneAttempt /\ OnlyByDisplacement /\ [Next]_vars
        => (Support /\ OneAttempt /\ OnlyByDisplacement)'
  BY SupportStep, OneAttemptStep, OnlyByDisplacementStep
<1> QED BY <1>1, <1>2, RegistryTyping, PTL DEF Spec, RegistrySound

\* An index with a Done entry is referred to, or its drop is about to take the
\* entry out: Fetched has somebody waiting, and Release begins the drop with
\* the last reference.
LEMMA CacheStep ==
  ASSUME TypeOK, Support, CacheHonest, [Next]_vars
  PROVE  CacheHonest'
<1> SUFFICES ASSUME ~displaced', entry'.kind = "done"
             PROVE  Alive(entry.of)' \/ entry'.of \in dropping'
  BY DEF CacheHonest
<1> USE DEF TypeOK, Alive, Referring, InProgress
<1>1. ~displaced
  BY DEF Next, AttemptStep, Get, Poll, Release, ReadIndex, Fetched, Deadline,
     Unreachable, DropInner, StoreIndex, CollectIndex, vars
<1>2. ASSUME NEW a \in Attempts, Fetched(a)
      PROVE  Alive(entry.of)' \/ entry'.of \in dropping'
  <2>1. PICK u \in Users : waiting[u] = a
    BY <1>2 DEF Fetched, Support, Busy
  <2>2. entry'.of = a /\ phase'[a] = "sent" /\ waiting'[u] = a
    BY <1>2, <2>1 DEF Fetched, Done
  <2> QED BY <2>2
<1>3. ASSUME entry' = entry,
             phase'[entry.of] = "sent",
             \A u \in Users : (holds[u] = entry.of => holds'[u] = entry.of)
                           /\ (waiting[u] = entry.of => entry.of \in {waiting'[u], holds'[u]}),
             dropping \subseteq dropping'
      PROVE  Alive(entry.of)' \/ entry'.of \in dropping'
  <2>1. entry.of \in dropping \/ \E u \in Users : holds[u] = entry.of \/ waiting[u] = entry.of
    BY <1>1, <1>3 DEF CacheHonest
  <2> QED BY <1>3, <2>1
<1>4. entry.kind = "done" => entry.of \in Attempts /\ entry.of # NoAttempt /\ phase[entry.of] = "sent"
  BY <1>1 DEF CacheHonest, Entries, NoEntry, Done
<1>5. ASSUME NEW u \in Users, Get(u)
      PROVE  Alive(entry.of)' \/ entry'.of \in dropping'
  <2>1. entry' = entry
    BY <1>5 DEF Get, StartAttempt
  <2>2. UNCHANGED <<phase, dropping>>
    BY <1>5, <2>1 DEF Get, StartAttempt, Free
  <2>3. \A v \in Users : (holds[v] = entry.of => holds'[v] = entry.of)
                      /\ (waiting[v] = entry.of => waiting'[v] = entry.of)
    BY <1>4, <1>5, <2>1 DEF Get, StartAttempt, Free
  <2> QED BY <1>3, <1>4, <2>1, <2>2, <2>3
<1>6. ASSUME NEW u \in Users, Poll(u)
      PROVE  Alive(entry.of)' \/ entry'.of \in dropping'
  <2>1. UNCHANGED <<entry, phase, dropping>> /\ holds[u] = NoAttempt /\ waiting[u] # NoAttempt
    BY <1>6 DEF Poll, Support
  <2>2. waiting[u] = entry.of => holds'[u] = entry.of
    BY <1>4, <1>6, <2>1 DEF Poll
  <2>3. \A v \in Users \ {u} : holds'[v] = holds[v] /\ waiting'[v] = waiting[v]
    BY <1>6 DEF Poll
  <2>4. \A v \in Users : (holds[v] = entry.of => holds'[v] = entry.of)
                      /\ (waiting[v] = entry.of => entry.of \in {waiting'[v], holds'[v]})
    BY <1>4, <2>1, <2>2, <2>3
  <2> QED BY <1>3, <1>4, <2>1, <2>4
<1>7. ASSUME NEW u \in Users, Release(u)
      PROVE  Alive(entry.of)' \/ entry'.of \in dropping'
  <2>1. UNCHANGED <<entry, phase, waiting>> /\ dropping \subseteq dropping'
    BY <1>7 DEF Release
  <2>2. \A v \in Users \ {u} : holds'[v] = holds[v]
    BY <1>7 DEF Release
  <2>3. CASE holds[u] # entry.of
    BY <1>3, <1>4, <2>1, <2>2, <2>3
  <2>4. CASE holds[u] = entry.of
    <3>1. Referring(entry.of) = {u} => entry.of \in dropping'
      BY <1>4, <1>7, <2>1, <2>4 DEF Release
    <3>2. ASSUME NEW v \in Users, v # u, v \in Referring(entry.of)
          PROVE  v \in Referring(entry.of)'
      BY <2>1, <2>2, <3>2
    <3>3. u \in Referring(entry.of)
      BY <2>4
    <3>4. Referring(entry.of) # {u} => Referring(entry.of)' # {}
      BY <3>2, <3>3
    <3> QED BY <1>4, <2>1, <3>1, <3>4
  <2> QED BY <2>3, <2>4
<1>8. ASSUME NEW a \in Attempts, ReadIndex(a) \/ Deadline(a) \/ Unreachable(a)
      PROVE  Alive(entry.of)' \/ entry'.of \in dropping'
  <2>1. entry' = entry /\ UNCHANGED <<waiting, holds, dropping>>
    BY <1>8 DEF ReadIndex, Deadline, Unreachable, NoEntry
  <2>2. phase'[entry.of] = "sent"
    BY <1>4, <1>8, <2>1 DEF ReadIndex, Deadline, Unreachable
  <2> QED BY <1>3, <2>1, <2>2
<1>9. ASSUME NEW a \in Attempts, DropInner(a) PROVE FALSE
  BY <1>9 DEF DropInner, NoEntry
<1>10. CASE StoreIndex \/ CollectIndex \/ UNCHANGED vars
  <2>1. UNCHANGED <<entry, phase, waiting, holds, dropping>>
    BY <1>10 DEF StoreIndex, CollectIndex, vars
  <2> QED BY <1>3, <1>4, <2>1
<1> QED BY <1>2, <1>5, <1>6, <1>7, <1>8, <1>9, <1>10 DEF Next, AttemptStep

\* A Done entry stands for an index that is alive or about to be dropped,
\* until a displaced entry: Indexes::get upgrades a live Weak, or fetches anew.
THEOREM CacheSafe == Spec => []CacheHonest
<1>1. Init => Support /\ CacheHonest
  BY DEF Init, Support, Busy, CacheHonest, NoEntry
<1>2. TypeOK /\ Support /\ CacheHonest /\ [Next]_vars => (Support /\ CacheHonest)'
  BY SupportStep, CacheStep
<1> QED BY <1>1, <1>2, RegistryTyping, PTL DEF Spec

=============================================================================
