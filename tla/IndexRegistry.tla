--------------------------- MODULE IndexRegistry ---------------------------
(***************************************************************************)
(* The registry of indexes in memory (src/daemon/tracking/fetch_index.rs), *)
(* for one image id: entries of different ids do not touch each other.     *)
(*                                                                         *)
(* A download asks for the index (Indexes::get).  The first one starts an  *)
(* attempt: read the index from the metadata store, or else fetch it from  *)
(* a peer.  Downloads that come meanwhile share the attempt's future.  The *)
(* index is reference counted; the drop of the last reference takes the    *)
(* registry's mutex and removes the entry of its id, whosever it is.  That *)
(* drop may run on a disk thread (commit_image owns the last reference),   *)
(* so the event loop can come in between the count and the mutex.          *)
(***************************************************************************)
CONSTANTS
  Users,        \* downloads of the image, on different paths
  Attempts,     \* attempts that may exist at once (reused when unreferenced)
  NoAttempt     \* in the place of an attempt, where there is none

ASSUME RegistryAssumption == NoAttempt \notin Attempts

VARIABLES
  entry,        \* the registry's entry: none, InProgress or Done(Weak)
  phase,        \* phase[a]: what the attempt's future does
  waiting,      \* waiting[u]: the attempt whose Shared future u polls
  holds,        \* holds[u]: the attempt whose Index u holds
  dropping,     \* indexes whose count is zero and whose drop has not locked yet
  onDisk,       \* the index is in the metadata store
  saving,      \* a store_index is on its way
  panicked,     \* unreachable!() was reached
  stuck,        \* a thread waits for the mutex it holds
  displaced     \* history: a drop removed an entry that was not its own

vars == <<entry, phase, waiting, holds, dropping, onDisk, saving,
          panicked, stuck, displaced>>

NoEntry == [kind |-> "none", of |-> NoAttempt]
InProgress(a) == [kind |-> "progress", of |-> a]
Done(a) == [kind |-> "done", of |-> a]
Entries == {NoEntry} \cup {InProgress(a) : a \in Attempts} \cup {Done(a) : a \in Attempts}
Phases == {"unused", "reading", "fetching", "sent", "closed"}

TypeOK ==
  /\ entry \in Entries
  /\ phase \in [Attempts -> Phases]
  /\ waiting \in [Users -> Attempts \cup {NoAttempt}]
  /\ holds \in [Users -> Attempts \cup {NoAttempt}]
  /\ dropping \subseteq {a \in Attempts : phase[a] = "sent"}
  /\ \A u \in Users : holds[u] # NoAttempt => phase[holds[u]] = "sent"
  /\ {onDisk, saving, panicked, stuck, displaced} \subseteq BOOLEAN

Init ==
  /\ entry = NoEntry
  /\ phase = [a \in Attempts |-> "unused"]
  /\ waiting = [u \in Users |-> NoAttempt]
  /\ holds = [u \in Users |-> NoAttempt]
  /\ dropping = {}
  /\ onDisk \in BOOLEAN
  /\ saving = FALSE
  /\ panicked = FALSE
  /\ stuck = FALSE
  /\ displaced = FALSE

Running == ~panicked /\ ~stuck

\* Users with a strong reference to a's Index: their own, or the result kept
\* in the Shared future they still poll.
Referring(a) ==
  {u \in Users : holds[u] = a \/ (waiting[u] = a /\ phase[a] = "sent")}

\* The Shared future in the entry keeps the result too: an index that was
\* read from the store stays alive until its entry goes.
Alive(a) ==
  phase[a] = "sent" /\ (Referring(a) # {} \/ entry = InProgress(a))

Free(a) ==
  /\ phase[a] \in {"unused", "sent", "closed"}
  /\ entry.of # a
  /\ a \notin dropping
  /\ \A u \in Users : waiting[u] # a /\ holds[u] # a

\* The entry holds the last reference to an index.  An entry is always dropped
\* while the mutex is held, and the drop of that index waits for the mutex.
LastReference ==
  /\ entry.kind = "progress"
  /\ phase[entry.of] = "sent"
  /\ Referring(entry.of) = {}

-----------------------------------------------------------------------------
\* spawn_try_read, under the mutex of Indexes::get.
StartAttempt(u, a) ==
  /\ Free(a)
  /\ entry' = InProgress(a)
  /\ phase' = [phase EXCEPT ![a] = "reading"]
  /\ waiting' = [waiting EXCEPT ![u] = a]
  /\ UNCHANGED holds

\* Mutant of Get: an attempt under way is not waited for.
GetImpatient(u) ==
  /\ Running
  /\ waiting[u] = NoAttempt
  /\ holds[u] = NoAttempt
  /\ \E a \in Attempts : StartAttempt(u, a)
  /\ UNCHANGED <<dropping, onDisk, saving, panicked, stuck, displaced>>

\* Indexes::get.
Get(u) ==
  /\ Running
  /\ waiting[u] = NoAttempt
  /\ holds[u] = NoAttempt
  /\ \/ /\ entry.kind = "done"
        /\ Alive(entry.of)
        /\ holds' = [holds EXCEPT ![u] = entry.of]
        /\ UNCHANGED <<entry, phase, waiting>>
     \/ /\ entry.kind = "progress"
        /\ waiting' = [waiting EXCEPT ![u] = entry.of]
        /\ UNCHANGED <<entry, phase, holds>>
     \/ /\ entry.kind = "none" \/ (entry.kind = "done" /\ ~Alive(entry.of))
        /\ \E a \in Attempts : StartAttempt(u, a)
  /\ UNCHANGED <<dropping, onDisk, saving, panicked, stuck, displaced>>

\* The end of read_index: the result is sent, or a fetcher is spawned.
ReadIndex(a) ==
  /\ Running
  /\ phase[a] = "reading"
  /\ phase' = [phase EXCEPT ![a] = IF onDisk THEN "sent" ELSE "fetching"]
  /\ UNCHANGED <<entry, waiting, holds, dropping, onDisk, saving, panicked,
                 stuck, displaced>>

\* FetchBase::poll when a peer has answered with a valid index.  Attempts to
\* reach peers that fail (poll_state) only make it try again.  Were the future
\* abandoned, send would give the index back, to be dropped under the mutex.
Fetched(a) ==
  /\ Running
  /\ phase[a] = "fetching"
  /\ entry.kind = "progress"
  /\ entry' = Done(a)
  /\ stuck' = (LastReference \/ \A u \in Users : waiting[u] # a)
  /\ phase' = [phase EXCEPT ![a] = "sent"]
  /\ saving' = TRUE
  /\ UNCHANGED <<waiting, holds, dropping, onDisk, panicked, displaced>>

\* Mutant of Deadline: the sender stays with the entry, nobody is told.
DeadlineSilent(a) ==
  /\ Running
  /\ phase[a] = "fetching"
  /\ entry.kind = "progress"
  /\ entry' = NoEntry
  /\ phase' = [phase EXCEPT ![a] = "unused"]
  /\ UNCHANGED <<waiting, holds, dropping, onDisk, saving, panicked, stuck,
                 displaced>>

\* FetchBase::poll after RETRY_FOR: the entry goes, the sender is dropped.
Deadline(a) ==
  /\ Running
  /\ phase[a] = "fetching"
  /\ entry.kind = "progress"
  /\ entry' = NoEntry
  /\ stuck' = LastReference
  /\ phase' = [phase EXCEPT ![a] = "closed"]
  /\ UNCHANGED <<waiting, holds, dropping, onDisk, saving, panicked, displaced>>

\* FetchBase::poll when the entry is not an InProgress: unreachable!().
Unreachable(a) ==
  /\ Running
  /\ phase[a] = "fetching"
  /\ entry.kind # "progress"
  /\ panicked' = TRUE
  /\ UNCHANGED <<entry, phase, waiting, holds, dropping, onDisk, saving, stuck,
                 displaced>>

\* IndexFuture::poll: the index, or FutureClosed, which aborts the download.
Poll(u) ==
  /\ Running
  /\ waiting[u] # NoAttempt
  /\ phase[waiting[u]] \in {"sent", "closed"}
  /\ waiting' = [waiting EXCEPT ![u] = NoAttempt]
  /\ holds' = [holds EXCEPT ![u] =
        IF phase[waiting[u]] = "sent" THEN waiting[u] ELSE NoAttempt]
  /\ UNCHANGED <<entry, phase, dropping, onDisk, saving, panicked, stuck,
                 displaced>>

\* The download ends and lets go of its Index, on whatever thread.
Release(u) ==
  LET a == holds[u] IN
  /\ Running
  /\ a # NoAttempt
  /\ holds' = [holds EXCEPT ![u] = NoAttempt]
  /\ dropping' = IF Referring(a) = {u} /\ entry # InProgress(a)
                   THEN dropping \cup {a} ELSE dropping
  /\ UNCHANGED <<entry, phase, waiting, onDisk, saving, panicked, stuck, displaced>>

\* Mutant of DropInner: the entry stays.
DropInnerForgotten(a) ==
  /\ Running
  /\ a \in dropping
  /\ dropping' = dropping \ {a}
  /\ UNCHANGED <<entry, phase, waiting, holds, onDisk, saving, panicked, stuck,
                 displaced>>

\* Drop for Inner: lock, remove the entry of the id.
DropInner(a) ==
  /\ Running
  /\ a \in dropping
  /\ dropping' = dropping \ {a}
  /\ entry' = NoEntry
  /\ stuck' = LastReference
  /\ displaced' = (displaced \/ entry.of \notin {a, NoAttempt})
  /\ UNCHANGED <<phase, waiting, holds, onDisk, saving, panicked>>

\* The metadata store: a store_index ends (well or not), the index collector
\* removes the file.
StoreIndex ==
  /\ saving
  /\ saving' = FALSE
  /\ onDisk' \in {onDisk, TRUE}
  /\ UNCHANGED <<entry, phase, waiting, holds, dropping, panicked, stuck, displaced>>

CollectIndex ==
  /\ onDisk
  /\ onDisk' = FALSE
  /\ UNCHANGED <<entry, phase, waiting, holds, dropping, saving, panicked,
                 stuck, displaced>>

AttemptStep(a) == ReadIndex(a) \/ Fetched(a) \/ Deadline(a) \/ Unreachable(a)

Next ==
  \/ \E u \in Users : Get(u) \/ Poll(u) \/ Release(u)
  \/ \E a \in Attempts : AttemptStep(a) \/ DropInner(a)
  \/ StoreIndex \/ CollectIndex

Spec == Init /\ [][Next]_vars

\* The event loop polls every future that can go on; a fetch has a deadline.
Fairness ==
  /\ \A a \in Attempts : WF_vars(AttemptStep(a))
  /\ \A u \in Users : WF_vars(Poll(u))
FairSpec == Spec /\ Fairness

-----------------------------------------------------------------------------
(* Properties                                                              *)

\* The index of an image is read or fetched once at a time, by the attempt the
\* registry knows of, until the drop of an older index hits a newer entry.
OneAttempt ==
  displaced \/ \A a \in Attempts :
                 phase[a] \in {"reading", "fetching"} => entry = InProgress(a)

\* And that is the only way to the unreachable!() in FetchBase::poll and to a
\* thread that waits for the mutex it holds.
OnlyByDisplacement == panicked \/ stuck => displaced

\* The two together, in well-typed states: Indexes::get joins whoever asks for
\* an index to the one attempt there is, and no thread panics or waits for
\* itself while that is so.
RegistrySound == TypeOK /\ OneAttempt /\ OnlyByDisplacement

\* Done never lies: an entry is Done only for an index that was fetched and is
\* alive or about to be dropped; while it is alive nobody fetches it again.
CacheHonest ==
  displaced \/ (entry.kind = "done" =>
                  Alive(entry.of) \/ entry.of \in dropping)

\* A download that asked for an index gets it or an error.
Answered ==
  \A u \in Users : waiting[u] # NoAttempt ~> waiting[u] = NoAttempt \/ panicked \/ stuck
=============================================================================
