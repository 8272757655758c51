----------------------------- MODULE Retention -----------------------------
(***************************************************************************)
(* Which images of a base directory the daemon keeps: the policy           *)
(* cleanup::sort_out (src/daemon/cleanup/calc.rs) and its two users, the   *)
(* cleanup of the directory (tracking/cleanup.rs) and reconciliation       *)
(* (tracking/reconciliation.rs), which asks the same policy before it      *)
(* fetches what a peer has.                                                *)
(*                                                                         *)
(* One pass of either is one step here; how a pass interleaves with        *)
(* uploads is the subject of Uploads.tla.  sort_out sorts and cuts; equal  *)
(* timestamps come out in the order of a hash map, that is, in any order.  *)
(***************************************************************************)
EXTENDS Naturals, FiniteSetsExt

CONSTANTS
  Names,        \* names of image directories
  MaxTime,      \* bound on the clock
  KeepMin,      \* keep-min-directories
  KeepMax,      \* keep-max-directories
  KeepRecent    \* keep-recent

ASSUME RetentionAssumption ==
  /\ IsFiniteSet(Names)
  /\ MaxTime \in Nat
  /\ KeepMin \in Nat
  /\ KeepMax \in Nat
  /\ KeepRecent \in Nat

VARIABLES
  dirs,         \* names with a `.state` file
  stamps,       \* stamps[n]: timestamps of the signatures of n
  keepList,     \* names in keep-list-file
  clock,
  fetched,      \* history: what the last step fetched from a peer
  leftover      \* history: what it was to remove and has not, for an error

vars == <<dirs, stamps, keepList, clock, fetched, leftover>>

TypeOK ==
  /\ dirs \subseteq Names
  /\ stamps \in [Names -> SUBSET (0 .. MaxTime)]
  /\ keepList \subseteq Names
  /\ clock \in 0 .. MaxTime
  /\ fetched \subseteq dirs /\ leftover \subseteq dirs

Init ==
  /\ dirs = {}
  /\ stamps = [n \in Names |-> {}]
  /\ keepList \in SUBSET Names
  /\ clock = 0
  /\ fetched = {} /\ leftover = {}

-----------------------------------------------------------------------------
(* The policy.  `t` gives the timestamps of every item.                    *)

\* Mutant of BiggestTimestamp: a new signature makes the image recent again.
BiggestTimestampLast(t, n) == IF t[n] = {} THEN 0 ELSE Max(t[n])

\* biggest_timestamp, in fact the timestamp of the first signature.
BiggestTimestamp(t, n) == IF t[n] = {} THEN 0 ELSE Min(t[n])

\* `now - keep_recent <= timestamp`.
IsRecent(t, n) == clock <= BiggestTimestamp(t, n) + KeepRecent

\* T may be the k newest of S (all of S when there are not so many).
Newest(t, S, k, T) ==
  /\ T \subseteq S
  /\ Cardinality(T) = IF k < Cardinality(S) THEN k ELSE Cardinality(S)
  /\ \A x \in T, y \in S \ T : BiggestTimestamp(t, y) <= BiggestTimestamp(t, x)

\* sort_out may return `used` (and items \ used as unused): the recent ones, at
\* most KeepMax of them; the ones in the keep list; and when these are fewer
\* than KeepMin, the newest of the rest.
SortOut(t, items, used) ==
  \/ Cardinality(items) <= KeepMin /\ used = items
  \/ /\ Cardinality(items) > KeepMin
     /\ \E max \in SUBSET items :
          LET kept == max \cup (items \cap keepList) IN
          /\ Newest(t, {n \in items : IsRecent(t, n)}, KeepMax, max)
          /\ \/ Cardinality(kept) >= KeepMin /\ used = kept
             \/ /\ Cardinality(kept) < KeepMin
                /\ \E fill \in SUBSET items :
                     /\ Newest(t, items \ kept, KeepMin - Cardinality(kept), fill)
                     /\ used = kept \cup fill

-----------------------------------------------------------------------------
\* An upload of n, with the timestamp the client signed.
Upload(n, time) ==
  /\ n \notin dirs
  /\ time \in 0 .. clock
  /\ dirs' = dirs \cup {n}
  /\ stamps' = [stamps EXCEPT ![n] = {time}]
  /\ fetched' = {} /\ leftover' = {}
  /\ UNCHANGED <<keepList, clock>>

\* The same image is uploaded again: append_signatures.
Resign(n, time) ==
  /\ n \in dirs
  /\ time \in 0 .. clock
  /\ stamps' = [stamps EXCEPT ![n] = @ \cup {time}]
  /\ fetched' = {} /\ leftover' = {}
  /\ UNCHANGED <<dirs, keepList, clock>>

\* Mutant of Reconcile: the policy is not asked.
ReconcileAll(remote, times) ==
  /\ dirs' = dirs \cup remote
  /\ stamps' = [n \in Names |-> IF n \in remote THEN {times[n]} ELSE stamps[n]]
  /\ fetched' = remote /\ leftover' = {}
  /\ UNCHANGED <<keepList, clock>>

\* Reconciliation with a peer that has `remote` beside what we have: what is
\* going to be cleaned up again is not fetched.  Only the first of the peer's
\* signatures comes along; they are sorted, so that is the earliest, `times`.
\* (The throttle, which puts off part of it to the next time, and newer
\* versions of what we have are left out.)
Reconcile(remote, times) ==
  LET t == [n \in Names |-> IF n \in remote THEN {times[n]} ELSE stamps[n]] IN
  /\ remote # {}
  /\ \E used \in SUBSET (dirs \cup remote) :
       /\ SortOut(t, dirs \cup remote, used)
       /\ dirs' = dirs \cup (used \cap remote)
       /\ stamps' = [n \in Names |-> IF n \in used \cap remote THEN t[n]
                                                             ELSE stamps[n]]
       /\ fetched' = used \cap remote
  /\ leftover' = {}
  /\ UNCHANGED <<keepList, clock>>

\* A cleanup pass: scan_dir, read_keep_list, find_unused, then the removals, one
\* after the other.  The first that fails ends the pass; in what order they come
\* depends on a hash map and on the settings, so any part may be left over.
\* (dry_cleanup only changes a log message.)
Clean ==
  /\ \E used \in SUBSET dirs : \E left \in SUBSET (dirs \ used) :
       /\ SortOut(stamps, dirs, used)
       /\ dirs' = used \cup left
       /\ leftover' = left
       /\ stamps' = [n \in Names |-> IF n \in used \cup left THEN stamps[n] ELSE {}]
  /\ fetched' = {}
  /\ UNCHANGED <<keepList, clock>>

\* The administrator edits the keep list; a missing file counts as empty.
EditKeepList(list) ==
  /\ keepList' = list
  /\ fetched' = {} /\ leftover' = {}
  /\ UNCHANGED <<dirs, stamps, clock>>

Tick ==
  /\ clock < MaxTime
  /\ clock' = clock + 1
  /\ fetched' = {} /\ leftover' = {}
  /\ UNCHANGED <<dirs, stamps, keepList>>

Next ==
  \/ \E n \in Names, time \in 0 .. MaxTime : Upload(n, time) \/ Resign(n, time)
  \/ \E remote \in SUBSET (Names \ dirs) :
       \E times \in [remote -> 0 .. clock] : Reconcile(remote, times)
  \/ Clean
  \/ \E list \in SUBSET Names : EditKeepList(list)
  \/ Tick

Spec == Init /\ [][Next]_vars

-----------------------------------------------------------------------------
(* Properties                                                              *)

Removed == dirs \ dirs'

\* What a cleanup has judged used: all that is left, unless it was stopped.
Used == dirs' \ leftover'

\* keep-list-file: what is in the list is not cleaned up, not even when there
\* are more than keep-max-directories recent ones.
KeepListHonoured == [][Removed \cap keepList = {}]_vars

\* keep-min-directories: a cleanup leaves that many, or removes nothing.
MinimumLeft == [][Removed # {} => Cardinality(dirs') >= KeepMin]_vars

\* keep-max-directories: a cleanup that removes something and is not stopped
\* leaves no more than that outside the keep list (or keep-min-directories, if
\* that is more); one that is stopped has judged no more than that used.
MaximumLeft ==
  [][Removed # {} => Cardinality(Used \ keepList) <= Max({KeepMin, KeepMax})]_vars

\* Recency goes by the first signature: whatever was removed was signed first
\* no later than everything outside the keep list that is left, or, of a pass
\* that was stopped, was not to be removed too; a repeated upload does not make
\* an image younger.
OldestGoFirst ==
  [][\A x \in Removed, y \in Used \ keepList :
        \E s \in stamps[x] : \A r \in stamps[y] : s <= r]_vars

\* keep-recent: a directory first signed within keep-recent is only removed
\* when keep-max-directories others of that kind are left.
RecentKept ==
  [][\A x \in Removed :
        (\A s \in stamps[x] : clock <= s + KeepRecent)
        => Cardinality({y \in Used : IsRecent(stamps, y)}) >= KeepMax]_vars

\* What the keep-* settings promise: of every cleanup that nothing is removed
\* which they protect, and of one that comes to its end that they are met.
PolicyKept ==
  KeepListHonoured /\ MinimumLeft /\ MaximumLeft /\ OldestGoFirst /\ RecentKept

\* Reconciliation and cleanup agree: what was just fetched from a peer is not
\* removed by a cleanup right after, unless two images have the same timestamp.
FetchedIsKept ==
  [][(\A x, y \in dirs :
        BiggestTimestamp(stamps, x) = BiggestTimestamp(stamps, y) => x = y)
      => Removed \cap fetched = {}]_vars
=============================================================================
