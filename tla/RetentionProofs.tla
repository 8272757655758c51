--------------------------- MODULE RetentionProofs ---------------------------
(***************************************************************************)
(* Proofs about Retention.tla, for any names, any keep-* settings and any  *)
(* bound on the clock: a cleanup does what the settings promise, and it    *)
(* does not remove what reconciliation has just fetched.                   *)
(***************************************************************************)
EXTENDS Retention, FiniteSetTheorems, WellFoundedInduction, TLAPS

USE RetentionAssumption

-----------------------------------------------------------------------------
(* Timestamps and sets.                                                    *)

\* A set of timestamps has a first one.
LEMMA FirstStamp ==
  ASSUME NEW S \in SUBSET Nat, S # {}
  PROVE  Min(S) \in S /\ \A y \in S : Min(S) <= y
<1>1. PICK x \in S : \A y \in S : <<y, x>> \notin OpToRel(<, Nat)
  BY NatLessThanWellFounded, WFMin
<1>2. \A y \in S : ~(y < x)
  BY <1>1 DEF OpToRel
<1>3. \E z \in S : \A y \in S : z =< y
  BY <1>2
<1> QED BY <1>3 DEF Min

\* The larger of two settings.
LEMMA MaxOfTwo ==
  ASSUME NEW a \in Nat, NEW b \in Nat
  PROVE  Max({a, b}) \in Nat /\ a <= Max({a, b}) /\ b <= Max({a, b})
<1>1. \E x \in {a, b} : \A y \in {a, b} : x >= y
  OBVIOUS
<1>2. Max({a, b}) \in {a, b} /\ \A y \in {a, b} : Max({a, b}) >= y
  BY <1>1 DEF Max
<1> QED BY <1>2

\* Sets of names are finite.
LEMMA NamesFinite ==
  ASSUME NEW S \in SUBSET Names
  PROVE  IsFiniteSet(S) /\ Cardinality(S) \in Nat
BY FS_Subset, FS_CardinalityType

\* A set of names has at least as many members as a part of it, and only the
\* set itself has as many.
LEMMA PartOf ==
  ASSUME NEW S \in SUBSET Names, NEW T \in SUBSET S
  PROVE  /\ Cardinality(T) <= Cardinality(S)
         /\ Cardinality(T) = Cardinality(S) => T = S
BY NamesFinite, FS_Subset

\* biggest_timestamp is a timestamp.
LEMMA BiggestNat ==
  ASSUME NEW t \in [Names -> SUBSET (0 .. MaxTime)], NEW n \in Names
  PROVE  /\ BiggestTimestamp(t, n) \in Nat
         /\ t[n] # {} => /\ BiggestTimestamp(t, n) \in t[n]
                         /\ \A s \in t[n] : BiggestTimestamp(t, n) <= s
<1>1. t[n] \in SUBSET Nat
  OBVIOUS
<1> QED BY <1>1, FirstStamp DEF BiggestTimestamp

-----------------------------------------------------------------------------
(* The policy.                                                             *)

\* Two choices of the newest agree, when the one from the larger set is from
\* the smaller too and the timestamps there differ.
LEMMA NewestSame ==
  ASSUME NEW t \in [Names -> SUBSET (0 .. MaxTime)],
         NEW s \in [Names -> SUBSET (0 .. MaxTime)],
         NEW S \in SUBSET Names, NEW D \in SUBSET S, \A n \in D : t[n] = s[n],
         NEW k \in Nat, NEW T \in SUBSET D, NEW R,
         Newest(t, S, k, T), Newest(s, D, k, R),
         \A x, y \in D : BiggestTimestamp(s, x) = BiggestTimestamp(s, y) => x = y
  PROVE  T = R
<1>1. /\ R \subseteq D
      /\ Cardinality(T) = IF k < Cardinality(S) THEN k ELSE Cardinality(S)
      /\ Cardinality(R) = IF k < Cardinality(D) THEN k ELSE Cardinality(D)
      /\ \A x \in T, y \in S \ T : BiggestTimestamp(t, y) <= BiggestTimestamp(t, x)
      /\ \A x \in R, y \in D \ R : BiggestTimestamp(s, y) <= BiggestTimestamp(s, x)
  BY DEF Newest
<1>2. \A n \in D : BiggestTimestamp(t, n) = BiggestTimestamp(s, n)
  BY DEF BiggestTimestamp
<1>3. \A n \in D : BiggestTimestamp(s, n) \in Nat
  BY BiggestNat
<1>4. /\ Cardinality(S) \in Nat /\ Cardinality(D) \in Nat /\ Cardinality(T) \in Nat
      /\ Cardinality(D) <= Cardinality(S) /\ Cardinality(T) <= Cardinality(D)
  BY NamesFinite, PartOf
<1>5. Cardinality(R) = Cardinality(T)
  BY <1>1, <1>4
<1>6. CASE T \subseteq R
  BY <1>1, <1>5, <1>6, PartOf
<1>7. CASE R \subseteq T
  BY <1>5, <1>7, PartOf
<1>8. CASE ~(T \subseteq R) /\ ~(R \subseteq T)
  <2>1. PICK x \in T : x \notin R
    BY <1>8
  <2>2. PICK y \in R : y \notin T
    BY <1>8
  <2>3. x \in D /\ y \in D
    BY <1>1
  <2>4. BiggestTimestamp(s, y) <= BiggestTimestamp(s, x)
    BY <1>1, <1>2, <2>2, <2>3
  <2>5. BiggestTimestamp(s, x) <= BiggestTimestamp(s, y)
    BY <1>1, <2>1, <2>3
  <2>6. x = y
    BY <1>3, <2>3, <2>4, <2>5
  <2> QED BY <2>1, <2>6
<1> QED BY <1>6, <1>7, <1>8

\* What sort_out keeps of more than keep-min-directories.
LEMMA SortedOut ==
  ASSUME NEW t, NEW items \in SUBSET Names, NEW used, Cardinality(items) > KeepMin,
         SortOut(t, items, used)
  PROVE  \E max \in SUBSET items, fill \in SUBSET items :
              LET kept == max \cup (items \cap keepList) IN
              /\ Newest(t, {n \in items : IsRecent(t, n)}, KeepMax, max)
              /\ used = kept \cup fill
              /\ \/ fill = {} /\ Cardinality(kept) >= KeepMin
                 \/ /\ Cardinality(kept) < KeepMin
                    /\ Newest(t, items \ kept, KeepMin - Cardinality(kept), fill)
<1>1. PICK max \in SUBSET items :
          LET kept == max \cup (items \cap keepList) IN
          /\ Newest(t, {n \in items : IsRecent(t, n)}, KeepMax, max)
          /\ \/ Cardinality(kept) >= KeepMin /\ used = kept
             \/ /\ Cardinality(kept) < KeepMin
                /\ \E fill \in SUBSET items :
                     /\ Newest(t, items \ kept, KeepMin - Cardinality(kept), fill)
                     /\ used = kept \cup fill
  <2>1. Cardinality(items) \in Nat
    BY NamesFinite
  <2>2. ~(Cardinality(items) <= KeepMin)
    BY <2>1
  <2> QED BY <2>2, Zenon DEF SortOut
<1> DEFINE kept == max \cup (items \cap keepList)
<1>3. CASE Cardinality(kept) >= KeepMin /\ used = kept
  BY <1>1, <1>3
<1>4. ASSUME Cardinality(kept) < KeepMin, NEW fill \in SUBSET items,
             Newest(t, items \ kept, KeepMin - Cardinality(kept), fill),
             used = kept \cup fill
      PROVE  \E m \in SUBSET items, f \in SUBSET items :
              LET k == m \cup (items \cap keepList) IN
              /\ Newest(t, {n \in items : IsRecent(t, n)}, KeepMax, m)
              /\ used = k \cup f
              /\ \/ f = {} /\ Cardinality(k) >= KeepMin
                 \/ /\ Cardinality(k) < KeepMin
                    /\ Newest(t, items \ k, KeepMin - Cardinality(k), f)
  BY <1>1, <1>4
<1> QED BY <1>1, <1>3, <1>4

\* A cleanup that fills up to keep-min-directories leaves exactly that many.
LEMMA FilledUp ==
  ASSUME NEW t, NEW items \in SUBSET Names, NEW kept \in SUBSET items,
         NEW fill \in SUBSET items, Cardinality(kept) < KeepMin,
         Newest(t, items \ kept, KeepMin - Cardinality(kept), fill),
         kept \cup fill # items
  PROVE  Cardinality(kept \cup fill) = KeepMin
<1>1. fill \subseteq items \ kept
  BY DEF Newest
<1>2. /\ Cardinality(kept) \in Nat /\ Cardinality(fill) \in Nat
      /\ Cardinality(items \ kept) \in Nat /\ IsFiniteSet(kept) /\ IsFiniteSet(fill)
  BY NamesFinite
<1>3. Cardinality(fill) # Cardinality(items \ kept)
  <2>1. fill # items \ kept
    OBVIOUS
  <2>2. items \ kept \in SUBSET Names /\ fill \in SUBSET (items \ kept)
    BY <1>1
  <2> QED BY <2>1, <2>2, PartOf
<1>4. Cardinality(fill) = KeepMin - Cardinality(kept)
  BY <1>2, <1>3 DEF Newest
<1>5. Cardinality(kept \cup fill) = Cardinality(kept) + Cardinality(fill) - Cardinality(kept \cap fill)
  BY <1>2, FS_Union
<1>6. Cardinality(kept \cap fill) = 0
  <2>1. kept \cap fill = {}
    BY <1>1
  <2> QED BY <2>1, FS_EmptySet
<1> QED BY <1>2, <1>4, <1>5, <1>6

-----------------------------------------------------------------------------
(* A cleanup.                                                              *)

\* Every directory is signed.
Stamped == \A n \in dirs : stamps[n] # {}

\* What the settings promise of a step.
PolicyStep ==
  /\ Removed \cap keepList = {}
  /\ Removed # {} => Cardinality(dirs') >= KeepMin
  /\ Removed # {} => Cardinality(Used \ keepList) <= Max({KeepMin, KeepMax})
  /\ \A x \in Removed, y \in Used \ keepList :
        \E s \in stamps[x] : \A r \in stamps[y] : s <= r
  /\ \A x \in Removed :
        (\A s \in stamps[x] : clock <= s + KeepRecent)
        => Cardinality({y \in Used : IsRecent(stamps, y)}) >= KeepMax

\* A cleanup keeps its promises.
LEMMA CleanKeeps ==
  ASSUME TypeOK, Stamped, Clean
  PROVE  PolicyStep
<1>1. /\ dirs \in SUBSET Names /\ stamps \in [Names -> SUBSET (0 .. MaxTime)]
      /\ clock \in Nat
  BY DEF TypeOK
<1>2. PICK used \in SUBSET dirs : \E left \in SUBSET (dirs \ used) :
        SortOut(stamps, dirs, used) /\ dirs' = used \cup left /\ leftover' = left
  BY DEF Clean
<1>u. SortOut(stamps, dirs, used) /\ Used = used /\ used \subseteq dirs' /\ dirs' \subseteq dirs
  BY <1>2 DEF Used
<1>3. CASE used = dirs
  BY <1>u, <1>3 DEF PolicyStep, Removed
<1>4. CASE used # dirs
  <2> DEFINE Recent == {n \in dirs : IsRecent(stamps, n)}
             BT(n) == BiggestTimestamp(stamps, n)
  <2>0. Cardinality(dirs) > KeepMin
    BY <1>u, <1>4 DEF SortOut
  <2>1. PICK max \in SUBSET dirs, fill \in SUBSET dirs :
              LET kept == max \cup (dirs \cap keepList) IN
              /\ Newest(stamps, Recent, KeepMax, max)
              /\ used = kept \cup fill
              /\ \/ fill = {} /\ Cardinality(kept) >= KeepMin
                 \/ /\ Cardinality(kept) < KeepMin
                    /\ Newest(stamps, dirs \ kept, KeepMin - Cardinality(kept), fill)
    BY <1>1, <1>u, <2>0, SortedOut
  <2> DEFINE kept == max \cup (dirs \cap keepList)
  <2>2. /\ Newest(stamps, Recent, KeepMax, max)
        /\ used = kept \cup fill /\ kept \in SUBSET dirs
        /\ \/ fill = {} /\ Cardinality(kept) >= KeepMin
           \/ /\ Cardinality(kept) < KeepMin
              /\ Newest(stamps, dirs \ kept, KeepMin - Cardinality(kept), fill)
    BY <2>1
  <2>3. \/ fill = {} /\ Cardinality(used) >= KeepMin
        \/ Cardinality(used) = KeepMin
    BY <1>1, <1>4, <2>2, FilledUp
  <2>4. /\ Cardinality(used) \in Nat /\ Cardinality(max) \in Nat /\ Cardinality(Recent) \in Nat
        /\ Cardinality(used \ keepList) \in Nat
        /\ max \subseteq Recent /\ Recent \in SUBSET Names
    BY <1>1, <2>2, NamesFinite DEF Newest
  <2>5. Cardinality(max) = IF KeepMax < Cardinality(Recent) THEN KeepMax ELSE Cardinality(Recent)
    BY <2>2 DEF Newest
  <2>6. \A n \in dirs : BT(n) \in stamps[n] /\ BT(n) \in Nat /\ \A r \in stamps[n] : BT(n) <= r
    BY <1>1, BiggestNat DEF Stamped
  <2>7. Removed \subseteq dirs \ used
    BY <1>u DEF Removed
  <2>8. Removed \cap keepList = {}
    BY <2>2, <2>7
  <2>9. Cardinality(dirs') >= KeepMin
    <3>1. Cardinality(used) <= Cardinality(dirs') /\ Cardinality(dirs') \in Nat
      BY <1>1, <1>u, PartOf, NamesFinite
    <3> QED BY <2>3, <2>4, <3>1
  <2>10. Cardinality(Used \ keepList) <= Max({KeepMin, KeepMax})
    <3>1. KeepMin <= Max({KeepMin, KeepMax}) /\ KeepMax <= Max({KeepMin, KeepMax})
          /\ Max({KeepMin, KeepMax}) \in Nat
      BY MaxOfTwo
    <3>2. CASE fill = {}
      <4>1. used \ keepList \in SUBSET max /\ max \in SUBSET Names
        BY <1>1, <2>2, <3>2
      <4>2. Cardinality(used \ keepList) <= Cardinality(max)
        BY <4>1, PartOf
      <4> QED BY <1>u, <2>4, <2>5, <3>1, <4>2
    <3>3. CASE Cardinality(used) = KeepMin
      <4>1. used \ keepList \in SUBSET used /\ used \in SUBSET Names
        BY <1>1
      <4>2. Cardinality(used \ keepList) <= Cardinality(used)
        BY <4>1, PartOf
      <4> QED BY <1>u, <2>4, <3>1, <3>3, <4>2
    <3> QED BY <2>3, <3>2, <3>3
  <2>11. ASSUME NEW x \in Removed, NEW y \in Used \ keepList
         PROVE  \E s \in stamps[x] : \A r \in stamps[y] : s <= r
    <3>1. x \in dirs /\ x \notin used /\ y \in dirs /\ y \in used /\ y \notin keepList
      BY <1>u, <2>7
    <3>2. BT(x) <= BT(y)
      <4>1. CASE y \in max /\ x \in Recent
        BY <2>2, <3>1, <4>1 DEF Newest
      <4>2. CASE y \in max /\ x \notin Recent
        <5>1. clock <= BT(y) + KeepRecent
          BY <2>4, <4>2 DEF IsRecent
        <5>2. ~(clock <= BT(x) + KeepRecent)
          BY <3>1, <4>2 DEF IsRecent
        <5>3. BT(x) \in Nat /\ BT(y) \in Nat
          BY <2>6, <3>1
        <5> HIDE DEF BT
        <5> QED BY <1>1, <5>1, <5>2, <5>3
      <4>3. CASE y \in fill
        <5>1. Newest(stamps, dirs \ kept, KeepMin - Cardinality(kept), fill)
          BY <2>2, <4>3
        <5>2. x \in (dirs \ kept) \ fill
          BY <2>2, <3>1
        <5> QED BY <4>3, <5>1, <5>2 DEF Newest
      <4> QED BY <2>2, <3>1, <4>1, <4>2, <4>3
    <3>3. BT(x) \in stamps[x]
      BY <2>6, <3>1
    <3>4. \A r \in stamps[y] : BT(y) <= r
      BY <2>6, <3>1
    <3>5. \A r \in stamps[y] : r \in Nat
      BY <1>1, <3>1
    <3>6. BT(x) \in Nat /\ BT(y) \in Nat
      BY <2>6, <3>1
    <3> HIDE DEF BT
    <3>7. \A r \in stamps[y] : BT(x) <= r
      BY <3>2, <3>4, <3>5, <3>6
    <3> QED BY <3>3, <3>7
  <2>12. ASSUME NEW x \in Removed, \A s \in stamps[x] : clock <= s + KeepRecent
         PROVE  Cardinality({y \in Used : IsRecent(stamps, y)}) >= KeepMax
    <3>1. x \in dirs /\ x \notin max
      BY <2>2, <2>7
    <3>2. x \in Recent
      BY <2>6, <2>12, <3>1 DEF IsRecent
    <3>3. Cardinality(max) = KeepMax
      <4>1. Cardinality(max) # Cardinality(Recent)
        BY <2>4, <3>1, <3>2, PartOf
      <4> QED BY <2>5, <4>1
    <3> DEFINE Left == {y \in Used : IsRecent(stamps, y)}
    <3>4. max \in SUBSET Left /\ Left \in SUBSET Names
      BY <1>1, <1>u, <2>2, <2>4
    <3>5. Cardinality(max) <= Cardinality(Left) /\ Cardinality(Left) \in Nat
      BY <3>4, PartOf, NamesFinite
    <3> QED BY <3>3, <3>5
  <2> QED BY <2>8, <2>9, <2>10, <2>11, <2>12 DEF PolicyStep
<1> QED BY <1>3, <1>4

\* Types, and signatures; from the start and in every step.
LEMMA RetentionTyped ==
  /\ Init => TypeOK /\ Stamped
  /\ TypeOK /\ Stamped /\ [Next]_vars => (TypeOK /\ Stamped)'
<1>1. Init => TypeOK /\ Stamped
  <2>1. 0 \in 0 .. MaxTime
    OBVIOUS
  <2> QED BY <2>1 DEF Init, TypeOK, Stamped
<1>2. ASSUME TypeOK, Stamped, [Next]_vars
      PROVE  (TypeOK /\ Stamped)'
  <2> USE DEF TypeOK, Stamped
  <2>1. ASSUME NEW n \in Names, NEW time \in 0 .. MaxTime, Upload(n, time) \/ Resign(n, time)
        PROVE  (TypeOK /\ Stamped)'
    BY <1>2, <2>1 DEF Upload, Resign
  <2>2. ASSUME NEW remote \in SUBSET (Names \ dirs), NEW times \in [remote -> 0 .. clock],
               Reconcile(remote, times)
        PROVE  (TypeOK /\ Stamped)'
    <3> DEFINE t == [n \in Names |-> IF n \in remote THEN {times[n]} ELSE stamps[n]]
    <3>1. PICK used \in SUBSET (dirs \cup remote) :
            /\ dirs' = dirs \cup (used \cap remote)
            /\ stamps' = [n \in Names |-> IF n \in used \cap remote THEN t[n] ELSE stamps[n]]
            /\ fetched' = used \cap remote
      BY <2>2 DEF Reconcile
    <3>2. \A n \in remote : times[n] \in 0 .. MaxTime
      BY <1>2
    <3>3. t \in [Names -> SUBSET (0 .. MaxTime)] /\ \A n \in remote : t[n] # {}
      BY <1>2, <3>2
    <3>4. leftover' = {} /\ UNCHANGED <<keepList, clock>>
      BY <2>2 DEF Reconcile
    <3> HIDE DEF t
    <3> QED BY <1>2, <3>1, <3>3, <3>4
  <2>3. CASE Clean
    <3>1. PICK rest \in SUBSET dirs :
            /\ dirs' = rest
            /\ stamps' = [n \in Names |-> IF n \in rest THEN stamps[n] ELSE {}]
            /\ leftover' \subseteq rest
      <4>1. PICK used \in SUBSET dirs : \E left \in SUBSET (dirs \ used) :
              /\ dirs' = used \cup left
              /\ leftover' = left
              /\ stamps' = [n \in Names |-> IF n \in used \cup left THEN stamps[n] ELSE {}]
        BY <2>3 DEF Clean
      <4>2. PICK left \in SUBSET (dirs \ used) :
              /\ dirs' = used \cup left
              /\ leftover' = left
              /\ stamps' = [n \in Names |-> IF n \in used \cup left THEN stamps[n] ELSE {}]
        BY <4>1
      <4>3. used \cup left \in SUBSET dirs
        OBVIOUS
      <4> QED BY <4>2, <4>3
    <3> QED BY <1>2, <2>3, <3>1 DEF Clean
  <2>4. ASSUME NEW list \in SUBSET Names, EditKeepList(list)
        PROVE  (TypeOK /\ Stamped)'
    BY <1>2, <2>4 DEF EditKeepList
  <2>5. CASE Tick
    BY <1>2, <2>5 DEF Tick
  <2>6. CASE UNCHANGED vars
    BY <1>2, <2>6 DEF vars
  <2> QED BY <1>2, <2>1, <2>2, <2>3, <2>4, <2>5, <2>6 DEF Next
<1> QED BY <1>1, <1>2

\* A step that removes something is a cleanup.
LEMMA OnlyCleanRemoves ==
  ASSUME [Next]_vars, ~Clean
  PROVE  Removed = {}
<1>1. CASE \E remote \in SUBSET (Names \ dirs) :
             \E times \in [remote -> 0 .. clock] : Reconcile(remote, times)
  BY <1>1 DEF Reconcile, Removed
<1>2. CASE ~\E remote \in SUBSET (Names \ dirs) :
             \E times \in [remote -> 0 .. clock] : Reconcile(remote, times)
  BY <1>2 DEF Next, vars, Upload, Resign, EditKeepList, Tick, Removed
<1> QED BY <1>1, <1>2

\* Whatever was uploaded, signed again or fetched before, and wherever an error
\* stops it, a cleanup removes only what the keep-* settings allow; one that
\* comes to its end meets them all, for any settings.
THEOREM PolicySafe == Spec => PolicyKept
<1>1. Init => TypeOK /\ Stamped
  BY RetentionTyped
<1>2. TypeOK /\ Stamped /\ [Next]_vars => (TypeOK /\ Stamped)'
  BY RetentionTyped
<1>3. TypeOK /\ Stamped /\ [Next]_vars =>
        /\ [Removed \cap keepList = {}]_vars
        /\ [Removed # {} => Cardinality(dirs') >= KeepMin]_vars
        /\ [Removed # {} => Cardinality(Used \ keepList) <= Max({KeepMin, KeepMax})]_vars
        /\ [\A x \in Removed, y \in Used \ keepList :
              \E s \in stamps[x] : \A r \in stamps[y] : s <= r]_vars
        /\ [\A x \in Removed :
              (\A s \in stamps[x] : clock <= s + KeepRecent)
              => Cardinality({y \in Used : IsRecent(stamps, y)}) >= KeepMax]_vars
  <2> SUFFICES ASSUME TypeOK, Stamped, [Next]_vars PROVE PolicyStep
    BY DEF PolicyStep
  <2>1. CASE Clean
    BY <2>1, CleanKeeps
  <2>2. CASE ~Clean
    BY <2>2, OnlyCleanRemoves DEF PolicyStep
  <2> QED BY <2>1, <2>2
<1> QED BY <1>1, <1>2, <1>3, PTL
        DEF Spec, PolicyKept, KeepListHonoured, MinimumLeft, MaximumLeft, OldestGoFirst, RecentKept

-----------------------------------------------------------------------------
(* Reconciliation and cleanup ask the same policy.                         *)

\* Sorted out of a part D of the items that has everything the policy keeps of
\* all of them, nothing of that is removed.
LEMMA SortedAgain ==
  ASSUME NEW t \in [Names -> SUBSET (0 .. MaxTime)],
         NEW s \in [Names -> SUBSET (0 .. MaxTime)],
         NEW items \in SUBSET Names, NEW D \in SUBSET items, \A n \in D : t[n] = s[n],
         NEW used \in SUBSET D, NEW left \in SUBSET D,
         SortOut(t, items, used), SortOut(s, D, left),
         \A x, y \in D : BiggestTimestamp(s, x) = BiggestTimestamp(s, y) => x = y
  PROVE  used \subseteq left
<1>1. CASE left = D
  BY <1>1
<1>2. CASE left # D
  <2>0. Cardinality(D) > KeepMin /\ Cardinality(items) > KeepMin
    <3>1. Cardinality(D) > KeepMin
      BY <1>2 DEF SortOut
    <3>2. Cardinality(D) \in Nat /\ Cardinality(items) \in Nat /\ Cardinality(D) <= Cardinality(items)
      BY NamesFinite, PartOf
    <3> QED BY <3>1, <3>2
  <2> DEFINE Recent(u, S) == {n \in S : IsRecent(u, n)}
             Kept(m, S) == m \cup (S \cap keepList)
  <2>1. PICK max \in SUBSET items, fill \in SUBSET items :
              /\ Newest(t, Recent(t, items), KeepMax, max)
              /\ used = Kept(max, items) \cup fill
              /\ \/ fill = {} /\ Cardinality(Kept(max, items)) >= KeepMin
                 \/ /\ Cardinality(Kept(max, items)) < KeepMin
                    /\ Newest(t, items \ Kept(max, items),
                              KeepMin - Cardinality(Kept(max, items)), fill)
    BY <2>0, SortedOut
  <2>2. PICK max2 \in SUBSET D, fill2 \in SUBSET D :
              /\ Newest(s, Recent(s, D), KeepMax, max2)
              /\ left = Kept(max2, D) \cup fill2
              /\ \/ fill2 = {} /\ Cardinality(Kept(max2, D)) >= KeepMin
                 \/ /\ Cardinality(Kept(max2, D)) < KeepMin
                    /\ Newest(s, D \ Kept(max2, D),
                              KeepMin - Cardinality(Kept(max2, D)), fill2)
    BY <2>0, SortedOut
  <2>3. max = max2
    <3>1. \A n \in D : IsRecent(t, n) <=> IsRecent(s, n)
      BY DEF IsRecent, BiggestTimestamp
    <3>2. max \in SUBSET Recent(s, D) /\ Recent(s, D) \in SUBSET Recent(t, items)
      BY <2>1, <3>1 DEF Newest
    <3>3. Recent(t, items) \in SUBSET Names /\ KeepMax \in Nat
      OBVIOUS
    <3>4. /\ \A n \in Recent(s, D) : t[n] = s[n]
          /\ \A x, y \in Recent(s, D) :
               BiggestTimestamp(s, x) = BiggestTimestamp(s, y) => x = y
      OBVIOUS
    <3> HIDE DEF Recent
    <3> QED BY <2>1, <2>2, <3>2, <3>3, <3>4, NewestSame
  <2>4. Kept(max, items) = Kept(max2, D)
    BY <2>1, <2>3
  <2> DEFINE kept == Kept(max, items)
  <2>5. kept \in SUBSET Names /\ Cardinality(kept) \in Nat
    BY <2>1, NamesFinite
  <2>6. CASE Cardinality(kept) >= KeepMin
    <3>1. fill = {}
      BY <2>1, <2>5, <2>6
    <3> QED BY <2>1, <2>2, <2>4, <3>1
  <2>7. CASE Cardinality(kept) < KeepMin
    <3>1. /\ Newest(t, items \ kept, KeepMin - Cardinality(kept), fill)
          /\ Newest(s, D \ kept, KeepMin - Cardinality(kept), fill2)
      <4>1. ~(Cardinality(kept) >= KeepMin)
        BY <2>5, <2>7
      <4>2. Newest(t, items \ kept, KeepMin - Cardinality(kept), fill)
        BY <2>1, <4>1, Zenon
      <4>3. Kept(max2, D) = kept
        BY <2>4
      <4> HIDE DEF kept, Kept
      <4>4. Newest(s, D \ kept, KeepMin - Cardinality(kept), fill2)
        BY <2>2, <4>1, <4>3
      <4> QED BY <4>2, <4>4
    <3>2. fill \in SUBSET (D \ kept) /\ D \ kept \in SUBSET (items \ kept)
      BY <2>1, <3>1 DEF Newest
    <3>3. items \ kept \in SUBSET Names /\ KeepMin - Cardinality(kept) \in Nat
      BY <2>5, <2>7
    <3>4. /\ \A n \in D \ kept : t[n] = s[n]
          /\ \A x, y \in D \ kept : BiggestTimestamp(s, x) = BiggestTimestamp(s, y) => x = y
      OBVIOUS
    <3>5. fill = fill2
      <4> HIDE DEF kept
      <4> QED BY <3>1, <3>2, <3>3, <3>4, NewestSame
    <3> QED BY <2>1, <2>2, <2>4, <3>5
  <2> QED BY <2>5, <2>6, <2>7
<1> QED BY <1>1, <1>2

\* What was just fetched is what the policy kept of a set of items, of which
\* everything it kept is here.
FetchedUsed ==
  fetched # {} =>
    \E items \in SUBSET Names, t \in [Names -> SUBSET (0 .. MaxTime)] :
    \E used \in SUBSET dirs :
      /\ dirs \subseteq items /\ fetched \subseteq used
      /\ \A n \in dirs : t[n] = stamps[n]
      /\ SortOut(t, items, used)

\* The policy goes by the keep list and the clock only.
LEMMA SameAnswer ==
  ASSUME NEW t, NEW items, NEW used, SortOut(t, items, used),
         keepList' = keepList, clock' = clock
  PROVE  SortOut(t, items, used)'
BY Zenon DEF SortOut, Newest, IsRecent, BiggestTimestamp

\* Only reconciliation fetches.
LEMMA FetchedStep ==
  ASSUME TypeOK, FetchedUsed, [Next]_vars
  PROVE  FetchedUsed'
<1>1. ASSUME NEW remote \in SUBSET (Names \ dirs), NEW times \in [remote -> 0 .. clock],
             Reconcile(remote, times)
      PROVE  FetchedUsed'
  <2> DEFINE t == [n \in Names |-> IF n \in remote THEN {times[n]} ELSE stamps[n]]
             items == dirs \cup remote
  <2>1. PICK used \in SUBSET items :
          /\ SortOut(t, items, used)
          /\ dirs' = dirs \cup (used \cap remote)
          /\ stamps' = [n \in Names |-> IF n \in used \cap remote THEN t[n] ELSE stamps[n]]
          /\ fetched' = used \cap remote
    BY <1>1 DEF Reconcile
  <2>2. dirs \subseteq Names /\ items \in SUBSET Names
    BY DEF TypeOK
  <2>3. t \in [Names -> SUBSET (0 .. MaxTime)]
    <3>1. \A n \in remote : times[n] \in 0 .. MaxTime
      BY DEF TypeOK
    <3> QED BY <3>1 DEF TypeOK
  <2>4. used \in SUBSET dirs' /\ dirs' \subseteq items /\ fetched' \subseteq used
    BY <2>1
  <2>5. \A n \in dirs' : t[n] = stamps'[n]
    BY <2>1, <2>2
  <2>6. PICK t0, items0 : t0 = t /\ items0 = items
    OBVIOUS
  <2>7. SortOut(t0, items0, used)'
    <3>1. keepList' = keepList /\ clock' = clock
      BY <1>1 DEF Reconcile
    <3>2. SortOut(t0, items0, used)
      BY <2>1, <2>6
    <3> QED BY <3>1, <3>2, SameAnswer
  <2>8. /\ items0 \in SUBSET Names /\ t0 \in [Names -> SUBSET (0 .. MaxTime)]
        /\ used \in SUBSET dirs' /\ dirs' \subseteq items0 /\ fetched' \subseteq used
        /\ \A n \in dirs' : t0[n] = stamps'[n]
    <3> HIDE DEF t, items
    <3> QED BY <2>2, <2>3, <2>4, <2>5, <2>6
  <2> QED BY <2>7, <2>8, Zenon DEF FetchedUsed
<1>2. CASE fetched' = {}
  BY <1>2 DEF FetchedUsed
<1>3. CASE UNCHANGED vars
  <2>1. /\ dirs' = dirs /\ stamps' = stamps /\ keepList' = keepList /\ clock' = clock
        /\ fetched' = fetched
    BY <1>3 DEF vars
  <2>2. CASE fetched = {}
    BY <2>1, <2>2 DEF FetchedUsed
  <2>3. CASE fetched # {}
    <3>1. PICK items \in SUBSET Names, t \in [Names -> SUBSET (0 .. MaxTime)] :
          \E used \in SUBSET dirs :
            /\ dirs \subseteq items /\ fetched \subseteq used
            /\ \A n \in dirs : t[n] = stamps[n]
            /\ SortOut(t, items, used)
      BY <2>3 DEF FetchedUsed
    <3>2. PICK used \in SUBSET dirs :
            /\ dirs \subseteq items /\ fetched \subseteq used
            /\ \A n \in dirs : t[n] = stamps[n]
            /\ SortOut(t, items, used)
      BY <3>1
    <3>3. SortOut(t, items, used)'
      BY <2>1, <3>2, SameAnswer
    <3> QED BY <2>1, <3>2, <3>3, Zenon DEF FetchedUsed
  <2> QED BY <2>2, <2>3
<1> QED BY <1>1, <1>2, <1>3 DEF Next, Upload, Resign, Clean, EditKeepList, Tick

\* What was fetched from a peer is not removed by a cleanup right after, unless
\* two of the directories have the same timestamp, for any settings.
THEOREM FetchedSafe == Spec => FetchedIsKept
<1> DEFINE Inv == TypeOK /\ Stamped /\ FetchedUsed
           Differ == \A x, y \in dirs :
             BiggestTimestamp(stamps, x) = BiggestTimestamp(stamps, y) => x = y
<1>1. Init => Inv
  BY RetentionTyped DEF Init, FetchedUsed
<1>2. Inv /\ [Next]_vars => Inv'
  BY RetentionTyped, FetchedStep
<1>3. Inv /\ [Next]_vars => [Differ => Removed \cap fetched = {}]_vars
  <2> SUFFICES ASSUME Inv, [Next]_vars, Differ PROVE Removed \cap fetched = {}
    OBVIOUS
  <2>1. CASE ~Clean \/ fetched = {}
    BY <2>1, OnlyCleanRemoves
  <2>2. CASE Clean /\ fetched # {}
    <3>1. PICK left \in SUBSET dirs : SortOut(stamps, dirs, left) /\ left \subseteq dirs'
      BY <2>2 DEF Clean
    <3>2. PICK items \in SUBSET Names, t \in [Names -> SUBSET (0 .. MaxTime)] :
          \E used \in SUBSET dirs :
            /\ dirs \subseteq items /\ fetched \subseteq used
            /\ \A n \in dirs : t[n] = stamps[n]
            /\ SortOut(t, items, used)
      BY <2>2 DEF FetchedUsed
    <3>3. PICK used \in SUBSET dirs :
            /\ dirs \subseteq items /\ fetched \subseteq used
            /\ \A n \in dirs : t[n] = stamps[n]
            /\ SortOut(t, items, used)
      BY <3>2
    <3>4. stamps \in [Names -> SUBSET (0 .. MaxTime)]
      BY DEF TypeOK
    <3>5. used \subseteq left
      BY <3>1, <3>3, <3>4, SortedAgain
    <3> QED BY <3>1, <3>3, <3>5 DEF Removed
  <2> QED BY <2>1, <2>2
<1> QED BY <1>1, <1>2, <1>3, PTL DEF Spec, FetchedIsKept
=============================================================================
