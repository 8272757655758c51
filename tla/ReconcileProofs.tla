-------------------------- MODULE ReconcileProofs --------------------------
(***************************************************************************)
(* Proofs about Reconcile.tla, for any number of daemons, names, images    *)
(* and requests, any throttle and any scenario: an entry in `reconciling`  *)
(* has a future that works on it, the advertised hash is the hash of what  *)
(* is there, and a newer image is never exchanged for an older one.        *)
(***************************************************************************)
EXTENDS Reconcile, WellFoundedInduction, TLAPS

USE ReconcileAssumption

-----------------------------------------------------------------------------
(* Stamps and lists.                                                       *)

\* A set of stamps has a first one.
LEMMA FirstIsLeast ==
  ASSUME NEW S \in SUBSET Nat, S # {}
  PROVE  Min(S) \in S /\ \A y \in S : Min(S) <= y
<1>1. PICK x \in S : \A y \in S : <<y, x>> \notin OpToRel(<, Nat)
  BY NatLessThanWellFounded, WFMin
<1>2. \A y \in S : ~(y < x)
  BY <1>1 DEF OpToRel
<1>3. \E z \in S : \A y \in S : z =< y
  BY <1>2
<1> QED BY <1>3 DEF Min

\* The only stamp is the last one.
LEMMA LastOfOne ==
  ASSUME NEW t \in Nat
  PROVE  Max({t}) = t
BY DEF Max

\* Stamps are natural numbers.
LEMMA StampsNat ==
  ASSUME NEW d, NEW i
  PROVE  Stamps(d, i) \subseteq Nat
BY DEF Stamps

\* What a name may have is nothing, or an image with some of its stamps.
LEMMA ContentsAre ==
  ASSUME NEW d, NEW s \in Contents(d), s # None
  PROVE  /\ s \in [image : Images, stamps : SUBSET Nat]
         /\ s.stamps \subseteq Stamps(d, s.image) /\ s.stamps # {}
BY StampsNat DEF Contents

\* ... and any of that.
LEMMA MakeContents ==
  ASSUME NEW d, NEW i \in Images, NEW S \in SUBSET Stamps(d, i), S # {}
  PROVE  [image |-> i, stamps |-> S] \in Contents(d)
BY DEF Contents

\* A list has for every name something the name may have.
LEMMA ListAt ==
  ASSUME NEW f \in Lists, NEW d \in Names
  PROVE  f[d] \in Contents(d)
BY DEF Lists

\* Such a function is a list.
LEMMA MakeList ==
  ASSUME NEW f, f = [d \in Names |-> f[d]], \A d \in Names : f[d] \in Contents(d)
  PROVE  f \in Lists
<1>1. \A d \in Names : f[d] \in UNION {Contents(e) : e \in Names}
  OBVIOUS
<1>2. f \in [Names -> UNION {Contents(e) : e \in Names}]
  BY <1>1
<1> QED BY <1>2 DEF Lists

\* Exchanging what one name has keeps the lists of all daemons.
LEMMA ExchangeOne ==
  ASSUME NEW f \in [Nodes -> Lists], NEW n \in Nodes, NEW d \in Names,
         NEW s \in Contents(d)
  PROVE  [f EXCEPT ![n][d] = s] \in [Nodes -> Lists]
<1> DEFINE g == [f[n] EXCEPT ![d] = s]
<1>1. f[n] = [e \in Names |-> f[n][e]] /\ \A e \in Names : f[n][e] \in Contents(e)
  BY DEF Lists
<1>2. g = [e \in Names |-> g[e]] /\ \A e \in Names : g[e] \in Contents(e)
  BY <1>1
<1>3. g \in Lists
  BY <1>2, MakeList
<1> QED BY <1>3

\* The empty list, and the list a store is scanned into.
LEMMA EmptyIsList == Empty \in Lists
<1>1. None \in UNION {Contents(d) : d \in Names} \/ Names = {}
  BY DEF Contents
<1>2. Empty = [d \in Names |-> Empty[d]] /\ \A d \in Names : Empty[d] \in Contents(d)
  BY DEF Empty, Contents
<1> QED BY <1>2, MakeList

\* What a scan would find in the store is a list.
LEMMA DirsIsList ==
  ASSUME TypeOK, NEW n \in Nodes
  PROVE  Dirs(n) \in Lists
<1>1. \A d \in Names : Dirs(n)[d] \in Contents(d)
  BY ListAt DEF TypeOK, Dirs
<1>2. Dirs(n) = [d \in Names |-> Dirs(n)[d]]
  BY DEF Dirs
<1> QED BY <1>1, <1>2, MakeList

-----------------------------------------------------------------------------
(* The inductive invariant of EntryHasTask: a request carries a stamp that *)
(* its image has, and a future that is about to merge has its own list.    *)

Signed(r) == r.stamp \in Stamps(r.name, r.image)
AsksSigned == \A n \in Nodes : \A r \in asks[n] : Signed(r)
HasLocal ==
  \A n \in Nodes : \A h \in DOMAIN task[n] :
    task[n][h].pc = "merge" => task[n][h].local \in Lists

RecInv == EntryHasTask /\ AsksSigned /\ HasLocal

\* The parts of the types.
StoreTyped ==
  /\ cur \in [Nodes -> Lists] /\ new \in [Nodes -> Lists]
  /\ callbacks \in [Nodes -> SUBSET Callback]
TrackingTyped ==
  /\ progress \in [Nodes -> SUBSET Names]
  /\ pending \in [Nodes -> BOOLEAN]
  /\ deleted \in [Nodes -> SUBSET (Names \X Images)]
MapsTyped ==
  /\ DOMAIN reconciling = Nodes /\ DOMAIN task = Nodes
  /\ \A n \in Nodes :
       /\ DOMAIN reconciling[n] \cup DOMAIN task[n] \subseteq Lists
       /\ \A h \in DOMAIN reconciling[n] : reconciling[n][h] \subseteq Nodes \ {n}
       /\ \A h \in DOMAIN task[n] : task[n][h] \in Task /\ task[n][h].host # n
       /\ DOMAIN reconciling[n] = DOMAIN task[n]
       /\ \A h \in DOMAIN task[n] :
            task[n][h].pc = "merge" => task[n][h].local \in Lists
RestTyped ==
  /\ base \in [Nodes -> BaseDir \cup {None}]
  /\ scanning \in [Nodes -> Lists \cup {None}]
  /\ missed \in [Nodes -> BOOLEAN]
  /\ asks \in [Nodes -> SUBSET Ask] /\ AsksSigned
EnvTyped ==
  /\ waiting \subseteq Requests /\ hears \subseteq Nodes \X Nodes
  /\ failures \in Nat /\ aborts \in Nat

\* The invariant in the parts that a step disturbs one at a time.
LEMMA Parts ==
  /\ RecInv <=> StoreTyped /\ TrackingTyped /\ MapsTyped /\ RestTyped /\ EnvTyped
  /\ RecInv' <=> StoreTyped' /\ TrackingTyped' /\ MapsTyped' /\ RestTyped' /\ EnvTyped'
BY DEF RecInv, EntryHasTask, TypeOK, HasLocal, StoreTyped, TrackingTyped, MapsTyped,
       RestTyped, EnvTyped

\* A callback on its way to the tracking thread.
LEMMA TellTyped ==
  ASSUME callbacks \in [Nodes -> SUBSET Callback], NEW n \in Nodes,
         NEW kind \in {"fetch", "committed", "aborted"}, NEW d \in Names, NEW i \in Images,
         Tell(n, kind, d, i)
  PROVE  callbacks' \in [Nodes -> SUBSET Callback]
<1>1. [kind |-> kind, name |-> d, image |-> i] \in Callback
  BY DEF Callback
<1> QED BY <1>1 DEF Tell

\* Accepting a request starts a download of a signed image.
LEMMA StartedTyped ==
  ASSUME StoreTyped, NEW n \in Nodes, NEW r \in Ask, Signed(r), Started(n, r)
  PROVE  StoreTyped'
<1>1. r.name \in Names /\ r.image \in Images
  BY DEF Ask
<1>2. [image |-> r.image, stamps |-> {r.stamp}] \in Contents(r.name)
  BY <1>1, MakeContents DEF Signed
<1>3. new' \in [Nodes -> Lists]
  BY <1>1, <1>2, ExchangeOne DEF Started, StoreTyped
<1>4. callbacks' \in [Nodes -> SUBSET Callback]
  BY <1>1, TellTyped DEF Started, StoreTyped
<1> QED BY <1>3, <1>4 DEF Started, StoreTyped

\* A change of a field, as a change of the record.
LEMMA StampsExcept ==
  ASSUME NEW f, NEW n, NEW d, NEW x, NEW t, [f[n][d] EXCEPT !.stamps = @ \cup {x}] = t
  PROVE  [f EXCEPT ![n][d].stamps = @ \cup {x}] = [f EXCEPT ![n][d] = t]
BY Zenon

\* A state with other stamps, written as a record.
LEMMA StampAdded ==
  ASSUME NEW s \in [image : Images, stamps : SUBSET Nat], NEW S
  PROVE  [s EXCEPT !.stamps = S] = [image |-> s.image, stamps |-> S]
OBVIOUS

\* Another stamp of the image that is there.
LEMMA Resigned ==
  ASSUME NEW f \in [Nodes -> Lists], NEW n \in Nodes, NEW r \in Ask, Signed(r),
         f[n][r.name] # None, f[n][r.name].image = r.image
  PROVE  [f EXCEPT ![n][r.name].stamps = @ \cup {r.stamp}] \in [Nodes -> Lists]
<1> DEFINE d == r.name
           s == f[n][d]
           t == [image |-> s.image, stamps |-> s.stamps \cup {r.stamp}]
<1>1. d \in Names
  BY DEF Ask
<1>2. s \in Contents(d)
  BY <1>1, ListAt
<1>3. /\ s \in [image : Images, stamps : SUBSET Nat]
      /\ s.stamps \subseteq Stamps(d, s.image)
  BY <1>2, ContentsAre
<1>4. t \in Contents(d)
  BY <1>3, MakeContents DEF Signed
<1>5. [s EXCEPT !.stamps = @ \cup {r.stamp}] = t
  BY <1>3, StampAdded
<1>6. [f EXCEPT ![n][d].stamps = @ \cup {r.stamp}] = [f EXCEPT ![n][d] = t]
  BY <1>5, StampsExcept
<1> QED BY <1>1, <1>4, <1>6, ExchangeOne

\* Whatever the store answers, it keeps its types.
LEMMA AnswerTyped ==
  ASSUME StoreTyped, NEW n \in Nodes, NEW r \in Ask, Signed(r), Answer(n, r)
  PROVE  StoreTyped'
<1> DEFINE d == r.name
<1>1. CASE new[n][d] # None /\ new[n][d].image = r.image
  <2>1. new' = [new EXCEPT ![n][d].stamps = @ \cup {r.stamp}] /\ UNCHANGED <<cur, callbacks>>
    BY <1>1 DEF Answer
  <2> QED BY <1>1, <2>1, Resigned DEF StoreTyped
<1>2. CASE new[n][d] # None /\ new[n][d].image # r.image
  BY <1>2 DEF Answer, store, StoreTyped
<1>3. CASE new[n][d] = None /\ cur[n][d] = None
  BY <1>3, StartedTyped DEF Answer, store, StoreTyped
<1>4. CASE new[n][d] = None /\ cur[n][d] # None /\ cur[n][d].image = r.image
  <2>1. cur' = [cur EXCEPT ![n][d].stamps = @ \cup {r.stamp}] /\ UNCHANGED <<new, callbacks>>
    BY <1>4 DEF Answer
  <2> QED BY <1>4, <2>1, Resigned DEF StoreTyped
<1>5. CASE new[n][d] = None /\ cur[n][d] # None /\ cur[n][d].image # r.image
  BY <1>5, StartedTyped DEF Answer, store, StoreTyped
<1> QED BY <1>1, <1>2, <1>3, <1>4, <1>5

-----------------------------------------------------------------------------
(* The maps of reconciliations.                                            *)

\* The end of a future takes the entry with it.
LEMMA EndedTyped ==
  ASSUME MapsTyped, NEW n \in Nodes, NEW h \in DOMAIN task[n], Ended(n, h)
  PROVE  MapsTyped'
<1>1. /\ DOMAIN reconciling' = Nodes /\ DOMAIN task' = Nodes
      /\ \A m \in Nodes \ {n} : reconciling'[m] = reconciling[m] /\ task'[m] = task[m]
      /\ reconciling'[n] = [x \in DOMAIN reconciling[n] \ {h} |-> reconciling[n][x]]
      /\ task'[n] = [x \in DOMAIN task[n] \ {h} |-> task[n][x]]
  BY DEF MapsTyped, Ended, Restrict
<1> QED BY <1>1 DEF MapsTyped

\* A change of a future that keeps its type.
LEMMA TaskTyped ==
  ASSUME MapsTyped, NEW n \in Nodes, NEW h \in DOMAIN task[n], NEW t \in Task,
         t.host # n, t.pc = "merge" => t.local \in Lists,
         task' = [task EXCEPT ![n][h] = t],
         NEW hosts \in SUBSET (Nodes \ {n}),
         reconciling' = [reconciling EXCEPT ![n][h] = hosts]
  PROVE  MapsTyped'
<1>1. /\ DOMAIN reconciling' = Nodes /\ DOMAIN task' = Nodes
      /\ \A m \in Nodes \ {n} : reconciling'[m] = reconciling[m] /\ task'[m] = task[m]
      /\ DOMAIN reconciling'[n] = DOMAIN reconciling[n]
      /\ DOMAIN task'[n] = DOMAIN task[n]
      /\ \A x \in DOMAIN task[n] :
           /\ task'[n][x] = IF x = h THEN t ELSE task[n][x]
           /\ reconciling'[n][x] = IF x = h THEN hosts ELSE reconciling[n][x]
  BY DEF MapsTyped
<1> QED BY <1>1 DEF MapsTyped

\* The same with the hosts as they are.
LEMMA TaskAlone ==
  ASSUME MapsTyped, NEW n \in Nodes, NEW h \in DOMAIN task[n], NEW t \in Task,
         t.host # n, t.pc = "merge" => t.local \in Lists,
         task' = [task EXCEPT ![n][h] = t], UNCHANGED reconciling
  PROVE  MapsTyped'
<1>1. /\ DOMAIN task' = Nodes
      /\ \A m \in Nodes \ {n} : task'[m] = task[m]
      /\ DOMAIN task'[n] = DOMAIN task[n]
      /\ \A x \in DOMAIN task[n] : task'[n][x] = IF x = h THEN t ELSE task[n][x]
  BY DEF MapsTyped
<1> QED BY <1>1 DEF MapsTyped

\* Changes of fields of a future, as changes of the future.
LEMMA ScanExcept ==
  ASSUME NEW f, NEW n, NEW h, NEW t, t = [f[n][h] EXCEPT !.pc = "scan"]
  PROVE  [f EXCEPT ![n][h].pc = "scan"] = [f EXCEPT ![n][h] = t]
BY Zenon

\* The same for another try.
LEMMA TriesExcept ==
  ASSUME NEW f, NEW n, NEW h, NEW t, t = [f[n][h] EXCEPT !.tries = @ + 1]
  PROVE  [f EXCEPT ![n][h].tries = @ + 1] = [f EXCEPT ![n][h] = t]
BY Zenon

\* The first try is one that is allowed.
LEMMA FirstTry == 0 \in 0 .. Retries
<1>1. Retries \in Nat
  OBVIOUS
<1> QED BY <1>1

\* Futures that go on.
LEMMA FutureTyped ==
  ASSUME NEW t \in Task, NEW k \in Nodes, NEW l \in Lists
  PROVE  /\ [t EXCEPT !.host = k, !.tries = 0] \in Task
         /\ [t EXCEPT !.host = k, !.tries = 0].host = k
         /\ [t EXCEPT !.host = k, !.tries = 0].pc = t.pc
         /\ [t EXCEPT !.host = k, !.tries = 0].local = t.local
         /\ [t EXCEPT !.pc = "scan"] \in Task
         /\ [t EXCEPT !.pc = "merge", !.local = l] \in Task
<1>1. [t EXCEPT !.host = k, !.tries = 0] \in Task
  <2>1. [t EXCEPT !.host = k] \in Task
    BY DEF Task
  <2> QED BY <2>1, FirstTry DEF Task
<1>2. /\ [t EXCEPT !.host = k, !.tries = 0].host = k
      /\ [t EXCEPT !.host = k, !.tries = 0].pc = t.pc
      /\ [t EXCEPT !.host = k, !.tries = 0].local = t.local
  BY DEF Task
<1>3. [t EXCEPT !.pc = "scan"] \in Task
  BY DEF Task
<1>4. [t EXCEPT !.pc = "merge", !.local = l] \in Task
  BY DEF Task
<1> QED BY <1>1, <1>2, <1>3, <1>4

\* Another host, or the end.
LEMMA NextHostTyped ==
  ASSUME MapsTyped, NEW n \in Nodes, NEW h \in DOMAIN task[n], NextHost(n, h)
  PROVE  MapsTyped'
<1> DEFINE left == reconciling[n][h] \ {task[n][h].host}
<1>1. ASSUME NEW k \in left,
             reconciling' = [reconciling EXCEPT ![n][h] = left \ {k}],
             task' = [task EXCEPT ![n][h].host = k, ![n][h].tries = 0]
      PROVE  MapsTyped'
  <2> DEFINE t == [task[n][h] EXCEPT !.host = k, !.tries = 0]
  <2>1. k \in Nodes /\ k # n /\ left \ {k} \in SUBSET (Nodes \ {n}) /\ task[n][h] \in Task
    BY <1>1 DEF MapsTyped
  <2>2. t \in Task /\ t.host # n /\ t.pc = task[n][h].pc /\ t.local = task[n][h].local
    <3> HIDE DEF t
    <3>1. t = [task[n][h] EXCEPT !.host = k, !.tries = 0]
      BY DEF t
    <3> QED BY <2>1, <3>1, FutureTyped, EmptyIsList
  <2>3. task' = [task EXCEPT ![n][h] = t]
    <3>1. [task EXCEPT ![n][h].host = k, ![n][h].tries = 0] = [task EXCEPT ![n][h] = t]
      BY Zenon
    <3> QED BY <1>1, <3>1, Zenon
  <2> QED BY <1>1, <2>1, <2>2, <2>3, TaskTyped DEF MapsTyped
<1>2. CASE Ended(n, h)
  BY <1>2, EndedTyped
<1> QED BY <1>1, <1>2 DEF NextHost

\* A reconciliation that begins.
LEMMA BegunTyped ==
  ASSUME MapsTyped, NEW n \in Nodes, NEW k \in Nodes \ {n}, NEW h \in Lists,
         reconciling' = [reconciling EXCEPT ![n] = Put(@, h, {k})],
         task' = [task EXCEPT ![n] = Put(@, h,
           [pc |-> "ask", host |-> k, tries |-> 0, local |-> None])]
  PROVE  MapsTyped'
<1> DEFINE t == [pc |-> "ask", host |-> k, tries |-> 0, local |-> None]
<1>1. t \in Task /\ t.host # n /\ t.pc # "merge"
  BY FirstTry DEF Task
<1>2. /\ DOMAIN reconciling' = Nodes /\ DOMAIN task' = Nodes
      /\ \A m \in Nodes \ {n} : reconciling'[m] = reconciling[m] /\ task'[m] = task[m]
      /\ DOMAIN reconciling'[n] = DOMAIN reconciling[n] \cup {h}
      /\ DOMAIN task'[n] = DOMAIN task[n] \cup {h}
      /\ \A x \in DOMAIN task[n] \cup {h} : task'[n][x] = IF x = h THEN t ELSE task[n][x]
      /\ \A x \in DOMAIN reconciling[n] \cup {h} :
           reconciling'[n][x] = IF x = h THEN {k} ELSE reconciling[n][x]
  BY DEF MapsTyped, Put
<1> HIDE DEF t
<1>3. \A m \in Nodes : /\ DOMAIN reconciling'[m] \cup DOMAIN task'[m] \subseteq Lists
                       /\ DOMAIN reconciling'[m] = DOMAIN task'[m]
  BY <1>2 DEF MapsTyped
<1>4. \A m \in Nodes : \A x \in DOMAIN reconciling'[m] : reconciling'[m][x] \subseteq Nodes \ {m}
  <2>1. ASSUME NEW x \in DOMAIN reconciling'[n]
        PROVE  reconciling'[n][x] \subseteq Nodes \ {n}
    <3>1. CASE x = h
      <4>1. reconciling'[n][h] = {k}
        BY <1>2
      <4>2. {k} \subseteq Nodes \ {n}
        OBVIOUS
      <4> QED BY <3>1, <4>1, <4>2
    <3>2. CASE x # h
      <4>1. x \in DOMAIN reconciling[n] /\ reconciling'[n][x] = reconciling[n][x]
        BY <1>2, <2>1, <3>2
      <4> QED BY <4>1 DEF MapsTyped
    <3> QED BY <3>1, <3>2
  <2>2. \A m \in Nodes \ {n} : \A x \in DOMAIN reconciling'[m] :
          reconciling'[m][x] \subseteq Nodes \ {m}
    BY <1>2 DEF MapsTyped
  <2> QED BY <2>1, <2>2
<1>5. \A m \in Nodes : \A x \in DOMAIN task'[m] :
        /\ task'[m][x] \in Task /\ task'[m][x].host # m
        /\ task'[m][x].pc = "merge" => task'[m][x].local \in Lists
  BY <1>1, <1>2 DEF MapsTyped
<1> QED BY <1>2, <1>3, <1>4, <1>5 DEF MapsTyped

-----------------------------------------------------------------------------
(* Every step.                                                             *)

\* Gossip brings a hash.
LEMMA ReconcileDirInv ==
  ASSUME RecInv, NEW n \in Nodes, NEW k \in Nodes \ {n}, ReconcileDir(n, k)
  PROVE  RecInv'
<1> DEFINE h == base[k].hash
<1>1. h \in Lists
  BY Parts DEF RestTyped, ReconcileDir, BaseDir
<1>2. MapsTyped'
  <2>1. CASE h \in DOMAIN reconciling[n]
    <3>1. reconciling' = [reconciling EXCEPT ![n][h] = @ \cup {k}] /\ UNCHANGED task
      BY <2>1 DEF ReconcileDir
    <3> QED BY <2>1, <3>1, Parts DEF MapsTyped
  <2>2. CASE h \notin DOMAIN reconciling[n]
    BY <1>1, <2>2, Parts, BegunTyped DEF ReconcileDir
  <2> QED BY <2>1, <2>2
<1>3. StoreTyped' /\ TrackingTyped' /\ RestTyped' /\ EnvTyped'
  BY Parts DEF ReconcileDir, store, tracking, scans, env, StoreTyped, TrackingTyped,
               RestTyped, EnvTyped, AsksSigned
<1> QED BY <1>2, <1>3, Parts

\* The steps of a reconciliation before the merge.
LEMMA AskingInv ==
  ASSUME RecInv, NEW n \in Nodes, NEW h \in DOMAIN task[n],
         GotBaseDir(n, h) \/ RequestFails(n, h) \/ ScanLocal(n, h) \/ ScanLocalFails(n, h)
  PROVE  RecInv'
<1>0. MapsTyped /\ task[n][h] \in Task /\ task[n][h].host # n
  BY Parts DEF MapsTyped
<1>1. MapsTyped'
  <2>1. CASE GotBaseDir(n, h)
    <3>1. CASE NextHost(n, h)
      BY <1>0, <3>1, NextHostTyped
    <3>2. CASE task' = [task EXCEPT ![n][h].pc = "scan"] /\ UNCHANGED reconciling
      <4> DEFINE t == [task[n][h] EXCEPT !.pc = "scan"]
      <4>1. t \in Task /\ t.host # n /\ t.pc # "merge"
        BY <1>0 DEF Task
      <4>2. task' = [task EXCEPT ![n][h] = t]
        BY <3>2, ScanExcept
      <4> QED BY <1>0, <3>2, <4>1, <4>2, TaskAlone
    <3> QED BY <2>1, <3>1, <3>2 DEF GotBaseDir
  <2>2. CASE RequestFails(n, h)
    <3>1. CASE NextHost(n, h)
      BY <1>0, <3>1, NextHostTyped
    <3>2. CASE /\ task[n][h].tries < Retries
               /\ task' = [task EXCEPT ![n][h].tries = @ + 1]
               /\ UNCHANGED reconciling
      <4> DEFINE t == [task[n][h] EXCEPT !.tries = @ + 1]
      <4>1. t \in Task /\ t.host # n /\ t.pc # "merge"
        BY <1>0, <2>2, <3>2 DEF Task, RequestFails, Asking
      <4>2. task' = [task EXCEPT ![n][h] = t]
        BY <3>2, TriesExcept
      <4> QED BY <1>0, <3>2, <4>1, <4>2, TaskAlone
    <3> QED BY <2>2, <3>1, <3>2 DEF RequestFails
  <2>3. CASE ScanLocal(n, h)
    <3> DEFINE t == [task[n][h] EXCEPT !.pc = "merge", !.local = Dirs(n)]
    <3>1. Dirs(n) \in Lists
      BY DirsIsList DEF RecInv, EntryHasTask
    <3>2. t \in Task /\ t.host # n
      BY <1>0, <3>1 DEF Task
    <3>3. t.local \in Lists
      BY <1>0, <3>1 DEF Task
    <3>4. task' = [task EXCEPT ![n][h] = t] /\ UNCHANGED reconciling
      <4>1. [task EXCEPT ![n][h].pc = "merge", ![n][h].local = Dirs(n)]
              = [task EXCEPT ![n][h] = t]
        BY Zenon
      <4>2. /\ task' = [task EXCEPT ![n][h].pc = "merge", ![n][h].local = Dirs(n)]
            /\ UNCHANGED reconciling
        BY <2>3, Zenon DEF ScanLocal
      <4> QED BY <4>1, <4>2, Zenon
    <3> QED BY <1>0, <3>2, <3>3, <3>4, TaskAlone
  <2>4. CASE ScanLocalFails(n, h)
    BY <1>0, <2>4, EndedTyped DEF ScanLocalFails
  <2> QED BY <2>1, <2>2, <2>3, <2>4
<1>2. StoreTyped' /\ TrackingTyped' /\ RestTyped'
  BY Parts DEF GotBaseDir, RequestFails, ScanLocal, ScanLocalFails, store, tracking, scans,
               StoreTyped, TrackingTyped, RestTyped, AsksSigned
<1>3. EnvTyped'
  BY Parts DEF GotBaseDir, RequestFails, ScanLocal, ScanLocalFails, env, EnvTyped
<1> QED BY <1>1, <1>2, <1>3, Parts

\* A client's upload.
LEMMA UploadInv ==
  ASSUME RecInv, NEW q \in Requests, Upload(q)
  PROVE  RecInv'
<1> DEFINE r == [name |-> q.name, image |-> q.image, stamp |-> q.stamp,
                 replace |-> q.replace, old |-> None, seen |-> {}]
<1>1. q \in [node : Nodes, name : Names, image : Images, stamp : Nat, replace : BOOLEAN]
  OBVIOUS
<1>2. r \in Ask /\ q.node \in Nodes
  BY <1>1 DEF Ask
<1>3. Signed(r)
  BY DEF Signed, Stamps
<1>4. Answer(q.node, r)
  BY DEF Upload
<1>5. StoreTyped'
  <2> HIDE DEF r
  <2> QED BY <1>2, <1>3, <1>4, Parts, AnswerTyped
<1>6. TrackingTyped' /\ MapsTyped' /\ RestTyped' /\ EnvTyped'
  BY Parts DEF Upload, tracking, scans, TrackingTyped, MapsTyped, RestTyped, AsksSigned,
               EnvTyped
<1> QED BY <1>5, <1>6, Parts

\* A request of reconciliation, and its failure.
LEMMA RunAskInv ==
  ASSUME RecInv, NEW n \in Nodes, NEW r \in asks[n], RunAsk(n, r) \/ AskFails(n, r)
  PROVE  RecInv'
<1>1. r \in Ask /\ Signed(r)
  BY Parts DEF RestTyped, AsksSigned
<1>2. StoreTyped'
  <2>1. CASE RunAsk(n, r)
    BY <1>1, <2>1, Parts, AnswerTyped DEF RunAsk
  <2>2. CASE AskFails(n, r)
    BY <2>2, Parts DEF AskFails, store, StoreTyped
  <2> QED BY <2>1, <2>2
<1>3. RestTyped'
  BY Parts DEF RunAsk, AskFails, scans, RestTyped, AsksSigned
<1>4. TrackingTyped' /\ MapsTyped'
  BY Parts DEF RunAsk, AskFails, tracking, TrackingTyped, MapsTyped
<1>5. EnvTyped'
  BY Parts DEF RunAsk, AskFails, EnvTyped, env
<1> QED BY <1>2, <1>3, <1>4, <1>5, Parts

\* The end of a download, either way.
LEMMA DownloadEndInv ==
  ASSUME RecInv, NEW n \in Nodes, NEW d \in Names, Commit(n, d) \/ Abort(n, d)
  PROVE  RecInv'
<1>1. new[n][d] \in Contents(d) /\ None \in Contents(d)
  BY Parts, ListAt DEF StoreTyped, Contents
<1>2. new' \in [Nodes -> Lists] /\ cur' \in [Nodes -> Lists]
  BY <1>1, Parts, ExchangeOne DEF StoreTyped, Commit, Abort
<1>3. callbacks' \in [Nodes -> SUBSET Callback]
  <2>1. new[n][d].image \in Images
    BY <1>1, ContentsAre DEF Commit, Abort, Fetching
  <2>2. callbacks \in [Nodes -> SUBSET Callback]
    BY Parts DEF StoreTyped
  <2>3. Tell(n, "committed", d, new[n][d].image) \/ Tell(n, "aborted", d, new[n][d].image)
    BY DEF Commit, Abort
  <2> QED BY <2>1, <2>2, <2>3, TellTyped
<1>4. TrackingTyped' /\ MapsTyped' /\ RestTyped'
  BY Parts DEF Commit, Abort, tracking, scans, TrackingTyped, MapsTyped, RestTyped, AsksSigned
<1>5. EnvTyped'
  BY Parts DEF Commit, Abort, EnvTyped, env
<1> QED BY <1>2, <1>3, <1>4, <1>5, Parts DEF StoreTyped

\* The tracking thread hears of a download.
LEMMA HearsInv ==
  ASSUME RecInv, NEW n \in Nodes, NEW c \in callbacks[n], Hears(n, c)
  PROVE  RecInv'
<1>1. c \in Callback
  BY Parts DEF StoreTyped
<1>2. c.name \in Names /\ <<c.name, c.image>> \in Names \X Images
  BY <1>1 DEF Callback
<1>3. StoreTyped'
  BY Parts DEF Hears, StoreTyped
<1>4. progress' \in [Nodes -> SUBSET Names] /\ pending' \in [Nodes -> BOOLEAN]
  BY <1>2, Parts DEF Hears, TrackingTyped
<1>5. deleted' \in [Nodes -> SUBSET (Names \X Images)]
  <2> DEFINE D == CASE c.kind = "fetch" -> deleted[n] \ {<<c.name, c.image>>}
                    [] c.kind = "aborted" -> deleted[n] \cup {<<c.name, c.image>>}
                    [] c.kind = "committed" -> deleted[n]
  <2>1. deleted \in [Nodes -> SUBSET (Names \X Images)]
    BY Parts DEF TrackingTyped
  <2>2. D \in SUBSET (Names \X Images)
    BY <1>1, <1>2, <2>1 DEF Callback
  <2>3. deleted' = [deleted EXCEPT ![n] = D]
    BY DEF Hears
  <2> HIDE DEF D
  <2> QED BY <2>1, <2>2, <2>3
<1>6. MapsTyped' /\ RestTyped'
  BY Parts DEF Hears, scans, MapsTyped, RestTyped, AsksSigned
<1>7. EnvTyped'
  BY Parts DEF Hears, EnvTyped, env
<1> QED BY <1>3, <1>4, <1>5, <1>6, <1>7, Parts DEF TrackingTyped

\* The rescan loop and the timers.
LEMMA RescanInv ==
  ASSUME RecInv, NEW n \in Nodes,
         ForgetDeleted(n) \/ Rescan(n) \/ CommitScan(n) \/ ScanFails(n) \/ ForgetParent(n)
  PROVE  RecInv'
<1>1. StoreTyped'
  BY Parts DEF ForgetDeleted, Rescan, CommitScan, ScanFails, ForgetParent, store, StoreTyped
<1>2. TrackingTyped'
  BY Parts DEF ForgetDeleted, Rescan, CommitScan, ScanFails, ForgetParent, tracking,
               TrackingTyped
<1>3. scanning' \in [Nodes -> Lists \cup {None}] /\ missed' \in [Nodes -> BOOLEAN]
  <2>1. Dirs(n) \in Lists
    BY DirsIsList DEF RecInv, EntryHasTask
  <2> QED BY <2>1, Parts
          DEF RestTyped, ForgetDeleted, Rescan, CommitScan, ScanFails, ForgetParent, scans
<1>4. base' \in [Nodes -> BaseDir \cup {None}]
  <2>1. CASE CommitScan(n)
    <3> DEFINE b == [hash |-> scanning[n],
                     parents |-> IF base[n] = None THEN {}
                                 ELSE base[n].parents \cup ({base[n].hash} \ {scanning[n]})]
    <3>1. b \in BaseDir
      BY <2>1, Parts DEF RestTyped, CommitScan, BaseDir
    <3>2. base' = [base EXCEPT ![n] = b]
      BY <2>1, Parts DEF RestTyped, CommitScan
    <3> QED BY <3>1, <3>2, Parts DEF RestTyped
  <2>2. CASE ForgetParent(n)
    <3>1. base[n] \in BaseDir
      BY <2>2, Parts DEF RestTyped, ForgetParent
    <3>2. PICK h \in base[n].parents : base' = [base EXCEPT ![n].parents = @ \ {h}]
      BY <2>2 DEF ForgetParent
    <3>3. [base[n] EXCEPT !.parents = @ \ {h}] \in BaseDir
      BY <3>1 DEF BaseDir
    <3> QED BY <3>2, <3>3, Parts DEF RestTyped
  <2>3. CASE ForgetDeleted(n) \/ Rescan(n) \/ ScanFails(n)
    BY <2>3, Parts DEF RestTyped, ForgetDeleted, Rescan, ScanFails, scans
  <2> QED BY <2>1, <2>2, <2>3
<1>5. asks' \in [Nodes -> SUBSET Ask] /\ AsksSigned'
  BY Parts DEF RestTyped, AsksSigned, ForgetDeleted, Rescan, CommitScan, ScanFails, ForgetParent
<1>6. MapsTyped'
  BY Parts DEF MapsTyped, ForgetDeleted, Rescan, CommitScan, ScanFails, ForgetParent
<1>7. EnvTyped'
  BY Parts DEF EnvTyped, env, ForgetDeleted, Rescan, CommitScan, ScanFails, ForgetParent
<1> QED BY <1>1, <1>2, <1>3, <1>4, <1>5, <1>6, <1>7, Parts DEF RestTyped

\* What the merge requests is something with one of its stamps, in the place
\* of something that was there.
LEMMA MergeAsks ==
  ASSUME NEW n \in Nodes, NEW h \in Lists, NEW local \in Lists, NEW d \in Names,
         Lacks(n, local, h, d)
  PROVE  LET r == [name |-> d, image |-> h[d].image, stamp |-> First(h[d]),
                   replace |-> local[d] # None,
                   old |-> IF local[d] = None THEN None ELSE local[d].image,
                   seen |-> IF local[d] = None THEN {} ELSE local[d].stamps]
         IN  r \in Ask /\ Signed(r)
<1>1. /\ h[d] \in [image : Images, stamps : SUBSET Nat]
      /\ h[d].stamps \subseteq Stamps(d, h[d].image) /\ h[d].stamps # {}
  BY ListAt, ContentsAre DEF Lacks
<1>2. First(h[d]) \in h[d].stamps
  BY <1>1, FirstIsLeast DEF First
<1>3. local[d] # None => local[d].image \in Images /\ local[d].stamps \in SUBSET Nat
  BY ListAt, ContentsAre
<1>4. First(h[d]) \in Nat /\ First(h[d]) \in Stamps(d, h[d].image)
  BY <1>1, <1>2
<1> QED BY <1>1, <1>3, <1>4 DEF Ask, Signed

\* The merge.
LEMMA MergeInv ==
  ASSUME RecInv, NEW n \in Nodes, NEW h \in DOMAIN task[n], Merge(n, h)
  PROVE  RecInv'
<1> DEFINE local == task[n][h].local
           wanted == {d \in Names : Lacks(n, local, h, d)}
           request(d) == [name |-> d, image |-> h[d].image, stamp |-> First(h[d]),
                          replace |-> local[d] # None,
                          old |-> IF local[d] = None THEN None ELSE local[d].image,
                          seen |-> IF local[d] = None THEN {} ELSE local[d].stamps]
<1>1. h \in Lists /\ local \in Lists
  BY Parts DEF MapsTyped, Merge
<1>2. PICK took \in SUBSET wanted :
        /\ asks' = [asks EXCEPT ![n] = @ \cup {request(d) : d \in took}]
        /\ base' = IF took = wanted /\ base[n] # None
                     THEN [base EXCEPT ![n].parents = @ \cup {h}] ELSE base
  BY DEF Merge
<1>3. \A d \in took : request(d) \in Ask /\ Signed(request(d))
  <2> TAKE d \in took
  <2>1. d \in Names /\ Lacks(n, local, h, d)
    OBVIOUS
  <2> HIDE DEF local
  <2> QED BY <1>1, <2>1, MergeAsks
<1>4. asks' \in [Nodes -> SUBSET Ask] /\ AsksSigned'
  <2> DEFINE R == {request(d) : d \in took}
  <2>1. \A r \in R : r \in Ask /\ Signed(r)
    <3> HIDE DEF request
    <3> QED BY <1>3
  <2>2. asks' = [asks EXCEPT ![n] = @ \cup R]
    BY <1>2
  <2> HIDE DEF R
  <2> QED BY <2>1, <2>2, Parts DEF RestTyped, AsksSigned
<1>5. base' \in [Nodes -> BaseDir \cup {None}]
  <2>1. base[n] # None => [base[n] EXCEPT !.parents = @ \cup {h}] \in BaseDir
    BY <1>1, Parts DEF RestTyped, BaseDir
  <2> HIDE DEF wanted
  <2> QED BY <1>2, <2>1, Parts DEF RestTyped
<1>6. MapsTyped'
  BY Parts, EndedTyped DEF Merge
<1>7. StoreTyped' /\ TrackingTyped' /\ UNCHANGED <<scanning, missed>> /\ EnvTyped'
  BY Parts DEF Merge, store, tracking, env, StoreTyped, TrackingTyped, EnvTyped
<1> QED BY <1>4, <1>5, <1>6, <1>7, Parts DEF RestTyped

\* Every step keeps the invariant.
LEMMA StepInv ==
  ASSUME RecInv, [Next]_vars
  PROVE  RecInv'
<1>1. CASE UNCHANGED vars
  BY <1>1 DEF vars, RecInv, EntryHasTask, TypeOK, AsksSigned, HasLocal
<1>2. CASE Next
  BY <1>2, UploadInv, RunAskInv, DownloadEndInv, HearsInv, RescanInv, ReconcileDirInv,
     AskingInv, MergeInv DEF Next, TaskStep
<1> QED BY <1>1, <1>2

\* What the uploads before the start left is a list.
LEMMA AtStartIsList ==
  ASSUME NEW s \in Scenarios, NEW n \in Nodes
  PROVE  AtStart(s.stored, n) \in Lists
<1> DEFINE f == AtStart(s.stored, n)
<1>1. ASSUME NEW d \in Names PROVE f[d] \in Contents(d)
  <2> DEFINE S == {q \in s.stored : q.node = n /\ q.name = d}
             q0 == CHOOSE q \in S : TRUE
  <2>1. CASE S = {}
    BY <2>1 DEF AtStart, Contents
  <2>2. CASE S # {}
    <3>1. q0 \in S
      BY <2>2
    <3>2. q0 \in Requests /\ q0.name = d
      BY <3>1
    <3>3. q0.image \in Images /\ {q0.stamp} \subseteq Stamps(d, q0.image)
      BY <3>2 DEF Stamps
    <3>4. [image |-> q0.image, stamps |-> {q0.stamp}] \in Contents(d)
      BY <3>3, MakeContents
    <3>5. f[d] = [image |-> q0.image, stamps |-> {q0.stamp}]
      BY <2>2, Zenon DEF AtStart
    <3> QED BY <3>4, <3>5
  <2> QED BY <2>1, <2>2
<1>2. f = [d \in Names |-> f[d]]
  BY DEF AtStart
<1> QED BY <1>1, <1>2, MakeList

\* It holds at the start: nobody reconciles and nothing is on its way.
LEMMA InitInv ==
  ASSUME Init
  PROVE  RecInv
<1>1. StoreTyped /\ TrackingTyped
  BY AtStartIsList, EmptyIsList DEF Init, StoreTyped, TrackingTyped
<1>2. MapsTyped
  BY DEF Init, MapsTyped, NoMap
<1>3. RestTyped
  BY DEF Init, RestTyped, AsksSigned
<1>4. EnvTyped
  BY DEF Init, EnvTyped
<1> QED BY <1>1, <1>2, <1>3, <1>4, Parts

\* Whatever order gossip, failures, scans and downloads come in, every variable
\* keeps its type, and there is an entry in `reconciling` exactly while a future
\* works on its hash.
THEOREM EntriesSafe == Spec => []EntryHasTask
<1>1. Init => RecInv
  BY InitInv
<1>2. RecInv /\ [Next]_vars => RecInv'
  BY StepInv
<1>3. RecInv => EntryHasTask
  BY DEF RecInv
<1> QED BY <1>1, <1>2, <1>3, PTL DEF Spec

-----------------------------------------------------------------------------
(* The advertised hash.                                                    *)

\* A request starts a download, of which the tracking thread is told, in the
\* place of something only if it may; or it signs again what is there; or it
\* leaves the store alone.
LEMMA AnswerIs ==
  ASSUME NEW n \in Nodes, NEW r \in Ask, Answer(n, r)
  PROVE  \/ UNCHANGED store
         \/ /\ Started(n, r)
            /\ new[n][r.name] = None
            /\ cur[n][r.name] # None => r.replace /\ Replaceable(n, r)
         \/ /\ new[n][r.name] # None /\ new[n][r.name].image = r.image
            /\ new' = [new EXCEPT ![n][r.name].stamps = @ \cup {r.stamp}]
            /\ UNCHANGED <<cur, callbacks>>
         \/ /\ new[n][r.name] = None
            /\ cur[n][r.name] # None /\ cur[n][r.name].image = r.image
            /\ cur' = [cur EXCEPT ![n][r.name].stamps = @ \cup {r.stamp}]
            /\ UNCHANGED <<new, callbacks>>
<1> DEFINE d == r.name
<1>1. CASE new[n][d] # None /\ new[n][d].image = r.image
  BY <1>1 DEF Answer
<1>2. CASE new[n][d] # None /\ new[n][d].image # r.image
  BY <1>2 DEF Answer
<1>3. CASE new[n][d] = None /\ cur[n][d] = None
  BY <1>3 DEF Answer
<1>4. CASE new[n][d] = None /\ cur[n][d] # None /\ cur[n][d].image = r.image
  BY <1>4 DEF Answer
<1>5. CASE new[n][d] = None /\ cur[n][d] # None /\ cur[n][d].image # r.image
  BY <1>5 DEF Answer
<1> QED BY <1>1, <1>2, <1>3, <1>4, <1>5

\* Signing again what a list has for a name.
LEMMA SignedList ==
  ASSUME NEW f \in [Nodes -> Lists], NEW n \in Nodes, NEW r \in Ask, Signed(r),
         f[n][r.name] # None, f[n][r.name].image = r.image
  PROVE  LET g == [f EXCEPT ![n][r.name].stamps = @ \cup {r.stamp}] IN
         /\ \A m \in Nodes \ {n} : g[m] = f[m]
         /\ \A e \in Names \ {r.name} : g[n][e] = f[n][e]
         /\ g[n][r.name] # None
         /\ g[n][r.name].image = r.image
         /\ f[n][r.name].stamps \subseteq g[n][r.name].stamps
<1> DEFINE d == r.name
           s == f[n][d]
           t == [image |-> s.image, stamps |-> s.stamps \cup {r.stamp}]
           g == [f EXCEPT ![n][d].stamps = @ \cup {r.stamp}]
<1>1. d \in Names
  BY DEF Ask
<1>2. s \in Contents(d)
  BY <1>1, ListAt
<1>3. s \in [image : Images, stamps : SUBSET Nat]
  BY <1>2, ContentsAre
<1>4. [s EXCEPT !.stamps = @ \cup {r.stamp}] = t
  BY <1>3, StampAdded
<1>5. g = [f EXCEPT ![n][d] = t]
  BY <1>4, StampsExcept
<1>6. g \in [Nodes -> Lists]
  BY Resigned
<1> HIDE DEF g
<1>7. g[n][d] = t
  <2>1. d \in DOMAIN f[n]
    BY <1>1 DEF Lists
  <2> HIDE DEF t
  <2> QED BY <1>5, <2>1
<1>8. g[n][d] \in Contents(d) /\ t.image = r.image
  BY <1>1, <1>6, ListAt
<1>9. t # None
  <2>1. t \in [image : Images, stamps : SUBSET Nat]
    BY <1>3 DEF Ask
  <2> HIDE DEF t
  <2> QED BY <2>1, NoneAssumption
<1>10. \A e \in Names \ {d} : g[n][e] = f[n][e]
  BY <1>1, <1>5 DEF Lists
<1>11. \A m \in Nodes \ {n} : g[m] = f[m]
  BY <1>5
<1>12. f[n][d].stamps \subseteq g[n][d].stamps
  BY <1>7
<1> QED BY <1>7, <1>8, <1>9, <1>10, <1>11, <1>12 DEF g

\* A list is a later state of itself, and of what it is later than.
LEMMA SinceSame ==
  ASSUME NEW f
  PROVE  SignedSince(f, f)
BY DEF SignedSince

\* Later than later is later.
LEMMA SinceLater ==
  ASSUME NEW f, NEW g, NEW h, SignedSince(f, g), SignedSince(g, h)
  PROVE  SignedSince(f, h)
BY DEF SignedSince

\* A request that does not start a download leaves every store as it is, but
\* for signatures.
LEMMA AnswerSince ==
  ASSUME StoreTyped, NEW n \in Nodes, NEW r \in Ask, Signed(r), Answer(n, r),
         ~Started(n, r)
  PROVE  UNCHANGED callbacks /\ \A m \in Nodes : SignedSince(Dirs(m), Dirs(m)')
<1>1. CASE UNCHANGED store
  BY <1>1, SinceSame DEF store, Dirs
<1>2. CASE /\ new[n][r.name] # None /\ new[n][r.name].image = r.image
           /\ new' = [new EXCEPT ![n][r.name].stamps = @ \cup {r.stamp}]
           /\ UNCHANGED <<cur, callbacks>>
  <2>1. /\ \A m \in Nodes \ {n} : new'[m] = new[m]
        /\ \A e \in Names \ {r.name} : new'[n][e] = new[n][e]
        /\ new'[n][r.name] # None
        /\ new'[n][r.name].image = new[n][r.name].image
        /\ new[n][r.name].stamps \subseteq new'[n][r.name].stamps
    <3>1. new \in [Nodes -> Lists]
      BY DEF StoreTyped
    <3> DEFINE g == [new EXCEPT ![n][r.name].stamps = @ \cup {r.stamp}]
    <3>2. /\ \A m \in Nodes \ {n} : g[m] = new[m]
          /\ \A e \in Names \ {r.name} : g[n][e] = new[n][e]
          /\ g[n][r.name] # None
          /\ g[n][r.name].image = r.image
          /\ new[n][r.name].stamps \subseteq g[n][r.name].stamps
      BY <1>2, <3>1, SignedList
    <3>3. new' = g
      BY <1>2
    <3> HIDE DEF g
    <3> QED BY <1>2, <3>2, <3>3
  <2>2. \A m \in Nodes \ {n} : SignedSince(Dirs(m), Dirs(m)')
    BY <1>2, <2>1 DEF Dirs, SignedSince
  <2>3. SignedSince(Dirs(n), Dirs(n)')
    BY <1>2, <2>1 DEF Dirs, SignedSince
  <2> QED BY <1>2, <2>2, <2>3
<1>3. CASE /\ new[n][r.name] = None
           /\ cur[n][r.name] # None /\ cur[n][r.name].image = r.image
           /\ cur' = [cur EXCEPT ![n][r.name].stamps = @ \cup {r.stamp}]
           /\ UNCHANGED <<new, callbacks>>
  <2>1. /\ \A m \in Nodes \ {n} : cur'[m] = cur[m]
        /\ \A e \in Names \ {r.name} : cur'[n][e] = cur[n][e]
        /\ cur'[n][r.name] # None
        /\ cur'[n][r.name].image = cur[n][r.name].image
        /\ cur[n][r.name].stamps \subseteq cur'[n][r.name].stamps
    <3>1. cur \in [Nodes -> Lists]
      BY DEF StoreTyped
    <3> DEFINE g == [cur EXCEPT ![n][r.name].stamps = @ \cup {r.stamp}]
    <3>2. /\ \A m \in Nodes \ {n} : g[m] = cur[m]
          /\ \A e \in Names \ {r.name} : g[n][e] = cur[n][e]
          /\ g[n][r.name] # None
          /\ g[n][r.name].image = r.image
          /\ cur[n][r.name].stamps \subseteq g[n][r.name].stamps
      BY <1>3, <3>1, SignedList
    <3>3. cur' = g
      BY <1>3
    <3> HIDE DEF g
    <3> QED BY <1>3, <3>2, <3>3
  <2>2. \A m \in Nodes \ {n} : SignedSince(Dirs(m), Dirs(m)')
    BY <1>3, <2>1 DEF Dirs, SignedSince
  <2>3. SignedSince(Dirs(n), Dirs(n)')
    BY <1>3, <2>1 DEF Dirs, SignedSince
  <2> QED BY <1>3, <2>2, <2>3
<1> QED BY <1>1, <1>2, <1>3, AnswerIs

\* The tracking thread has heard of all that n's store did, and of no need to
\* scan again.
Quiet(n) == callbacks[n] = {} /\ ~pending[n]

\* What the running rescan has read is what is there, unless there is more to
\* hear or another is queued.
ScanIsCurrent ==
  \A n \in Nodes : Quiet(n) /\ scanning[n] # None => SignedSince(scanning[n], Dirs(n))

AdvInv == RecInv /\ AdvertisedIsCurrent /\ ScanIsCurrent

\* The two parts, for one daemon.
Current(n) ==
  Quiet(n) => /\ scanning[n] # None => SignedSince(scanning[n], Dirs(n))
              /\ scanning[n] = None /\ base[n] # None /\ ~missed[n] =>
                   SignedSince(base[n].hash, Dirs(n))

\* They are the parts for all daemons.
LEMMA CurrentParts ==
  /\ AdvertisedIsCurrent /\ ScanIsCurrent <=> \A n \in Nodes : Current(n)
  /\ (AdvertisedIsCurrent /\ ScanIsCurrent)' <=> \A n \in Nodes : Current(n)'
BY DEF AdvertisedIsCurrent, ScanIsCurrent, Current, Quiet

\* Steps that change no more of a daemon than the signatures in its store.
LEMMA CurrentSame ==
  ASSUME NEW n \in Nodes, Current(n), callbacks'[n] = callbacks[n], pending'[n] = pending[n],
         SignedSince(Dirs(n), Dirs(n)'), scanning'[n] = scanning[n], missed'[n] = missed[n],
         base'[n] = base[n] \/ (base[n] # None /\ base'[n].hash = base[n].hash)
  PROVE  Current(n)'
BY SinceLater DEF Current, Quiet

\* The same where the store and the rescan loop do nothing at all.
LEMMA AdvSame ==
  ASSUME AdvInv, UNCHANGED <<store, pending, scanning, missed>>,
         \A n \in Nodes : base'[n] = base[n] \/ (base[n] # None /\ base'[n].hash = base[n].hash)
  PROVE  \A n \in Nodes : Current(n)'
<1> SUFFICES ASSUME NEW n \in Nodes PROVE Current(n)'
  OBVIOUS
<1>1. Current(n)
  BY CurrentParts DEF AdvInv
<1>2. Dirs(n)' = Dirs(n)
  BY DEF store, Dirs
<1>3. SignedSince(Dirs(n), Dirs(n)')
  BY <1>2, SinceSame
<1> QED BY <1>1, <1>3, CurrentSame DEF store

\* A store that changes tells its tracking thread.
LEMMA AdvTold ==
  ASSUME AdvInv, StoreTyped, NEW n \in Nodes, NEW kind, NEW d, NEW i, Tell(n, kind, d, i),
         \A m \in Nodes \ {n} : cur'[m] = cur[m] /\ new'[m] = new[m],
         UNCHANGED <<tracking, scans>>
  PROVE  \A m \in Nodes : Current(m)'
<1>1. callbacks'[n] # {}
  BY DEF Tell, StoreTyped
<1>2. Current(n)'
  BY <1>1 DEF Current, Quiet
<1>3. ASSUME NEW m \in Nodes \ {n} PROVE Current(m)'
  <2>1. Current(m) /\ callbacks'[m] = callbacks[m]
    BY CurrentParts DEF AdvInv, Tell, StoreTyped
  <2>2. Dirs(m)' = Dirs(m)
    BY DEF Dirs
  <2>3. SignedSince(Dirs(m), Dirs(m)')
    BY <2>2, SinceSame
  <2> QED BY <2>1, <2>3, CurrentSame DEF tracking, scans
<1> QED BY <1>2, <1>3

\* A request is answered.
LEMMA AdvAnswer ==
  ASSUME AdvInv, StoreTyped, NEW n \in Nodes, NEW r \in Ask, Signed(r), Answer(n, r),
         UNCHANGED <<tracking, scans>>
  PROVE  \A m \in Nodes : Current(m)'
<1>1. CASE Started(n, r)
  BY <1>1, AdvTold DEF Started, StoreTyped
<1>2. CASE ~Started(n, r)
  <2> SUFFICES ASSUME NEW m \in Nodes PROVE Current(m)'
    OBVIOUS
  <2>1. Current(m)
    BY CurrentParts DEF AdvInv
  <2>2. callbacks' = callbacks /\ SignedSince(Dirs(m), Dirs(m)')
    BY <1>2, AnswerSince
  <2> QED BY <2>1, <2>2, CurrentSame DEF tracking, scans
<1> QED BY <1>1, <1>2

\* Every step keeps the advertised hash, and the list of a scan under way,
\* current, or leaves a callback or a rescan that makes up for it.
LEMMA AdvStep ==
  ASSUME AdvInv, [Next]_vars
  PROVE  AdvInv'
<1>0. RecInv /\ RecInv' /\ StoreTyped /\ TrackingTyped /\ RestTyped
  BY StepInv, Parts DEF AdvInv
<1>1. ASSUME NEW q \in Requests, Upload(q)
      PROVE  \A m \in Nodes : Current(m)'
  <2> DEFINE r == [name |-> q.name, image |-> q.image, stamp |-> q.stamp,
                   replace |-> q.replace, old |-> None, seen |-> {}]
  <2>1. q \in [node : Nodes, name : Names, image : Images, stamp : Nat, replace : BOOLEAN]
    OBVIOUS
  <2>2. r \in Ask /\ q.node \in Nodes
    BY <2>1 DEF Ask
  <2>3. Signed(r)
    BY DEF Signed, Stamps
  <2>4. Answer(q.node, r) /\ UNCHANGED <<tracking, scans>>
    BY <1>1 DEF Upload
  <2> HIDE DEF r
  <2> QED BY <1>0, <2>2, <2>3, <2>4, AdvAnswer
<1>2. ASSUME NEW n \in Nodes, NEW r \in asks[n], RunAsk(n, r)
      PROVE  \A m \in Nodes : Current(m)'
  BY <1>0, <1>2, AdvAnswer DEF RunAsk, RestTyped, AsksSigned
<1>3. ASSUME NEW n \in Nodes, NEW r \in asks[n], AskFails(n, r)
      PROVE  \A m \in Nodes : Current(m)'
  BY <1>3, AdvSame DEF AskFails, tracking, scans
<1>4. ASSUME NEW n \in Nodes, NEW d \in Names, Commit(n, d) \/ Abort(n, d)
      PROVE  \A m \in Nodes : Current(m)'
  <2>1. \E kind : Tell(n, kind, d, new[n][d].image)
    BY <1>4 DEF Commit, Abort
  <2>2. /\ \A m \in Nodes \ {n} : cur'[m] = cur[m] /\ new'[m] = new[m]
        /\ UNCHANGED <<tracking, scans>>
    BY <1>0, <1>4 DEF Commit, Abort, StoreTyped
  <2> QED BY <1>0, <2>1, <2>2, AdvTold
<1>5. ASSUME NEW n \in Nodes, NEW c \in callbacks[n], Hears(n, c)
      PROVE  \A m \in Nodes : Current(m)'
  <2>1. pending'[n]
    BY <1>0, <1>5 DEF Hears, TrackingTyped
  <2>2. Current(n)'
    BY <2>1 DEF Current, Quiet
  <2>3. ASSUME NEW m \in Nodes \ {n} PROVE Current(m)'
    <3>1. Current(m) /\ callbacks'[m] = callbacks[m] /\ pending'[m] = pending[m]
      BY <1>0, <1>5, CurrentParts DEF AdvInv, Hears, StoreTyped, TrackingTyped
    <3>2. Dirs(m)' = Dirs(m)
      BY <1>5 DEF Hears, Dirs
    <3>3. SignedSince(Dirs(m), Dirs(m)')
      BY <3>2, SinceSame
    <3> QED BY <1>5, <3>1, <3>3, CurrentSame DEF Hears, scans
  <2> QED BY <2>2, <2>3
<1>6. ASSUME NEW n \in Nodes, ForgetDeleted(n)
      PROVE  \A m \in Nodes : Current(m)'
  BY <1>6, AdvSame DEF ForgetDeleted, scans
<1>7. ASSUME NEW n \in Nodes, Rescan(n) \/ CommitScan(n) \/ ScanFails(n)
      PROVE  \A m \in Nodes : Current(m)'
  <2>1. \A m \in Nodes : Dirs(m)' = Dirs(m) /\ callbacks'[m] = callbacks[m]
    BY <1>7 DEF Rescan, CommitScan, ScanFails, store, Dirs
  <2>2. ASSUME NEW m \in Nodes \ {n} PROVE Current(m)'
    <3>1. Current(m)
      BY CurrentParts DEF AdvInv
    <3>2. /\ scanning'[m] = scanning[m] /\ base'[m] = base[m] /\ missed'[m] = missed[m]
          /\ pending'[m] = pending[m]
      BY <1>0, <1>7 DEF Rescan, CommitScan, ScanFails, tracking, RestTyped, TrackingTyped
    <3>3. SignedSince(Dirs(m), Dirs(m)')
      BY <2>1, SinceSame
    <3> QED BY <2>1, <3>1, <3>2, <3>3, CurrentSame
  <2>3. CASE Rescan(n)
    <3>1. scanning'[n] = Dirs(n)'
      BY <1>0, <2>1, <2>3 DEF Rescan, RestTyped
    <3>2. Dirs(n) # None
      BY <1>0, DirsIsList, NoneAssumption DEF RecInv, EntryHasTask
    <3>3. Current(n)'
      BY <2>1, <3>1, <3>2, SinceSame DEF Current
    <3> QED BY <2>2, <3>3
  <2>4. CASE CommitScan(n)
    <3>1. /\ scanning'[n] = None /\ base'[n].hash = scanning[n] /\ scanning[n] # None
          /\ pending' = pending
      BY <1>0, <2>4 DEF CommitScan, RestTyped, tracking
    <3>2. Quiet(n)' => SignedSince(scanning[n], Dirs(n))
      BY <2>1, <3>1 DEF AdvInv, ScanIsCurrent, Quiet
    <3>3. Current(n)'
      BY <2>1, <3>1, <3>2 DEF Current
    <3> QED BY <2>2, <3>3
  <2>5. CASE ScanFails(n)
    <3>1. scanning'[n] = None /\ missed'[n]
      BY <1>0, <2>5 DEF ScanFails, RestTyped
    <3>2. Current(n)'
      BY <3>1 DEF Current
    <3> QED BY <2>2, <3>2
  <2> QED BY <1>7, <2>3, <2>4, <2>5
<1>8. ASSUME NEW n \in Nodes, ForgetParent(n)
      PROVE  \A m \in Nodes : Current(m)'
  <2>1. PICK h : base' = [base EXCEPT ![n].parents = @ \ {h}]
    BY <1>8 DEF ForgetParent
  <2>2. base[n] \in BaseDir
    BY <1>0, <1>8 DEF ForgetParent, RestTyped
  <2>3. [base[n] EXCEPT !.parents = @ \ {h}].hash = base[n].hash
    BY <2>2 DEF BaseDir
  <2>4. \A m \in Nodes : base'[m] = base[m] \/ (base[m] # None /\ base'[m].hash = base[m].hash)
    BY <1>0, <1>8, <2>1, <2>3 DEF RestTyped, ForgetParent
  <2> QED BY <1>8, <2>4, AdvSame DEF ForgetParent, tracking
<1>9. ASSUME NEW n \in Nodes, NEW k \in Nodes \ {n}, ReconcileDir(n, k)
      PROVE  \A m \in Nodes : Current(m)'
  BY <1>9, AdvSame DEF ReconcileDir, tracking, scans
<1>10. ASSUME NEW n \in Nodes, NEW h \in DOMAIN task[n],
              GotBaseDir(n, h) \/ ScanLocal(n, h) \/ RequestFails(n, h) \/ ScanLocalFails(n, h)
       PROVE  \A m \in Nodes : Current(m)'
  BY <1>10, AdvSame DEF GotBaseDir, ScanLocal, RequestFails, ScanLocalFails, tracking, scans
<1>11. ASSUME NEW n \in Nodes, NEW h \in DOMAIN task[n], Merge(n, h)
       PROVE  \A m \in Nodes : Current(m)'
  <2>1. base' = base \/ (base[n] # None /\ base' = [base EXCEPT ![n].parents = @ \cup {h}])
    BY <1>11 DEF Merge
  <2>2. base[n] # None => [base[n] EXCEPT !.parents = @ \cup {h}].hash = base[n].hash
    BY <1>0 DEF RestTyped, BaseDir
  <2>3. \A m \in Nodes : base'[m] = base[m] \/ (base[m] # None /\ base'[m].hash = base[m].hash)
    BY <1>0, <2>1, <2>2 DEF RestTyped
  <2> QED BY <1>11, <2>3, AdvSame DEF Merge, tracking
<1>12. ASSUME UNCHANGED vars
       PROVE  \A m \in Nodes : Current(m)'
  BY <1>12, AdvSame DEF vars, store
<1>13. \A m \in Nodes : Current(m)'
  BY <1>1, <1>2, <1>3, <1>4, <1>5, <1>6, <1>7, <1>8, <1>9, <1>10, <1>11, <1>12
     DEF Next, TaskStep
<1> QED BY <1>0, <1>13, CurrentParts DEF AdvInv

\* A daemon that has heard of all its store did, has no rescan queued or
\* running and whose last one did not fail advertises the hash of what it has,
\* signatures added since apart, whatever was uploaded, fetched, replaced,
\* signed again or given up while its scans ran.
THEOREM AdvertisedSafe == Spec => []AdvertisedIsCurrent
<1>1. Init => AdvInv
  <2> SUFFICES ASSUME Init PROVE AdvInv
    OBVIOUS
  <2>1. RecInv
    BY InitInv
  <2> QED BY <2>1 DEF AdvInv, Init, AdvertisedIsCurrent, ScanIsCurrent
<1>2. AdvInv /\ [Next]_vars => AdvInv'
  BY AdvStep
<1>3. AdvInv => AdvertisedIsCurrent
  BY DEF AdvInv
<1> QED BY <1>1, <1>2, <1>3, PTL DEF Spec

-----------------------------------------------------------------------------
(* Requests that replace.                                                  *)

\* A request that replaces says what, and is newer than what was seen of it.
Newer(r) == r.replace => r.old \in Images /\ \A t \in r.seen : t < r.stamp
AsksNewer == \A n \in Nodes : \A r \in asks[n] : Newer(r)

NewInv == RecInv /\ AsksNewer

\* A set of stamps that are all earlier has an earlier last one.
LEMMA LastEarlier ==
  ASSUME NEW S \in SUBSET Nat, S # {}, NEW x \in Nat, \A t \in S : t < x
  PROVE  Max(S) < x
<1>1. \E m \in S : \A t \in S : m >= t
  <2> DEFINE T == {u \in Nat : \A t \in S : t <= u}
  <2>1. x \in T /\ T \in SUBSET Nat
    OBVIOUS
  <2>2. Min(T) \in T /\ \A u \in T : Min(T) <= u
    BY <2>1, FirstIsLeast
  <2>3. PICK m \in T : \A u \in T : m <= u
    BY <2>2
  <2>4. CASE m \in S
    BY <2>3, <2>4
  <2>5. CASE m \notin S
    <3>1. \A t \in S : t < m
      BY <2>3, <2>5
    <3>2. PICK s \in S : s < m
      BY <3>1
    <3>3. m \in Nat /\ s \in Nat
      BY <2>3
    <3>4. m - 1 \in T
      BY <3>1, <3>2, <3>3
    <3>5. m <= m - 1
      BY <2>3, <3>4
    <3> QED BY <3>3, <3>5
  <2> QED BY <2>4, <2>5
<1>2. Max(S) \in S
  BY <1>1 DEF Max
<1> QED BY <1>2

\* The merge makes such requests only.
LEMMA MergeNewer ==
  ASSUME NEW n \in Nodes, NEW h \in Lists, NEW local \in Lists,
         NEW d \in Names, Lacks(n, local, h, d), local[d] # None
  PROVE  /\ local[d].image \in Images
         /\ \A t \in local[d].stamps : t < First(h[d])
<1>1. local[d] \in Contents(d)
  BY ListAt
<1>2. local[d].image \in Images
  BY <1>1, ContentsAre
<1> QED BY <1>2 DEF Lacks

\* Only the merge makes requests, and only their arrival takes one away.
LEMMA AsksChange ==
  ASSUME Next
  PROVE  \/ UNCHANGED asks
         \/ \E n \in Nodes : \E r \in asks[n] : RunAsk(n, r) \/ AskFails(n, r)
         \/ \E n \in Nodes : \E h \in DOMAIN task[n] : Merge(n, h)
<1>1. ASSUME NEW q \in Requests, Upload(q) PROVE UNCHANGED asks
  BY <1>1 DEF Upload
<1>2. ASSUME NEW n \in Nodes, NEW d \in Names, Commit(n, d) \/ Abort(n, d)
      PROVE  UNCHANGED asks
  BY <1>2 DEF Commit, Abort
<1>3. ASSUME NEW n \in Nodes, NEW c \in callbacks[n], Hears(n, c) PROVE UNCHANGED asks
  BY <1>3 DEF Hears
<1>4. ASSUME NEW n \in Nodes,
             ForgetDeleted(n) \/ Rescan(n) \/ CommitScan(n) \/ ScanFails(n) \/ ForgetParent(n)
      PROVE  UNCHANGED asks
  BY <1>4 DEF ForgetDeleted, Rescan, CommitScan, ScanFails, ForgetParent
<1>5. ASSUME NEW n \in Nodes, NEW k \in Nodes \ {n}, ReconcileDir(n, k) PROVE UNCHANGED asks
  BY <1>5 DEF ReconcileDir
<1>6. ASSUME NEW n \in Nodes, NEW h \in DOMAIN task[n],
             GotBaseDir(n, h) \/ ScanLocal(n, h) \/ RequestFails(n, h) \/ ScanLocalFails(n, h)
      PROVE  UNCHANGED asks
  BY <1>6 DEF GotBaseDir, ScanLocal, RequestFails, ScanLocalFails
<1> QED BY <1>1, <1>2, <1>3, <1>4, <1>5, <1>6 DEF Next, TaskStep

\* Every step keeps the requests on their way to the own store newer than what
\* was seen of what they replace.
LEMMA NewStep ==
  ASSUME NewInv, [Next]_vars
  PROVE  NewInv'
<1>0. RecInv /\ RecInv' /\ RestTyped /\ MapsTyped
  BY StepInv, Parts DEF NewInv
<1>1. ASSUME NEW n \in Nodes, NEW h \in DOMAIN task[n], Merge(n, h)
      PROVE  AsksNewer'
  <2> DEFINE local == task[n][h].local
             wanted == {d \in Names : Lacks(n, local, h, d)}
             request(d) == [name |-> d, image |-> h[d].image, stamp |-> First(h[d]),
                            replace |-> local[d] # None,
                            old |-> IF local[d] = None THEN None ELSE local[d].image,
                            seen |-> IF local[d] = None THEN {} ELSE local[d].stamps]
  <2>1. h \in Lists /\ local \in Lists
    BY <1>0, <1>1 DEF MapsTyped, Merge
  <2>2. PICK took \in SUBSET wanted :
          asks' = [asks EXCEPT ![n] = @ \cup {request(d) : d \in took}]
    BY <1>1 DEF Merge
  <2>3. ASSUME NEW d \in took
        PROVE  Newer(request(d))
    <3>1. d \in Names /\ Lacks(n, local, h, d)
      OBVIOUS
    <3>2. local[d] # None => /\ local[d].image \in Images
                             /\ \A t \in local[d].stamps : t < First(h[d])
      <4> HIDE DEF local
      <4> QED BY <2>1, <3>1, MergeNewer
    <3> QED BY <3>1, <3>2 DEF Newer
  <2> DEFINE R == {request(d) : d \in took}
  <2>4. \A r \in R : Newer(r)
    <3> HIDE DEF request
    <3> QED BY <2>3
  <2>5. asks' = [asks EXCEPT ![n] = @ \cup R]
    BY <2>2
  <2> HIDE DEF R
  <2> QED BY <1>0, <2>4, <2>5 DEF NewInv, RestTyped, AsksNewer
<1>2. ASSUME NEW n \in Nodes, NEW r \in asks[n], RunAsk(n, r) \/ AskFails(n, r)
      PROVE  AsksNewer'
  BY <1>0, <1>2 DEF NewInv, RestTyped, AsksNewer, RunAsk, AskFails
<1>3. ASSUME UNCHANGED asks
      PROVE  AsksNewer'
  BY <1>3 DEF NewInv, AsksNewer
<1>4. AsksNewer'
  BY <1>1, <1>2, <1>3, AsksChange DEF vars
<1> QED BY <1>0, <1>4 DEF NewInv

\* A request that is answered leaves the image that is there, or puts something
\* newer in its place, or the one it replaces was signed again since it was seen.
LEMMA AnsweredNewer ==
  ASSUME NewInv, NEW n \in Nodes, NEW r \in asks[n], RunAsk(n, r) \/ AskFails(n, r),
         Dirs(n)[r.name] # None
  PROVE  \/ Dirs(n)'[r.name].image = Dirs(n)[r.name].image
         \/ Last(Dirs(n)[r.name]) < Last(Dirs(n)'[r.name])
         \/ /\ Dirs(n)[r.name].image = r.old
            /\ ~(Dirs(n)[r.name].stamps \subseteq r.seen)
<1> DEFINE d == r.name
<1>1. r \in Ask /\ Signed(r) /\ StoreTyped
  BY Parts DEF NewInv, RestTyped, AsksSigned
<1>2. d \in Names /\ r.stamp \in Nat /\ r.image \in Images
  BY <1>1 DEF Ask
<1>3. CASE AskFails(n, r)
  BY <1>3 DEF AskFails, store, Dirs
<1>4. CASE RunAsk(n, r) /\ ~Started(n, r)
  <2>1. SignedSince(Dirs(n), Dirs(n)')
    BY <1>1, <1>4, AnswerSince DEF RunAsk
  <2> QED BY <1>2, <2>1 DEF SignedSince
<1>5. CASE RunAsk(n, r) /\ Started(n, r)
  <2>1. Dirs(n)'[d] = [image |-> r.image, stamps |-> {r.stamp}]
    <3>1. new'[n][d] = [image |-> r.image, stamps |-> {r.stamp}] /\ cur' = cur
      BY <1>1, <1>2, <1>5 DEF Started, StoreTyped, Lists
    <3>2. Dirs(n)'[d] = IF new'[n][d] # None THEN new'[n][d] ELSE cur'[n][d]
      BY <1>2 DEF Dirs
    <3>3. new'[n][d] # None
      BY <1>2, <3>1, NoneAssumption
    <3> QED BY <3>1, <3>2, <3>3
  <2>2. Last(Dirs(n)'[d]) = r.stamp
    BY <1>2, <2>1, LastOfOne DEF Last
  <2>3. CASE UNCHANGED store
    BY <2>3 DEF store, Dirs
  <2>4. CASE /\ new[n][d] = None
             /\ cur[n][d] # None => r.replace /\ Replaceable(n, r)
    <3>1. Dirs(n)[d] = cur[n][d] /\ cur[n][d] \in Contents(d)
      BY <1>1, <1>2, <2>4, ListAt DEF Dirs, StoreTyped
    <3>2. r.replace /\ Replaceable(n, r) /\ Newer(r)
      BY <2>4, <3>1 DEF NewInv, AsksNewer
    <3>3. r.old # None /\ cur[n][d].image = r.old /\ \A t \in r.seen : t < r.stamp
      BY <3>2 DEF Newer, Replaceable
    <3>4. cur[n][d].stamps \in SUBSET Nat /\ cur[n][d].stamps # {}
      BY <3>1, ContentsAre
    <3>5. CASE cur[n][d].stamps \subseteq r.seen
      <4>1. Last(cur[n][d]) < r.stamp
        BY <1>2, <3>3, <3>4, <3>5, LastEarlier DEF Last
      <4> QED BY <2>2, <3>1, <4>1
    <3> QED BY <3>1, <3>3, <3>5
  <2>5. CASE new[n][d] # None /\ new[n][d].image = r.image
    BY <1>2, <2>1, <2>5 DEF Dirs
  <2>6. CASE new[n][d] = None /\ cur[n][d] # None /\ cur[n][d].image = r.image
    BY <1>2, <2>1, <2>6 DEF Dirs
  <2> QED BY <1>1, <1>5, <2>3, <2>4, <2>5, <2>6, AnswerIs DEF RunAsk
<1> QED BY <1>3, <1>4, <1>5

\* A request of reconciliation never puts an older image in the place of a
\* newer one, however long it was on its way to the store it was computed from,
\* unless the very image it replaces was signed again in between.
THEOREM NewestSafe == Spec => NewestWins
<1>1. Init => NewInv
  <2> SUFFICES ASSUME Init PROVE NewInv
    OBVIOUS
  <2> QED BY InitInv DEF NewInv, Init, AsksNewer
<1>2. NewInv /\ [Next]_vars => NewInv'
  BY NewStep
<1>3. NewInv /\ [Next]_vars =>
        [\A n \in Nodes : \A r \in asks[n] \ asks'[n] :
           LET was == Dirs(n)[r.name]
               is == Dirs(n)'[r.name]
               resigned == was.image = r.old /\ ~(was.stamps \subseteq r.seen) IN
           was # None => is.image = was.image \/ Last(was) < Last(is) \/ resigned]_vars
  <2> SUFFICES ASSUME NewInv, Next, NEW n \in Nodes, NEW r \in asks[n] \ asks'[n],
                      Dirs(n)[r.name] # None
               PROVE  \/ Dirs(n)'[r.name].image = Dirs(n)[r.name].image
                      \/ Last(Dirs(n)[r.name]) < Last(Dirs(n)'[r.name])
                      \/ /\ Dirs(n)[r.name].image = r.old
                         /\ ~(Dirs(n)[r.name].stamps \subseteq r.seen)
    OBVIOUS
  <2>1. RunAsk(n, r) \/ AskFails(n, r)
    <3>1. asks \in [Nodes -> SUBSET Ask]
      BY Parts DEF NewInv, RestTyped
    <3>2. PICK m \in Nodes : \E p \in asks[m] : RunAsk(m, p) \/ AskFails(m, p)
      <4>1. ASSUME NEW m \in Nodes, NEW h \in DOMAIN task[m], Merge(m, h) PROVE FALSE
        BY <3>1, <4>1 DEF Merge
      <4>2. asks' # asks
        OBVIOUS
      <4> QED BY <4>1, <4>2, AsksChange
    <3>3. PICK p \in asks[m] : RunAsk(m, p) \/ AskFails(m, p)
      BY <3>2
    <3>4. m = n /\ p = r
      BY <3>1, <3>3 DEF RunAsk, AskFails
    <3> QED BY <3>3, <3>4
  <2> QED BY <2>1, AnsweredNewer
<1> QED BY <1>1, <1>2, <1>3, PTL DEF Spec, NewestWins
=============================================================================
