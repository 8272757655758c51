---------------------------- MODULE MCReconcile ----------------------------
(***************************************************************************)
(* Reconcile for TLC.                                                      *)
(***************************************************************************)
EXTENDS Reconcile, TLC

CONSTANTS n1, n2, n3, d1, d2, i1, i2, i3

old == [node |-> n1, name |-> d1, image |-> i1, stamp |-> 1, replace |-> FALSE]
copy == [old EXCEPT !.node = n2]
newer == [node |-> n2, name |-> d1, image |-> i2, stamp |-> 2, replace |-> FALSE]
newest == [node |-> n1, name |-> d1, image |-> i3, stamp |-> 3, replace |-> TRUE]
other == [node |-> n2, name |-> d2, image |-> i1, stamp |-> 1, replace |-> FALSE]
again == [old EXCEPT !.stamp = 3]

MCRequests == {old, copy, newer, newest, other, again}

Each(S) == (S \X S) \ {<<n, n>> : n \in S}

\* The throttle; a client that uploads while an older image is on its way, at
\* the daemon that fetches it; a client that signs again what is about to be
\* replaced; an upload at the other daemon; a failing download; failing requests
\* and scans; a third daemon that may fall back on another host.
MCScenarios ==
  {[hears |-> Each({n1, n2}), stored |-> {newer, other}, waiting |-> {},
    failures |-> 0, aborts |-> 0],
   [hears |-> {<<n1, n2>>}, stored |-> {old, newer}, waiting |-> {newest},
    failures |-> 0, aborts |-> 0],
   [hears |-> Each({n1, n2}), stored |-> {old, newer}, waiting |-> {again},
    failures |-> 0, aborts |-> 0],
   [hears |-> Each({n1, n2}), stored |-> {old}, waiting |-> {newer},
    failures |-> 0, aborts |-> 0],
   [hears |-> Each({n1, n2}), stored |-> {old, newer}, waiting |-> {},
    failures |-> 0, aborts |-> 1],
   [hears |-> Each({n1, n2}), stored |-> {old, newer}, waiting |-> {},
    failures |-> 2, aborts |-> 0],
   [hears |-> Each({n1, n2, n3}), stored |-> {old, copy}, waiting |-> {},
    failures |-> 1, aborts |-> 0]}
=============================================================================
