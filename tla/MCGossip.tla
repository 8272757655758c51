------------------------------ MODULE MCGossip ------------------------------
(* Gossip for TLC: every path is in one directory, and of the images        *)
(* only one is uploaded by clients of these nodes.                         *)
EXTENDS Gossip, TLC

CONSTANTS k1, i1
MCKeyOf == [p \in Paths |-> k1]
MCRequests == Paths \X {i1}
=============================================================================
