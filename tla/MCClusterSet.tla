---------------------------- MODULE MCClusterSet ----------------------------
(* ClusterSet for TLC.                                                     *)
EXTENDS ClusterSet
=============================================================================
