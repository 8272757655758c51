----------------------------- MODULE MCIndexGc -----------------------------
(* Model-checking instances of IndexGc.                                    *)
EXTENDS IndexGc, TLC

Symmetry == Permutations(Images) \cup Permutations(Requests)
=============================================================================
