-------------------------- MODULE MCIndexRegistry --------------------------
(* Model-checking instances of IndexRegistry.                              *)
EXTENDS IndexRegistry, TLC

Symmetry == Permutations(Users) \cup Permutations(Attempts)
=============================================================================
