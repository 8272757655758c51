------------------------------ MODULE MCUploads ------------------------------
(* Model-checking instances of Uploads: symmetry of interchangeable tasks. *)
EXTENDS Uploads, TLC

Symmetry == Permutations(Tasks) \cup Permutations(Images)
=============================================================================
