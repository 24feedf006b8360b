----------------------------- MODULE MCJobArray -----------------------------
(* Instances of JobArray for TLC.                                           *)
EXTENDS JobArray, TLC

Symmetry == Permutations(Threads)
=============================================================================
