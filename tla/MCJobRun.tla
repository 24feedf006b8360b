------------------------------ MODULE MCJobRun ------------------------------
(* JobRun for TLC: the nodes are interchangeable. *)
EXTENDS JobRun, TLC

Symmetry == Permutations(Nodes)
=============================================================================
