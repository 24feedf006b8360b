----------------------------- MODULE MCJobCounts -----------------------------
(* JobCounts on small sets; jobs are alike and so are threads.  A state with two
   causes of wrong counts is checked, but not explored further. *)
EXTENDS JobCounts, TLC

Symmetry == Permutations(Jobs) \cup Permutations(Threads)

OneCause == Cardinality(blame) <= 1
=============================================================================
