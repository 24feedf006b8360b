----------------------------- MODULE MCSisters -----------------------------
(* Sisters of one job, interchangeable in the runs without liveness. *)
EXTENDS Sisters, TLC

\* At most one fault or exceptional step, and then no poll.
Bound == faults + extras <= 1 /\ (faults + extras = 0 \/ "poll" \notin work)

Symmetry == Permutations(Sisters)
=============================================================================
