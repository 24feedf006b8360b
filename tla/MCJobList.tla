------------------------------ MODULE MCJobList ------------------------------
(* Job lists of a few jobs, in a container small enough to grow. *)
EXTENDS JobList
=============================================================================
