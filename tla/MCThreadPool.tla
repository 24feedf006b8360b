---------------------------- MODULE MCThreadPool ----------------------------
(* ThreadPool on a small pool: enough workers for the tp_idle_threads > 2 rule *)
(* to let one go while another is signalled.                                  *)
EXTENDS ThreadPool
=============================================================================
