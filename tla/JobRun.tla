------------------------------- MODULE JobRun -------------------------------
(***************************************************************************)
(* One batch job on its way through pbs_server and the pbs_moms: started   *)
(* (req_runjob.c, svr_movejob.c), executed and reported back by a MOM      *)
(* (mom_req_quejob.c, catch_child.c, mom_main.c, requests.c), taken        *)
(* through exit or rerun processing (req_jobobit.c), deleted               *)
(* (req_delete.c), requeued (req_rerun.c), polled (req_stat.c), kept in    *)
(* step with the node reports (node_manager.c) and recovered after a       *)
(* restart of the server (pbsd_init.c).                                    *)
(*                                                                         *)
(* One step is one hold of the job's mutex (ji_mutex) by a server thread,  *)
(* or one request handled by the single-threaded MOM.  Remote calls and    *)
(* tasks put on a timer, where the code drops the mutex, are boundaries    *)
(* between two steps, so that all the others can run there.  Where it      *)
(* drops the mutex only to take a lock in the right order and takes it     *)
(* again (the lists of jobs, nodes and exiting jobs), the step goes on.    *)
(* There is one thread of each kind of caller for the job: a retry of      *)
(* on_job_exit waits for the one that is under way.                        *)
(*                                                                         *)
(* The job has no user holds, execution time, stage-in, checkpoint or      *)
(* array; it uses one node.  A network fault costs one of MaxFaults.       *)
(***************************************************************************)
EXTENDS Naturals, FiniteSets, Sequences

CONSTANTS Nodes,          \* the compute nodes, each with its MOM
          None,           \* no job, no node
          ModernMom,      \* the MOMs' version is at least 610
          KeepCompleted,  \* keep_completed > 0
          Nanny,          \* the server attribute job_nanny is set
          MaxAttempts,    \* MAX_EXITING_RETRY_ATTEMPTS
          MaxRuns, MaxFaults, MaxDeletes, MaxReruns, MaxCrashes  \* bounds

ASSUME JobRunAssumption ==
  /\ None \notin Nodes
  /\ {ModernMom, KeepCompleted, Nanny} \subseteq BOOLEAN
  /\ {MaxAttempts, MaxRuns, MaxFaults, MaxDeletes, MaxReruns, MaxCrashes} \subseteq Nat

VARIABLES srv,    \* the server: job, its file on disk, nodes given to it, E records,
                  \* whether an S record was written before the job ended,
                  \* and its place in exiting_jobs_info: 0, or 1 + attempts
          th,     \* the server's callers: where each is, its node, its request or reply
          tasks,  \* work tasks on the server's timers
          mom,    \* the job on each MOM
          obit,   \* the obituary on each MOM's current connection
          late,   \* requests whose sender has given up waiting for the answer
          used    \* how much of each bound is used

vars == <<srv, th, tasks, mom, obit, late, used>>

-----------------------------------------------------------------------------
(* States and substates (pbs_job.h); the ones a job of this model passes.    *)
States == {"QUEUED", "HELD", "RUNNING", "EXITING", "COMPLETE"}
RerunSubs == {"RERUN", "RERUN1", "RERUN2", "RERUN3"}
Substates == RerunSubs \cup
  {"QUEUED", "HELD", "ASYNCING", "PRERUN", "TRNOUT", "TRNOUTCM", "RUNNING", "EXITING",
   "RETURNSTD", "STAGEOUT", "STAGEDEL", "EXITED", "COMPLETE", "ABORT"}

(* The part of struct job the handlers read and write: state and substate,   *)
(* exec_host, ji_momaddr, "ji_stime # 0", JOB_SVFLG_RescAssn,                *)
(* JOB_ACCOUNTED_FOR, comp_time, ji_being_deleted, ji_has_delete_nanny, and  *)
(* the system hold of a job recovered without exec_host.                     *)
Job == [state : States, sub : Substates, host : Nodes \cup {None},
        addr : Nodes \cup {None}, stime : BOOLEAN, resc : BOOLEAN,
        acct : BOOLEAN, comp : BOOLEAN, del : BOOLEAN, nanny : BOOLEAN,
        hold : BOOLEAN]

NewJob == [state |-> "QUEUED", sub |-> "QUEUED", host |-> None, addr |-> None,
           stime |-> FALSE, resc |-> FALSE, acct |-> FALSE, comp |-> FALSE,
           del |-> FALSE, nanny |-> FALSE, hold |-> FALSE]

(* The MOM's side of the job: substate, MOM_EPILOGUE_RUN, how it ended,      *)
(* whether a fatal signal is on its way to the processes.                    *)
MomJob == [sub : {"TRANSIN", "TRANSICM", "PRERUN", "RUNNING", "EXITING",
                  "PREOBIT", "OBIT"},
           epilogue : BOOLEAN, exit : {"done", "retry"}, killed : BOOLEAN]

Incoming == [sub |-> "TRANSIN", epilogue |-> FALSE, exit |-> "done", killed |-> FALSE]

Callers == {"send", "exit", "rerun", "delete", "kill", "nanny", "qrerun", "poll", "sync"}
Requests == {"QueueJob", "RdytoCommit", "Commit", "CopyFiles", "DeleteJob",
             "Rerun", "SIGTERM", "SIGKILL", "SyncKill", "StatusJob"}
Replies == {"ok", "JOBEXIST", "UNKJOBID", "failed", "noreply", "noconn"}

Idle == [pc |-> "idle", node |-> None, rpc |-> "none"]

IsIdle(c) == th[c].pc = "idle"
At(c, pc) == th[c].pc = pc
Answered(c, pc) == th[c].pc = pc /\ th[c].rpc \in Replies

Go(c, pc) == th' = [th EXCEPT ![c] = [@ EXCEPT !.pc = pc, !.rpc = "none"]]
Call(c, pc, n, req) == th' = [th EXCEPT ![c] = [pc |-> pc, node |-> n, rpc |-> req]]
Return(c) == th' = [th EXCEPT ![c] = Idle]

Gone == srv.job = None
Alive == srv.job # None
InMom(n) == mom[n] # None /\ mom[n].sub \notin {"TRANSIN", "TRANSICM"}

Fault == used.faults < MaxFaults /\ used' = [used EXCEPT !.faults = @ + 1]

-----------------------------------------------------------------------------
(* What the handlers do to the server's state.  Each operator takes the      *)
(* server (s.job is a job) and returns it changed; a handler composes them.  *)

\* Mutant: frees the nodes of a running job only.
free_nodes_if_running(s) ==
  IF s.job.state = "RUNNING" THEN [s EXCEPT !.alloc = @ \ {s.job.host}] ELSE s

free_nodes(s) == [s EXCEPT !.alloc = @ \ {s.job.host}]

set_resc_assigned(s, incr) == [s EXCEPT !.job.resc = incr]

rel_resc(s) == set_resc_assigned(free_nodes(s), FALSE)

job_save(s) == [s EXCEPT !.disk = s.job]

svr_job_purge(s) == [s EXCEPT !.job = None, !.disk = None]

\* Mutant: releases whatever the new state is.
release_node_allocation_always(s, newstate) ==
  IF s.job.host # None THEN [free_nodes(s) EXCEPT !.job.host = None] ELSE s

release_node_allocation_if_needed(s, newstate) ==
  IF newstate = "QUEUED" /\ s.job.host # None
  THEN [free_nodes(s) EXCEPT !.job.host = None]
  ELSE s

is_valid_state_transition(j, newstate, newsub) ==
  /\ ~ (j.state = "COMPLETE" /\ newstate = "EXITING")
  /\ ~ (j.sub = "COMPLETE" /\ newsub = "ABORT")

(* A refused transition leaves everything as it is; the record on disk is    *)
(* rewritten when the state or the substate changes.                         *)
svr_setjobstate(s, newstate, newsub) ==
  LET r == IF s.job.state # newstate
           THEN release_node_allocation_if_needed(s, newstate) ELSE s
      t == [r EXCEPT !.job.state = newstate, !.job.sub = newsub]
  IN  IF ~ is_valid_state_transition(s.job, newstate, newsub) THEN s
      ELSE IF s.job.state = newstate /\ s.job.sub = newsub THEN s
      ELSE job_save(t)

\* Mutant: does not know RERUN3 as a substate of a rerun.
svr_evaljobstate_no_rerun3(s, force) ==
  IF \/ s.job.state \in {"EXITING", "COMPLETE"} /\ s.job.sub \notin RerunSubs \ {"RERUN3"}
     \/ ~ force /\ s.job.state = "RUNNING"
  THEN s
  ELSE svr_setjobstate(s, "QUEUED", "QUEUED")

(* svr_evaljobstate followed by the svr_setjobstate of its result, as all    *)
(* its callers here do.                                                      *)
svr_evaljobstate(s, force) ==
  IF \/ s.job.state \in {"EXITING", "COMPLETE"} /\ s.job.sub \notin RerunSubs
     \/ ~ force /\ s.job.state = "RUNNING"
  THEN s
  ELSE IF s.job.hold THEN svr_setjobstate(s, "HELD", "HELD")
  ELSE svr_setjobstate(s, "QUEUED", "QUEUED")

end_of_job_accounting(s) ==
  IF ~ s.job.stime \/ s.job.acct THEN s
  ELSE [s EXCEPT !.ended = @ + 1, !.job.acct = TRUE]

(* exiting_jobs_info may list a job several times; the oldest entry, which   *)
(* runs out of attempts first, stands for them.                              *)
record_job_as_exiting(s) == [s EXCEPT !.listed = IF @ = 0 THEN 1 ELSE @]
remove_job_from_exiting_list(s) == [s EXCEPT !.listed = 0]

(* comp_time is set and the job saved.                                       *)
set_comp_time(s) ==
  IF s.job.comp /\ s.job.sub = "COMPLETE" THEN s ELSE job_save([s EXCEPT !.job.comp = TRUE])

\* Mutant: JOB_ACCOUNTED_FOR is on disk before the E record is written.
flag_saved_first(s) ==
  LET c == set_comp_time(remove_job_from_exiting_list(s))
      f == job_save([c EXCEPT !.job.acct = TRUE])
  IN  <<c, f, [f EXCEPT !.ended = end_of_job_accounting(c).ended]>>

(* A completed job is saved with its comp_time before the E record is        *)
(* written, and not saved after it: what the server passes, and may die in.  *)
completion_steps(s) ==
  LET c == set_comp_time(remove_job_from_exiting_list(s))
  IN  <<c, end_of_job_accounting(c)>>

handle_complete_first_time(s) ==
  LET steps == completion_steps(s)
      e == steps[Len(steps)]
  IN  IF KeepCompleted THEN e ELSE svr_job_purge(e)

(* handle_complete_first_time hands a job it keeps to the completed-jobs     *)
(* map; the map's thread purges it later.                                    *)
CompleteTasks == IF KeepCompleted THEN {"purge"} ELSE {}

(* A job that is not running: aborted and, having no dependants, purged.     *)
job_abt(s) ==
  LET e == svr_setjobstate(s, "EXITING", "ABORT")
  IN  IF is_valid_state_transition(e.job, "COMPLETE", "ABORT")
      THEN svr_job_purge(svr_setjobstate(e, "COMPLETE", "ABORT"))
      ELSE e

(* apply_job_delete_nanny does nothing for a job that had a nanny before.    *)
apply_job_delete_nanny(s) ==
  IF Nanny THEN [s EXCEPT !.job.nanny = TRUE] ELSE s
NannyTasks == IF Nanny /\ ~ srv.job.nanny THEN {"nanny"} ELSE {}

(* The MOM answered UNKJOBID to the signal of a delete.                      *)
PurgeUnknown(s) == svr_job_purge(rel_resc(s))

-----------------------------------------------------------------------------
(* Starting the job. *)

\* Mutant: ji_momaddr is not set.
req_runjob_no_momaddr(n, async) ==
  /\ Alive /\ srv.job.state \in {"QUEUED", "HELD"} /\ srv.job.sub \notin {"PRERUN", "RUNNING"}
  /\ n \notin srv.alloc
  /\ IsIdle("send")
  /\ used.runs < MaxRuns /\ used' = [used EXCEPT !.runs = @ + 1]
  /\ srv' = [srv EXCEPT !.job.host = n, !.alloc = @ \cup {n}]
  /\ Go("send", "start")
  /\ UNCHANGED <<tasks, mom, obit, late>>

(* chk_job_torun accepts the job, assign_hosts gives it node n; an           *)
(* asynchronous run is acknowledged and handed to the async pool.            *)
req_runjob(n, async) ==
  /\ Alive /\ srv.job.state \in {"QUEUED", "HELD"} /\ srv.job.sub \notin {"PRERUN", "RUNNING"}
  /\ n \notin srv.alloc
  /\ IsIdle("send")
  /\ used.runs < MaxRuns /\ used' = [used EXCEPT !.runs = @ + 1]
  /\ LET a == [srv EXCEPT !.job.host = n, !.job.addr = n, !.alloc = @ \cup {n}]
     IN  srv' = IF async THEN svr_setjobstate(a, srv.job.state, "ASYNCING") ELSE a
  /\ Go("send", "start")
  /\ UNCHANGED <<tasks, mom, obit, late>>

(* check_and_run_job_work .. send_job_to_mom: the job is found again, its    *)
(* state is not looked at.                                                   *)
svr_startjob ==
  /\ At("send", "start")
  /\ \/ Gone /\ Return("send") /\ UNCHANGED srv
     \/ /\ Alive /\ srv.job.host # None
        /\ srv' = svr_setjobstate(srv, "RUNNING", "PRERUN")
        /\ Go("send", "connect")
     \/ \E n \in Nodes \ srv.alloc :
          /\ Alive /\ srv.job.host = None
          /\ srv' = svr_setjobstate([srv EXCEPT !.job.host = n, !.job.addr = n,
                                                !.alloc = @ \cup {n}],
                                    "RUNNING", "PRERUN")
          /\ Go("send", "connect")
     \/ /\ Alive /\ srv.job.host = None /\ Nodes \subseteq srv.alloc
        /\ Return("send") /\ UNCHANGED srv
  /\ UNCHANGED <<tasks, mom, obit, late, used>>

(* send_job_work takes the address of the MOM; the connection succeeds.      *)
(* update_substate_if_needed marks the job TRNOUT and QueueJob is sent.      *)
send_job_work ==
  /\ At("send", "connect")
  /\ \/ Gone /\ Return("send") /\ UNCHANGED srv
     \/ /\ Alive
        /\ srv' = IF srv.job.sub = "TRNOUT" THEN srv
                  ELSE job_save([srv EXCEPT !.job.sub = "TRNOUT"])
        /\ Call("send", "queue", srv.job.addr, "QueueJob")
  /\ UNCHANGED <<tasks, mom, obit, late, used>>

(* The send ends with a status; rc # 0 makes check_and_run_job_work free the *)
(* nodes once more (FAIL+, REQUEUE+).                                        *)
Finish(status) == Go("send", status)

ConnectFails ==
  /\ At("send", "connect") /\ Fault
  /\ \E status \in {"FAIL+", "REQUEUE"} : Finish(status)
  /\ UNCHANGED <<srv, tasks, mom, obit, late>>

attempt_to_queue_job_on_mom ==
  /\ Answered("send", "queue")
  /\ \/ /\ th["send"].rpc = "ok" /\ Alive
        /\ srv' = job_save([srv EXCEPT !.job.sub = "TRNOUTCM"])
        /\ Call("send", "commit", th["send"].node,
                IF ModernMom THEN "Commit" ELSE "RdytoCommit")
     \/ th["send"].rpc = "ok" /\ Gone /\ Return("send") /\ UNCHANGED srv
     \/ th["send"].rpc = "JOBEXIST" /\ Finish("FAIL+") /\ UNCHANGED srv
     \/ /\ th["send"].rpc = "noreply" /\ UNCHANGED srv
        /\ \E status \in {"REQUEUE+", "connect"} : Finish(status)
  /\ UNCHANGED <<tasks, mom, obit, late, used>>

(* A commit that failed is repeated over a new connection, under which the   *)
(* MOM does not find the job (locate_new_job): it fails for good.            *)
commit_job_on_mom ==
  /\ Answered("send", "commit")
  /\ Finish(IF th["send"].rpc = "ok" /\ Alive THEN "SUCCESS" ELSE "REQUEUE")
  /\ UNCHANGED <<srv, tasks, mom, obit, late, used>>

finish_sendmom ==
  /\ th["send"].pc \in {"SUCCESS", "REQUEUE", "REQUEUE+", "FAIL+"}
  /\ \/ Gone /\ Return("send") /\ UNCHANGED <<srv, tasks>>
     \/ /\ Alive /\ At("send", "SUCCESS")
        /\ LET s == set_resc_assigned([srv EXCEPT !.job.stime = TRUE], TRUE)
           IN  srv' = IF srv.job.sub \in {"PRERUN", "TRNOUTCM"}
                      THEN [svr_setjobstate(s, "RUNNING", "RUNNING") EXCEPT !.ran = TRUE]
                      ELSE s
        /\ tasks' = tasks \cup {"poll"}
        /\ Return("send")
     \/ /\ Alive /\ ~ At("send", "SUCCESS")
        /\ srv' = IF srv.job.sub = "ABORT" THEN free_nodes(srv)
                  ELSE svr_evaljobstate(free_nodes(srv), TRUE)
        /\ IF At("send", "REQUEUE") THEN Return("send") ELSE Go("send", "cleanup")
        /\ UNCHANGED tasks
  /\ UNCHANGED <<mom, obit, late, used>>

(* check_and_run_job_work after a failed start. *)
check_and_run_job_work ==
  /\ At("send", "cleanup")
  /\ srv' = IF Alive THEN free_nodes(srv) ELSE srv
  /\ Return("send")
  /\ UNCHANGED <<tasks, mom, obit, late, used>>

-----------------------------------------------------------------------------
(* The obituary and what follows it. *)

(* The substate update_substate_from_exit_status leaves: a start the MOM     *)
(* wants retried makes the job RERUN or RERUN1 (by JOB_SVFLG_HASRUN, which   *)
(* is not modelled), unless the job is being deleted.                        *)
update_substate_from_exit_status(j, exit) ==
  IF exit = "retry" /\ ~ j.del THEN {"RERUN", "RERUN1"} ELSE {j.sub}

\* Mutant: an obituary that overtakes the end of the send is not accepted.
AcceptsObit_if_sent(n) ==
  Alive /\ srv.job.addr = n /\ srv.job.state = "RUNNING" /\ srv.job.sub = "RUNNING"

(* The server's handling of an obituary of node n that it accepts: the job   *)
(* is running and was sent to n.                                             *)
AcceptsObit(n) ==
  Alive /\ srv.job.addr = n /\ srv.job.state = "RUNNING" /\ srv.job.sub # "PRERUN"

handle_terminating_job(s) == record_job_as_exiting(svr_setjobstate(s, "EXITING", "EXITING"))

completed(s) == svr_setjobstate(rel_resc(s), "COMPLETE", "COMPLETE")

(* The node is found: nodes are not taken out of the cluster here.           *)
is_job_finished(s) == handle_complete_first_time(completed(s))

AcceptObit(exit) ==
  \E sub \in update_substate_from_exit_status(srv.job, exit) :
    LET s == [srv EXCEPT !.job.sub = sub]
    IN  IF sub \in {"RERUN", "RERUN1"}                           \* rerun_job
        THEN /\ srv' = svr_setjobstate(s, "EXITING", sub)
             /\ tasks' = tasks \cup {"rerun"}
        ELSE IF ModernMom
        THEN /\ srv' = is_job_finished(handle_terminating_job(s))
             /\ tasks' = tasks \cup CompleteTasks
        ELSE /\ srv' = handle_terminating_job(s)
             /\ tasks' = tasks \cup {"exit"}

(* An obituary for a job that is exiting already: "just make sure its in the *)
(* exiting jobs list".                                                       *)
RefuseObit(n) ==
  /\ srv' = IF Alive /\ srv.job.addr = n /\ srv.job.state = "EXITING"
            THEN record_job_as_exiting(srv) ELSE srv
  /\ UNCHANGED tasks

(* An obituary for a job the server does not know, knows elsewhere, or does  *)
(* not have running is answered at once; one that overtakes the end of the   *)
(* send (PRERUN) is put aside for wait_for_send, which looks the request up  *)
(* under the wrong key and never answers it.                                 *)
req_jobobit(n) ==
  /\ obit[n] = "sent"
  /\ IF AcceptsObit(n) THEN AcceptObit(mom[n].exit) ELSE RefuseObit(n)
  /\ obit' = [obit EXCEPT ![n] =
       IF Alive /\ srv.job.addr = n /\ srv.job.state = "RUNNING"
               /\ srv.job.sub = "PRERUN"
       THEN "dropped" ELSE "answered"]
  /\ UNCHANGED <<th, mom, late, used>>

(* The same for an obituary whose connection the MOM has abandoned.          *)
LateObit(o) ==
  /\ o \in late /\ o.req = "Obit"
  /\ late' = late \ {o}
  /\ IF AcceptsObit(o.node) THEN AcceptObit(o.exit) ELSE RefuseObit(o.node)
  /\ UNCHANGED <<th, mom, obit, used>>

(* on_job_exit falls from one substate's code into the next; once inside, it *)
(* is the position in the code that counts, not the job's substate.          *)
on_job_exit ==
  /\ "exit" \in tasks /\ IsIdle("exit")
  /\ LET sub == IF Alive THEN srv.job.sub ELSE "gone"
     IN  \/ /\ sub \in {"EXITING", "ABORT"}
            /\ srv' = svr_setjobstate(srv, "EXITING", "RETURNSTD")
            /\ tasks' = tasks \ {"exit"}
            /\ Go("exit", "RETURNSTD")
         \/ /\ sub \in {"RETURNSTD", "STAGEOUT", "STAGEDEL", "EXITED"}
            /\ tasks' = tasks \ {"exit"}
            /\ Go("exit", sub)
            /\ UNCHANGED srv
         \/ /\ sub = "COMPLETE"
            /\ srv' = handle_complete_first_time(srv)
            /\ tasks' = (tasks \ {"exit"}) \cup CompleteTasks
            /\ UNCHANGED th
         \/ /\ sub \notin {"EXITING", "ABORT", "RETURNSTD", "STAGEOUT", "STAGEDEL",
                           "EXITED", "COMPLETE"}
            /\ tasks' = tasks \ {"exit"}
            /\ UNCHANGED <<srv, th>>
  /\ UNCHANGED <<mom, obit, late, used>>

handle_returnstd ==
  /\ At("exit", "RETURNSTD")
  /\ IF Gone \/ srv.job.host = None
     THEN Return("exit") /\ UNCHANGED srv
     ELSE /\ srv' = svr_setjobstate(srv, "EXITING", "STAGEOUT")
          /\ Go("exit", "STAGEOUT")
  /\ UNCHANGED <<tasks, mom, obit, late, used>>

(* The MOM's address: ji_momaddr, or the host in exec_host.                  *)
MomOf(j) == IF j.addr # None THEN j.addr ELSE j.host

(* mom_comm gets no connection: a fault, or there is no address to try.      *)
NoConnection == IF MomOf(srv.job) = None THEN UNCHANGED used ELSE Fault
Connection == MomOf(srv.job) # None /\ UNCHANGED used

(* The output files are copied by the MOM.  When the connection fails,       *)
(* mom_comm sets a task to try again; then, and when there is no exec_host,  *)
(* on_job_exit goes on to the next case all the same.                        *)
handle_stageout ==
  /\ At("exit", "STAGEOUT")
  /\ \/ Gone /\ Return("exit") /\ UNCHANGED <<tasks, used>>
     \/ /\ Alive /\ srv.job.host # None /\ Connection /\ UNCHANGED tasks
        /\ Call("exit", "copied", MomOf(srv.job), "CopyFiles")
     \/ /\ Alive /\ srv.job.host # None /\ NoConnection
        /\ tasks' = tasks \cup {"exit"} /\ Go("exit", "STAGEDEL")
     \/ Alive /\ srv.job.host = None /\ Go("exit", "STAGEDEL") /\ UNCHANGED <<tasks, used>>
  /\ UNCHANGED <<srv, mom, obit, late>>

FilesCopied ==
  /\ Answered("exit", "copied")
  /\ \/ Gone /\ Return("exit") /\ UNCHANGED srv
     \/ /\ Alive
        /\ srv' = svr_setjobstate(srv, "EXITING", "STAGEDEL")
        /\ Go("exit", "STAGEDEL")
  /\ UNCHANGED <<tasks, mom, obit, late, used>>

handle_stagedel ==
  /\ At("exit", "STAGEDEL")
  /\ \/ Gone /\ Return("exit") /\ UNCHANGED srv
     \/ /\ Alive
        /\ srv' = svr_setjobstate(srv, "EXITING", "EXITED")
        /\ Go("exit", "EXITED")
  /\ UNCHANGED <<tasks, mom, obit, late, used>>

(* The MOM deletes its copy, the nodes and resources are released.           *)
handle_exited ==
  /\ At("exit", "EXITED")
  /\ \/ Gone /\ Return("exit") /\ UNCHANGED <<tasks, used>>
     \/ /\ Alive /\ Connection /\ UNCHANGED tasks
        /\ Call("exit", "deleted", MomOf(srv.job), "DeleteJob")
     \/ Alive /\ NoConnection /\ tasks' = tasks \cup {"exit"} /\ Return("exit")
  /\ UNCHANGED <<srv, mom, obit, late>>

JobDeleted ==
  /\ Answered("exit", "deleted")
  /\ \/ Gone /\ Return("exit") /\ UNCHANGED srv
     \/ /\ Alive
        /\ srv' = completed(srv)
        /\ Go("exit", "COMPLETE")
  /\ UNCHANGED <<tasks, mom, obit, late, used>>

JobComplete ==
  /\ At("exit", "COMPLETE")
  /\ Return("exit")
  /\ \/ Gone /\ UNCHANGED <<srv, tasks>>
     \/ Alive /\ srv' = handle_complete_first_time(srv) /\ tasks' = tasks \cup CompleteTasks
  /\ UNCHANGED <<mom, obit, late, used>>

(* The completed-jobs map purges a job it finds complete. *)
handle_complete_second_time ==
  /\ "purge" \in tasks
  /\ tasks' = tasks \ {"purge"}
  /\ LET s == IF Alive /\ srv.job.state = "EXITING"
              THEN svr_setjobstate(srv, "COMPLETE", "COMPLETE") ELSE srv
     IN  srv' = IF Alive /\ s.job.state = "COMPLETE" THEN svr_job_purge(s) ELSE srv
  /\ UNCHANGED <<th, mom, obit, late, used>>

(* inspect_exiting_jobs: what is in the list is retried by calling           *)
(* on_job_exit, whatever the job has become since it was put there ...       *)
check_exiting_jobs ==
  /\ srv.listed \in 1 .. MaxAttempts
  /\ IF Gone \/ srv.job.state = "COMPLETE"
     THEN srv' = remove_job_from_exiting_list(srv) /\ UNCHANGED tasks
     ELSE srv' = [srv EXCEPT !.listed = @ + 1] /\ tasks' = tasks \cup {"exit"}
  /\ UNCHANGED <<th, mom, obit, late, used>>

force_purge_work(s) == svr_job_purge(completed(s))

(* ... and purged when that has been done MAX_EXITING_RETRY_ATTEMPTS times.  *)
get_next_retryable_jobid ==
  /\ srv.listed > MaxAttempts
  /\ LET s == remove_job_from_exiting_list(srv)
     IN  srv' = IF Gone THEN s ELSE force_purge_work(s)
  /\ UNCHANGED <<th, tasks, mom, obit, late, used>>

-----------------------------------------------------------------------------
(* Requeueing a job whose processes have ended (on_job_rerun). *)

(* From RERUN1 on there is nothing to copy or to delete for this job: the    *)
(* substates are passed in one hold, then the MOM is told to delete it.      *)
DeleteForRerun(s) ==
  LET r2 == IF s.job.sub = "RERUN1" THEN svr_setjobstate(s, "EXITING", "RERUN2") ELSE s
      r3 == IF r2.job.sub = "RERUN2" THEN svr_setjobstate(r2, "EXITING", "RERUN3") ELSE r2
  IN  /\ srv' = r3
      /\ Call("rerun", "deleted", MomOf(s.job), "DeleteJob")

on_job_rerun ==
  /\ "rerun" \in tasks /\ IsIdle("rerun")
  /\ \/ Gone /\ tasks' = tasks \ {"rerun"} /\ UNCHANGED <<srv, th, used>>
     \/ /\ Alive /\ Connection /\ tasks' = tasks \ {"rerun"}
        /\ \/ /\ srv.job.sub = "RERUN"
              /\ Call("rerun", "returned", MomOf(srv.job), "Rerun") /\ UNCHANGED srv
           \/ srv.job.sub \in RerunSubs \ {"RERUN"} /\ DeleteForRerun(srv)
           \/ srv.job.sub \notin RerunSubs /\ UNCHANGED <<srv, th>>
     \/ Alive /\ NoConnection /\ UNCHANGED <<srv, th, tasks>>       \* tried again
  /\ UNCHANGED <<mom, obit, late>>

FilesReturned ==
  /\ Answered("rerun", "returned")
  /\ \/ Gone /\ Return("rerun") /\ UNCHANGED srv
     \/ Alive /\ DeleteForRerun(svr_setjobstate(srv, "EXITING", "RERUN1"))
  /\ UNCHANGED <<tasks, mom, obit, late, used>>

RerunDeleted ==
  /\ Answered("rerun", "deleted")
  /\ srv' = IF Gone THEN srv ELSE job_save(svr_evaljobstate(rel_resc(srv), FALSE))
  /\ Return("rerun")
  /\ UNCHANGED <<tasks, mom, obit, late, used>>

-----------------------------------------------------------------------------
(* Deleting the job. *)

req_deletejob ==
  /\ used.deletes < MaxDeletes /\ used' = [used EXCEPT !.deletes = @ + 1]
  /\ tasks' = tasks \cup {"delete"}
  /\ UNCHANGED <<srv, th, mom, obit, late>>

(* While the job is being sent (PRERUN) or rerun the delete is put off; it   *)
(* goes ahead all the same when that has lasted ten seconds, which counts as *)
(* a fault here.  A running job gets SIGTERM (and a nanny), another one is   *)
(* completed on the spot.                                                    *)
execute_job_delete ==
  /\ "delete" \in tasks
  /\ \/ Gone /\ tasks' = tasks \ {"delete"} /\ UNCHANGED <<srv, th, used>>
     \/ /\ Alive
        /\ IF srv.job.sub \in RerunSubs \cup {"PRERUN"} THEN Fault ELSE UNCHANGED used
        /\ \/ /\ srv.job.state = "RUNNING" /\ srv.job.nanny
              /\ tasks' = tasks \ {"delete"}                           \* rejected
              /\ UNCHANGED <<srv, th>>
           \/ /\ srv.job.state = "RUNNING" /\ ~ srv.job.nanny
              /\ IsIdle("delete")
              /\ srv' = apply_job_delete_nanny([srv EXCEPT !.job.del = TRUE])
              /\ tasks' = (tasks \ {"delete"}) \cup NannyTasks
              /\ IF srv.job.host = None THEN UNCHANGED th              \* no signal
                 ELSE Call("delete", "term", srv.job.addr, "SIGTERM")
           \/ /\ srv.job.state # "RUNNING"
              /\ srv' = svr_setjobstate(srv, "COMPLETE", "COMPLETE")  \* delete_inactive_job
              /\ tasks' = (tasks \ {"delete"}) \cup {"exit"}
              /\ UNCHANGED th
  /\ UNCHANGED <<mom, obit, late>>

post_delete_mom1 ==
  /\ Answered("delete", "term")
  /\ Return("delete")
  /\ \/ /\ Gone \/ th["delete"].rpc \in {"noreply", "noconn"}
        /\ UNCHANGED <<srv, tasks>>
     \/ /\ Alive /\ th["delete"].rpc = "UNKJOBID"
        /\ srv' = PurgeUnknown(srv) /\ UNCHANGED tasks
     \/ /\ Alive /\ th["delete"].rpc = "ok"
        /\ srv' = apply_job_delete_nanny(srv)
        /\ tasks' = tasks \cup {"kill"} \cup NannyTasks
  /\ UNCHANGED <<mom, obit, late, used>>

(* The signal is relayed to the MOM only if exec_host is set.                *)
SendKill(c, pc) ==
  \/ Alive /\ srv.job.host # None /\ Call(c, pc, MomOf(srv.job), "SIGKILL")
  \/ Gone /\ UNCHANGED th
  \/ Alive /\ srv.job.host = None /\ UNCHANGED th

post_delete_mom2 ==
  /\ "kill" \in tasks /\ IsIdle("kill")
  /\ tasks' = tasks \ {"kill"}
  /\ IF Alive /\ srv.job.state = "RUNNING" THEN SendKill("kill", "killed") ELSE UNCHANGED th
  /\ UNCHANGED <<srv, mom, obit, late, used>>

job_delete_nanny ==
  /\ "nanny" \in tasks /\ IsIdle("nanny")
  /\ tasks' = tasks \ {"nanny"}
  /\ SendKill("nanny", "nannied")
  /\ UNCHANGED <<srv, mom, obit, late, used>>

(* The nanny sets itself again only for a job without a nanny: never.        *)
post_job_delete_nanny ==
  /\ Answered("nanny", "nannied")
  /\ Return("nanny")
  /\ srv' = IF Alive /\ th["nanny"].rpc = "UNKJOBID" THEN PurgeUnknown(srv) ELSE srv
  /\ UNCHANGED <<tasks, mom, obit, late, used>>

KillAnswered ==
  /\ \E c \in {"kill", "sync"} : Answered(c, "killed") /\ Return(c)
  /\ UNCHANGED <<srv, tasks, mom, obit, late, used>>

-----------------------------------------------------------------------------
(* qrerun *)

OneRerun == used.reruns < MaxReruns /\ used' = [used EXCEPT !.reruns = @ + 1]

(* qrerun -f when the MOM cannot be told (issue_signal): the job is queued,  *)
(* and finalize_rerunjob writes its substate.                                *)
ForceRequeue(s) ==
  [svr_setjobstate(rel_resc(s), "QUEUED", "QUEUED") EXCEPT !.job.sub = "RERUN"]

req_rerunjob(force) ==
  LET back == IF srv.job.hold THEN "HELD" ELSE "QUEUED"
      s == [srv EXCEPT !.job.sub = "RERUN"]
  IN  /\ OneRerun
      /\ IsIdle("qrerun") /\ Alive
      /\ \/ /\ srv.job.state \in {"EXITING", "COMPLETE"}
            /\ srv' = [svr_setjobstate(srv, back, back) EXCEPT !.job.comp = FALSE]
            /\ UNCHANGED th
         \/ /\ srv.job.state = "RUNNING"
            /\ IF srv.job.host = None
               THEN srv' = (IF force THEN ForceRequeue(s) ELSE s) /\ UNCHANGED th
               ELSE /\ srv' = s
                    /\ Call("qrerun", IF force THEN "forcekill" ELSE "rerunkill",
                            MomOf(srv.job), "SIGKILL")
      /\ UNCHANGED <<tasks, mom, obit, late>>

(* post_rerun, which requeues the job unless the MOM took the signal, and    *)
(* then finalize_rerunjob, which writes the substate again.                  *)
finalize_rerunjob ==
  LET c == th["qrerun"]
      s == IF c.rpc = "ok" THEN srv ELSE svr_evaljobstate(srv, TRUE)
  IN  /\ Answered("qrerun", "rerunkill") \/ Answered("qrerun", "forcekill")
      /\ Return("qrerun")
      /\ srv' = CASE Gone -> srv
                  [] Alive /\ c.rpc = "noconn" ->
                       IF c.pc = "forcekill" THEN ForceRequeue(srv) ELSE srv
                  [] OTHER -> [s EXCEPT !.job.sub = "RERUN"]
      /\ UNCHANGED <<tasks, mom, obit, late, used>>

(* qrerun all: a running job is queued, its MOM is not told.                 *)
handle_requeue_all ==
  /\ OneRerun
  /\ Alive /\ srv.job.state = "RUNNING"
  /\ srv' = [svr_setjobstate(rel_resc(srv), "QUEUED", "QUEUED") EXCEPT !.job.host = None]
  /\ UNCHANGED <<th, tasks, mom, obit, late>>

-----------------------------------------------------------------------------
(* Polling the MOM about a running job. *)

poll_job_task ==
  /\ "poll" \in tasks /\ IsIdle("poll")
  /\ \/ /\ Alive => srv.job.state # "RUNNING"
        /\ tasks' = tasks \ {"poll"} /\ UNCHANGED th
     \/ /\ Alive /\ srv.job.state = "RUNNING" /\ srv.job.host # None
        /\ Call("poll", "stat", MomOf(srv.job), "StatusJob") /\ UNCHANGED tasks
  /\ UNCHANGED <<srv, mom, obit, late, used>>

(* A job the MOM does not know is aborted, whatever has become of it since   *)
(* the question was asked.                                                   *)
AbortUnknown(s) == job_abt(rel_resc(svr_setjobstate(s, "QUEUED", "ABORT")))

stat_update ==
  /\ Answered("poll", "stat")
  /\ Return("poll")
  /\ srv' = IF Alive /\ th["poll"].rpc = "UNKJOBID" THEN AbortUnknown(srv) ELSE srv
  /\ UNCHANGED <<tasks, mom, obit, late, used>>

-----------------------------------------------------------------------------
(* The MOM.  MomHandles(m, req) is the set of outcomes [mom, reply] of a     *)
(* request for the job whose record is m.                                    *)

mom_req_signal_job(m, sig) ==
  IF m = None \/ m.sub \in {"TRANSIN", "TRANSICM"} THEN [mom |-> m, reply |-> "UNKJOBID"]
  ELSE [reply |-> "ok",
        mom |-> IF sig = "SIGTERM" THEN m
                ELSE IF sig = "SyncKill" /\ m.sub \in {"EXITING", "PRERUN"} THEN None
                ELSE IF m.sub = "RUNNING" THEN [m EXCEPT !.killed = TRUE]
                ELSE IF m.sub = "OBIT" THEN m
                ELSE [m EXCEPT !.sub = "EXITING"]]

mom_req_quejob(m) ==
  IF m = None THEN [mom |-> Incoming, reply |-> "ok"] ELSE [mom |-> m, reply |-> "JOBEXIST"]

req_rdytocommit(m) ==
  IF m # None /\ m.sub = "TRANSIN"
  THEN [mom |-> [m EXCEPT !.sub = "TRANSICM"], reply |-> "ok"]
  ELSE [mom |-> m, reply |-> "UNKJOBID"]

(* start_exec may fail at once: the MOM then reports the job as exiting and  *)
(* will send an obituary asking for a retry.                                 *)
req_commit(m) ==
  IF m # None /\ m.sub \in {"TRANSIN", "TRANSICM"}
  THEN {[mom |-> [m EXCEPT !.sub = "PRERUN"], reply |-> "ok"],
        [mom |-> [m EXCEPT !.sub = "EXITING", !.exit = "retry"], reply |-> "failed"]}
  ELSE {[mom |-> m, reply |-> "UNKJOBID"]}

mom_req_deletejob(m) ==
  IF m = None \/ m.sub \in {"TRANSIN", "TRANSICM"} THEN [mom |-> m, reply |-> "UNKJOBID"]
  ELSE [mom |-> None, reply |-> "ok"]

MomHandles(m, req) ==
  CASE req = "QueueJob" -> {mom_req_quejob(m)}
    [] req = "RdytoCommit" -> {req_rdytocommit(m)}
    [] req = "Commit" -> req_commit(m)
    [] req = "DeleteJob" -> {mom_req_deletejob(m)}
    [] req \in {"SIGTERM", "SIGKILL", "SyncKill"} -> {mom_req_signal_job(m, req)}
    [] OTHER -> {[mom |-> m, reply |-> IF m = None \/ m.sub \in {"TRANSIN", "TRANSICM"}
                                      THEN "UNKJOBID" ELSE "ok"]}

SetMom(n, m) ==
  /\ mom' = [mom EXCEPT ![n] = m]
  /\ obit' = IF m = None THEN [obit EXCEPT ![n] = "none"] ELSE obit

(* The MOM of th[c].node takes and answers the request in flight.  After a   *)
(* successful RdytoCommit the sender's next request is the Commit.           *)
MomServes(c) ==
  /\ th[c].rpc \in Requests
  /\ \E o \in MomHandles(mom[th[c].node], th[c].rpc) :
       /\ SetMom(th[c].node, o.mom)
       /\ th' = [th EXCEPT ![c].rpc =
                   IF th[c].rpc = "RdytoCommit" /\ o.reply = "ok" THEN "Commit" ELSE o.reply]
  /\ UNCHANGED <<srv, tasks, late, used>>

(* A request the sender of which no longer waits. *)
MomServesLate(r) ==
  /\ r \in late /\ r.req # "Obit"
  /\ late' = late \ {r}
  /\ \E o \in MomHandles(mom[r.node], r.req) : SetMom(r.node, o.mom)
  /\ UNCHANGED <<srv, th, tasks, used>>

(* The network: no connection, a request that is late, an answer that is     *)
(* lost.  mom_comm and svr_connect report a missing connection to "send",    *)
(* "exit" and "rerun" before the request is made.                            *)
NetworkFails(c) ==
  /\ Fault
  /\ \/ /\ th[c].rpc \in Requests /\ c \notin {"send", "exit", "rerun"}
        /\ th' = [th EXCEPT ![c].rpc = "noconn"] /\ UNCHANGED late
     \/ /\ th[c].rpc \in Requests
        /\ th' = [th EXCEPT ![c].rpc = "noreply"]
        /\ late' = late \cup {[req |-> th[c].rpc, node |-> th[c].node, exit |-> "done"]}
     \/ /\ th[c].rpc \in {"ok", "JOBEXIST", "UNKJOBID", "failed"}
        /\ th' = [th EXCEPT ![c].rpc = "noreply"] /\ UNCHANGED late
  /\ UNCHANGED <<srv, tasks, mom, obit>>

(* The connection that brought a QueueJob is closed before the commit.       *)
close_quejob(n) ==
  /\ mom[n] # None /\ mom[n].sub = "TRANSIN"
  /\ ~ (th["send"].node = n /\ th["send"].pc \in {"queue", "commit"})
  /\ \A r \in late : r.node = n => r.req \notin {"QueueJob", "RdytoCommit", "Commit"}
  /\ SetMom(n, None)
  /\ UNCHANGED <<srv, th, tasks, late, used>>

start_exec(n) ==
  /\ mom[n] # None /\ mom[n].sub = "PRERUN"
  /\ \/ SetMom(n, [mom[n] EXCEPT !.sub = "RUNNING"])
     \/ SetMom(n, [mom[n] EXCEPT !.sub = "EXITING", !.exit = "retry"])
  /\ UNCHANGED <<srv, th, tasks, late, used>>

(* The last task of the job has ended, by itself or by a signal. *)
JobEnds(n) ==
  /\ mom[n] # None /\ mom[n].sub = "RUNNING"
  /\ SetMom(n, [mom[n] EXCEPT !.sub = "EXITING", !.killed = FALSE])
  /\ UNCHANGED <<srv, th, tasks, late, used>>

(* scan_for_exiting, mother_superior_cleanup: the epilogue is run once.      *)
scan_for_exiting(n) ==
  /\ mom[n] # None /\ mom[n].sub = "EXITING" /\ ~ mom[n].epilogue
  /\ SetMom(n, [mom[n] EXCEPT !.sub = "PREOBIT", !.epilogue = TRUE])
  /\ UNCHANGED <<srv, th, tasks, late, used>>

(* The first obituary, and the ones check_exiting_jobs sends again: for a    *)
(* job that went back to EXITING, and for one that had no answer in time.    *)
(* An unanswered obituary may still be handled by the server later.          *)
send_job_obit(n) ==
  /\ mom[n] # None
  /\ \/ /\ \/ mom[n].sub = "PREOBIT"
           \/ mom[n].sub = "EXITING" /\ mom[n].epilogue
           \/ mom[n].sub = "OBIT" /\ obit[n] \in {"none", "dropped"}
        /\ obit' = [obit EXCEPT ![n] = "sent"]
        /\ UNCHANGED <<late, used>>
     \/ /\ mom[n].sub \in {"PREOBIT", "EXITING"} /\ mom[n].epilogue    \* no connection
        /\ obit' = [obit EXCEPT ![n] = "none"] /\ Fault /\ UNCHANGED late
     \/ /\ mom[n].sub = "OBIT" /\ obit[n] = "sent" /\ Fault
        /\ late' = late \cup {[req |-> "Obit", node |-> n, exit |-> mom[n].exit]}
        /\ UNCHANGED obit
  /\ mom' = [mom EXCEPT ![n].sub = "OBIT"]
  /\ UNCHANGED <<srv, th, tasks>>

(* Every answer of the server makes the MOM delete the job; a connection     *)
(* that breaks sends it back to EXITING.                                     *)
obit_reply(n) ==
  /\ mom[n] # None
  /\ \/ obit[n] = "answered" /\ SetMom(n, None) /\ UNCHANGED <<late, used>>
     \/ /\ obit[n] \in {"sent", "answered"} /\ mom[n].sub = "OBIT" /\ Fault
        /\ mom' = [mom EXCEPT ![n].sub = "EXITING"]
        /\ obit' = [obit EXCEPT ![n] = "none"]
        /\ late' = late \cup (IF obit[n] = "sent"
                              THEN {[req |-> "Obit", node |-> n, exit |-> mom[n].exit]} ELSE {})
  /\ UNCHANGED <<srv, th, tasks>>

-----------------------------------------------------------------------------
(* The node reports: a job that a MOM reports and that the server does not   *)
(* place there is killed; a node whose job no longer exists is freed.        *)

\* Mutant: only jobs the server still knows are killed.
sync_node_jobs_known(n) ==
  /\ InMom(n) /\ n \notin srv.alloc
  /\ Alive /\ srv.job.host # n
  /\ IsIdle("sync")
  /\ Call("sync", "killed", n, "SyncKill")
  /\ UNCHANGED <<srv, tasks, mom, obit, late, used>>

sync_node_jobs(n) ==
  /\ InMom(n) /\ n \notin srv.alloc
  /\ Alive => srv.job.host # n
  /\ IsIdle("sync")
  /\ Call("sync", "killed", n, "SyncKill")
  /\ UNCHANGED <<srv, tasks, mom, obit, late, used>>

\* Mutant: a node is freed only while its job is still there, completed.
sync_node_jobs_with_moms_known(n) ==
  /\ ~ InMom(n) /\ n \in srv.alloc /\ Alive /\ srv.job.state = "COMPLETE"
  /\ srv' = [srv EXCEPT !.alloc = @ \ {n}]
  /\ UNCHANGED <<th, tasks, mom, obit, late, used>>

sync_node_jobs_with_moms(n) ==
  /\ ~ InMom(n) /\ n \in srv.alloc /\ Gone
  /\ srv' = [srv EXCEPT !.alloc = @ \ {n}]
  /\ UNCHANGED <<th, tasks, mom, obit, late, used>>

-----------------------------------------------------------------------------
(* The server stops and comes back: it has the job's file, and what          *)
(* pbsd_init_job makes of it.                                                *)

\* Mutant: a job found started or being started is queued again.
pbsd_init_job_requeue(s) ==
  IF s.job.state \in {"QUEUED", "RUNNING"}
  THEN [srv |-> [s EXCEPT !.job.state = "QUEUED", !.job.sub = "QUEUED"], tasks |-> {}]
  ELSE [srv |-> s, tasks |-> {"exit"}]

pbsd_init_job(s) ==
  LET j == s.job
      keep(t, r) == [srv |-> t, tasks |-> r \cup
                       (IF t.job.state = "RUNNING" /\ t.job.host # None THEN {"poll"} ELSE {})]
  IN  CASE j.sub = "TRNOUT" ->
             keep([s EXCEPT !.job.state = "QUEUED", !.job.sub = "QUEUED"], {})
        [] j.sub = "TRNOUTCM" -> keep(s, {})
        [] j.sub \in {"QUEUED", "PRERUN"} -> keep(svr_evaljobstate(s, FALSE), {})
        [] j.sub = "RUNNING" /\ j.host = None ->
             keep(svr_evaljobstate([s EXCEPT !.job.state = "QUEUED", !.job.sub = "QUEUED",
                                             !.job.hold = TRUE], FALSE), {})
        [] j.sub = "RUNNING" /\ j.host # None ->
             keep([s EXCEPT !.job.resc = TRUE, !.alloc = {j.host}], {})
        [] j.sub \in {"EXITING", "STAGEOUT", "STAGEDEL", "EXITED", "ABORT"} ->
             keep(apply_job_delete_nanny(s), {"exit"} \cup (IF Nanny THEN {"nanny"} ELSE {}))
        [] j.sub = "COMPLETE" -> keep(s, {"exit"})
        [] j.sub = "RERUN" -> keep(s, IF j.state = "EXITING" THEN {"rerun"} ELSE {})
        [] j.sub \in {"RERUN1", "RERUN2"} -> keep(s, {"rerun"})
        [] OTHER -> [srv |-> job_abt(s), tasks |-> {}]

InFlight == {[req |-> th[c].rpc, node |-> th[c].node, exit |-> "done"] :
               c \in {d \in Callers : th[d].rpc \in Requests}}

(* ack is the MOM whose obituary was answered just before the server died:   *)
(* req_jobobit answers first and changes and saves the job afterwards.  The  *)
(* server may also die on the way through handle_complete_first_time, or     *)
(* through the changes to a job that need no exit processing.                *)
DiesWith(ack) ==
  LET inExit == Alive /\ ack = None /\ srv.job.sub = "COMPLETE"
                /\ (At("exit", "COMPLETE") \/ ("exit" \in tasks /\ IsIdle("exit")))
      inObit == ack # None /\ ModernMom
                /\ update_substate_from_exit_status(srv.job, mom[ack].exit) \cap RerunSubs = {}
      ended == handle_terminating_job(srv)
      steps == IF inObit THEN <<ended, completed(ended)>> \o completion_steps(completed(ended))
               ELSE IF inExit THEN completion_steps(srv) ELSE << >>
  IN  {srv} \cup {steps[i] : i \in DOMAIN steps}

Restart(ack) ==
  /\ used.crashes < MaxCrashes /\ used' = [used EXCEPT !.crashes = @ + 1]
  /\ ack = None \/ (ack \in Nodes /\ obit[ack] = "sent" /\ AcceptsObit(ack))
  /\ \E s \in DiesWith(ack) :
       LET up == [s EXCEPT !.job = s.disk, !.alloc = {}, !.listed = 0]
           j  == [s.disk EXCEPT !.del = FALSE, !.nanny = FALSE, !.addr = s.disk.host]
           r  == IF s.disk = None THEN [srv |-> up, tasks |-> {}]
                 ELSE pbsd_init_job([up EXCEPT !.job = j])
       IN  srv' = r.srv /\ tasks' = r.tasks
  /\ th' = [c \in Callers |-> Idle]
  /\ late' = {r \in late : r.req # "Obit"} \cup InFlight
  /\ mom' = [n \in Nodes |-> IF n # ack /\ obit[n] \in {"sent", "dropped"}
                             THEN [mom[n] EXCEPT !.sub = "EXITING"] ELSE mom[n]]
  /\ obit' = [n \in Nodes |-> IF n = ack \/ obit[n] = "answered"
                              THEN "answered" ELSE "none"]

-----------------------------------------------------------------------------
Init ==
  /\ srv = [job |-> NewJob, disk |-> NewJob, alloc |-> {}, ended |-> 0, ran |-> FALSE,
             listed |-> 0]
  /\ th = [c \in Callers |-> Idle]
  /\ tasks = {}
  /\ mom = [n \in Nodes |-> None]
  /\ obit = [n \in Nodes |-> "none"]
  /\ late = {}
  /\ used = [runs |-> 0, faults |-> 0, deletes |-> 0, reruns |-> 0, crashes |-> 0]

SendStep == \/ svr_startjob \/ send_job_work \/ attempt_to_queue_job_on_mom
            \/ commit_job_on_mom \/ finish_sendmom \/ check_and_run_job_work
ExitStep == \/ on_job_exit \/ handle_returnstd \/ handle_stageout \/ FilesCopied
            \/ handle_stagedel \/ handle_exited \/ JobDeleted \/ JobComplete
ExitRetry == check_exiting_jobs \/ get_next_retryable_jobid
RerunStep == on_job_rerun \/ FilesReturned \/ RerunDeleted
DeleteStep == execute_job_delete \/ post_delete_mom1
NannyStep == job_delete_nanny \/ post_job_delete_nanny
PollStep == poll_job_task \/ stat_update
MomStep(n) == \/ close_quejob(n) \/ start_exec(n) \/ scan_for_exiting(n)
              \/ send_job_obit(n) \/ obit_reply(n)

Next ==
  \/ \E n \in Nodes, async \in BOOLEAN : req_runjob(n, async)
  \/ svr_startjob \/ send_job_work \/ ConnectFails
  \/ attempt_to_queue_job_on_mom \/ commit_job_on_mom \/ finish_sendmom
  \/ check_and_run_job_work
  \/ \E n \in Nodes : req_jobobit(n)
  \/ \E o \in late : LateObit(o)
  \/ on_job_exit \/ handle_returnstd \/ handle_stageout \/ FilesCopied
  \/ handle_stagedel \/ handle_exited \/ JobDeleted \/ JobComplete
  \/ handle_complete_second_time \/ check_exiting_jobs \/ get_next_retryable_jobid
  \/ on_job_rerun \/ FilesReturned \/ RerunDeleted
  \/ req_deletejob \/ execute_job_delete \/ post_delete_mom1
  \/ post_delete_mom2 \/ job_delete_nanny \/ post_job_delete_nanny \/ KillAnswered
  \/ \E force \in BOOLEAN : req_rerunjob(force)
  \/ finalize_rerunjob \/ handle_requeue_all
  \/ poll_job_task \/ stat_update
  \/ \E c \in Callers : MomServes(c)
  \/ \E c \in Callers : NetworkFails(c)
  \/ \E r \in late : MomServesLate(r)
  \/ \E n \in Nodes : close_quejob(n)
  \/ \E n \in Nodes : start_exec(n)
  \/ \E n \in Nodes : JobEnds(n)
  \/ \E n \in Nodes : scan_for_exiting(n)
  \/ \E n \in Nodes : send_job_obit(n)
  \/ \E n \in Nodes : obit_reply(n)
  \/ \E n \in Nodes : sync_node_jobs(n)
  \/ \E n \in Nodes : sync_node_jobs_with_moms(n)
  \/ \E a \in Nodes \cup {None} : Restart(a)

Spec == Init /\ [][Next]_vars

(* Every server thread that has its mutex or its answer goes on, timers fire,*)
(* MOMs serve what reaches them and report to the server, a process that was *)
(* sent SIGKILL ends.  Nothing is assumed of clients, of a job that runs by  *)
(* itself, of faults or of restarts.                                         *)
Fairness ==
  /\ WF_vars(SendStep) /\ WF_vars(ExitStep) /\ WF_vars(RerunStep)
  /\ WF_vars(DeleteStep) /\ WF_vars(NannyStep) /\ WF_vars(PollStep)
  /\ WF_vars(post_delete_mom2) /\ WF_vars(finalize_rerunjob) /\ WF_vars(KillAnswered)
  /\ WF_vars(handle_complete_second_time) /\ WF_vars(ExitRetry)
  /\ \A c \in Callers : WF_vars(MomServes(c))
  /\ \A n \in Nodes : /\ WF_vars(req_jobobit(n))
                      /\ WF_vars(MomStep(n))
                      /\ WF_vars(mom[n] # None /\ mom[n].killed /\ JobEnds(n))
                      /\ WF_vars(sync_node_jobs(n))
                      /\ WF_vars(sync_node_jobs_with_moms(n))

FairSpec == Spec /\ Fairness

-----------------------------------------------------------------------------
(* Every part of the state keeps its type.                                   *)
TypeOK ==
  /\ srv \in [job : Job \cup {None}, disk : Job \cup {None}, alloc : SUBSET Nodes, ended : Nat,
             ran : BOOLEAN, listed : 0 .. MaxAttempts + 1]
  /\ DOMAIN th = Callers
  /\ \A c \in Callers : /\ th[c].node \in Nodes \cup {None}
                        /\ th[c].rpc \in Requests \cup Replies \cup {"none"}
                        /\ th[c].rpc \in Requests => th[c].node \in Nodes
  /\ tasks \subseteq {"exit", "rerun", "poll", "purge", "kill", "nanny", "delete"}
  /\ mom \in [Nodes -> MomJob \cup {None}]
  /\ obit \in [Nodes -> {"none", "sent", "answered", "dropped"}]
  /\ late \subseteq [req : Requests \cup {"Obit"}, node : Nodes, exit : {"done", "retry"}]
  /\ used \in [runs : 0 .. MaxRuns, faults : 0 .. MaxFaults, deletes : 0 .. MaxDeletes,
               reruns : 0 .. MaxReruns, crashes : 0 .. MaxCrashes]

(* A job the server shows as running (RUNNING, RUNNING) has an exec_host and *)
(* holds that node: free_nodes is called only for a job that has left this   *)
(* state, whatever send, obituary, delete and poll were under way.           *)
RunningHoldsNode ==
  Alive /\ srv.job.state = "RUNNING" /\ srv.job.sub = "RUNNING" => srv.job.host \in srv.alloc

(* A queued job that nobody is starting holds no node: svr_setjobstate has   *)
(* released what an earlier run held.                                        *)
QueuedHoldsNothing ==
  Alive /\ srv.job.state = "QUEUED" /\ IsIdle("send") => srv.alloc = {}

(* When the MOM may discard a job because its obituary has been answered,    *)
(* the server no longer counts on that MOM to be running it: no exit status  *)
(* is lost (req_jobobit).                                                    *)
AnsweredObitIsRecorded ==
  \A n \in Nodes : obit[n] = "answered" =>
    ~ (Alive /\ srv.job.state = "RUNNING" /\ srv.job.sub = "RUNNING" /\ srv.job.addr = n)

(* A job that ran and is complete leaves the server only with an E record    *)
(* (end_of_job_accounting), also when the server dies anywhere between the   *)
(* record and the saves around it; each restart costs at most one record     *)
(* more, since handle_complete_first_time does not save JOB_ACCOUNTED_FOR.   *)
(* Excepted are a job the nanny purges because the MOM no longer knows it,   *)
(* and one whose end overtook finish_sendmom (it did not count as started).  *)
(* The job is not deleted and no message is lost: a delete, and an exit that *)
(* uses up its retries, may purge the job before it is accounted for.        *)
EndIsRecorded ==
  [][/\ srv'.ended <= 1 + used'.crashes
     /\ /\ Alive /\ srv.job.state = "COMPLETE" /\ srv.ran
        /\ used.deletes = 0 /\ used.faults = 0 /\ th["nanny"].rpc # "UNKJOBID"
        /\ srv'.job = None
        => srv'.ended > 0]_vars

(* The job never executes on two nodes at once: the server starts a second   *)
(* run only when the first has ended, also when it died at any point of the  *)
(* send, the run or the exit and pbsd_init_job made what it could of the     *)
(* file on disk.                                                             *)
NeverRunsTwice ==
  \A m, n \in Nodes :
    /\ mom[m] # None /\ mom[m].sub \in {"PRERUN", "RUNNING"}
    /\ mom[n] # None /\ mom[n].sub \in {"PRERUN", "RUNNING"}
    => m = n

(* Exit and rerun processing (on_job_exit, on_job_rerun) come to an end,     *)
(* whatever request to the MOM is lost and wherever a qrerun gets in: what   *)
(* stops on the way, inspect_exiting_jobs takes up again.                    *)
ExitFinishes ==
  (Alive /\ srv.job.state = "EXITING") ~> (Gone \/ srv.job.state # "EXITING")

(* No node stays allocated to a job that is gone: what the purge of a job    *)
(* leaves behind, sync_node_jobs_with_moms frees.                            *)
NodesComeBack == Gone ~> (srv.alloc = {})

(* What a MOM holds of a job the server has given up is cleared: by its      *)
(* obituary or by the kill that sync_node_jobs sends.                        *)
StraysAreCleared ==
  \A n \in Nodes : (InMom(n) /\ Gone) ~> ~ InMom(n)
=============================================================================
