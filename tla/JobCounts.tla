------------------------------ MODULE JobCounts ------------------------------
(***************************************************************************)
(* The job counts of pbs_server: sv_numjobs and sv_jobstates of the        *)
(* server, qu_numjobs and qu_njstate of each queue, the number of jobs a   *)
(* user has queued (users and qu_uih), and the places reserved in a queue. *)
(* svr_enquejob, svr_dequejob and svr_setjobstate (svr_jobfunc.c) keep     *)
(* them; svr_job_purge (job_func.c) and local_move (svr_movejob.c) call    *)
(* them.                                                                   *)
(*                                                                         *)
(* A thread works on a job with the job's mutex held, so that a step here  *)
(* is a stretch of code with that mutex.  It lets go of the mutex when it  *)
(* needs a queue and pthread_mutex_trylock fails: it waits for the queue   *)
(* and then looks the job up again (lock_queue_with_job_held).  What other *)
(* threads do to the job meanwhile is the subject of this module.          *)
(*                                                                         *)
(* All jobs belong to one user and no job is part of an array.  A lock of  *)
(* a job container (alljobs, qu_jobs) is taken at once.                    *)
(***************************************************************************)
EXTENDS Integers, FiniteSets

CONSTANTS
  Jobs,
  Queues,
  RouteQueues,    \* the queues of type QTYPE_RoutePush; the others execute jobs
  Threads,        \* workers of the request and task pools
  MaxQueuable,    \* max_queuable of every queue
  MaxContended,   \* bound on the pthread_mutex_trylock calls that fail
  MaxUnknown,     \* bound on the running jobs that their MOM does not know
  MaxMoves,       \* bound on the calls of local_move
  None

ASSUME CountsAssumption ==
  /\ IsFiniteSet(Jobs) /\ IsFiniteSet(Queues) /\ IsFiniteSet(Threads)
  /\ RouteQueues \subseteq Queues /\ None \notin Queues
  /\ MaxQueuable \in Nat /\ MaxContended \in Nat /\ MaxUnknown \in Nat /\ MaxMoves \in Nat

VARIABLES
  job,       \* each job's own fields
  alljobs,   \* the server's list of jobs
  summary,   \* array_summary, where svr_find_job looks when alljobs has no such job
  sv,        \* the server's counts
  que,       \* the queues: their jobs and counts
  at,        \* what each thread is waiting to do
  blame,     \* history: what went wrong under somebody's hands, see Causes
  bound      \* history: how often the bounded events happened

vars == <<job, alljobs, summary, sv, que, at, blame, bound>>

States == {"QUEUED", "HELD", "RUNNING", "EXITING", "COMPLETE"}
Substates == {"COMPLETE", "ABORT", "other"}
Causes == {"overtaken", "moved", "unqueued", "unsettled", "leaked",
           "bypassed", "recounted"}

Idle == [op |-> "idle"]
NoCounts == [s \in States |-> 0]

Init ==
  /\ job = [j \in Jobs |-> [state |-> "QUEUED", sub |-> "other", qhdr |-> None,
                            counted |-> {}, life |-> "new"]]
  /\ alljobs = {} /\ summary = {}
  /\ sv = [num |-> 0, st |-> NoCounts, users |-> 0]
  /\ que = [q \in Queues |-> [jobs |-> {}, num |-> 0, st |-> NoCounts, uih |-> 0,
                              reserved |-> 0]]
  /\ at = [t \in Threads |-> Idle]
  /\ blame = {}
  /\ bound = [contended |-> 0, unknown |-> 0, moves |-> 0]

-----------------------------------------------------------------------------
\* svr_find_job
Found(j) == j \in alljobs \cup summary /\ job[j].life = "live"

Raise(st, s) == [st EXCEPT ![s] = @ + 1]
Lower(st, s) == [st EXCEPT ![s] = @ - 1]
Move(st, old, new) == [st EXCEPT ![old] = @ - 1, ![new] = @ + 1]

Less_again(n, counted, bit) == n - 1   \* mutant: the bits are not looked at

\* decrement_queued_jobs: the bits of ji_queue_counted keep a job from being
\* counted off twice; an unsigned count at 0 stays.
Less(n, counted, bit) == IF bit \in counted /\ n > 0 THEN n - 1 ELSE n

\* increment_queued_jobs
More(n, counted, bit, state) == IF state = "COMPLETE" \/ bit \in counted THEN n ELSE n + 1

\* trylock of the queue's mutex fails: some thread has it, for this or another job.
Contend == /\ bound.contended < MaxContended
           /\ bound' = [bound EXCEPT !.contended = @ + 1]

\* The thread comes back from the wait to a job that has left the queue.
Moved(t) == IF job[at[t].job].qhdr # at[t].que THEN {"moved"} ELSE {}

-----------------------------------------------------------------------------
(* svr_setjobstate *)

is_valid_state_transition(j, new, sub) ==
  /\ ~(job[j].state = "COMPLETE" /\ new = "EXITING")
  /\ ~(job[j].sub = "COMPLETE" /\ sub = "ABORT")

\* What the callers ask for, by the state they find the job in: hold and release
\* (req_holdjob.c), start and requeue (req_runjob.c), obituary, rerun and end
\* (req_jobobit.c), delete_inactive_job and force_purge_work (req_delete.c), job_abt
\* and handle_aborted_job (job_func.c).
Requests ==
  {<<"QUEUED", "HELD", "other">>, <<"HELD", "QUEUED", "other">>,
   <<"QUEUED", "RUNNING", "other">>, <<"RUNNING", "QUEUED", "other">>,
   <<"RUNNING", "EXITING", "other">>, <<"EXITING", "QUEUED", "other">>,
   <<"EXITING", "COMPLETE", "COMPLETE">>, <<"QUEUED", "COMPLETE", "COMPLETE">>,
   <<"HELD", "COMPLETE", "COMPLETE">>, <<"QUEUED", "EXITING", "ABORT">>,
   <<"HELD", "EXITING", "ABORT">>, <<"EXITING", "COMPLETE", "ABORT">>,
   <<"RUNNING", "RUNNING", "ABORT">>, <<"RUNNING", "EXITING", "ABORT">>,
   <<"RUNNING", "COMPLETE", "COMPLETE">>, <<"RUNNING", "COMPLETE", "ABORT">>,
   <<"COMPLETE", "COMPLETE", "ABORT">>}

\* Mutant: the second half charges the server once more.
SettleState_charge_again(j, q, new, sub, svc) ==
  LET o == job[j].state
      ends == o # new /\ new = "COMPLETE"
      twice == [svc EXCEPT !.st = Move(@, o, new)] IN
  /\ job' = [job EXCEPT ![j].state = new, ![j].sub = sub,
                        ![j].counted = IF ends THEN {} ELSE @]
  /\ sv' = IF ends THEN [twice EXCEPT !.users = Less(@, job[j].counted, "global")] ELSE twice
  /\ que' = IF o = new THEN que
            ELSE [que EXCEPT ![q].st = Move(@, o, new),
                             ![q].uih = IF ends THEN Less(@, job[j].counted, "queue") ELSE @]

\* Mutant: decrement_queued_jobs leaves the job marked as counted.
SettleState_keep_counted(j, q, new, sub, svc) ==
  LET o == job[j].state
      ends == o # new /\ new = "COMPLETE" IN
  /\ job' = [job EXCEPT ![j].state = new, ![j].sub = sub]
  /\ sv' = IF ends THEN [svc EXCEPT !.users = Less(@, job[j].counted, "global")] ELSE svc
  /\ que' = IF o = new THEN que
            ELSE [que EXCEPT ![q].st = Move(@, o, new),
                             ![q].uih = IF ends THEN Less(@, job[j].counted, "queue") ELSE @]

\* The second half, with the queue's mutex: the job's state is read again, and the
\* queue and the user are charged with what it is now.
SettleState(j, q, new, sub, svc) ==
  LET o == job[j].state
      ends == o # new /\ new = "COMPLETE" IN
  /\ job' = [job EXCEPT ![j].state = new, ![j].sub = sub,
                        ![j].counted = IF ends THEN {} ELSE @]
  /\ sv' = IF ends THEN [svc EXCEPT !.users = Less(@, job[j].counted, "global")] ELSE svc
  /\ que' = IF o = new THEN que
            ELSE [que EXCEPT ![q].st = Move(@, o, new),
                             ![q].uih = IF ends THEN Less(@, job[j].counted, "queue") ELSE @]

\* Called with the job found and locked.  The server is charged first.
svr_setjobstate(t, j, new, sub) ==
  LET old == job[j].state
      q == job[j].qhdr
      charged == [sv EXCEPT !.st = Move(@, old, new)] IN
  /\ at[t] = Idle /\ Found(j) /\ <<old, new, sub>> \in Requests
  /\ is_valid_state_transition(j, new, sub)
  /\ \/ /\ old = new
        /\ job' = [job EXCEPT ![j].sub = sub]
        /\ UNCHANGED <<sv, que, at, blame, bound>>
     \/ /\ old # new /\ q = None
        /\ job' = [job EXCEPT ![j].state = new, ![j].sub = sub,
                              ![j].counted = IF new = "COMPLETE" THEN @ \ {"global"} ELSE @]
        /\ sv' = IF new = "COMPLETE"
                 THEN [charged EXCEPT !.users = Less(@, job[j].counted, "global")]
                 ELSE charged
        /\ blame' = blame \cup {"unqueued"}
        /\ UNCHANGED <<que, at, bound>>
     \/ /\ old # new /\ q # None
        /\ SettleState(j, q, new, sub, charged)
        /\ UNCHANGED <<at, blame, bound>>
     \/ /\ old # new /\ q # None /\ Contend
        /\ sv' = charged
        /\ at' = [at EXCEPT ![t] = [op |-> "set", job |-> j, que |-> q, old |-> old,
                                    new |-> new, sub |-> sub]]
        /\ UNCHANGED <<job, que, blame>>
  /\ UNCHANGED <<alljobs, summary>>

\* The thread has the queue and looks the job up again; without it the call ends
\* in PBSE_UNKQUE, and the server stays charged.
ResumeSet(t) ==
  /\ at[t].op = "set"
  /\ at' = [at EXCEPT ![t] = Idle]
  /\ LET j == at[t].job IN
     \/ /\ Found(j)
        /\ SettleState(j, at[t].que, at[t].new, at[t].sub, sv)
        /\ blame' = blame \cup (IF job[j].state # at[t].old THEN {"overtaken"} ELSE {})
                          \cup Moved(t)
     \/ /\ ~Found(j)
        /\ blame' = blame \cup {"overtaken"}
        /\ UNCHANGED <<job, sv, que>>
  /\ UNCHANGED <<alljobs, summary, bound>>

-----------------------------------------------------------------------------
(* svr_enquejob, with the queue's mutex *)

Full_one_more(qr) == qr.num - qr.st["COMPLETE"] + qr.reserved > MaxQueuable   \* mutant
Full_no_places(qr) == qr.num - qr.st["COMPLETE"] >= MaxQueuable                \* mutant

\* count_queued_jobs and the limit, as svr_enquejob and check_queue_job_limit test it.
Full(qr) == qr.num - qr.st["COMPLETE"] + qr.reserved >= MaxQueuable

\* Mutant: the queue counts every job it gets as queued.
Enqueue_as_queued(j, q, qr, state) ==
  LET counted == job[j].counted
      old == j \in qr.jobs
      grown == [qr EXCEPT !.jobs = @ \cup {j}, !.num = @ + 1, !.st = Raise(@, "QUEUED"),
                          !.uih = More(@, counted, "queue", state)] IN
  /\ job' = [job EXCEPT ![j].state = state, ![j].qhdr = q, ![j].life = "live",
                        ![j].counted = IF old \/ state = "COMPLETE" THEN @
                                       ELSE {"global", "queue"}]
  /\ alljobs' = alljobs \cup {j} /\ summary' = summary \cup {j}
  /\ sv' = [sv EXCEPT !.num = @ + 1, !.st = Raise(@, state),
                      !.users = IF old THEN @ ELSE More(@, counted, "global", state)]
  /\ que' = [que EXCEPT ![q] = IF old THEN qr ELSE grown]

\* qr is the queue's record, its reservation given back.
Enqueue(j, q, qr, state) ==
  LET counted == job[j].counted
      old == j \in qr.jobs      \* ALREADY_IN_LIST: the queue's counts are left alone
      grown == [qr EXCEPT !.jobs = @ \cup {j}, !.num = @ + 1, !.st = Raise(@, state),
                          !.uih = More(@, counted, "queue", state)] IN
  /\ job' = [job EXCEPT ![j].state = state, ![j].qhdr = q, ![j].life = "live",
                        ![j].counted = IF old \/ state = "COMPLETE" THEN @
                                       ELSE {"global", "queue"}]
  /\ alljobs' = alljobs \cup {j} /\ summary' = summary \cup {j}
  /\ sv' = [sv EXCEPT !.num = @ + 1, !.st = Raise(@, state),
                      !.users = IF old THEN @ ELSE More(@, counted, "global", state)]
  /\ que' = [que EXCEPT ![q] = IF old THEN qr ELSE grown]

\* req_commit: the new job, which nobody else can find yet, gets its state and is
\* put into its queue, or svr_job_purge throws it away.
req_commit(t, j, q, state) ==
  /\ at[t] = Idle /\ job[j].life = "new"
  /\ \/ ~Full(que[q]) /\ Enqueue(j, q, que[q], state)
     \/ /\ Full(que[q])
        /\ job' = [job EXCEPT ![j].life = "gone", ![j].state = "COMPLETE"]
        /\ UNCHANGED <<alljobs, summary, sv, que>>
  /\ UNCHANGED <<at, blame, bound>>

-----------------------------------------------------------------------------
(* svr_dequejob *)

\* correct_ct: every count is taken again from the jobs in the queues.  It locks one
\* queue and one job at a time; here the recount is one step.
correct_ct(jobs, svr, queues) ==
  LET queued == {e \in Queues \X Jobs : e[2] \in queues[e[1]].jobs}
      In(S, s) == Cardinality({e \in S : jobs[e[2]].state = s})
      Of(q) == {e \in queued : e[1] = q} IN
  /\ sv' = [svr EXCEPT !.num = Cardinality(queued), !.st = [s \in States |-> In(queued, s)]]
  /\ que' = [q \in Queues |-> [queues[q] EXCEPT !.num = Cardinality(Of(q)),
                                               !.st = [s \in States |-> In(Of(q), s)]]]

\* The counts of queue q and of the server without the job, whose record is jr; qr is
\* the queue's record.
LeaveQueue(j, q, jr, qr) ==
  LET uih == IF q \in RouteQueues \/ jr.state # "COMPLETE"
             THEN Less(qr.uih, jr.counted, "queue") ELSE qr.uih IN
  IF j \in qr.jobs
  THEN [qr EXCEPT !.jobs = @ \ {j}, !.num = @ - 1, !.st = Lower(@, jr.state), !.uih = uih]
  ELSE [qr EXCEPT !.uih = uih]

LeaveServer(j, jr) ==
  LET svu == IF jr.state # "COMPLETE"
             THEN [sv EXCEPT !.users = Less(@, jr.counted, "global")] ELSE sv IN
  IF j \in alljobs THEN [svu EXCEPT !.num = @ - 1, !.st = Lower(@, jr.state)] ELSE svu

bad_ct(j, q, jr, qr) ==
  LET left == LeaveQueue(j, q, jr, qr)
      svr == LeaveServer(j, jr) IN
  left.num < 0 \/ left.st[jr.state] < 0 \/ svr.num < 0 \/ svr.st[jr.state] < 0

\* With the mutex of q, which is the job's queue or was when the thread began to
\* wait.  jr is the job's record and qs are the queues as the caller leaves them;
\* life and list say what it makes of the job, and why what it is blamed for.
Dequeue(j, q, jr, qs, life, list, why) ==
  LET o == jr.state
      bits == (IF q \in RouteQueues \/ o # "COMPLETE" THEN {"queue"} ELSE {})
              \cup (IF o # "COMPLETE" THEN {"global"} ELSE {})
      jobs == [job EXCEPT ![j] = [jr EXCEPT !.qhdr = None, !.counted = @ \ bits, !.life = life]]
      svr == LeaveServer(j, jr)
      queues == [qs EXCEPT ![q] = LeaveQueue(j, q, jr, qs[q])] IN
  /\ job' = jobs /\ alljobs' = alljobs \ {j} /\ summary' = list
  /\ blame' = blame \cup why \cup (IF bad_ct(j, q, jr, qs[q]) THEN {"recounted"} ELSE {})
  /\ IF bad_ct(j, q, jr, qs[q])
     THEN correct_ct(jobs, svr, queues)
     ELSE sv' = svr /\ que' = queues

\* svr_dequejob lets go of the job to recount and looks it up again.  A job that a
\* purge has taken off array_summary meanwhile is in no list any more.
LostInRecount(j, q, qr) == bad_ct(j, q, job[j], qr) /\ j \notin summary

\* svr_job_purge: the state becomes COMPLETE without svr_setjobstate.  Its callers
\* have a job that is complete, or a running one that the MOM does not know
\* (post_delete_mom1 and post_job_delete_nanny of req_delete.c).  A job that is in
\* no queue is left to the thread that took it out.
svr_job_purge(t, j) ==
  LET q == job[j].qhdr
      jr == [job[j] EXCEPT !.state = "COMPLETE"]
      known == job[j].state = "COMPLETE" IN
  /\ at[t] = Idle /\ Found(j)
  /\ \/ known
     \/ job[j].state = "RUNNING" /\ bound.unknown < MaxUnknown
  /\ LET why == IF known THEN {} ELSE {"unsettled"}
         b == IF known THEN bound ELSE [bound EXCEPT !.unknown = @ + 1] IN
     \/ /\ q = None
        /\ job' = [job EXCEPT ![j] = jr] /\ summary' = summary \ {j} /\ bound' = b
        /\ blame' = blame \cup why
        /\ UNCHANGED <<alljobs, sv, que, at>>
     \/ /\ q # None
        /\ Dequeue(j, q, jr, que, "gone", summary \ {j}, why) /\ bound' = b
        /\ UNCHANGED at
     \/ /\ q # None /\ b.contended < MaxContended
        /\ bound' = [b EXCEPT !.contended = @ + 1]
        /\ job' = [job EXCEPT ![j] = jr] /\ summary' = summary \ {j}
        /\ at' = [at EXCEPT ![t] = [op |-> "purge", job |-> j, que |-> q]]
        /\ blame' = blame \cup why
        /\ UNCHANGED <<alljobs, sv, que>>

ResumePurge(t) ==
  /\ at[t].op = "purge"
  /\ at' = [at EXCEPT ![t] = Idle]
  /\ LET j == at[t].job IN
     \/ /\ Found(j)
        /\ Dequeue(j, at[t].que, job[j], que, "gone", summary, Moved(t))
     \/ ~Found(j) /\ UNCHANGED <<job, alljobs, summary, sv, que, blame>>
  /\ UNCHANGED bound

-----------------------------------------------------------------------------
(* local_move *)

\* req_movejob accepts the job; local_move lets go of it to lock the destination.
\* mgr: a privileged request (MOVE_TYPE_MgrMv), for which svr_chkque skips the limit.
local_move(t, j, dest, mgr) ==
  /\ at[t] = Idle /\ Found(j) /\ job[j].state \in {"QUEUED", "HELD"}
  /\ job[j].qhdr \notin {None, dest} /\ bound.moves < MaxMoves
  /\ bound' = [bound EXCEPT !.moves = @ + 1]
  /\ at' = [at EXCEPT ![t] = [op |-> "move", job |-> j, dest |-> dest, mgr |-> mgr]]
  /\ UNCHANGED <<job, alljobs, summary, sv, que, blame>>

\* svr_chkque, have_reservation and svr_dequejob.  When svr_dequejob refuses, or loses
\* the job in a recount, the place reserved in the destination is not given back.
MoveDeque(t) ==
  LET j == at[t].job
      dest == at[t].dest
      q == job[j].qhdr
      full == Full(que[dest])
      held == [que EXCEPT ![dest].reserved = @ + 1]
      skipped == IF full THEN {"bypassed"} ELSE {} IN
  /\ at[t].op = "move"
  /\ \/ /\ ~Found(j) \/ (full /\ ~at[t].mgr)
        /\ at' = [at EXCEPT ![t] = Idle]
        /\ UNCHANGED <<job, alljobs, summary, sv, que, blame, bound>>
     \/ /\ Found(j) /\ (full => at[t].mgr) /\ (job[j].state = "RUNNING" \/ q = None)
        /\ que' = held /\ blame' = blame \cup skipped \cup {"leaked"}
        /\ at' = [at EXCEPT ![t] = Idle]
        /\ UNCHANGED <<job, alljobs, summary, sv, bound>>
     \/ /\ Found(j) /\ (full => at[t].mgr) /\ job[j].state # "RUNNING" /\ q # None
        /\ \/ /\ ~LostInRecount(j, q, held[q])
              /\ Dequeue(j, q, job[j], held, "live", summary, skipped)
              /\ at' = [at EXCEPT ![t] = [op |-> "enque", job |-> j, dest |-> dest]]
              /\ UNCHANGED bound
           \/ /\ LostInRecount(j, q, held[q])
              /\ Dequeue(j, q, job[j], held, "gone", summary, skipped \cup {"leaked"})
              /\ at' = [at EXCEPT ![t] = Idle]
              /\ UNCHANGED bound
           \/ /\ Contend
              /\ que' = held /\ blame' = blame \cup skipped
              /\ at' = [at EXCEPT ![t] = [op |-> "deque", job |-> j, que |-> q, dest |-> dest]]
              /\ UNCHANGED <<job, alljobs, summary, sv>>

ResumeDeque(t) ==
  /\ at[t].op = "deque"
  /\ LET j == at[t].job IN
     \/ /\ Found(j) /\ ~LostInRecount(j, at[t].que, que[at[t].que])
        /\ Dequeue(j, at[t].que, job[j], que, "live", summary, Moved(t))
        /\ at' = [at EXCEPT ![t] = [op |-> "enque", job |-> j, dest |-> at[t].dest]]
     \/ /\ Found(j) /\ LostInRecount(j, at[t].que, que[at[t].que])
        /\ Dequeue(j, at[t].que, job[j], que, "gone", summary, Moved(t) \cup {"leaked"})
        /\ at' = [at EXCEPT ![t] = Idle]
     \/ /\ ~Found(j)
        /\ at' = [at EXCEPT ![t] = Idle]
        /\ blame' = blame \cup {"leaked"}
        /\ UNCHANGED <<job, alljobs, summary, sv, que>>
  /\ UNCHANGED bound

\* svr_enquejob lets go of the job to lock the destination, gives the reserved
\* place back and tests the limit again.
MoveEnque(t) ==
  LET j == at[t].job
      dest == at[t].dest
      qr == [que[dest] EXCEPT !.reserved = @ - 1] IN
  /\ at[t].op = "enque"
  /\ at' = [at EXCEPT ![t] = Idle]
  /\ \/ job[j].life = "live" /\ ~Full(qr) /\ Enqueue(j, dest, qr, job[j].state)
     \/ /\ job[j].life # "live" \/ Full(qr)
        /\ que' = [que EXCEPT ![dest] = qr]
        /\ UNCHANGED <<job, alljobs, summary, sv>>
  /\ UNCHANGED <<blame, bound>>

-----------------------------------------------------------------------------
Next ==
  \E t \in Threads :
    \/ \E j \in Jobs, q \in Queues, s \in {"QUEUED", "HELD"} : req_commit(t, j, q, s)
    \/ \E j \in Jobs, r \in Requests : svr_setjobstate(t, j, r[2], r[3])
    \/ \E j \in Jobs : svr_job_purge(t, j)
    \/ \E j \in Jobs, q \in Queues, mgr \in BOOLEAN : local_move(t, j, q, mgr)
    \/ ResumeSet(t) \/ ResumePurge(t) \/ MoveDeque(t) \/ ResumeDeque(t) \/ MoveEnque(t)

Spec == Init /\ [][Next]_vars
-----------------------------------------------------------------------------
\* The job structures, the lists and the counts have their types; no user's count
\* and no queue's membership is ever negative.
TypeOK ==
  /\ job \in [Jobs -> [state : States, sub : Substates, qhdr : Queues \cup {None},
                       counted : SUBSET {"global", "queue"}, life : {"new", "live", "gone"}]]
  /\ alljobs \subseteq Jobs /\ summary \subseteq Jobs
  /\ sv \in [num : Nat, st : [States -> Int], users : Nat]
  /\ que \in [Queues -> [jobs : SUBSET Jobs, num : Nat, st : [States -> Int], uih : Nat,
                         reserved : Nat]]
  /\ DOMAIN at = Threads
  /\ blame \subseteq Causes

CountIn(S, state) == Cardinality({j \in S : job[j].state = state})

\* What the threads that wait in svr_setjobstate have charged for state s already.
InFlight(s) == Cardinality({t \in Threads : at[t].op = "set" /\ at[t].new = s})
             - Cardinality({t \in Threads : at[t].op = "set" /\ at[t].old = s})

\* state_count of the server (sv_jobstates) is right, up to what is in flight, unless
\* a thread came back from the wait for a queue to a job whose state another thread
\* had changed or moved, changed a job that was in no queue, or purged a job that was
\* not complete; or correct_ct recounted while a thread was inside svr_setjobstate,
\* which wipes what that thread has charged.  It cannot go wrong in any other way.
ServerCountsHold ==
  blame \cap {"overtaken", "unqueued", "unsettled", "moved", "recounted"} = {} =>
    /\ sv.num = Cardinality(alljobs)
    /\ \A s \in States : sv.st[s] = CountIn(alljobs, s) + InFlight(s)

\* state_count and total_jobs of a queue (qu_njstate, qu_numjobs) are right unless a
\* thread came back to a job that had left the queue meanwhile, or purged a job that
\* was not complete; overtaking alone does not hurt them, because svr_setjobstate
\* reads the job's state again under the queue's mutex.
QueueCountsHold ==
  blame \cap {"moved", "unsettled"} = {} =>
    \A q \in Queues :
      /\ que[q].jobs = {j \in Jobs : job[j].qhdr = q}
      /\ que[q].num = Cardinality(que[q].jobs)
      /\ \A s \in States : que[q].st[s] = CountIn(que[q].jobs, s)

\* max_user_queuable works on true numbers: a user is charged for exactly their jobs
\* that are not complete, in the server and in each queue (ji_queue_counted).  The
\* exceptions are a job that changed or left its queue under a waiting thread and a
\* purge of a job that was not complete; a recount does not touch these numbers.
UserCountsHold ==
  blame \cap {"moved", "unsettled", "overtaken"} = {} =>
    /\ sv.users = Cardinality({j \in alljobs : job[j].state # "COMPLETE"})
    /\ \A q \in Queues :
         que[q].uih = Cardinality({j \in que[q].jobs : job[j].state # "COMPLETE"})

Open(q) == {j \in que[q].jobs : job[j].state # "COMPLETE"}

\* A queue never holds more open jobs than max_queuable, whoever moves jobs into it
\* while others are submitted, and even when a privileged move skips svr_chkque:
\* svr_enquejob tests the limit again.  Only a thread that settles a state another
\* thread has overtaken, or settles it in a queue the job has left meanwhile, spoils
\* the count it tests.
LimitHolds ==
  blame \cap {"overtaken", "moved"} = {} =>
    \A q \in Queues : Cardinality(Open(q)) <= MaxQueuable

\* A place reserved by local_move belongs to a move in progress, and keeps the
\* destination free for it: no job that has left its queue is turned away, so that a
\* live job outside all queues is always on its way into one.  The exceptions are a
\* job overtaken or moved under a waiting thread, a privileged move into a full queue
\* and a svr_dequejob that fails after have_reservation.
NoJobStranded ==
  blame \cap {"moved", "overtaken", "leaked", "bypassed"} = {} =>
    /\ \A q \in Queues :
         que[q].reserved = Cardinality({t \in Threads : at[t].op \in {"deque", "enque"}
                                                        /\ at[t].dest = q})
    /\ \A j \in Jobs : job[j].life = "live" /\ job[j].qhdr = None =>
         \E t \in Threads : at[t].op = "enque" /\ at[t].job = j
=============================================================================
