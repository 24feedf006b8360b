----------------------------- MODULE ThreadPool -----------------------------
(***************************************************************************)
(* The worker pools of pbs_server (request_pool, task_pool, async_pool):   *)
(* src/lib/Libutils/u_threadpool.c.  One step is one critical section of   *)
(* tp_mutex: a worker holds the mutex from the moment it gets it to the    *)
(* moment it waits on tp_waiting_work, runs a work function, or exits.     *)
(***************************************************************************)
EXTENDS Naturals, Sequences, FiniteSets

CONSTANTS
  Threads,        \* identities of workers (detached pthreads), one per live thread
  Work,           \* work items handed to enqueue_threadpool_request
  MinThreads,     \* tp_min_threads
  MaxThreads,     \* tp_max_threads
  Timed,          \* tp_max_idle_secs >= 0: idle workers may time out
  MaxFailures,    \* bound on the pthread_create calls that fail
  None            \* "no work item"

\* initialize_threadpool rejects min > max and max < 1.
ASSUME PoolAssumption ==
  /\ MinThreads \in Nat /\ MaxThreads \in Nat \ {0} /\ MinThreads <= MaxThreads
  /\ IsFiniteSet(Threads) /\ Cardinality(Threads) = MaxThreads
  /\ MaxFailures \in Nat /\ Timed \in BOOLEAN /\ None \notin Work

VARIABLES
  queue,      \* tp_first ... tp_last
  nthreads,   \* tp_nthreads
  idle,       \* tp_idle_threads
  started,    \* tp_started
  destroy,    \* tp_flags & POOL_DESTROY
  pc,         \* where each worker is
  timedout,   \* the worker's local rc = ETIMEDOUT (never reset but by a wait)
  doing,      \* the work item a busy worker runs
  fresh,      \* work items not yet submitted
  finished,   \* work items whose function returned
  cancelled,  \* workers destroy_request_pool has cancelled
  destroyer,  \* the thread in destroy_request_pool
  failures    \* failed pthread_create calls so far

vars == <<queue, nthreads, idle, started, destroy, pc, timedout, doing, fresh,
          finished, cancelled, destroyer, failures>>

PC == {"none", "starting", "asleep", "waiting", "timedwait", "signalled",
       "expired", "busy"}

\* Workers counted by tp_idle_threads, blocked on the condition, and running.
IdlePC == {"asleep", "waiting", "timedwait", "signalled", "expired"}
WaitPC == {"waiting", "timedwait"}
At(S) == {t \in Threads : pc[t] \in S}

\* tp_active: the workers that run a work function.
Active == At({"busy"})

-----------------------------------------------------------------------------
\* initialize_threadpool: a static pool (no idle time-out) has its threads at once.
Init ==
  /\ queue = <<>> /\ idle = 0 /\ started = FALSE /\ destroy = FALSE
  /\ \E S \in SUBSET Threads :
       /\ Cardinality(S) = IF Timed THEN 0 ELSE MinThreads
       /\ pc = [t \in Threads |-> IF t \in S THEN "starting" ELSE "none"]
       /\ nthreads = Cardinality(S)
  /\ timedout = [t \in Threads |-> FALSE]
  /\ doing = [t \in Threads |-> None]
  /\ fresh = Work /\ finished = {} /\ cancelled = {}
  /\ destroyer = "out" /\ failures = 0

start_request_pool ==
  /\ ~started /\ started' = TRUE
  /\ UNCHANGED <<queue, nthreads, idle, destroy, pc, timedout, doing, fresh,
                 finished, cancelled, destroyer, failures>>

\* pthread_cond_signal wakes one waiter, if there is one; a timed wait that is
\* woken returns 0 into rc, an untimed one leaves rc as it was.
Woken(S, rc) == [t \in Threads |-> IF t \in S /\ pc[t] = "timedwait" THEN FALSE ELSE rc[t]]
WakeUp(S) == [t \in Threads |-> IF t \in S THEN "signalled" ELSE pc[t]]

Signal ==
  IF At(WaitPC) = {}
  THEN UNCHANGED <<pc, timedout>>
  ELSE \E t \in At(WaitPC) : pc' = WakeUp({t}) /\ timedout' = Woken({t}, timedout)

\* create_work_thread, where its caller counts the thread it gets.
CreateWorker ==
  \/ \E t \in At({"none"}) :
       /\ pc' = [pc EXCEPT ![t] = "starting"]
       /\ timedout' = [timedout EXCEPT ![t] = FALSE]
       /\ nthreads' = nthreads + 1 /\ failures' = failures
  \/ /\ failures < MaxFailures /\ failures' = failures + 1
     /\ UNCHANGED <<pc, timedout, nthreads>>

\* Mutant: signals only when the queue was empty.
enqueue_signal_if_empty(w) ==
  /\ w \in fresh /\ fresh' = fresh \ {w}
  /\ queue' = Append(queue, w)
  /\ \/ idle > 0 /\ queue = <<>> /\ Signal /\ UNCHANGED <<nthreads, failures>>
     \/ idle > 0 /\ queue # <<>> /\ UNCHANGED <<pc, timedout, nthreads, failures>>
     \/ idle = 0 /\ nthreads < MaxThreads /\ CreateWorker
     \/ idle = 0 /\ nthreads >= MaxThreads /\ UNCHANGED <<pc, timedout, nthreads, failures>>
  /\ UNCHANGED <<idle, started, destroy, doing, finished, cancelled, destroyer>>

\* Mutant: signals only when no worker can be created.
enqueue_create_first(w) ==
  /\ w \in fresh /\ fresh' = fresh \ {w}
  /\ queue' = Append(queue, w)
  /\ \/ nthreads < MaxThreads /\ idle > 0 /\ UNCHANGED <<pc, timedout, nthreads, failures>>
     \/ nthreads < MaxThreads /\ idle = 0 /\ CreateWorker
     \/ nthreads >= MaxThreads /\ Signal /\ UNCHANGED <<nthreads, failures>>
  /\ UNCHANGED <<idle, started, destroy, doing, finished, cancelled, destroyer>>

\* Mutant: does not create a worker.
enqueue_no_create(w) ==
  /\ w \in fresh /\ fresh' = fresh \ {w}
  /\ queue' = Append(queue, w)
  /\ Signal
  /\ UNCHANGED <<nthreads, failures, idle, started, destroy, doing, finished, cancelled,
                 destroyer>>

\* A signal goes to an idle worker; only when none is idle may the pool grow.
enqueue_threadpool_request(w) ==
  /\ w \in fresh /\ fresh' = fresh \ {w}
  /\ queue' = Append(queue, w)
  /\ \/ idle > 0 /\ Signal /\ UNCHANGED <<nthreads, failures>>
     \/ idle = 0 /\ nthreads < MaxThreads /\ CreateWorker
     \/ idle = 0 /\ nthreads >= MaxThreads /\ UNCHANGED <<pc, timedout, nthreads, failures>>
  /\ UNCHANGED <<idle, started, destroy, doing, finished, cancelled, destroyer>>

-----------------------------------------------------------------------------
\* work_thread_cleanup(t): the worker leaves; it is replaced if it was the last
\* one, or if work waits and the pool is below its minimum.
Respawn(n) == ~destroy /\ (n = 0 \/ (queue # <<>> /\ n < MinThreads))

Exit(t) ==
  LET n == nthreads - 1 IN
  /\ timedout' = [timedout EXCEPT ![t] = FALSE]
  /\ \/ /\ ~Respawn(n) /\ nthreads' = n /\ failures' = failures
        /\ pc' = [pc EXCEPT ![t] = "none"]
     \/ /\ Respawn(n) /\ nthreads' = n + 1 /\ failures' = failures
        /\ pc' = [pc EXCEPT ![t] = "starting"]
     \/ /\ Respawn(n) /\ nthreads' = n /\ failures < MaxFailures
        /\ failures' = failures + 1 /\ pc' = [pc EXCEPT ![t] = "none"]
  /\ destroyer' = IF destroy /\ n = 0 /\ destroyer = "waiting" THEN "notified" ELSE destroyer

\* The wait of work_thread: untimed at or below the minimum number of threads.
Wait(t) ==
  /\ pc' = [pc EXCEPT ![t] = IF nthreads <= MinThreads \/ ~Timed THEN "waiting" ELSE "timedwait"]
  /\ UNCHANGED <<queue, nthreads, timedout, destroyer, failures>>
  /\ doing' = [doing EXCEPT ![t] = None]

\* tp_first is taken off the queue and run without the mutex.
Take(t) ==
  /\ queue' = Tail(queue)
  /\ doing' = [doing EXCEPT ![t] = Head(queue)]
  /\ pc' = [pc EXCEPT ![t] = "busy"]
  /\ UNCHANGED <<nthreads, timedout, destroyer, failures>>

\* rc may still be ETIMEDOUT from an earlier wait of this worker.
MayLeave(t, n) == timedout[t] /\ nthreads > MinThreads /\ n > 2

\* Mutant: a worker that times out is not taken off tp_idle_threads.
Proceed_keep_idle(t, n) ==
  /\ idle' = IF MayLeave(t, n) THEN n ELSE n - 1
  /\ \/ /\ MayLeave(t, n) \/ destroy
        /\ Exit(t) /\ UNCHANGED queue /\ doing' = [doing EXCEPT ![t] = None]
     \/ /\ ~MayLeave(t, n) /\ ~destroy /\ queue # <<>> /\ Take(t)

\* Below the wait loop: n is tp_idle_threads, this worker included.
Proceed(t, n) ==
  /\ idle' = n - 1
  /\ \/ /\ MayLeave(t, n) \/ destroy
        /\ Exit(t) /\ UNCHANGED queue /\ doing' = [doing EXCEPT ![t] = None]
     \/ /\ ~MayLeave(t, n) /\ ~destroy /\ queue # <<>> /\ Take(t)

Loop(t, n) ==
  \/ queue = <<>> /\ ~destroy /\ idle' = n /\ Wait(t)
  \/ (queue # <<>> \/ destroy) /\ Proceed(t, n)

\* Mutant: a worker does not count itself idle.
EnterLoop_uncounted(t) == started /\ Loop(t, idle)

\* The top of work_thread's for(;;): a worker counts itself idle, then sleeps in
\* one-second naps until the pool is started.
EnterLoop(t) ==
  \/ /\ ~started /\ idle' = idle + 1
     /\ pc' = [pc EXCEPT ![t] = "asleep"]
     /\ UNCHANGED <<queue, nthreads, timedout, doing, destroyer, failures>>
  \/ started /\ Loop(t, idle + 1)

\* A new worker gets the mutex for the first time.
Begin(t) ==
  /\ pc[t] = "starting" /\ EnterLoop(t)
  /\ UNCHANGED <<started, destroy, fresh, finished, cancelled>>

\* A worker that napped, or that the condition woke, gets the mutex back.
Resume(t) ==
  /\ (pc[t] = "asleep" /\ started) \/ pc[t] = "signalled"
  /\ Loop(t, idle)
  /\ UNCHANGED <<started, destroy, fresh, finished, cancelled>>

\* A worker whose timed wait expired gets the mutex back: it breaks out of the
\* wait loop; with nothing to do it goes round the outer loop and waits again.
ResumeExpired(t) ==
  /\ pc[t] = "expired"
  /\ \/ Proceed(t, idle)
     \/ ~MayLeave(t, idle) /\ ~destroy /\ queue = <<>> /\ idle' = idle /\ Wait(t)
  /\ UNCHANGED <<started, destroy, fresh, finished, cancelled>>

\* The clock: pthread_cond_timedwait gives up.
Expire(t) ==
  /\ pc[t] = "timedwait"
  /\ pc' = [pc EXCEPT ![t] = "expired"] /\ timedout' = [timedout EXCEPT ![t] = TRUE]
  /\ UNCHANGED <<queue, nthreads, idle, started, destroy, doing, fresh, finished,
                 cancelled, destroyer, failures>>

\* POSIX lets a condition wait return without a signal.
SpuriousWakeup(t) ==
  /\ pc[t] \in WaitPC
  /\ pc' = WakeUp({t}) /\ timedout' = Woken({t}, timedout)
  /\ UNCHANGED <<queue, nthreads, idle, started, destroy, doing, fresh, finished,
                 cancelled, destroyer, failures>>

\* func(arg) returns; work_cleanup takes the mutex and keeps it for the next turn.
FinishWork(t) ==
  /\ pc[t] = "busy"
  /\ finished' = finished \cup {doing[t]}
  /\ EnterLoop(t)
  /\ UNCHANGED <<started, destroy, fresh, cancelled>>

\* A cancelled worker unwinds through work_cleanup and work_thread_cleanup.
Cancel(t) ==
  /\ pc[t] = "busy" /\ t \in cancelled
  /\ doing' = [doing EXCEPT ![t] = None]
  /\ Exit(t)
  /\ UNCHANGED <<queue, idle, started, destroy, fresh, finished, cancelled>>

-----------------------------------------------------------------------------
\* Mutant: the idle workers are not woken.
destroy_no_broadcast ==
  /\ started /\ destroyer = "out" /\ destroy' = TRUE
  /\ cancelled' = Active
  /\ destroyer' = IF nthreads = 0 THEN "freeing" ELSE "waiting"
  /\ UNCHANGED <<queue, nthreads, idle, started, pc, timedout, doing, fresh, finished, failures>>

\* destroy_request_pool, up to its wait on tp_can_destroy.  pbsd_main calls it at
\* shutdown, after pbsd_init has started the pools.
destroy_request_pool ==
  /\ started /\ destroyer = "out" /\ destroy' = TRUE
  /\ pc' = WakeUp(At(WaitPC)) /\ timedout' = Woken(At(WaitPC), timedout)
  /\ cancelled' = Active
  /\ destroyer' = IF nthreads = 0 THEN "freeing" ELSE "waiting"
  /\ UNCHANGED <<queue, nthreads, idle, started, doing, fresh, finished, failures>>

\* The destroyer, woken by the last worker, looks at tp_nthreads again.
DestroyerWakes ==
  /\ destroyer = "notified"
  /\ destroyer' = IF nthreads = 0 THEN "freeing" ELSE "waiting"
  /\ UNCHANGED <<queue, nthreads, idle, started, destroy, pc, timedout, doing, fresh,
                 finished, cancelled, failures>>

\* Pending work is freed, not run.
FreePending ==
  /\ destroyer = "freeing" /\ destroyer' = "done" /\ queue' = <<>>
  /\ UNCHANGED <<nthreads, idle, started, destroy, pc, timedout, doing, fresh, finished,
                 cancelled, failures>>

-----------------------------------------------------------------------------
WorkerStep(t) ==
  Begin(t) \/ Resume(t) \/ ResumeExpired(t) \/ FinishWork(t) \/ Cancel(t)

Next ==
  \/ start_request_pool
  \/ \E w \in Work : enqueue_threadpool_request(w)
  \/ \E t \in Threads : WorkerStep(t) \/ Expire(t) \/ SpuriousWakeup(t)
  \/ destroy_request_pool \/ DestroyerWakes \/ FreePending

Spec == Init /\ [][Next]_vars

\* Every runnable worker gets the mutex in the end, every work function returns,
\* and the server does start its pools; nothing obliges anyone to submit work, to
\* shut down, or a timed wait to expire while it could be signalled.
Fairness ==
  /\ WF_vars(start_request_pool)
  /\ \A t \in Threads : WF_vars(WorkerStep(t))
  /\ WF_vars(DestroyerWakes) /\ WF_vars(FreePending)

FairSpec == Spec /\ Fairness
-----------------------------------------------------------------------------
\* The pool's fields keep their types; the counters never go below zero.
TypeOK ==
  /\ queue \in Seq(Work) /\ nthreads \in Nat /\ idle \in Nat
  /\ started \in BOOLEAN /\ destroy \in BOOLEAN
  /\ pc \in [Threads -> PC] /\ timedout \in [Threads -> BOOLEAN]
  /\ doing \in [Threads -> Work \cup {None}]
  /\ fresh \subseteq Work /\ finished \subseteq Work /\ cancelled \subseteq Threads
  /\ destroyer \in {"out", "waiting", "notified", "freeing", "done"}
  /\ failures \in Nat

\* The counters enqueue_threadpool_request and work_thread decide by are exact:
\* tp_idle_threads counts the workers that hold no work, and tp_nthreads the live
\* workers, however workers time out, exit, are replaced or are cancelled.
CountersExact ==
  /\ idle = Cardinality(At(IdlePC))
  /\ nthreads = Cardinality(At(PC \ {"none"}))

\* No lost wake-up: while a worker is blocked on tp_waiting_work there is, for each
\* queued item, a worker that has been woken for it and is not allowed to leave
\* (its rc is not a stale ETIMEDOUT above the minimum).  enqueue_threadpool_request
\* signals whenever tp_idle_threads > 0; a worker that exits must not be the one
\* that was signalled.
WakeupPerItem ==
  started /\ At(WaitPC) # {} =>
    Len(queue) <= Cardinality({t \in At({"signalled"}) : ~(timedout[t] /\ nthreads > MinThreads)})

\* Queued work is never abandoned: some worker will look at the queue without
\* further prompting, unless the last pthread_create failed and no worker is left.
QueuedWorkIsServed ==
  started /\ queue # <<>> /\ ~destroy =>
    \/ At(PC \ (WaitPC \cup {"none"})) # {}
    \/ failures > 0 /\ nthreads = 0

\* A submitted item is run, or the pool is being destroyed, or no worker could be
\* created.  There is no other way for a request to vanish.
Gone(w) == w \in finished \/ destroy \/ failures > 0
SubmittedWorkRuns == \A w \in Work : w \notin fresh ~> Gone(w)

\* destroy_request_pool returns: its broadcast, the cancellations and the last
\* worker's broadcast on tp_can_destroy leave nobody waiting for anybody.
DestroyReturns == destroy ~> destroyer = "done"
=============================================================================
