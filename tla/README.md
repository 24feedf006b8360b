# TLA+ models of TORQUE

TORQUE is a batch system: `pbs_server` keeps jobs in queues and sends them to
`pbs_mom` daemons on the compute nodes, which run them and report back. This
directory holds models of the parts of it where several threads or several
daemons have to agree, TLC configurations that check them on small instances,
and machine-checked proofs (TLAPS) of what holds for every instance. Paths below
are relative to the root of the source tree; `PROJECT.json` maps each definition
to the lines it models, and lists the hazards found while reading the code.

## The system

| Part | Where | State | Operations | What makes it hard |
|---|---|---|---|---|
| Thread pools | `src/lib/Libutils/u_threadpool.c` | list of requests, two counters, the state of each worker | start, enqueue, worker loop, destroy | signals, time-outs, failing `pthread_create`, shutdown |
| Job counts | `src/server/svr_jobfunc.c`, `user_info.c`, `queue_func.c` | counts per state for server, queue and user | enqueue, dequeue, change of state, recount | the job is unlocked while its thread waits for the queue |
| Local move | `src/server/svr_movejob.c` | reservations in a queue | `local_move` | dequeue and enqueue are two steps; the limit |
| Job start | `src/server/req_runjob.c`, `svr_movejob.c` | job, nodes, send thread | run, send, commit | lost or late answers, the MOM already has the job |
| Obituary, exit, rerun | `src/server/req_jobobit.c`, `exiting_jobs.c` | substate, tasks, retry list, E records | `req_jobobit`, `on_job_exit`, `on_job_rerun`, retries | six remote calls, each of which may fail; obituaries early and twice |
| Delete, nanny, qrerun, poll | `src/server/req_delete.c`, `req_rerun.c`, `req_stat.c` | flags of the job, timers | requests and the answers to them | they meet the job in any substate |
| Node reports | `src/server/node_manager.c` | node allocation | `sync_node_jobs`, `sync_node_jobs_with_moms` | must clear up without touching a job being sent |
| Recovery | `src/server/pbsd_init.c`, `job_recov.c` | job file | `pbsd_init_job` | memory ahead of disk |
| MOM, one node | `src/resmom/mom_req_quejob.c`, `catch_child.c`, `requests.c` | the job on the node | queue, commit, start, end, obituary, delete | drops connections, retries obituaries |
| MOM sisters | `src/resmom/mom_comm.c`, `start_exec.c`, `catch_child.c`, `mom_main.c` | the job on mother superior and on each sister, open events | join, launch, poll, spawn, kill, abort, resend | each message has a connection of its own: they cross, fail, come twice |
| Arrays | `src/server/job_array.cpp`, `array_func.c`, `job_func.c` | counters, indices not yet created, members | cloning in batches, start, end, requeue, delete, purge | the array is unlocked between a choice and its effect |
| Containers | `src/include/container.hpp`, `src/server/job_container.c` | slots, links, index | insert, remove, swap, iterate | walks over a list that changes and grows under them |
| Order in a queue | `src/server/svr_jobfunc.c`, `req_movejob.c` | ranks and places | enqueue by rank, qorder | ranks and places change at different moments |
| Dependencies, recycler | `src/server/req_register.c`, `job_recycler.c` | lists of jobs to release, free structures | register, release, recycle | one-shot messages, waiters on freed structures |

The remaining parts (attributes, wire format, administration, accounting files,
hardware support, clients) change state under one lock or not at all; the
components in `PROJECT.json` say so one by one.

The parts interact through the job. A worker of a pool handles a request with
the job's mutex held. The mutex is dropped in two situations: to wait for
another lock (`JobCounts` is about that) and to call a MOM (`JobRun` is about
that). A pool worker is therefore the thread of `JobCounts` and the caller of
`JobRun`; that it gets to run at all is what `ThreadPool` shows, and what the
fairness of `JobRun` takes from it. The lists of jobs through which every thread
finds its job are `JobList`; `JobArray` is a client of the start, the end and the
requeue of jobs, and `Sisters` opens up what `JobRun` treats as one MOM, when a
job runs on several nodes. Each of the last two meets `JobRun` in a few calls
(`svr_setjobstate` and the purge; `start_exec`, the obituary and `sync_node_jobs`),
which they model as far as they need them.

## Modules

**ThreadPool** models `u_threadpool.c`. `queue`, `nthreads` and `idle` are the
fields of `struct threadpool`, `pc[t]` is where worker `t` is, `timedout[t]` the
local `rc = ETIMEDOUT` that survives from one turn of the loop to the next. A
step is a stretch of code between taking and releasing `tp_mutex`; a
condition variable is a set of blocked workers, with spurious wake-ups.
`enqueue_threadpool_request`, the parts of `work_thread`, its clean-up handlers
and `destroy_request_pool` with its cancellation are the actions.

**JobCounts** models the counts. A thread is idle or waits, with the job
unlocked, for a queue (`at[t]`); `svr_setjobstate`, `svr_job_purge` and
`local_move` go on in `ResumeSet`, `ResumePurge`, `MoveDeque`, `ResumeDeque`,
`MoveEnque`. The history variable `blame` records which of seven race outcomes
has happened (a job overtaken, moved or unqueued under a waiting thread, purged
before it was complete, recounted in flight, a reservation leaked, a limit
bypassed). The properties say that the counts are exact until one of the named
outcomes, and each name in them is needed: without it TLC finds a violation
(`moved` in `NoJobStranded` only together with a second cause). Where `svr_dequejob`
finds a count below zero it recounts with everything unlocked and looks the job up
again; a job in transit is not found (`LostInRecount`), and `local_move` drops it with
its reservation. The record is then reachable from nowhere: the model calls it gone.

**JobRun** follows one job through server and MOMs. `srv` is the server's view
(the job, its file, its nodes, the number of E records, whether an S record was
written before the job ended, its place in the retry list), `th` the server's callers with the remote call each is in, `tasks` the
timers, `mom` and `obit` the nodes' side, `late` the requests whose sender no
longer waits for the answer. Operators such as `svr_setjobstate`,
`svr_evaljobstate`, `rel_resc`, `job_abt` transform the server and are composed
by the handlers as in the code. A remote call has the outcomes of
`issue_request.c`: served, served after the caller has given up, not delivered,
answer lost. `Restart` drops everything but the file and takes it through
`pbsd_init_job`; the obituary the MOM had sent may have been acknowledged or not,
and the server may stop on the way through `handle_complete_first_time`, between the
save and the E record (`DiesWith`, `completion_steps`). qrerun comes as the plain
request, with `-f` (the job is requeued although its MOM cannot be told) and as
`qrerun all` (no MOM is told).
Where a handler drops the job's mutex only to take another lock in order and
finds the job again (`remove_job_from_exiting_list` in
`handle_complete_first_time`, the lists of nodes), the step is not cut.

**ItemContainer** has the operations of `item_container` as operators on a record
`con` with the fields of the class: `max`, `num`, `next_slot`, `last`, the slots
with `pItem`, `next` and `prev`, and the map from ids to slots. **ListOps** has
what is said about sequences, **OrderedList** is the abstract specification: a
sequence of distinct ids, of which a step inserts, removes, moves or exchanges
entries. **JobList** is a list of jobs with its users: `insert`, `insert_after`,
`pop`, `remove_job`, `swap_jobs`; a walk with `next_job`, which unlocks the list
between two jobs; `insert_into_alljobs_by_rank`, which searches with the queue
locked and takes each job's lock on the way; and `req_orderjob`, which exchanges
the ranks first (`req_orderjob`) and the places later (`SwapPlaces`). The history
variable `order` is the sequence of slots the callers asked for, `torn` says that
a qorder was seen or given up between its halves. `Abstract` is the refinement
mapping.

**JobArray** models one array: `arr` has the counters of `job_array`, `st` and
`hold` the members, `exec` says which of them run on a MOM, `thr` where each thread
is. `job_clone_wt` clones the first batch under `CreationHold`, which
`perform_array_postprocessing` takes off; starts charge the slot
(`update_array_values`), ends, requeues, deletions of a member or of the array and
the purge give it back; the next index is cloned in several steps (`job_clone`,
`EnqueueClone`, `RelockArray`) between which the array is unlocked, and `TailRead` and
`TailWrite` are the increment of `jobs_done` that follows without the lock. Another
job may wait with `afteranyarray` (`dep`). `asked` records the exceptional requests.

**Sisters** models a job on several nodes without `job_radix`. `ms` is the job on
mother superior (substate, master task, `ji_kill_started`, flags), `np` its table
of hosts (`hn_sister`, `hn_events`), `sis` each sister's copy, `orphans` the runs of
which a sister has a process but no task any more (`mom_job_purge` frees the tasks and
signals nothing), `net` the bag of messages in flight, `queue` the bag
`things_to_resend`, `svr` what the server knows. A MOM is single-threaded, so that each message handler (the cases of
`im_request`) and each check of the main loop is one action, with all the messages
it sends. A handler carries its state in a record (`Now` on mother superior, `Here` on
a sister), from which `send_sisters` and `exec_bail`, or `send_ms`, `send_im_error` and
`mom_job_purge` go on: each message may fail to connect or to be
written, and is then left to `resend_things` under the null event, as in the code.
The server's part is a run (`start_exec`), the obituary (external to the module:
it is `JobRun`'s subject) and `sync_node_jobs`.

`MC`*X* instantiates module *X* for TLC. Operators named as mutants in the modules
are faulty versions of a definition, which `PROJECT.json` pairs with the property
that notices them. The theorems are in `ThreadPoolProofs`, `JobListProofs` (with the
lemmas of `ItemContainerProofs`), `JobCountsProofs` (with `JobCountsKinds` and
`JobCountsSteps`) and `JobArrayProofs` (with `JobArraySteps`).

## Runs

| Run | Configuration | Instance | Shows | Distinct states |
|---|---|---|---|---|
| pool | `ThreadPool.cfg` | 3 workers (1 to 3 allowed), 4 requests, timed waits, 1 failing create | counters exact, no lost wake-up, all work runs, shutdown ends | 123 thousand |
| counts | `JobCounts.cfg` | 2 jobs, 2 queues (one routing), 2 threads, 1 place | counts of server, queue and user, limit and reservations | 523 thousand |
| faults | `JobRun_faults.cfg` | 2 nodes, 1 run, 1 delete, 1 fault, MOMs before 6.1.0 | nodes held and released, no obituary lost | 1.8 million |
| restart | `JobRun_restart.cfg` | 2 nodes, 2 runs, 2 restarts, current MOMs | the job never runs twice at once, its end is recorded | 557 thousand |
| exit | `JobRun_exit.cfg` | 1 node, 1 qrerun, 1 fault, MOMs before 6.1.0 | exit and rerun processing end | 298 thousand |
| cleanup | `JobRun_cleanup.cfg` | 1 node, 1 delete, 1 fault, current MOMs | nodes come back, strays are cleared | 141 thousand |
| joblist | `JobList.cfg` | 3 jobs, 2 slots at first, a walk, an enqueue, a qorder | the container is an ordered list, queues stay sorted, walks are complete, enqueues return | 203 thousand |
| array | `JobArray.cfg` | 3 members, slot limit 1, idle limit 2, 2 threads, 1 exceptional request | slot limit, counters, hold while cloning, dependency, end of the array | 838 thousand |
| sisters | `Sisters.cfg` | 2 sisters, 1 run, 1 fault or exceptional step, or a poll, and a spawned task | launched once, and only when all have joined; the epilogue waits for the sisters | 1.3 million |
| sisters_rerun | `Sisters_rerun.cfg` | 1 sister, 2 runs, 1 fault or a poll | every run ends, no copy stays behind | 749 thousand |

Two runs show that the code does not do what a document or comment says. TLC
finds the counterexample; `PROJECT.json` quotes the line.

- **signal** (`Sisters_signal.cfg`): any signal to a job on several nodes makes
  mother superior send `IM_KILL_JOB` to the sisters, which kill their tasks.
- **array_idle** (`JobArray_idle.cfg`): two members start at once, both threads try
  to create the same next member, one index is never created and the array stops.

What else the models show, without a run of its own:

- `JobCounts`: two threads change the state of one job, and the first waits for
  the queue after it has charged the server; `state_count` stays wrong until
  `correct_ct` runs, which happens only when `svr_dequejob` finds a count below
  zero. A manager who moves a job into a full queue leaves it in no queue. Both
  are exceptions the properties `ServerCountsHold` and `NoJobStranded` name.
- `JobRun`: a server that restarts while it keeps a completed job writes another
  E record each time: `JOB_ACCOUNTED_FOR` is set after the last save, so that the test
  against a second record (`src/server/req_jobobit.c:1734`) finds it unset.
  `EndIsRecorded` therefore bounds the records by one and the number of restarts, and
  asks for the first of them before the job is purged. It excepts what may come
  before the record: a job without an S record (`req_jobobit` holds an obituary back
  only in PRERUN, so that in TRNOUT and TRNOUTCM the job may end before
  `finish_sendmom` has set its start time); a purge by the nanny that
  `pbsd_init_job` has set and whose MOM does not know the job
  (`post_job_delete_nanny`); and runs with a qdel or a lost message, after which the
  retry list may purge the job first. When SIGTERM and the nanny's one SIGKILL are lost nothing kills the
  job any more, since the nanny does not arm itself again although its comment
  says so (`src/server/req_delete.c:1548`) and a second qdel is rejected; only
  `job_force_cancel_time`, off by default, helps. An obituary that comes twice for
  a job on its way back into the queue puts it into the list of exiting jobs,
  where it stays until the list purges the job, queued or running.
- `JobList`: `req_orderjob` waits for the queue with its second job locked
  (`src/server/req_movejob.c:365`), and an enqueue by rank waits for that job with
  the queue locked. `EnqueueReturns` excepts this deadlock.
- `JobArray`: `qdel -p` gives a slot back while the member runs; `qdel` of an
  array counts a running member down when it is signalled and again when it ends;
  `qdel all` lets the array go while members run; a failed start keeps its slot
  and its place in `num_idle`; a member created or run while the others are being
  cloned carries no hold. The properties name the requests they are about.
- `Sisters`: a late answer to a join launches a job that has been given up, since
  `handle_im_join_job_response` does not look at the substate. A kill sent again
  carries the null event, so that the sister never answers it. A poll overtaken by
  a kill makes the exiting copy RUNNING again. A message of an earlier run has the
  present one killed, and on mother superior the error goes to itself. An abort
  purges the copy and leaves its processes: `EpilogueWaits` admits them on a sister
  that was told to abort, and is silent where a message failed, a join was repeated or
  a late answer launched the job. In each case the waits on mother superior
  and `sync_node_jobs` on the server clear up, which is what `RunEnds` and
  `StrayCopiesGo` say.

### Bounds

Three workers are the least with which one can time out while another holds the
signal and a third is busy. Two threads and two jobs suffice for every cause in
`JobCounts`: each is an event of one waiting and one other thread, and the limit
of one place is full with one job. `MaxContended`, `MaxUnknown` and `MaxMoves`
bound how often a queue is found locked, a job is found unknown to its MOM, and
a job is moved. `OneCause` stops the exploration behind a state with two causes,
where most properties are silent; the run without it passes as well (5.4 million
states), and so does the run with two contended locks (3.8 million), which a move
needs that waits for its queue and then loses its job in the recount.

In `JobRun` one node can only be confused with another one, so two are enough
where nodes matter; `MaxFaults`, `MaxDeletes`, `MaxReruns`, `MaxCrashes` and
`MaxRuns` bound the disturbances, and each can fall anywhere. `MaxAttempts`, 10
in the code, is 1: it only counts retries. `ModernMom` chooses between the exit
path through STAGEOUT, STAGEDEL and EXITED (older MOMs) and the short one.
Restarts come in a run of their own, because a restart admits what other
properties exclude: an obituary acknowledged and not saved.
`NeverRunsTwice` fails with a network fault and a second run, since a lost answer
to a commit makes the server requeue a job that has started; a run of a job
with qrerun may likewise break `RunningHoldsNode`. The hazards say so.

Three jobs are the least in which a walk stands on one, another is removed and a
third inserted; with two slots at first the array is doubled on the way. Three
members are a running one, an idle one and one not yet created. The array run was
repeated with slot limit 2 (3.4 million states) and with four members and no
exceptional request (182 thousand).

In `Sisters` two sisters are what a launch or an epilogue can be early for;
`MaxFaults` counts connections that fail, rejected joins and messages of an earlier
run on mother superior, `MaxExtras` repeated joins, signals and time-outs in
PRERUN, `Work` allows one poll and one spawned task. `Bound` lets only one fault or
exceptional step happen, and no poll with it. Without
`Bound`, with one sister, one fault and two of the other steps, the same properties
hold (9.9 million states). Event numbers start anew with each run, since the cookie is
compared before the event is. `ResendAttempts`, 4 in the code, is 2 or 1: it only counts.

`CHECK_DEADLOCK FALSE` is set throughout: a pool that is destroyed, jobs that
are gone and a run whose bounds are used up are proper ends.

### Fairness

`ThreadPool`: a runnable worker gets the mutex in the end and a work function
returns (`WF` on each worker's steps); nobody has to submit or shut down, and a
timed wait need not expire. `JobRun`: tasks on a timer fire, a caller goes on
when it has its answer, the MOM handles what reaches it, a killed process ends,
nodes go on reporting (`WF` on each). There is no fairness for network faults,
qdel, qrerun, restarts or for a job that ends by itself. The timers are fired by
the pools' workers, whose progress is `SubmittedWorkRuns`.

`JobList`: a thread that searches, places or exchanges goes on when it can get its
locks (`WF` on `SearchPlace`, `PlaceByRank`, `SwapPlaces`). `Sisters`: the checks of
mother superior's main loop recur, time passes and the server accepts the obituary (`WF`
on `MainLoop`, one condition for all of them), and the server handles the sisters' status
reports or the sister's own wait ends (`WF` on `sync_node_jobs` or `SisterWaitOver`).
`WF` on `check_jobs_main_process`, which reaps the master task, is an assumption on
the job and not on the code: that the master task ends, by itself or because it is
killed. Nothing is assumed of the messages between MOMs, one of
which may stay in flight for ever, nor of the tasks and processes on the sisters.

## Proofs

`ThreadPoolProofs` proves for every `MinThreads <= MaxThreads`, every finite set
of `MaxThreads` workers and every set of requests (assumption `PoolAssumption`):

- `TypesHold`, `CountersAreExact`: the type invariant; the two counters agree with
  what the workers do.
- `NoLostWakeup`: while a worker is blocked there is, for each queued request, a
  worker woken for it that may not leave.
- `WorkIsServed`: while a request is queued, somebody will look at the queue,
  unless no thread could be created.

They follow from `PoolInvariant`, `Spec => []PoolInv`. `WakeupPerItem` is not
inductive by itself. A worker leaves when `rc` is ETIMEDOUT and the pool is above
its minimum, so the invariant has to say that only timed waits expire, that a
time-out left over from an earlier turn never makes a signalled worker leave
while requests wait (`StaleTimeoutHarmless`), that only busy workers hold work,
that nobody waits before the pool is started, that a destroyed pool has woken
everybody, and that an empty pool with work has had a failing create. The step
lemmas go action by action; the counting lemmas at the start of the module say
how the number of workers in a set of states changes when one worker moves.

`JobListProofs` proves for every set of job ids and every initial size of the array
above one (assumptions `ContainerAssumption`, and `JobsNumbered`: the ids are naturals):

- `SlotsAreAccounted`: the free slot, the count and the index always fit the slots.
- `ListsAreChained`: the links are the sequence the callers asked for.
- `ListsImplementOrderedList`: the detailed list implements `OrderedList`.
- `WalksAreComplete`: a walk returns every job that kept its place, unless the slot
  it stands on is removed.
- `QueuesAreSorted`: a queue filled by rank stays sorted, as long as no qorder is
  seen half done.

`ItemContainerProofs` has the lemmas on the container: what each operation does to
`Accounted` (the slots) and to `Chained` (the links as a picture of a sequence).
The inductive invariant `ListInv` joins them (`Holds`) with the fact that a job being
enqueued is not in the list yet and that a qorder has two different jobs: without the
former an insertion could leave a second entry. `WalkInv` adds that an unfinished
walk stands on a slot of the list behind which all the jobs it owes still come.
`SortInv` says that ranks are distinct, that the list is sorted by the ranks as they
were before a qorder that has not exchanged the places yet, and that the place an
enqueue has found separates smaller ranks from larger ones. The steps go action by
action; the refinement takes the same cases, with the sequence of ids as the abstract
list.

`JobCountsProofs` proves every invariant of the run `counts`, for all finite sets of
jobs, queues and threads and every limit (`CountsAssumption`):

- `Types`: numbers of jobs, users' counts and reservations are never negative; the
  counts per state of a queue are not either, unless a job was moved under a waiting
  thread or purged before it was complete, nor those of the server, unless one of the
  causes of `ServerCountsHold` has happened or a thread is between its two charges
  (`StateCountsNatural`).
- `ServerCounts`, `QueueCounts`, `UserCounts`: the three sets of counts are exact, up
  to what a waiting thread has in flight and unless a cause they name has happened.
- `QueueLimit`: no queue holds more open jobs than `max_queuable`.
- `NobodyStranded`: a job that has left its queue in a move finds the place it reserved.

The inductive invariant `CountsInv` (`CountsInvariant`) joins these with what they lean
on. `WaitsOK` says what a waiting thread remembers; `PlacesKept` that a queue has a
reservation for each move that relies on one; `Members` that the lists and the jobs
agree on who is in which queue, and that one thread carries a job between two queues;
`Marked` that the bits of `ji_queue_counted` are set exactly while a job is queued and
open; `Estimated` that `count_queued_jobs`, which the limit is tested with, is not below
the number of open jobs and not above the limit; `RoomKept` that the reserved places
are free. The last two are why the limit holds although a test and the enqueue that
relies on it are two steps. Many actions do the same to the counts, so `JobCountsKinds` proves
preservation for seven kinds of step (a step that changes no count, one that charges
the server, one that settles a state, one that puts a job aside, one that dooms it, an
arrival, a departure) and `JobCountsSteps` shows of which kind each action is.
`JobCountsProofs` supplies the facts about cardinalities that the two take as
hypotheses. TLC has checked `CountsInv` and `StateCountsNatural` on the states of the
run without `OneCause` (5.4 million).

`JobArrayProofs` proves for every number of members, every slot limit and idle limit and
every set of threads (`JobArrayAssumption`, `NoneAssumption`):

- `Types`: the array and its members keep their types, whatever is asked; `jobs_running`
  stays between 0 and the number of members.
- `SlotLimitKept`: no more members execute than the slot limit allows (`SlotLimitHolds`).
- `ArrayOutlives`: the array goes only after its last member (`ArrayOutlivesMembers`).
- `DependencyReleased`: a job that waits for the array is released only when every
  member has ended (`DependencyHonest`).

The last three are about a server that keeps complete jobs for some time
(`KeepCompleted`); `SlotLimitKept` leaves out `qdel all` and `ArrayOutlives` leaves out
`qdel -p`. The invariant would have to say more there: without `keep_completed` a member
may be purged while its creator is between the enqueue and the array's lock; `qdel all`
removes the array before its running members, and a start after that is not counted;
after `qdel -p` and further requeues a member may be cloned and purged a second time.
On the instance of the run, TLC finds the properties true in these cases as well.

`ArrayInv` (`ArrayInvariant`) is `Typed` and, while no call has met another one on the
same member and neither `qdel -p` nor a `qdel` of the array has been asked (`Calm`),
`Sound`: every call is where its member's state says (`Calls`); two threads never deal
with one member (`Solo`); each member has one creator, and an index left to create is of
a member that is not purged (`Clones`); `num_purged` counts only members that are
purged (`Purges`); every executing member has a slot that `jobs_running` counts (`Slots`);
`jobs_done`, with the copies of it that threads hold in `TailRead`, counts only members
that have ended (`Endings`). Each action is shown to be a `Step`: a relation that
says separately what a step does to the members, the calls, the creator, the purges, the
slots and the ends; that a `Step` keeps `Sound` is proved once. The two facts on sets of
numbers the steps need (a nonempty finite set of naturals has a least and a greatest
element, `Extremes`; cardinalities change by one, `Counting`) are hypotheses in
`JobArraySteps` and proved in `JobArrayProofs`. TLC has checked `ArrayInv`, and that
each step is a `Step`, on 1.6 million states.

What is only model-checked:

- Liveness (`SubmittedWorkRuns`, `DestroyReturns`, `ExitFinishes`, `NodesComeBack`,
  `StraysAreCleared`, `EnqueueReturns`, `RunEnds`, `StrayCopiesGo`), which needs fairness
  and ENABLED; the prover handles neither.
- `CountersSettle`, `CreationHoldHolds` and `NeverStuck` of `JobArray`. They are about
  states in which every call has returned, or the cloner is still at work, and need exact
  counts where `Sound` has bounds.
- `TypeOK` of `JobList`: its parts are in `ListInv`, apart from the fields of the search
  and the walk.
- All of `JobRun` and `Sisters`. The properties of `JobRun` hold within the bounds on
  faults, restarts and requests that each run states, and fail beyond them (see
  Bounds), so that an inductive invariant would have to count the disturbances of every
  kind in every substate.

## Not modelled

- Sisters: `job_radix` trees, TM requests other than spawn, health checks, demux
  sockets, a MOM that restarts, a job that spans several mothers.
- Arrays: a changed slot limit (`qalter`) and what follows from it, ranges and the
  deletion thread, holds, recovery, dependency types other than `afteranyarray`,
  a clone that cannot be saved, the counters of started and failed members.
- Containers: `insert_at` and `clear`, which have no caller that shares the list;
  a qorder between two queues, which is two moves.
- Job runs: checkpoint and the restart from one (the case in which `exec_job_on_ms` fails
  at once), stage-in, holds and execution times,
  `qdel all` and purge requests, `job_force_cancel_time`, the `kill_delay` of qrerun,
  nodes that are taken out of the cluster while a job ends.
- Dependencies between jobs (`req_register.c`): the release of a dependency is sent
  once, and a registration that crosses it waits for ever.
- Routing and moves over the network; the recycling of job structures; high
  availability (the file lock and its update thread); the allocation of processors
  and devices.
- Everything that is configuration, formatting or a client.
  `threadpool_is_too_busy` reads the counters and changes nothing.

Dependencies, network moves, the recycler and the lock of the high-availability
pair are state machines that could be modelled next in the same way.
