------------------------------- MODULE Sisters -------------------------------
(***************************************************************************)
(* The protocol between the MOMs of one parallel job (job_radix unset):    *)
(* mother superior MS asks every sister to join, launches the job when all *)
(* have answered, polls them, and at the end, or when the start fails,     *)
(* tells them to kill or to abort the job.  Every message travels on a     *)
(* connection of its own, so messages overtake each other.  A MOM is a     *)
(* single thread: one handler or one pass of its main loop is one action.  *)
(* A job that failed with JOB_EXEC_RETRY is run again under a new cookie,  *)
(* on sisters chosen anew.                                                 *)
(***************************************************************************)
EXTENDS Naturals, FiniteSets, Bags

CONSTANTS
  Sisters,         \* MOMs that can be sisters of the job
  MS,              \* mother superior
  MaxRuns,         \* bound: how often the server runs the job
  MaxFaults,       \* bound: failed connections, rejected joins and messages of
                   \* an earlier run that reach MS
  MaxExtras,       \* bound: repeated joins, signals, and jobs or copies too long
                   \* in PRERUN
  Work,            \* bound: a subset of {"poll", "spawn"}, each done at most once
  Signals,         \* "KILL" for SIGKILL and signal 0, "other" for those only passed on
  ResendAttempts   \* resend_things: tries before a message is dropped (4)

VARIABLES
  ms,        \* MS's job structure
  np,        \* ji_hosts[i]: hn_sister and hn_events, kept by MS
  sis,       \* each sister's job structure
  orphans,   \* each sister's processes whose task is forgotten, as cookies
  net,       \* bag of messages in flight
  queue,     \* bag of things_to_resend of all MOMs
  svr,       \* the server's view of the job
  eventnum,  \* event_alloc's counter
  faults,    \* faults met so far
  extras,    \* what MaxExtras bounds, so far
  work,      \* what has been done of Work
  hist       \* history: the sisters that joined this run, and its launches

vars == <<ms, np, sis, orphans, net, queue, svr, eventnum, faults, extras, work, hist>>

NoJob == [sub |-> "none", run |-> 0, hosts |-> {}, task |-> "none", kill |-> "unset",
          aborted |-> FALSE, resent |-> FALSE, epilogue |-> FALSE, retry |-> FALSE]
NoCopy == [sub |-> "none", cookie |-> 0, transit |-> FALSE, obit |-> 0, task |-> "none",
           ms |-> "OKAY"]
NoNode == [sister |-> "OKAY", events |-> {}]

Put(bag, S) == bag (+) SetToBag(S)
Take(bag, e) == bag (-) SetToBag({e})

Message(to, from, com, cookie, ev, err) ==
  [to |-> to, from |-> from, com |-> com, cookie |-> cookie, ev |-> ev, err |-> err]
Request(s, com, job, ev) == Message(s, MS, com, job.run, ev, "none")
ToMS(s, com, cookie, ev, err) == Message(MS, s, com, cookie, ev, err)
Resendable(m) == [msg |-> m, left |-> ResendAttempts]

Init ==
  /\ ms = NoJob
  /\ np = [s \in Sisters |-> NoNode]
  /\ sis = [s \in Sisters |-> NoCopy]
  /\ orphans = [s \in Sisters |-> {}]
  /\ net = EmptyBag
  /\ queue = EmptyBag
  /\ svr = [state |-> "queued", runs |-> 0, placed |-> [r \in 1 .. MaxRuns |-> {}]]
  /\ eventnum = 1
  /\ faults = 0
  /\ extras = 0
  /\ work = {}
  /\ hist = [joined |-> {}, launches |-> 0, late |-> FALSE]

(***************************************************************************)
(* Sending                                                                 *)
(***************************************************************************)

\* The bounds: one more exceptional step, the first poll or spawned task.
OneMore == extras < MaxExtras /\ extras' = extras + 1 /\ UNCHANGED work
FirstOf(w) == w \in Work \ work /\ work' = work \cup {w} /\ UNCHANGED extras

\* Where a handler stands: its job, the hosts' entries, the messages in flight
\* without the one it handles, the next event and the faults it has met.
Now == [job |-> ms, nodes |-> np, wire |-> net, ev |-> eventnum, faults |-> faults]

\* The handler ends so, having sent nothing more.
Done(at) ==
  /\ ms' = at.job
  /\ np' = at.nodes
  /\ net' = at.wire
  /\ UNCHANGED <<queue, eventnum, faults>>

\* Every target gets an event.  A target that cannot be connected to (U), or to
\* which the message cannot be written (E), is left to resend_things under the
\* null event.  The job becomes some if a target was reached, and none if none was.
send_sisters(at, com, targets, some, none) ==
  \E U \in SUBSET targets : \E E \in SUBSET (targets \ U) :
    LET failed == U \cup E
        got == targets \ failed
        Sister(s) == CASE s \in got -> "OKAY" [] s \in E -> "EOF" [] OTHER -> at.nodes[s].sister
        nodes == [s \in Sisters |-> IF s \notin targets THEN at.nodes[s] ELSE
                    [sister |-> Sister(s),
                     events |-> at.nodes[s].events \cup {[com |-> com, ev |-> at.ev]}]]
    IN  /\ at.faults + Cardinality(failed) <= MaxFaults
        /\ faults' = at.faults + Cardinality(failed)
        /\ np' = nodes
        /\ net' = Put(at.wire, {Request(s, com, at.job, at.ev) : s \in got})
        /\ queue' = Put(queue, {Resendable(Request(s, com, at.job, 0)) : s \in failed})
        /\ eventnum' = at.ev + 1
        /\ ms' = IF got # {} THEN some ELSE none

\* On MS: the sisters are told to abort, and the job is exiting whatever it was.
exec_bail(at, retry, targets) ==
  LET bailed == [at.job EXCEPT !.sub = "EXITING", !.retry = retry]
  IN  send_sisters(at, "ABORT", targets, bailed, bailed)

\* Where a handler of a sister stands, likewise.
Here(s, wire) ==
  [copy |-> sis[s], left |-> orphans[s], wire |-> wire, queue |-> queue, faults |-> faults]

\* The handler ends so.
SisterDoes(s, at) ==
  /\ at.faults <= MaxFaults
  /\ sis' = [sis EXCEPT ![s] = at.copy]
  /\ orphans' = [orphans EXCEPT ![s] = at.left]
  /\ net' = at.wire
  /\ queue' = at.queue
  /\ faults' = at.faults

\* A message m to MS is sent or, after the tries, left to resend_things as later.
Sent(at, m) == [at EXCEPT !.wire = Put(@, {m})]
Left(at, later) == [at EXCEPT !.queue = Put(@, {Resendable(later)}), !.faults = @ + 1]
SisterSends(at, m, later) == {Sent(at, m), Left(at, later)}

\* What is left of an error has neither its event nor its code.
send_im_error(at, s, m, err) ==
  SisterSends(at, ToMS(s, "ERROR", m.cookie, m.ev, err), ToMS(s, "ERROR", m.cookie, 0, "none"))

\* The copy asks MS to abort the job, unless a write to MS failed before.
send_ms(at, s) ==
  LET abort == ToMS(s, "ABORT", at.copy.cookie, 0, "none")
  IN  IF at.copy.ms = "EOF" THEN {at}
      ELSE SisterSends(at, abort, abort) \cup {[Left(at, abort) EXCEPT !.copy.ms = "EOF"]}

\* The copy goes with its tasks; their processes are not signalled.
mom_job_purge(at) ==
  [at EXCEPT !.copy = NoCopy,
             !.left = @ \cup {c \in {at.copy.cookie} : at.copy.task # "none"}]

\* Mutant of resend_things: an entry is kept for one failed try too many.
resend_things_once_more ==
  \E r \in BagToSet(queue) :
    /\ \/ /\ net' = Put(net, {r.msg})
          /\ queue' = Take(queue, r)
       \/ /\ queue' = IF r.left = 0 THEN Take(queue, r)
                      ELSE Put(Take(queue, r), {[r EXCEPT !.left = @ - 1]})
          /\ UNCHANGED net
    /\ UNCHANGED <<ms, np, sis, orphans, svr, eventnum, faults, extras, work, hist>>

\* One pass over one of things_to_resend.
resend_things ==
  \E r \in BagToSet(queue) :
    /\ \/ /\ net' = Put(net, {r.msg})
          /\ queue' = Take(queue, r)
       \/ /\ queue' = IF r.left = 1 THEN Take(queue, r)
                      ELSE Put(Take(queue, r), {[r EXCEPT !.left = @ - 1]})
          /\ UNCHANGED net
    /\ UNCHANGED <<ms, np, sis, orphans, svr, eventnum, faults, extras, work, hist>>

(***************************************************************************)
(* MS: starting the job                                                    *)
(***************************************************************************)

\* Up to five rounds of joins.  A host of G was connected to and could not be
\* written to in some round, which leaves an event that nothing will answer;
\* the hosts of F were never reached, and the start is given up.
send_join_job_to_sisters(at, F, G) ==
  LET H == at.job.hosts
      Joins(s) == {[com |-> "JOIN", ev |-> at.ev] : g \in G \cap {s}}
                    \cup {[com |-> "JOIN", ev |-> at.ev + 1] : h \in (H \ F) \cap {s}}
      sent == [at EXCEPT !.nodes = [s \in Sisters |-> [sister |-> "OKAY", events |-> Joins(s)]],
                         !.wire = Put(@, {Request(s, "JOIN", at.job, at.ev + 1) : s \in H \ F}),
                         !.ev = @ + 2,
                         !.faults = @ + Cardinality(G \ F) + (IF F = {} THEN 0 ELSE 1)]
  IN  \/ /\ F = {}
         /\ sent.faults <= MaxFaults
         /\ ms' = sent.job
         /\ np' = sent.nodes
         /\ net' = sent.wire
         /\ eventnum' = sent.ev
         /\ faults' = sent.faults
         /\ UNCHANGED queue
      \/ /\ F # {}
         /\ exec_bail(sent, TRUE, H \ F)

\* The server runs the job: MS has it with req_commit and starts it.
start_exec ==
  /\ svr.state = "queued"
  /\ svr.runs < MaxRuns
  /\ ms.sub = "none"
  /\ \E H \in SUBSET Sisters \ {{}} :
       LET run == svr.runs + 1
           job == [NoJob EXCEPT !.sub = "PRERUN", !.run = run, !.hosts = H]
       IN  /\ svr' = [state |-> "running", runs |-> run, placed |-> [svr.placed EXCEPT ![run] = H]]
           /\ \E F, G \in SUBSET H : send_join_job_to_sisters([Now EXCEPT !.job = job, !.ev = 1], F, G)
  /\ hist' = [joined |-> {}, launches |-> 0, late |-> FALSE]
  /\ UNCHANGED <<sis, orphans, extras, work>>

\* The launch on MS: the job runs, its child is still starting, or it failed,
\* for good or to be retried.
exec_job_on_ms(at) ==
  /\ hist' = [hist EXCEPT !.launches = @ + 1, !.late = ms.sub # "PRERUN"]
  /\ \/ Done([at EXCEPT !.job.sub = "RUNNING", !.job.task = "running"])
     \/ Done([at EXCEPT !.job.sub = "STARTING"])
     \/ \E retry \in BOOLEAN : exec_bail(at, retry, at.job.hosts)

\* The main loop looks at a child that was still starting.
TMOMScanForStarting ==
  /\ ms.sub = "STARTING"
  /\ \/ Done([Now EXCEPT !.job.sub = "RUNNING", !.job.task = "running"])
     \/ \E retry \in BOOLEAN : exec_bail(Now, retry, ms.hosts)
  /\ UNCHANGED <<sis, orphans, svr, extras, work, hist>>

\* No answer for resend_join_job_wait_time: the hosts with an event left are
\* sent another join, under the first of their events; once.
resend_waiting_joins ==
  LET waiting == {s \in ms.hosts : np[s].events # {}}
      First(s) == CHOOSE e \in np[s].events : \A f \in np[s].events : e.ev <= f.ev
  IN  /\ ms.sub = "PRERUN"
      /\ ~ ms.resent
      /\ OneMore
      /\ \E U \in SUBSET waiting :
           /\ faults + Cardinality(U) <= MaxFaults
           /\ faults' = faults + Cardinality(U)
           /\ net' = Put(net, {Request(s, "JOIN", ms, First(s).ev) : s \in waiting \ U})
      /\ ms' = [ms EXCEPT !.resent = TRUE]
      /\ UNCHANGED <<np, sis, orphans, queue, svr, eventnum, hist>>

\* No answer for max_join_job_wait_time: the start is given up.
evaluate_job_in_prerun ==
  /\ ms.sub = "PRERUN"
  /\ exec_bail(Now, TRUE, ms.hosts)
  /\ UNCHANGED <<sis, orphans, svr, extras, work, hist>>

\* The same after the prologue's time, with a code that ends the job.
examine_all_running_jobs ==
  /\ ms.sub = "PRERUN"
  /\ OneMore
  /\ exec_bail(Now, FALSE, ms.hosts)
  /\ UNCHANGED <<sis, orphans, svr, hist>>

(***************************************************************************)
(* MS: the end of the job                                                  *)
(***************************************************************************)

\* Mutant of are_all_sisters_done: one host that is done is enough.
one_sister_done(job, nodes) == \E s \in job.hosts : nodes[s].sister # "OKAY"

\* No host is left from which an answer to KILL_JOB is awaited.
are_all_sisters_done(job, nodes) == \A s \in job.hosts : nodes[s].sister # "OKAY"

\* An exiting job whose sisters are done, or have had their time (ji_kill_started
\* may never have been set), has its epilogue run and then its obituary sent; if
\* the epilogue was run before, it is only made sure that the obituary is sent.
mother_superior_cleanup(job, nodes) ==
  IF /\ job.sub = "EXITING"
     /\ job.kill # "waiting" \/ are_all_sisters_done(job, nodes)
     /\ ~ job.epilogue
    THEN [job EXCEPT !.sub = "PRECLEAN", !.epilogue = TRUE]
    ELSE job

\* The master task has exited.  scan_for_exiting sends KILL_JOB to the sisters,
\* in whatever substate the job is, and goes on with the job if it is exiting.
check_jobs_main_process ==
  LET exits == [ms EXCEPT !.sub = "EXITING", !.retry = FALSE, !.task = "none"]
  IN  /\ ms.task = "running"
      /\ send_sisters(Now, "KILL", ms.hosts, [exits EXCEPT !.sub = "MOM_WAIT", !.kill = "waiting"],
                      mother_superior_cleanup(exits, np'))
      /\ UNCHANGED <<sis, orphans, svr, extras, work, hist>>

\* scan_for_exiting finds the job exiting.
scan_for_exiting ==
  /\ mother_superior_cleanup(ms, np) # ms
  /\ Done([Now EXCEPT !.job = mother_superior_cleanup(ms, np)])
  /\ UNCHANGED <<sis, orphans, svr, extras, work, hist>>

\* job_exit_wait_time passes after the KILL_JOBs ...
ExitWaitOver ==
  /\ ms.kill = "waiting"
  /\ ms' = [ms EXCEPT !.kill = "expired"]
  /\ UNCHANGED <<np, sis, orphans, net, queue, svr, eventnum, faults, extras, work, hist>>

\* Mutant of check_job_in_mom_wait: the wait for a silent sister is not given up.
check_job_waits_on ==
  /\ ms.sub = "MOM_WAIT"
  /\ are_all_sisters_done(ms, np)
  /\ ms' = [ms EXCEPT !.sub = "EXITING"]
  /\ UNCHANGED <<np, sis, orphans, net, queue, svr, eventnum, faults, extras, work, hist>>

\* ... and the main loop notices it.
check_job_in_mom_wait ==
  /\ ms.sub = "MOM_WAIT"
  /\ ms.kill = "expired"
  /\ ms' = [ms EXCEPT !.sub = "EXITING"]
  /\ UNCHANGED <<np, sis, orphans, net, queue, svr, eventnum, faults, extras, work, hist>>

\* A signal from the server.  The sisters are sent KILL_JOB whatever the signal;
\* without a process to signal, SIGKILL and signal 0 make the job exiting.
mom_req_signal_job(sig) ==
  LET Signalled(job) == IF sig = "KILL" /\ ms.task = "none"
                          THEN [job EXCEPT !.sub = "EXITING"] ELSE job
      waits == [ms EXCEPT !.sub = "MOM_WAIT", !.kill = "waiting"]
  IN  /\ ms.sub # "none"
      /\ OneMore
      /\ send_sisters(Now, "KILL", ms.hosts, Signalled(waits), Signalled(ms))
      /\ UNCHANGED <<sis, orphans, svr, hist>>

\* The epilogue and the staging are over: the obituary is sent, the server
\* accepts it and MS deletes the job.  A job to be retried is queued again.  (A
\* server that is busy or cannot be reached only has the obituary sent again.)
JobObituary ==
  /\ ms.epilogue
  /\ svr' = [svr EXCEPT !.state = IF ms.retry THEN "queued" ELSE "done"]
  /\ ms' = NoJob
  /\ np' = [s \in Sisters |-> NoNode]
  /\ UNCHANGED <<sis, orphans, net, queue, eventnum, faults, extras, work, hist>>

\* A running job's sisters are polled.
examine_all_polled_jobs ==
  /\ ms.sub = "RUNNING"
  /\ FirstOf("poll")
  /\ send_sisters(Now, "POLL", ms.hosts, ms, ms)
  /\ UNCHANGED <<sis, orphans, svr, hist>>

\* The job spawns a task on a sister (tm_spawn, through MS); a request that
\* cannot be sent is dropped and its event stays.
SpawnTask ==
  /\ ms.task = "running"
  /\ FirstOf("spawn")
  /\ \E s \in ms.hosts :
       /\ np' = [np EXCEPT ![s].events = @ \cup {[com |-> "SPAWN", ev |-> eventnum]}]
       /\ \/ net' = Put(net, {Request(s, "SPAWN", ms, eventnum)}) /\ UNCHANGED faults
          \/ faults < MaxFaults /\ faults' = faults + 1 /\ UNCHANGED net
  /\ eventnum' = eventnum + 1
  /\ UNCHANGED <<ms, sis, orphans, queue, svr, hist>>

(***************************************************************************)
(* MS: messages of the sisters                                             *)
(***************************************************************************)

\* hn_sister of the sender is set, and with the last one the job is exiting.
SisterDone(at, s, how) ==
  LET nodes == [at.nodes EXCEPT ![s].sister = how]
      sub == IF are_all_sisters_done(at.job, nodes) THEN "EXITING" ELSE at.job.sub
  IN  Done([at EXCEPT !.nodes = nodes, !.job.sub = sub])

\* Mutant of handle_im_join_job_response: the search stops at the first host.
join_response_one_host(at) ==
  IF \E s \in at.job.hosts : at.nodes[s].events = {}
    THEN exec_job_on_ms(at)
    ELSE Done(at) /\ UNCHANGED hist

\* The last answer to a join launches the job; the substate is not looked at.
handle_im_join_job_response(at) ==
  IF \A s \in at.job.hosts : at.nodes[s].events = {}
    THEN exec_job_on_ms(at)
    ELSE Done(at) /\ UNCHANGED hist

\* IM_ALL_OKAY: com is the command of the event it answers.
process_valid_response(at, s, com) ==
  CASE com = "JOIN" -> handle_im_join_job_response(at)
    [] com = "KILL" -> SisterDone(at, s, "KILLDONE") /\ UNCHANGED hist
    [] OTHER -> Done(at) /\ UNCHANGED hist

\* IM_ERROR: likewise, but an unknown job without an event is taken for the
\* answer to a KILL_JOB.
process_error_reply(at, s, com, err) ==
  LET about == IF com = "none" /\ err = "UNKJOBID" THEN "KILL" ELSE com
  IN  /\ CASE about = "JOIN" -> exec_bail(at, TRUE, at.job.hosts)
           [] about \in {"ABORT", "KILL"} -> SisterDone(at, s, "error")
           [] about = "POLL" -> Done([at EXCEPT !.nodes[s].sister = "error"])
           [] OTHER -> Done(at)
      /\ UNCHANGED hist

\* A sister gives up: the others are told to abort; once.
AbortFromSister(at, s) ==
  /\ IF at.job.aborted THEN Done(at)
     ELSE exec_bail([at EXCEPT !.job.aborted = TRUE], TRUE, at.job.hosts \ {s})
  /\ UNCHANGED hist

\* Another version of the job is about: this one is killed.  The error goes to
\* ji_hosts[0], which on MS is MS itself.
BadCookie(at, m) ==
  /\ exec_bail([at EXCEPT !.wire = Put(@, {ToMS(MS, "ERROR", m.cookie, m.ev, "BADSTATE")}),
                          !.faults = @ + 1], FALSE, at.job.hosts)
  /\ UNCHANGED <<extras, work, hist>>

\* A message for the job MS has.
KnownJob(at, m) ==
  LET found == {e \in at.nodes[m.from].events : e.ev = m.ev}
      com == IF found = {} THEN "none" ELSE (CHOOSE e \in found : TRUE).com
      then == [at EXCEPT !.nodes[m.from].events = @ \ found]
  IN  CASE m.com = "ABORT" -> AbortFromSister(at, m.from)
        [] m.com = "OKAY" /\ m.from \in at.job.hosts /\ found # {} ->
             process_valid_response(then, m.from, com)
        [] m.com = "ERROR" /\ m.from \in at.job.hosts -> process_error_reply(then, m.from, com, m.err)
        [] OTHER -> Done(at) /\ UNCHANGED hist

\* im_request on MS.
im_request_on_ms ==
  \E m \in {x \in BagToSet(net) : x.to = MS} :
    LET at == [Now EXCEPT !.wire = Take(net, m)]
        refusal == Message(m.from, MS, "ERROR", m.cookie, m.ev, "UNKJOBID")
    IN  /\ \/ /\ ms.sub = "none"
              /\ Done(IF m.com = "ERROR" THEN at ELSE [at EXCEPT !.wire = Put(@, {refusal})])
              /\ UNCHANGED <<extras, work, hist>>
           \/ ms.sub # "none" /\ m.cookie # ms.run /\ BadCookie(at, m)
           \/ ms.sub # "none" /\ m.cookie = ms.run /\ KnownJob(at, m) /\ UNCHANGED <<extras, work>>
        /\ UNCHANGED <<sis, orphans, svr>>

(***************************************************************************)
(* A sister                                                                *)
(***************************************************************************)

\* What is left alone by every step of a sister.
SisterOnly == UNCHANGED <<ms, np, svr, eventnum>>

\* A join is rejected, or accepted and answered.  A copy that has not been
\* polled yet is purged first; any other leaves the join without an answer.
im_join_job_as_sister(s, m, wire) ==
  LET at == Here(s, wire)
      purged == mom_job_purge(at)
      copy == [NoCopy EXCEPT !.sub = "PRERUN", !.cookie = m.cookie, !.transit = TRUE]
      okay == ToMS(s, "OKAY", m.cookie, m.ev, "none")
  IN  \/ /\ at.copy.sub \notin {"none", "PRERUN"}
         /\ SisterDoes(s, at)
         /\ UNCHANGED hist
      \/ /\ at.copy.sub \in {"none", "PRERUN"}
         /\ \E then \in SisterSends([purged EXCEPT !.copy = copy], okay, okay) : SisterDoes(s, then)
         /\ hist' = IF m.cookie = svr.runs THEN [hist EXCEPT !.joined = @ \cup {s}] ELSE hist
      \/ /\ at.copy.sub \in {"none", "PRERUN"}
         /\ \E then \in send_im_error(purged, s, m, "REJECTED") :
              SisterDoes(s, [then EXCEPT !.faults = faults + 1])
         /\ UNCHANGED hist

Killed(copy) == IF copy.task = "running" THEN [copy EXCEPT !.task = "killed"] ELSE copy

im_kill_job_as_sister(s, m, wire) ==
  SisterDoes(s, [Here(s, wire) EXCEPT !.copy = [Killed(@) EXCEPT !.sub = "EXITING", !.obit = m.ev]])

\* MS gets no answer.
im_abort_job(s, wire) == SisterDoes(s, mom_job_purge(Here(s, wire)))

\* The first poll that can be answered makes the copy RUNNING, whatever it was.
im_poll_job_as_sister(s, m, wire) ==
  LET at == Here(s, wire)
      copy == IF at.copy.transit THEN [at.copy EXCEPT !.sub = "RUNNING", !.transit = FALSE]
              ELSE at.copy
  IN  \/ SisterDoes(s, [at EXCEPT !.faults = @ + 1])
      \/ SisterDoes(s, Sent([at EXCEPT !.copy = copy], ToMS(s, "OKAY", m.cookie, m.ev, "none")))

\* A task is started, whatever the substate, and the answer sent or lost; or it
\* cannot be started.
im_spawn_task(s, m, wire) ==
  LET at == Here(s, wire)
      started == [at EXCEPT !.copy.task = "running"]
  IN  \/ SisterDoes(s, Sent(started, ToMS(s, "OKAY", m.cookie, m.ev, "none")))
      \/ SisterDoes(s, [started EXCEPT !.faults = @ + 1])
      \/ \E then \in send_im_error(at, s, m, "SYSTEM") :
           SisterDoes(s, [then EXCEPT !.faults = faults + 1])

\* A message for the copy the sister has.  Only MS may kill, poll or abort.
OwnCopy(s, m, wire) ==
  CASE m.com = "KILL" /\ m.from = MS -> im_kill_job_as_sister(s, m, wire)
    [] m.com = "ABORT" -> im_abort_job(s, wire)
    [] m.com = "POLL" -> im_poll_job_as_sister(s, m, wire)
    [] m.com = "SPAWN" -> im_spawn_task(s, m, wire)
    [] OTHER -> SisterDoes(s, Here(s, wire))

\* im_request on a sister.
im_request_on_sister(s) ==
  \E m \in {x \in BagToSet(net) : x.to = s} :
    LET wire == Take(net, m)
        at == Here(s, wire)
        refusal == Message(m.from, s, "ERROR", m.cookie, m.ev, "UNKJOBID")
    IN  /\ \/ m.com = "JOIN" /\ im_join_job_as_sister(s, m, wire)
           \/ /\ m.com # "JOIN" /\ sis[s].sub = "none"
              /\ SisterDoes(s, IF m.com = "ERROR" THEN at ELSE Sent(at, refusal))
              /\ UNCHANGED hist
           \/ /\ m.com # "JOIN" /\ sis[s].sub # "none" /\ m.cookie # sis[s].cookie
              /\ \E told \in send_im_error(at, s, m, "BADSTATE") :
                   \E then \in send_ms(told, s) : SisterDoes(s, then)
              /\ UNCHANGED hist
           \/ /\ m.com # "JOIN" /\ sis[s].sub # "none" /\ m.cookie = sis[s].cookie
              /\ OwnCopy(s, m, wire)
              /\ UNCHANGED hist
        /\ UNCHANGED <<extras, work>>
        /\ SisterOnly

\* The copy's task is reaped, having been killed or having ended.
TaskEnds(s) ==
  /\ sis[s].task # "none"
  /\ SisterDoes(s, [Here(s, net) EXCEPT !.copy.task = "none"])
  /\ UNCHANGED <<extras, work, hist>>
  /\ SisterOnly

\* A process of no task the sister knows of ends.
OrphanEnds(s) ==
  /\ \E c \in orphans[s] : SisterDoes(s, [Here(s, net) EXCEPT !.left = @ \ {c}])
  /\ UNCHANGED <<extras, work, hist>>
  /\ SisterOnly

\* An exiting copy that owes an answer, and has no task left, gives it and goes.
\* If no connection was made the answer is lost; if it could not be written it
\* is left to resend_things.
exit_mom_job(s) ==
  LET okay == ToMS(s, "OKAY", sis[s].cookie, sis[s].obit, "none")
      gone == mom_job_purge(Here(s, net))
  IN  /\ sis[s].sub = "EXITING"
      /\ sis[s].obit # 0
      /\ sis[s].task = "none"
      /\ \E then \in SisterSends(gone, okay, okay) \cup {[gone EXCEPT !.faults = @ + 1]} :
           SisterDoes(s, then)
      /\ UNCHANGED <<extras, work, hist>>
      /\ SisterOnly

\* A copy too long in PRERUN asks MS to abort the job, in every pass.
prerun_alarm(s) ==
  /\ sis[s].sub = "PRERUN"
  /\ OneMore
  /\ \E then \in send_ms(Here(s, net), s) : SisterDoes(s, then)
  /\ UNCHANGED hist
  /\ SisterOnly

\* The hosts the server has given the job.
exec_host == IF svr.state = "running" THEN svr.placed[svr.runs] ELSE {}

\* Mutant of sync_node_jobs: a copy in PRERUN is left alone.
sync_skips_prerun(s) ==
  /\ sis[s].sub = "EXITING"
  /\ s \notin exec_host
  /\ SisterDoes(s, mom_job_purge(Here(s, net)))
  /\ UNCHANGED <<extras, work, hist>>
  /\ SisterOnly

\* The server finds a copy on a node that is not the job's, and has it killed.
sync_node_jobs(s) ==
  LET copy == sis[s]
      others == ({MS} \cup svr.placed[copy.cookie]) \ {s}
  IN  /\ copy.sub \notin {"none", "MOM_WAIT"}
      /\ s \notin exec_host
      /\ \/ /\ copy.sub \in {"EXITING", "PRERUN"}
            /\ SisterDoes(s, mom_job_purge(Here(s, net)))
         \/ /\ copy.sub = "RUNNING"
            /\ SisterDoes(s, [Here(s, net) EXCEPT
                 !.wire = Put(@, {Message(h, s, "KILL", copy.cookie, 0, "none") : h \in others}),
                 !.copy = [Killed(@) EXCEPT
                             !.sub = IF copy.task = "none" THEN "EXITING" ELSE "MOM_WAIT"]])
      /\ UNCHANGED <<extras, work, hist>>
      /\ SisterOnly

\* job_exit_wait_time passes for a copy in MOM_WAIT.
SisterWaitOver(s) ==
  /\ sis[s].sub = "MOM_WAIT"
  /\ SisterDoes(s, [Here(s, net) EXCEPT !.copy.sub = "EXITING"])
  /\ UNCHANGED <<extras, work, hist>>
  /\ SisterOnly

Next ==
  \/ start_exec
  \/ im_request_on_ms
  \/ TMOMScanForStarting
  \/ resend_waiting_joins
  \/ evaluate_job_in_prerun
  \/ examine_all_running_jobs
  \/ check_jobs_main_process
  \/ scan_for_exiting
  \/ ExitWaitOver
  \/ check_job_in_mom_wait
  \/ \E sig \in Signals : mom_req_signal_job(sig)
  \/ JobObituary
  \/ examine_all_polled_jobs
  \/ SpawnTask
  \/ resend_things
  \/ \E s \in Sisters :
       \/ im_request_on_sister(s)
       \/ TaskEnds(s)
       \/ OrphanEnds(s)
       \/ exit_mom_job(s)
       \/ prerun_alarm(s)
       \/ sync_node_jobs(s)
       \/ SisterWaitOver(s)

\* What MS's main loop does for the job it has.
MainLoop ==
  \/ TMOMScanForStarting \/ evaluate_job_in_prerun
  \/ scan_for_exiting \/ ExitWaitOver \/ check_job_in_mom_wait \/ JobObituary

\* The passes of the MOMs' main loops and the server's handling of their status
\* recur, and the master task of a job ends.  Nothing is assumed of the messages
\* between MOMs, nor of the tasks on sisters.
Fairness ==
  /\ WF_vars(MainLoop)
  /\ WF_vars(check_jobs_main_process)
  /\ \A s \in Sisters : WF_vars(sync_node_jobs(s) \/ SisterWaitOver(s))

Spec == Init /\ [][Next]_vars /\ Fairness

(***************************************************************************)
(* Properties                                                              *)
(***************************************************************************)

\* The records the MOMs and the server keep have their types, and a message in
\* things_to_resend (resend_things) has tries left.
TypeOK ==
  /\ ms.sub \in {"none", "PRERUN", "STARTING", "RUNNING", "MOM_WAIT", "EXITING", "PRECLEAN"}
  /\ ms.hosts \subseteq Sisters
  /\ ms.task \in {"none", "running"} /\ ms.kill \in {"unset", "waiting", "expired"}
  /\ \A s \in Sisters :
       /\ np[s].sister \in {"OKAY", "EOF", "KILLDONE", "error"}
       /\ sis[s].sub \in {"none", "PRERUN", "RUNNING", "MOM_WAIT", "EXITING"}
       /\ sis[s].task \in {"none", "running", "killed"}
       /\ sis[s].cookie \in 0 .. MaxRuns /\ sis[s].ms \in {"OKAY", "EOF"}
       /\ orphans[s] \subseteq 1 .. MaxRuns
  /\ IsABag(net) /\ IsABag(queue)
  /\ \A r \in BagToSet(queue) : r.left \in 1 .. ResendAttempts
  /\ svr.state \in {"queued", "running", "done"}
  /\ faults \in 0 .. MaxFaults

\* A run is launched on MS (handle_im_join_job_response, exec_job_on_ms) at most
\* once, however joins and answers are repeated, and if the job still waits for
\* its joins only when each of its sisters has really joined this run
\* (im_join_job_as_sister): no stale, repeated or failed answer counts for a
\* missing one.
LaunchNeedsEveryJoin ==
  [][hist'.launches > hist.launches =>
       /\ hist.launches = 0
       /\ ms.sub = "PRERUN" => ms.hosts \subseteq hist'.joined]_vars

\* While the time for the sisters' answers has not run out, MS runs the epilogue
\* (mother_superior_cleanup) only when no process of this run is left on a
\* sister: an answer to KILL_JOB is given by a sister that has reaped its tasks
\* (exit_mom_job).  A process that a sister has forgotten is left only where MS
\* had told it to abort (exec_bail): im_abort_job signals nothing.  Excepted are
\* runs in which a message failed, a join was repeated, or a late answer launched
\* a job that was already given up.
EpilogueWaits ==
  [][~ ms.epilogue /\ ms'.epilogue /\ ms'.kill = "waiting"
       /\ faults' = 0 /\ ~ ms.resent /\ ~ hist.late =>
       \A s \in ms.hosts :
         /\ sis[s].cookie = ms.run => sis[s].task = "none"
         /\ ms.run \in orphans[s] => \E e \in np[s].events : e.com = "ABORT"]_vars

\* mom_req_signal_job says of a signal other than suspend and resume that it is
\* for the tasks and does not change the job's state: while the master task runs,
\* no such signal but SIGKILL gets a sister's task of this run killed.
TaskOutlivesSignal ==
  \A s \in Sisters : sis[s].task = "killed" /\ sis[s].cookie = ms.run => ms.task = "none"

\* MS gets rid of every run, with whatever sisters that do not answer, messages
\* that are lost and messages of an earlier run: the waits for joins
\* (evaluate_job_in_prerun) and for kills (check_job_in_mom_wait) end.
RunEnds == ms.sub # "none" ~> ms.sub = "none"

\* A copy on a sister that is not, or no longer, a host of the job does not stay,
\* although no MOM may know of it any more: sync_node_jobs of the server finds it.
StrayCopiesGo ==
  \A s \in Sisters : (sis[s].sub # "none" /\ s \notin exec_host) ~>
                       (sis[s].sub = "none" \/ s \in exec_host)
=============================================================================
