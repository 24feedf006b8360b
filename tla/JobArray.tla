------------------------------ MODULE JobArray ------------------------------
(***************************************************************************)
(* A job array in pbs_server: its members are cloned from the template in  *)
(* batches of idle_slot_limit (job_func.c), counted by the array struct    *)
(* (job_array.cpp), started within the slot limit (req_runjob.c), ended by *)
(* an obituary or a rerun (req_jobobit.c), deleted one by one, as an array *)
(* or with all jobs (req_delete.c, array_func.c), and purged; the last     *)
(* purge removes the array.                                                *)
(*                                                                         *)
(* One step is one hold of the array's mutex (ai_mutex), or of a member's  *)
(* mutex where the array is not involved.  create_job_if_needed gives the  *)
(* array back when it returns, so what is left of update_array_values      *)
(* after it runs without the lock: the step "tail", whose increment of     *)
(* jobs_done is a read and a write.                                        *)
(*                                                                         *)
(* What a busy site seldom does (deleting, requeueing, a start that fails) *)
(* is counted against Budget and remembered in asked.                      *)
(***************************************************************************)
EXTENDS Integers, FiniteSets, FiniteSetsExt

CONSTANTS NumJobs,         \* ai_qs.num_jobs: the request is 0-(NumJobs - 1)
          SlotLimit,       \* ai_qs.slot_limit, -1 for none
          IdleSlotLimit,   \* ai_qs.idle_slot_limit
          MoabCompatible,  \* the server attribute moab_array_compatible
          KeepCompleted,   \* a complete job is kept for longer than a clone takes
          Threads,         \* threads serving requests and work tasks
          Cloner,          \* the thread that runs job_clone_wt
          None,            \* no member
          Budget           \* bound on the exceptional requests

ASSUME JobArrayAssumption ==
  /\ {NumJobs, IdleSlotLimit} \subseteq Nat \ {0}
  /\ SlotLimit \in Nat \cup {-1}
  /\ {MoabCompatible, KeepCompleted} \subseteq BOOLEAN
  /\ Cloner \notin Threads
  /\ Budget \in Nat

Ids == 0 .. NumJobs - 1

ASSUME NoneAssumption == None \notin Ids

VARIABLES arr,    \* the job_array
          here,   \* the array is in allarrays and its template in the server
          st,     \* the members
          exec,   \* the members whose processes run on a MOM
          hold,   \* HOLD_a and HOLD_l of each member
          due,    \* members with an on_job_exit task on the timer
          dep,    \* the afteranyarray dependency on all members is satisfied
          thr,    \* what each thread is doing
          asked   \* the exceptional requests made so far

vars == <<arr, here, st, exec, hold, due, dep, thr, asked>>

-----------------------------------------------------------------------------
(* A member is not yet cloned (NONE), cloned but in no list (NEW), in        *)
(* alljobs in one of its states (RERUN is RUNNING with substate RERUN),      *)
(* purged (GONE), or freed with its job file left on disk (LOST).            *)
IdleStates == {"QUEUED", "HELD"}
Listed == IdleStates \cup {"RUNNING", "RERUN", "EXITING", "COMPLETE"}
MemberStates == Listed \cup {"NONE", "NEW", "GONE", "LOST"}

InList(i) == st[i] \in Listed
HasFile(i) == st[i] \notin {"NONE", "GONE"}

(* Exceptional requests, and "overlap": a call was made for a member that    *)
(* another call was still dealing with.                                      *)
Kinds == {"qdel", "qdel -p", "qdel array", "qdel all", "rerun", "start fails", "qrun held"}

Overlap(i) == IF \E t \in Threads : thr[t].i = i THEN {"overlap"} ELSE {}

Ask(k, also) == /\ k \notin asked /\ Cardinality(asked \cap Kinds) < Budget
                /\ asked' = asked \cup {k} \cup also

NoCall == [op |-> "none", pc |-> "idle", i |-> None, old |-> "NONE", new |-> None,
           prev |-> None, seen |-> 0, deleted |-> 0, found |-> FALSE, last |-> FALSE]

CallOf(op, pc, i) == [NoCall EXCEPT !.op = op, !.pc = pc, !.i = i]

At(t, pc) == thr[t].pc = pc
Begin(t, op, pc, i) == At(t, "idle") /\ thr' = [thr EXCEPT ![t] = CallOf(op, pc, i)]
Go(t, pc) == thr' = [thr EXCEPT ![t] = [thr[t] EXCEPT !.pc = pc, !.new = None, !.prev = None,
                                                      !.seen = 0]]
Return(t) == thr' = [thr EXCEPT ![t] = NoCall]

(* ai_mutex is free: of the steps below only those of delete_whole_array     *)
(* keep it from one to the next.                                             *)
ArrayFree(t) == \A u \in Threads \ {t} : ~ At(u, "next")

SmallestOf(S) == IF S = {} THEN None ELSE Min(S)

-----------------------------------------------------------------------------
(* struct job_array and its member functions.                                *)
InitArr == [jobs_running |-> 0, jobs_done |-> 0, num_cloned |-> 0, num_idle |-> 0,
            num_purged |-> 0, highest |-> None, uncreated |-> Ids, ids |-> {},
            being_deleted |-> FALSE]

Running(s) == s \in {"RUNNING", "RERUN"}

\* Mutant: takes one off whatever the count is.
LessRunningUnchecked(a) == [a EXCEPT !.jobs_running = @ - 1]

LessRunning(a) == [a EXCEPT !.jobs_running = IF @ > 0 THEN @ - 1 ELSE 0]

\* Mutant: a requeued member is not counted as idle again.
CountedNoRequeue(a, event, old) ==
  CASE event = "aeRun" /\ ~ Running(old) ->
         [a EXCEPT !.jobs_running = @ + 1, !.num_idle = IF old \in IdleStates THEN @ - 1 ELSE @]
    [] event = "aeTerminate" /\ old \in IdleStates -> [a EXCEPT !.num_idle = @ - 1]
    [] event \in {"aeTerminate", "aeRerun"} /\ Running(old) -> LessRunning(a)
    [] OTHER -> a

Counted(a, event, old) ==
  CASE event = "aeRun" /\ ~ Running(old) ->
         [a EXCEPT !.jobs_running = IF @ < NumJobs THEN @ + 1 ELSE @,
                   !.num_idle = IF old \in IdleStates THEN @ - 1 ELSE @]
    [] event = "aeTerminate" /\ old \in IdleStates -> [a EXCEPT !.num_idle = @ - 1]
    [] event = "aeTerminate" /\ Running(old) -> LessRunning(a)
    [] event = "aeRerun" -> [LessRunning(a) EXCEPT !.num_idle = a.num_idle + 1]
    [] OTHER -> a

get_next_index_to_create(a) ==
  IF ~ a.being_deleted /\ a.num_idle < IdleSlotLimit THEN SmallestOf(a.uncreated) ELSE None

Created(a, k) == [a EXCEPT !.uncreated = a.uncreated \ {k}, !.highest = k]

\* Mutant: off by one.
SlotsToSpare(a) == SlotLimit > a.jobs_running + 1

need_to_update_slot_limits(a) == SlotLimit > a.jobs_running

mark_end_of_subjob(a, i) == [a EXCEPT !.ids = @ \ {i}, !.num_purged = @ + 1]

\* Mutant: off by one.
OneSubjobLeft(a) == a.num_purged >= NumJobs - 1 \/ (a.being_deleted /\ a.num_idle = 0)

NoMoreSubjobs(a) == a.num_purged = NumJobs \/ (a.being_deleted /\ a.num_idle = 0)

(* set_array_depend_holds for a job that runs after any end of all members.  *)
\* Mutant: off by one.
DependencyMetEarly(a) == a.jobs_done >= NumJobs - 1

DependencyMet(a) == a.jobs_done >= NumJobs

(* svr_evaljobstate with forceeval set: a running job becomes QUEUED or HELD *)
(* like any other; one that is exiting or complete stays what it is.         *)
EvalState(s, h) ==
  IF s \in {"EXITING", "COMPLETE"} THEN s ELSE IF h = {} THEN "QUEUED" ELSE "HELD"

EventOf(op) == CASE op = "run" -> "aeRun" [] op = "rerun" -> "aeRerun" [] OTHER -> "aeTerminate"

Finish(t) == IF thr[t].op = "qdel all" THEN Go(t, "walk") ELSE Return(t)

(* svr_startjob.  A start that fails leaves the job as it was, and the array *)
(* as well.                                                                  *)
svr_startjob(i, s) ==
  /\ UNCHANGED due
  /\ \/ /\ st' = [s EXCEPT ![i] = "RUNNING"]
        /\ exec' = exec \cup {i}
        /\ UNCHANGED asked
     \/ Ask("start fails", {}) /\ st' = s /\ UNCHANGED exec

(* delete_inactive_job: the job is complete, to be purged by a timed task.   *)
delete_inactive_job(i, s) ==
  /\ st' = [s EXCEPT ![i] = "COMPLETE"]
  /\ due' = due \cup {i}
  /\ UNCHANGED <<exec, asked>>

(* What the caller of update_array_values does next: it looks its member up  *)
(* again, which locks it, and goes on.                                       *)
Resume(t, s) ==
  LET i == thr[t].i
      op == thr[t].op
      as_is == st' = s /\ UNCHANGED <<exec, due, asked>>
  IN  CASE op \in {"run", "qdel", "qdel all", "purge"} /\ s[i] \notin Listed -> Finish(t) /\ as_is
        [] op = "run" /\ s[i] \in Listed -> Return(t) /\ svr_startjob(i, s)
        [] op \in {"qdel", "qdel all"} /\ s[i] \in Listed -> Finish(t) /\ delete_inactive_job(i, s)
        [] op = "purge" /\ s[i] \in Listed ->
             /\ Go(t, "mark")
             /\ st' = [s EXCEPT ![i] = "COMPLETE"]
             /\ UNCHANGED <<exec, due, asked>>
        [] op = "qdel array" -> Go(t, "next") /\ as_is
        [] op = "rerun" -> Go(t, "requeue") /\ as_is
        [] op = "obit" -> Return(t) /\ as_is

(* The end of update_array_values: the count of finished members, the first  *)
(* other member held for a slot released (a walk that also forgets the       *)
(* members it cannot find in alljobs), and the dependencies on the array.    *)
Settle(t, a, done) ==
  LET ended == EventOf(thr[t].op) = "aeTerminate"
      b == IF ended THEN [a EXCEPT !.jobs_done = done + 1] ELSE a
      walks == ended /\ MoabCompatible /\ need_to_update_slot_limits(b)
      others == b.ids \ {thr[t].i}
      first == SmallestOf({j \in others : InList(j) /\ "l" \in hold[j]})
      passed == {j \in others : first = None \/ j < first}
  IN  /\ arr' = IF walks THEN [b EXCEPT !.ids = b.ids \ {j \in passed : ~ InList(j)}] ELSE b
      /\ dep' = (dep \/ DependencyMet(b))
      /\ IF walks /\ first # None
         THEN /\ hold' = [hold EXCEPT ![first] = @ \ {"l"}]
              /\ Resume(t, [st EXCEPT ![first] = EvalState(st[first], hold[first] \ {"l"})])
         ELSE UNCHANGED hold /\ Resume(t, st)

NothingElse == UNCHANGED <<st, exec, hold, due, dep, asked>>

(* job_clone: the member's file, its place in job_ids and its creation hold. *)
job_clone(t, a, k, prev, holds) ==
  /\ arr' = [a EXCEPT !.ids = a.ids \cup {k}]
  /\ st' = [st EXCEPT ![k] = "NEW"]
  /\ hold' = [hold EXCEPT ![k] = holds]
  /\ thr' = [thr EXCEPT ![t] = [thr[t] EXCEPT !.pc = "enqueue", !.new = k, !.prev = prev]]
  /\ UNCHANGED <<exec, due, dep, asked>>

(* update_array_values with create_job_if_needed.  A clone whose file exists *)
(* counts as created.                                                        *)
update_array_values(t, old) ==
  LET event == EventOf(thr[t].op)
      a == Counted(arr, event, old)
      k == IF event # "aeRerun" /\ old \in IdleStates THEN get_next_index_to_create(a) ELSE None
  IN  IF k = None THEN Settle(t, a, a.jobs_done)
      ELSE IF HasFile(k) THEN /\ arr' = Created(a, k)
                              /\ Go(t, "tail")
                              /\ NothingElse
      ELSE job_clone(t, a, k, a.highest, {})

(* The caller's array section: get_jobs_array finds the array or not.        *)
InArray(t, old) ==
  IF here THEN update_array_values(t, old) ELSE Resume(t, st) /\ UNCHANGED <<arr, hold, dep>>

-----------------------------------------------------------------------------
(* Creating a member.                                                        *)

(* The hold job_clone places for job_clone_wt.                               *)
\* Mutant: no hold is placed.
NoHold == {}

CreationHold == {"a"}

(* The creation holds are taken off; with moab_array_compatible the members  *)
(* above the slot limit are held instead.                                    *)
perform_array_postprocessing(t, a) ==
  LET found == {j \in a.ids : InList(j)}
      Above(j) == /\ MoabCompatible /\ SlotLimit # -1
                  /\ Cardinality({m \in found : m <= j}) > SlotLimit
      h == [j \in Ids |-> IF j \notin found THEN hold[j]
                          ELSE (hold[j] \ {"a"}) \cup (IF Above(j) THEN {"l"} ELSE {})]
  IN  /\ arr' = [a EXCEPT !.ids = found]
      /\ hold' = h
      /\ st' = [j \in Ids |-> IF j \in found THEN EvalState(st[j], h[j]) ELSE st[j]]
      /\ Return(t)
      /\ UNCHANGED <<exec, due, dep, asked>>

(* The loop of job_clone_wt, up to the next clone or past its end.  Members  *)
(* that exist already are only marked as created.                            *)
CloneNext(t, a, prev) ==
  LET fresh == {k \in a.uncreated \ a.ids : ~ HasFile(k)}
      k == Min(fresh)
  IN  IF a.num_idle >= IdleSlotLimit THEN perform_array_postprocessing(t, a)
      ELSE IF fresh = {}
      THEN perform_array_postprocessing(t,
             [a EXCEPT !.highest = IF a.uncreated = {} THEN a.highest ELSE Max(a.uncreated),
                       !.uncreated = {}])
      ELSE job_clone(t, [a EXCEPT !.uncreated = {j \in a.uncreated : j > k}, !.highest = k],
                     k, prev, CreationHold)

job_clone_wt(t) ==
  /\ At(t, "clone") /\ ArrayFree(t)
  /\ IF here THEN CloneNext(t, arr, thr[t].prev)
     ELSE Return(t) /\ UNCHANGED arr /\ NothingElse
  /\ UNCHANGED here

(* svr_enquejob of the clone, with the array unlocked.  alljobs.insert_after *)
(* does nothing if the previous member is no longer in the list; the clone   *)
(* is then not found, given up and its file stays.                           *)
EnqueueClone(t) ==
  LET c == thr[t]
  IN  /\ At(t, "enqueue")
      /\ IF c.prev # None /\ ~ InList(c.prev)
         THEN /\ st' = [st EXCEPT ![c.new] = "LOST"]
              /\ thr' = [thr EXCEPT ![t] = [c EXCEPT !.new = None,
                             !.pc = IF c.op = "clone" THEN "clone" ELSE "tail"]]
         ELSE /\ st' = [st EXCEPT ![c.new] = EvalState("NEW", hold[c.new])]
              /\ thr' = [thr EXCEPT ![t] = [c EXCEPT !.pc = "relock"]]
      /\ UNCHANGED <<arr, here, hold, due, dep, asked, exec>>

(* The array is locked again.  If it is gone, or the new member is, the      *)
(* creation is given up: job_clone_wt ends, create_job_if_needed returns.    *)
RelockArray(t) ==
  LET c == thr[t]
      a == [arr EXCEPT !.num_idle = @ + 1, !.num_cloned = @ + 1]
      lost == ~ here \/ ~ InList(c.new)
  IN  /\ At(t, "relock") /\ ArrayFree(t)
      /\ CASE lost /\ c.op = "clone" -> Return(t) /\ UNCHANGED arr /\ NothingElse
           [] lost /\ c.op # "clone" -> Go(t, "tail") /\ UNCHANGED arr /\ NothingElse
           [] ~ lost /\ c.op = "clone" -> CloneNext(t, a, c.new)
           [] ~ lost /\ c.op # "clone" -> /\ arr' = Created(a, c.new)
                                          /\ Go(t, "tail")
                                          /\ NothingElse
      /\ UNCHANGED here

(* What update_array_values does after create_job_if_needed, unlocked.       *)
TailRead(t) ==
  /\ At(t, "tail")
  /\ thr' = [thr EXCEPT ![t] = [thr[t] EXCEPT !.pc = "tail2", !.seen = arr.jobs_done]]
  /\ UNCHANGED <<arr, here, st, hold, due, dep, asked, exec>>

TailWrite(t) ==
  /\ At(t, "tail2")
  /\ Settle(t, arr, thr[t].seen)
  /\ UNCHANGED here

-----------------------------------------------------------------------------
(* Starting a member.                                                        *)

(* chk_job_torun lets a queued job start, and a held one if it is told to.   *)
req_runjob(t, i) ==
  /\ st[i] \in IdleStates
  /\ Begin(t, "run", "slot", i)
  /\ IF st[i] = "HELD" THEN Ask("qrun held", Overlap(i)) ELSE asked' = asked \cup Overlap(i)
  /\ UNCHANGED <<arr, here, st, hold, due, dep, exec>>

\* Mutant: >= for >.
SlotFreeOrFull == SlotLimit < 0 \/ SlotLimit >= arr.jobs_running

SlotFree == SlotLimit < 0 \/ SlotLimit > arr.jobs_running

check_and_run_job_work(t) ==
  LET i == thr[t].i
  IN  /\ At(t, "slot") /\ ArrayFree(t)
      /\ IF InList(i) /\ (~ here \/ SlotFree) THEN InArray(t, st[i])
         ELSE Return(t) /\ UNCHANGED arr /\ NothingElse
      /\ UNCHANGED here

-----------------------------------------------------------------------------
(* A member ends, or is requeued.                                            *)
handle_terminating_job(t, i) ==
  /\ i \in exec /\ exec' = exec \ {i}
  /\ st[i] = "RUNNING"
  /\ Begin(t, "obit", "obituary", i)
  /\ st' = [st EXCEPT ![i] = "EXITING"]
  /\ asked' = asked \cup Overlap(i)
  /\ UNCHANGED <<arr, here, hold, due, dep>>

rerun_obit(t, i) ==
  /\ i \in exec /\ exec' = exec \ {i}
  /\ st[i] = "RUNNING"
  /\ Ask("rerun", Overlap(i))
  /\ Begin(t, "rerun", "obituary", i)
  /\ st' = [st EXCEPT ![i] = "RERUN"]
  /\ UNCHANGED <<arr, here, hold, due, dep>>

(* An obituary for a member that is not RUNNING is answered with an error,   *)
(* and the MOM drops the job.                                                *)
obit_refused(i) ==
  /\ i \in exec /\ exec' = exec \ {i}
  /\ st[i] # "RUNNING"
  /\ UNCHANGED <<arr, here, st, hold, due, dep, thr, asked>>

(* handle_terminating_array_subjob and handle_rerunning_array_subjob.        *)
ArraySubjobEnds(t) ==
  /\ At(t, "obituary") /\ ArrayFree(t)
  /\ IF InList(thr[t].i) THEN InArray(t, "RUNNING")
     ELSE Return(t) /\ UNCHANGED arr /\ NothingElse
  /\ UNCHANGED here

rerun_job(t) ==
  LET i == thr[t].i
  IN  /\ At(t, "requeue")
      /\ st' = IF InList(i) THEN [st EXCEPT ![i] = EvalState("RERUN", hold[i])] ELSE st
      /\ Return(t)
      /\ UNCHANGED <<arr, here, hold, due, dep, asked, exec>>

(* Exit processing reaches COMPLETE and sets the task that purges the job.   *)
on_job_exit(i) ==
  /\ st[i] = "EXITING"
  /\ \A t \in Threads : ~ (At(t, "obituary") /\ thr[t].i = i)
  /\ st' = [st EXCEPT ![i] = "COMPLETE"]
  /\ due' = due \cup {i}
  /\ UNCHANGED <<arr, here, hold, dep, thr, asked, exec>>

-----------------------------------------------------------------------------
(* Purging a member.  The timed task comes keep_completed seconds after the  *)
(* end of the job (300 by default): with KeepCompleted, after the creations  *)
(* that were under way.                                                      *)
on_job_exit_task(t, i) ==
  /\ i \in due
  /\ KeepCompleted => \A u \in Threads \cup {Cloner} : ~ At(u, "enqueue") /\ ~ At(u, "relock")
  /\ due' = due \ {i}
  /\ IF st[i] = "COMPLETE" THEN Begin(t, "exit", "mark", i) ELSE At(t, "idle") /\ UNCHANGED thr
  /\ asked' = asked \cup Overlap(i)
  /\ UNCHANGED <<arr, here, st, hold, dep, exec>>

svr_job_purge(t) ==
  LET i == thr[t].i
      a == mark_end_of_subjob(arr, i)
  IN  /\ At(t, "mark") /\ ArrayFree(t)
      /\ CASE ~ InList(i) -> Return(t) /\ UNCHANGED arr
           [] InList(i) /\ ~ here -> Go(t, "free") /\ UNCHANGED arr
           [] InList(i) /\ here ->
                /\ arr' = a
                /\ thr' = [thr EXCEPT ![t] = [thr[t] EXCEPT !.pc = "free", !.last = NoMoreSubjobs(a)]]
      /\ UNCHANGED <<here, st, hold, due, dep, asked, exec>>

job_free(t) ==
  LET i == thr[t].i
  IN  /\ At(t, "free")
      /\ st' = IF InList(i) THEN [st EXCEPT ![i] = "GONE"] ELSE st
      /\ IF thr[t].last THEN Go(t, "reap") ELSE Return(t)
      /\ UNCHANGED <<arr, here, hold, due, dep, asked, exec>>

array_delete(t) ==
  /\ At(t, "reap") /\ ArrayFree(t)
  /\ here' = FALSE
  /\ Return(t)
  /\ UNCHANGED <<arr, st, hold, due, dep, asked, exec>>

-----------------------------------------------------------------------------
(* Deleting: qdel of an idle member, qdel -p of any, qdel all, qdel of the   *)
(* array.  A running member is only signalled, and its obituary follows.     *)
execute_job_delete(t, i) ==
  /\ st[i] \in IdleStates
  /\ Ask("qdel", Overlap(i))
  /\ Begin(t, "qdel", "count", i)
  /\ UNCHANGED <<arr, here, st, hold, due, dep, exec>>

force_purge_work(t, i) ==
  /\ InList(i)
  /\ Ask("qdel -p", Overlap(i))
  /\ Begin(t, "purge", "count", i)
  /\ UNCHANGED <<arr, here, st, hold, due, dep, exec>>

delete_all(t) ==
  /\ here
  /\ Ask("qdel all", {})
  /\ Begin(t, "qdel all", "walk", None)
  /\ UNCHANGED <<arr, here, st, hold, due, dep, exec>>

(* One member of delete_all_work's walk over alljobs.                        *)
delete_all_work(t) ==
  LET j == SmallestOf({k \in Ids : InList(k) /\ (thr[t].i = None \/ k > thr[t].i)})
  IN  /\ At(t, "walk") /\ ArrayFree(t)
      /\ IF j = None THEN Return(t) /\ UNCHANGED arr
         ELSE /\ arr' = IF here THEN [arr EXCEPT !.being_deleted = TRUE] ELSE arr
              /\ thr' = [thr EXCEPT ![t] = [thr[t] EXCEPT !.i = j,
                             !.pc = IF st[j] \in IdleStates THEN "count" ELSE "walk"]]
      /\ asked' = asked \cup (IF j = None THEN {} ELSE Overlap(j))
      /\ UNCHANGED <<here, st, hold, due, dep, exec>>

perform_job_delete_array_bookkeeping(t) ==
  /\ At(t, "count") /\ thr[t].op # "qdel array" /\ ArrayFree(t)
  /\ IF InList(thr[t].i) THEN InArray(t, st[thr[t].i])
     ELSE Finish(t) /\ UNCHANGED arr /\ NothingElse
  /\ UNCHANGED here

(* qdel of the array waits until the first batch is cloned.                  *)
req_deletearray(t) ==
  /\ here /\ ArrayFree(t)
  /\ arr.num_cloned >= IdleSlotLimit \/ arr.num_cloned = NumJobs
  /\ Ask("qdel array", {})
  /\ Begin(t, "qdel array", "next", None)
  /\ UNCHANGED <<arr, here, st, hold, due, dep, exec>>

(* delete_whole_array: the next member that is not exiting or complete; an   *)
(* idle one is completed here, a running one is signalled.                   *)
delete_whole_array(t) ==
  LET c == thr[t]
      left == {k \in arr.ids : c.i = None \/ k > c.i}
      j == SmallestOf({k \in left : InList(k) /\ st[k] \notin {"EXITING", "COMPLETE"}})
      passed == {k \in left : j = None \/ k < j}
      a == [arr EXCEPT !.ids = @ \ {k \in passed : ~ InList(k)}]
      found == c.found \/ j # None \/ \E k \in passed : InList(k)
  IN  /\ At(t, "next")
      /\ CASE ~ here -> Return(t) /\ UNCHANGED <<arr, st, due>>
           [] here /\ j = None ->
                /\ arr' = [a EXCEPT !.jobs_done = a.jobs_done + c.deleted]
                /\ IF found THEN Return(t) ELSE Go(t, "reap")
                /\ UNCHANGED <<st, due>>
           [] here /\ j # None ->
                /\ arr' = a
                /\ thr' = [thr EXCEPT ![t] = [c EXCEPT !.i = j, !.old = st[j], !.pc = "count",
                             !.found = TRUE,
                             !.deleted = IF Running(st[j]) THEN c.deleted ELSE c.deleted + 1]]
                /\ IF Running(st[j]) THEN UNCHANGED <<st, due>>
                   ELSE st' = [st EXCEPT ![j] = "COMPLETE"] /\ due' = due \cup {j}
      /\ asked' = asked \cup (IF j = None THEN {} ELSE Overlap(j))
      /\ UNCHANGED <<here, hold, dep, exec>>

CountDeleted(t) ==
  /\ At(t, "count") /\ thr[t].op = "qdel array" /\ ArrayFree(t)
  /\ IF here THEN update_array_values(t, thr[t].old)
     ELSE Return(t) /\ UNCHANGED arr /\ NothingElse
  /\ UNCHANGED here

-----------------------------------------------------------------------------
Init ==
  /\ arr = InitArr /\ here = TRUE /\ dep = FALSE /\ due = {} /\ exec = {} /\ asked = {}
  /\ st = [i \in Ids |-> "NONE"] /\ hold = [i \in Ids |-> {}]
  /\ thr = [t \in Threads \cup {Cloner} |->
              IF t = Cloner THEN CallOf("clone", "clone", None) ELSE NoCall]

(* What a thread does with the call it has begun.                            *)
Continue(t) ==
  \/ job_clone_wt(t) \/ EnqueueClone(t) \/ RelockArray(t) \/ TailRead(t) \/ TailWrite(t)
  \/ check_and_run_job_work(t) \/ ArraySubjobEnds(t) \/ rerun_job(t)
  \/ svr_job_purge(t) \/ job_free(t) \/ array_delete(t)
  \/ delete_all_work(t) \/ perform_job_delete_array_bookkeeping(t)
  \/ delete_whole_array(t) \/ CountDeleted(t)

Request(t) ==
  \/ \E i \in Ids : \/ req_runjob(t, i) \/ handle_terminating_job(t, i) \/ rerun_obit(t, i)
                    \/ on_job_exit_task(t, i) \/ execute_job_delete(t, i)
                    \/ force_purge_work(t, i)
  \/ delete_all(t) \/ req_deletearray(t)

Next ==
  \/ \E t \in Threads \cup {Cloner} : Continue(t)
  \/ \E t \in Threads : Request(t)
  \/ \E i \in Ids : on_job_exit(i) \/ obit_refused(i)

Spec == Init /\ [][Next]_vars

-----------------------------------------------------------------------------
CallType ==
  [op : {"none", "clone", "run", "obit", "rerun", "exit", "qdel", "purge", "qdel all",
         "qdel array"},
   pc : {"idle", "clone", "enqueue", "relock", "tail", "tail2", "slot", "obituary",
         "requeue", "mark", "free", "reap", "walk", "count", "next"},
   i : Ids \cup {None}, old : MemberStates, new : Ids \cup {None}, prev : Ids \cup {None},
   seen : Nat, deleted : 0 .. NumJobs, found : BOOLEAN, last : BOOLEAN]

(* The fields of the array struct and of the members keep their types;        *)
(* jobs_running, which the slot limit is compared with, never leaves          *)
(* 0 .. num_jobs.                                                            *)
TypeOK ==
  /\ arr \in [jobs_running : 0 .. NumJobs, jobs_done : Nat, num_cloned : Nat, num_idle : Int,
              num_purged : Nat, highest : Ids \cup {None}, uncreated : SUBSET Ids,
              ids : SUBSET Ids, being_deleted : BOOLEAN]
  /\ {here, dep} \subseteq BOOLEAN
  /\ st \in [Ids -> MemberStates]
  /\ hold \in [Ids -> SUBSET {"a", "l"}]
  /\ due \subseteq Ids /\ exec \subseteq Ids
  /\ thr \in [Threads \cup {Cloner} -> CallType]
  /\ asked \subseteq Kinds \cup {"overlap"}

(* What holds only of a site that does not ask for certain things: the       *)
(* exceptional requests made so far are among K.                             *)
Only(K) == asked \subseteq K

(* A call of some thread is about member i.                                  *)
Busy(i) == \E t \in Threads : thr[t].i = i

(* No thread is in the middle of a call.                                     *)
Quiet == \A t \in Threads \cup {Cloner} : At(t, "idle")

Finished == {"EXITING", "COMPLETE", "GONE"}

(* No more members execute at once than the slot limit allows, whatever the  *)
(* interleaving of starts, obituaries, deletions of single members, requeues *)
(* and failed starts: check_and_run_job_work tests the limit and counts the  *)
(* start under one hold of the array.  (A qdel -p gives the slot back while  *)
(* the member still runs, a qdel of the array gives it back twice.)          *)
SlotLimitHolds ==
  SlotLimit >= 0 /\ Only({"qdel", "qdel all", "rerun", "start fails", "qrun held"})
  => Cardinality(exec) <= SlotLimit

(* The array struct and its template are removed only after the last member: *)
(* each has been purged, or its purge is at its last step.  mark_end_of_     *)
(* subjob counts the purges, and a member is counted once.  (qdel all marks  *)
(* the array deleted and then stops waiting for its running members; qdel of *)
(* the array removes it when job_ids has forgotten a member.)                *)
ArrayOutlivesMembers ==
  ~ here /\ Only({"qdel", "qdel -p", "rerun", "start fails", "qrun held"})
  => \A i \in Ids : st[i] = "GONE" \/ \E t \in Threads : At(t, "free") /\ thr[t].i = i

(* A job that waits for the whole array (afteranyarray) is released only     *)
(* when every member has ended or the call that ends it is under way,        *)
(* although jobs_done is also incremented without the lock.                  *)
DependencyHonest ==
  dep /\ Only({"qdel", "qdel all", "rerun", "start fails", "qrun held"})
  => \A i \in Ids : st[i] \in Finished \/ Busy(i)

(* Between calls the array's counters say what its members do: the idle ones *)
(* and the running ones are counted exactly, and none is counted as done     *)
(* that is not, so that neither the slot limit nor the creation of members   *)
(* drifts in a long life of runs and requeues.                               *)
CountersSettle ==
  Quiet /\ here /\ Only({"rerun"})
  => /\ arr.num_idle = Cardinality({i \in Ids : st[i] \in IdleStates})
     /\ arr.jobs_running = Cardinality(exec)
     /\ arr.jobs_done <= Cardinality({i \in Ids : st[i] \in Finished})

(* No member executes before job_clone_wt has cloned its batch, and none     *)
(* that executes is taken for a queued or held one: the creation hold keeps  *)
(* the scheduler away, and perform_array_postprocessing evaluates states of  *)
(* members that have not run.                                                *)
CreationHoldHolds ==
  Only({"qdel array", "qdel all", "rerun", "start fails"})
  => /\ At(Cloner, "idle") \/ exec = {}
     /\ \A i \in exec : st[i] = "RUNNING"

(* An array whose members run one at a time does not come to a halt half     *)
(* way: when no thread is in a call, nothing runs, exits or waits for its    *)
(* purge and the scheduler has nothing to start, the array is gone.  Every   *)
(* held member is released by the end of another one, every index is created *)
(* by a start or an end, and the last purge removes the array.               *)
NeverStuck ==
  /\ Quiet /\ exec = {} /\ due = {} /\ \A i \in Ids : st[i] \notin {"QUEUED", "EXITING"}
  /\ SlotLimit = 1 /\ Only({})
  => ~ here

(* "Creates a new array subjob if the array's idle count is below the idle   *)
(* slot limit": between calls no index is left to create while fewer members *)
(* are idle than the limit.                                                  *)
IdleLimitFilled ==
  Quiet /\ here /\ Only({}) /\ arr.num_idle < IdleSlotLimit => arr.uncreated = {}
=============================================================================
