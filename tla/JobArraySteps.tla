--------------------------- MODULE JobArraySteps ----------------------------
(***************************************************************************)
(* The steps of JobArray keep ArrayInv.                                    *)
(*                                                                         *)
(* First the types, with an effect lemma per operation that says in plain  *)
(* terms what it does to the array, the members and its own call.  Then    *)
(* the invariant, a relation Step(t) that says what a step of thread t may *)
(* do to it, that such a step keeps the invariant, and that every action   *)
(* is such a step.  Extremes and Counting, two facts about finite sets     *)
(* of indices, are hypotheses here; JobArrayProofs proves them.            *)
(***************************************************************************)
EXTENDS JobArray, TLAPS

-----------------------------------------------------------------------------
(* What is used of numbers and finite sets *)

\* A nonempty set of natural numbers has a smallest element, a bounded one a largest.
Extremes ==
  \A S \in SUBSET Ids : S # {} => /\ \E x \in S : \A y \in S : x <= y
                                  /\ \E x \in S : \A y \in S : x >= y

\* Sets of members can be counted.
Counting ==
  /\ Cardinality({}) = 0
  /\ \A A \in SUBSET Ids : /\ Cardinality(A) \in Nat /\ Cardinality(A) <= NumJobs
                           /\ Cardinality(A) = NumJobs => A = Ids
  /\ \A A, B \in SUBSET Ids : A \subseteq B => Cardinality(A) <= Cardinality(B)
  /\ \A A \in SUBSET Ids : \A i \in Ids \ A : Cardinality(A \cup {i}) = Cardinality(A) + 1

\* The indices of the members are natural numbers below num_jobs.
LEMMA Numbers ==
  NumJobs \in Nat /\ Ids \subseteq Nat /\ (\A n \in Ids : n < NumJobs /\ 0 <= n + 1) /\ 0 <= 0
<1>1. NumJobs \in Nat
  BY JobArrayAssumption
<1> QED
  BY <1>1, SMT DEF Ids

\* SmallestOf, which stands for the first index a loop of the array code meets, is an
\* index of the set, or None exactly when the set is empty.
LEMMA Smallest ==
  ASSUME Extremes, NEW S \in SUBSET Ids
  PROVE  /\ SmallestOf(S) \in S \cup {None}
         /\ SmallestOf(S) = None <=> S = {}
         /\ S # {} => Min(S) \in S /\ Max(S) \in S
<1>1. CASE S = {}
  BY <1>1, Zenon DEF SmallestOf
<1>2. CASE S # {}
  <2>1. \E x \in S : \A y \in S : x <= y
    BY <1>2, Zenon DEF Extremes
  <2>2. \E x \in S : \A y \in S : x >= y
    BY <1>2, Zenon DEF Extremes
  <2>3. Min(S) \in S
    BY <2>1, Zenon DEF Min
  <2>4. Max(S) \in S
    BY <2>2, Zenon DEF Max
  <2>5. None \notin S
    BY NoneAssumption, Zenon
  <2> QED
    BY <1>2, <2>3, <2>4, <2>5, Zenon DEF SmallestOf
<1> QED
  BY <1>1, <1>2, Zenon

-----------------------------------------------------------------------------
(* Types *)

\* The threads that serve requests, and the one that clones.
Everyone == Threads \cup {Cloner}
\* create_job_if_needed and job_clone_wt with a member in the making, and all of what
\* update_array_values does unlocked.
Creating == {"enqueue", "relock"}
Tail == Creating \cup {"tail", "tail2"}

\* The values of the array struct.
ArrType == [jobs_running : 0 .. NumJobs, jobs_done : Nat, num_cloned : Nat, num_idle : Int,
            num_purged : Nat, highest : Ids \cup {None}, uncreated : SUBSET Ids,
            ids : SUBSET Ids, being_deleted : BOOLEAN]

\* Where a call can be, and that delete_whole_array counts a member once.
Hand(c) ==
  /\ c.pc = "idle" => c = NoCall
  /\ c.pc = "clone" => c.op = "clone"
  /\ c.pc = "slot" => c.op = "run"
  /\ c.pc = "count" => c.op \in {"qdel", "qdel all", "purge", "qdel array"}
  /\ c.pc \in Tail => c.op \in {"run", "qdel", "qdel all", "purge", "qdel array", "clone"}
  /\ c.pc \in {"tail", "tail2"} => c.op # "clone"
  /\ c.pc \in Creating => c.new \in Ids
  /\ c.pc = "obituary" => c.op \in {"obit", "rerun"}
  /\ c.pc = "requeue" => c.op = "rerun"
  /\ c.pc \in {"mark", "free"} => c.op \in {"exit", "purge"}
  /\ c.pc = "reap" => c.op \in {"exit", "purge", "qdel array"}
  /\ c.pc = "walk" => c.op = "qdel all"
  /\ c.pc = "next" => c.op = "qdel array"
  /\ c.op \notin {"none", "clone"} /\ c.pc \notin {"walk", "next", "reap"} => c.i \in Ids
  /\ c.deleted <= (IF c.i = None THEN 0 ELSE c.i + 1)

\* The type invariant, with what a thread in the middle of a call knows of it.
Typed == TypeOK /\ \A t \in Everyone : Hand(thr[t]) /\ (thr[t].op = "clone" => t = Cloner)

\* Thread t is somewhere else in its call, the others are where they were.
Turned(t) ==
  /\ thr'[t] \in CallType /\ Hand(thr'[t]) /\ (thr'[t].op = "clone" => t = Cloner)
  /\ DOMAIN thr' = Everyone /\ \A u \in Everyone \ {t} : thr'[u] = thr[u]
  /\ thr' \in [Everyone -> CallType]

\* Where a call may stand.
Places == {"idle", "clone", "enqueue", "relock", "tail", "tail2", "slot", "obituary",
           "requeue", "mark", "free", "reap", "walk", "count", "next"}

\* The fields of a call, each with its type.
LEMMA CallParts ==
  ASSUME NEW c \in CallType
  PROVE  /\ c.op \in {"none", "clone", "run", "obit", "rerun", "exit", "qdel", "purge", "qdel all",
                      "qdel array"}
         /\ c.pc \in Places /\ c.i \in Ids \cup {None} /\ c.new \in Ids \cup {None}
         /\ c.prev \in Ids \cup {None} /\ c.old \in MemberStates /\ c.seen \in Nat
         /\ c.deleted \in 0 .. NumJobs /\ c.deleted \in Nat /\ c.last \in BOOLEAN
<1>1. c.deleted \in 0 .. NumJobs
  BY Zenon DEF CallType
<1>2. c.deleted \in Nat
  BY <1>1, SMT
<1> QED
  BY <1>1, <1>2, Zenon DEF CallType, Places

\* Every thread has a call, NoCall when it serves none.
LEMMA ThreadOf ==
  ASSUME TypeOK, NEW t \in Everyone
  PROVE  thr[t] \in CallType /\ thr \in [Everyone -> CallType]
BY Zenon DEF TypeOK, Everyone

\* NoCall is the call of a thread that serves none.
LEMMA IdleHand == NoCall \in CallType /\ Hand(NoCall) /\ NoCall.op = "none" /\ NoCall.pc = "idle"
                  /\ NoCall.i = None /\ NoCall.last = FALSE
<1>1. NumJobs \in Nat
  BY JobArrayAssumption
<1>2. NoCall \in CallType
  BY <1>1, SMT DEF NoCall, CallType, MemberStates, Listed, IdleStates
<1>3. NoCall.op = "none" /\ NoCall.pc = "idle" /\ NoCall.i = None /\ NoCall.last = FALSE
      /\ NoCall.deleted = 0
  BY SMT DEF NoCall
<1>4. Hand(NoCall)
  BY <1>3, SMT DEF Hand, Tail, Creating
<1> QED
  BY <1>2, <1>3, <1>4

\* A call returns: only its own thread moves.
LEMMA Returned ==
  ASSUME Typed, NEW t \in Everyone, Return(t)
  PROVE  Turned(t) /\ thr'[t] = NoCall
<1>1. thr \in [Everyone -> CallType]
  BY ThreadOf, Zenon DEF Typed
<1>2. /\ thr'[t] = NoCall /\ DOMAIN thr' = Everyone /\ thr' \in [Everyone -> CallType]
      /\ \A u \in Everyone \ {t} : thr'[u] = thr[u]
  BY <1>1, IdleHand, Zenon DEF Return
<1> QED
  BY <1>2, IdleHand, Zenon DEF Turned

\* A call goes on to p: only the place, and what creating a member uses, change.
LEMMA Gone ==
  ASSUME Typed, NEW t \in Everyone, NEW p \in Places, Go(t, p)
  PROVE  /\ thr'[t].pc = p /\ thr'[t].op = thr[t].op /\ thr'[t].i = thr[t].i /\ thr'[t].new = None
         /\ thr'[t].seen = 0 /\ thr'[t].last = thr[t].last /\ thr'[t].deleted = thr[t].deleted
         /\ thr'[t] \in CallType /\ DOMAIN thr' = Everyone
         /\ \A u \in Everyone \ {t} : thr'[u] = thr[u]
         /\ thr' \in [Everyone -> CallType]
<1> DEFINE w == [thr[t] EXCEPT !.pc = p, !.new = None, !.prev = None, !.seen = 0]
<1>1. thr \in [Everyone -> CallType] /\ thr[t] \in CallType
  BY ThreadOf, Zenon DEF Typed
<1>2. /\ w.pc = p /\ w.op = thr[t].op /\ w.i = thr[t].i /\ w.new = None /\ w.seen = 0
      /\ w.last = thr[t].last /\ w.deleted = thr[t].deleted /\ w \in CallType
  BY <1>1, ZenonT(60) DEF CallType, Places
<1>3. thr' = [thr EXCEPT ![t] = w]
  BY Zenon DEF Go
<1> HIDE DEF w
<1>4. /\ thr'[t] = w /\ DOMAIN thr' = Everyone /\ thr' \in [Everyone -> CallType]
      /\ \A u \in Everyone \ {t} : thr'[u] = thr[u]
  BY <1>1, <1>2, <1>3, Zenon
<1> QED
  BY <1>2, <1>4, Zenon

\* Go, when the call may be there.
LEMMA GoneTo ==
  ASSUME Typed, NEW t \in Everyone, NEW p \in Places, Go(t, p),
         \/ p = "walk" /\ thr[t].op = "qdel all"
         \/ p = "tail" /\ thr[t].op \in {"run", "qdel", "qdel all", "purge", "qdel array"} /\ thr[t].i \in Ids
         \/ p = "mark" /\ thr[t].op = "purge" /\ thr[t].i \in Ids
         \/ p = "free" /\ thr[t].op \in {"exit", "purge"} /\ thr[t].i \in Ids
         \/ p = "reap" /\ thr[t].op \in {"exit", "purge", "qdel array"}
         \/ p = "next" /\ thr[t].op = "qdel array"
         \/ p = "requeue" /\ thr[t].op = "rerun" /\ thr[t].i \in Ids
  PROVE  Turned(t)
<1>1. Hand(thr[t]) /\ (thr[t].op = "clone" => t = Cloner)
  BY Zenon DEF Typed
<1>2. thr[t].deleted <= (IF thr[t].i = None THEN 0 ELSE thr[t].i + 1)
  BY <1>1, Zenon DEF Hand
<1>3. Hand(thr'[t])
  BY <1>2, Gone, Zenon DEF Hand, Tail, Creating
<1> QED
  BY <1>1, <1>3, Gone, Zenon DEF Turned

\* What asked remembers, and the calls that have the array counted.
Requests == Kinds \cup {"overlap"}

Ops == {"run", "qdel", "qdel all", "purge", "qdel array", "rerun", "obit"}

\* The members, the timers and the requests keep their types.
MembersTyped ==
  /\ st' \in [Ids -> MemberStates] /\ exec' \subseteq Ids /\ due' \subseteq Ids
  /\ asked' \subseteq Requests /\ asked \subseteq asked'

\* The variables, each with its type.
LEMMA TypeParts ==
  ASSUME TypeOK
  PROVE  /\ arr \in ArrType /\ here \in BOOLEAN /\ dep \in BOOLEAN
         /\ st \in [Ids -> MemberStates] /\ hold \in [Ids -> SUBSET {"a", "l"}]
         /\ due \subseteq Ids /\ exec \subseteq Ids /\ asked \subseteq Requests
BY Zenon DEF TypeOK, ArrType, Requests

\* What the caller of update_array_values does once its member is locked again: it starts
\* the member, completes it, requeues it or returns, and touches no other member.
LEMMA ResumeEffect ==
  ASSUME Typed, NEW t \in Everyone, NEW s \in [Ids -> MemberStates], thr[t].op \in Ops, thr[t].i \in Ids,
         Resume(t, s)
  PROVE  /\ Turned(t) /\ MembersTyped
         /\ \A j \in Ids \ {thr[t].i} : st'[j] = s[j]
         /\ \/ st' = s /\ exec' = exec
            \/ /\ thr[t].op = "run" /\ s[thr[t].i] \in Listed
               /\ st'[thr[t].i] = "RUNNING" /\ exec' = exec \cup {thr[t].i}
            \/ /\ thr[t].op \in {"qdel", "qdel all", "purge"} /\ s[thr[t].i] \in Listed
               /\ st'[thr[t].i] = "COMPLETE" /\ exec' = exec
         /\ thr[t].op \in {"qdel", "qdel all"} /\ s[thr[t].i] \in Listed => st'[thr[t].i] = "COMPLETE"
         /\ thr[t].op \in {"run", "qdel", "obit"} => thr'[t] = NoCall
         /\ thr[t].op \in {"qdel all", "rerun"} => /\ thr'[t].op = thr[t].op /\ thr'[t].i = thr[t].i
                                                   /\ thr'[t].last = thr[t].last
                                                   /\ thr'[t].pc \in {"walk", "requeue"}
                                                   /\ thr[t].op = "rerun" => thr'[t].pc = "requeue"
                                                   /\ thr[t].op = "qdel all" => thr'[t].pc = "walk"
<1> DEFINE i == thr[t].i
           asis == st' = s /\ exec' = exec /\ due' = due /\ asked' = asked
<1>1. /\ exec \subseteq Ids /\ due \subseteq Ids /\ asked \subseteq Requests
  BY TypeParts, Zenon DEF Typed
<1>2. {"RUNNING", "COMPLETE"} \subseteq MemberStates /\ "start fails" \in Requests
  BY Zenon DEF MemberStates, Listed, Requests, Kinds
<1>3. asis => MembersTyped
  BY <1>1, Zenon DEF MembersTyped
<1>4. \A p \in Places : Go(t, p) => /\ thr'[t].op = thr[t].op /\ thr'[t].i = thr[t].i
                                    /\ thr'[t].last = thr[t].last /\ thr'[t].pc = p
  BY Gone, Zenon
<1>5. Finish(t) /\ thr[t].op # "qdel all" => Turned(t) /\ thr'[t] = NoCall
  BY Returned, Zenon DEF Finish
<1>6. Finish(t) /\ thr[t].op = "qdel all" =>
        /\ Turned(t) /\ thr'[t].op = thr[t].op /\ thr'[t].i = thr[t].i
        /\ thr'[t].last = thr[t].last /\ thr'[t].pc = "walk"
  BY <1>4, GoneTo, Zenon DEF Finish, Places
<1>7. CASE thr[t].op \in {"run", "qdel", "qdel all", "purge"} /\ s[i] \notin Listed
  <2>1. Finish(t) /\ asis
    BY <1>7, Zenon DEF Resume
  <2> QED
    BY <1>3, <1>5, <1>6, <1>7, <2>1, Zenon
<1>8. CASE thr[t].op = "run" /\ s[i] \in Listed
  <2>1. Return(t) /\ svr_startjob(i, s)
    BY <1>8, Zenon DEF Resume
  <2>2. Turned(t) /\ thr'[t] = NoCall
    BY <2>1, Returned, Zenon
  <2>3. /\ due' = due
        /\ \/ st' = [s EXCEPT ![i] = "RUNNING"] /\ exec' = exec \cup {i} /\ asked' = asked
           \/ asked' = asked \cup {"start fails"} /\ st' = s /\ exec' = exec
    BY <2>1, Zenon DEF svr_startjob, Ask
  <2> QED
    BY <1>1, <1>2, <1>8, <2>2, <2>3, Zenon DEF MembersTyped
<1>9. CASE thr[t].op \in {"qdel", "qdel all"} /\ s[i] \in Listed
  <2>1. Finish(t) /\ delete_inactive_job(i, s)
    BY <1>9, Zenon DEF Resume
  <2>2. st' = [s EXCEPT ![i] = "COMPLETE"] /\ due' = due \cup {i} /\ exec' = exec /\ asked' = asked
    BY <2>1, Zenon DEF delete_inactive_job
  <2> QED
    BY <1>1, <1>2, <1>5, <1>6, <1>9, <2>1, <2>2, Zenon DEF MembersTyped
<1>10. CASE thr[t].op = "purge" /\ s[i] \in Listed
  <2>1. Go(t, "mark") /\ st' = [s EXCEPT ![i] = "COMPLETE"] /\ exec' = exec /\ due' = due /\ asked' = asked
    BY <1>10, Zenon DEF Resume
  <2>2. Turned(t)
    BY <1>10, <2>1, GoneTo, Zenon DEF Places
  <2> QED
    BY <1>1, <1>2, <1>10, <2>1, <2>2, Zenon DEF MembersTyped
<1>11. CASE thr[t].op = "qdel array"
  <2>1. Go(t, "next") /\ asis
    BY <1>11, Zenon DEF Resume
  <2> QED
    BY <1>3, <1>11, <2>1, GoneTo, Zenon DEF Places
<1>12. CASE thr[t].op = "rerun"
  <2>1. Go(t, "requeue") /\ asis
    BY <1>12, Zenon DEF Resume
  <2> QED
    BY <1>3, <1>4, <1>12, <2>1, GoneTo, Zenon DEF Places
<1>13. CASE thr[t].op = "obit"
  <2>1. Return(t) /\ asis
    BY <1>13, Zenon DEF Resume
  <2> QED
    BY <1>3, <1>13, <2>1, Returned, Zenon
<1> QED
  BY <1>7, <1>8, <1>9, <1>10, <1>11, <1>12, <1>13, Zenon DEF Ops

\* The states svr_evaljobstate changes.
Going == {"QUEUED", "HELD", "RUNNING", "RERUN"}

\* s is the members after svr_evaljobstate of some of them, not thread t's own.
Evaluated(t, s) ==
  /\ s \in [Ids -> MemberStates]
  /\ \A j \in Ids : s[j] = st[j] \/ (j # thr[t].i /\ st[j] \in Going /\ s[j] \in IdleStates)

\* svr_evaljobstate makes a member QUEUED or HELD, or leaves an ended one alone.
LEMMA EvalType ==
  ASSUME NEW s \in Listed, NEW h
  PROVE  /\ EvalState(s, h) \in Listed /\ EvalState(s, h) \in MemberStates
         /\ EvalState(s, h) = s \/ (s \in Going /\ EvalState(s, h) \in IdleStates)
         /\ EvalState(s, h) = s \/ s \in Going
         /\ s \in Going => EvalState(s, h) \in IdleStates
BY Zenon DEF EvalState, Listed, MemberStates, IdleStates, Going

\* Two array structs that differ in the running and the idle members counted.
SameButCounts(a, b) ==
  /\ a.jobs_done = b.jobs_done /\ a.num_cloned = b.num_cloned /\ a.num_purged = b.num_purged
  /\ a.highest = b.highest /\ a.uncreated = b.uncreated /\ a.ids = b.ids
  /\ a.being_deleted = b.being_deleted

\* The fields of the array struct, each with its type.
LEMMA ArrParts ==
  ASSUME NEW a \in ArrType
  PROVE  /\ a.jobs_running \in 0 .. NumJobs /\ a.jobs_done \in Nat /\ a.num_cloned \in Nat
         /\ a.num_idle \in Int /\ a.num_purged \in Nat /\ a.highest \in Ids \cup {None}
         /\ a.uncreated \in SUBSET Ids /\ a.ids \in SUBSET Ids /\ a.being_deleted \in BOOLEAN
BY Zenon DEF ArrType

\* One running member less, never below zero.
LEMMA LessRunningType ==
  ASSUME NEW a \in ArrType
  PROVE  /\ LessRunning(a) \in ArrType /\ SameButCounts(LessRunning(a), a)
         /\ LessRunning(a).jobs_running = IF a.jobs_running > 0 THEN a.jobs_running - 1 ELSE 0
         /\ LessRunning(a).num_idle = a.num_idle
<1> DEFINE n == IF a.jobs_running > 0 THEN a.jobs_running - 1 ELSE 0
<1>1. n \in 0 .. NumJobs
  BY ArrParts, JobArrayAssumption
<1>2. LessRunning(a) = [a EXCEPT !.jobs_running = n]
  BY Zenon DEF LessRunning
<1> HIDE DEF n
<1>3. /\ LessRunning(a) \in ArrType /\ SameButCounts(LessRunning(a), a)
      /\ LessRunning(a).jobs_running = n /\ LessRunning(a).num_idle = a.num_idle
  BY <1>1, <1>2, Zenon DEF ArrType, SameButCounts
<1> QED
  BY <1>3, Zenon DEF n

\* What Counted does to jobs_running.
Recounted(a, b, event, old) ==
  CASE event = "aeRun" /\ ~Running(old) ->
         b.jobs_running = IF a.jobs_running < NumJobs THEN a.jobs_running + 1 ELSE a.jobs_running
    [] event = "aeTerminate" /\ Running(old) ->
         b.jobs_running = IF a.jobs_running > 0 THEN a.jobs_running - 1 ELSE 0
    [] event = "aeRerun" ->
         b.jobs_running = IF a.jobs_running > 0 THEN a.jobs_running - 1 ELSE 0
    [] OTHER -> b.jobs_running = a.jobs_running

\* update_array_values changes jobs_running by at most one, within 0 .. num_jobs, and
\* besides it only num_idle.
LEMMA CountedType ==
  ASSUME NEW a \in ArrType, NEW event, NEW old
  PROVE  /\ Counted(a, event, old) \in ArrType /\ SameButCounts(Counted(a, event, old), a)
         /\ Recounted(a, Counted(a, event, old), event, old)
<1> DEFINE b == Counted(a, event, old)
<1>0. SameButCounts(a, a)
  BY Zenon DEF SameButCounts
<1>1. CASE event = "aeRun" /\ ~Running(old)
  <2> DEFINE n == IF a.jobs_running < NumJobs THEN a.jobs_running + 1 ELSE a.jobs_running
             m == IF old \in IdleStates THEN a.num_idle - 1 ELSE a.num_idle
  <2>1. n \in 0 .. NumJobs /\ m \in Int
    BY ArrParts, JobArrayAssumption
  <2>2. b = [a EXCEPT !.jobs_running = n, !.num_idle = m]
    BY <1>1, Zenon DEF Counted
  <2>3. b.jobs_running = n
    BY <2>2, Zenon DEF ArrType
  <2>4. Recounted(a, b, event, old)
    BY <1>1, <2>3, Zenon DEF Recounted
  <2> HIDE DEF n, m, b
  <2>5. b \in ArrType /\ SameButCounts(b, a)
    BY <2>1, <2>2, Zenon DEF ArrType, SameButCounts
  <2> QED
    BY <2>4, <2>5, Zenon DEF b
<1>2. CASE event = "aeTerminate" /\ old \in IdleStates
  <2>1. a.num_idle - 1 \in Int
    BY ArrParts
  <2>2. b = [a EXCEPT !.num_idle = a.num_idle - 1]
    BY <1>2, Zenon DEF Counted, Running, IdleStates
  <2>3. b \in ArrType /\ SameButCounts(b, a) /\ b.jobs_running = a.jobs_running
    BY <2>1, <2>2, Zenon DEF ArrType, SameButCounts
  <2>4. Recounted(a, b, event, old)
    BY <1>2, <2>3, Zenon DEF Recounted, Running, IdleStates
  <2> QED
    BY <2>3, <2>4, Zenon
<1>3. CASE event = "aeTerminate" /\ Running(old)
  <2>1. b = LessRunning(a)
    BY <1>3, Zenon DEF Counted, Running, IdleStates
  <2> QED
    BY <1>3, <2>1, LessRunningType, Zenon DEF Recounted
<1>4. CASE event = "aeRerun"
  <2> DEFINE l == LessRunning(a)
  <2>1. a.num_idle + 1 \in Int
    BY ArrParts
  <2>2. b = [l EXCEPT !.num_idle = a.num_idle + 1]
    BY <1>4, Zenon DEF Counted
  <2>3. l \in ArrType /\ SameButCounts(l, a)
    BY LessRunningType, Zenon
  <2> HIDE DEF l
  <2>4. b \in ArrType /\ SameButCounts(b, a) /\ b.jobs_running = l.jobs_running
    BY <2>1, <2>2, <2>3, Zenon DEF ArrType, SameButCounts
  <2>5. Recounted(a, b, event, old)
    BY <1>4, <2>4, LessRunningType, Zenon DEF Recounted, l
  <2> QED
    BY <2>4, <2>5, Zenon
<1>5. CASE ~(event = "aeRun" /\ ~Running(old)) /\ ~(event = "aeTerminate" /\ old \in IdleStates)
           /\ ~(event = "aeTerminate" /\ Running(old)) /\ event # "aeRerun"
  <2>1. b = a
    BY <1>5, Zenon DEF Counted
  <2>2. Recounted(a, b, event, old)
    BY <1>5, <2>1, Zenon DEF Recounted
  <2> QED
    BY <1>0, <2>1, <2>2, Zenon
<1> QED
  BY <1>1, <1>2, <1>3, <1>4, <1>5, Zenon

\* What the end of update_array_values does to the array.
Settled(t, a, done) ==
  /\ arr' \in ArrType
  /\ arr'.jobs_running = a.jobs_running /\ arr'.num_purged = a.num_purged
  /\ arr'.uncreated = a.uncreated /\ arr'.being_deleted = a.being_deleted
  /\ arr'.jobs_done = IF EventOf(thr[t].op) = "aeTerminate" THEN done + 1 ELSE a.jobs_done
  /\ dep' \in BOOLEAN /\ (dep' => dep \/ arr'.jobs_done >= NumJobs)
  /\ hold' \in [Ids -> SUBSET {"a", "l"}]

\* The end of update_array_values: jobs_done is counted, at most one other member is
\* released from its slot hold, the dependency is looked at and the caller goes on.
LEMMA SettleEffect ==
  ASSUME Typed, Extremes, NEW t \in Everyone, NEW a \in ArrType, NEW done \in Nat, Settle(t, a, done)
  PROVE  Settled(t, a, done) /\ \E s : Evaluated(t, s) /\ Resume(t, s)
<1> DEFINE ended == EventOf(thr[t].op) = "aeTerminate"
           b == IF ended THEN [a EXCEPT !.jobs_done = done + 1] ELSE a
           walks == ended /\ MoabCompatible /\ need_to_update_slot_limits(b)
           others == b.ids \ {thr[t].i}
           first == SmallestOf({j \in others : InList(j) /\ "l" \in hold[j]})
           passed == {j \in others : first = None \/ j < first}
           fewer == b.ids \ {j \in passed : ~InList(j)}
           s == [st EXCEPT ![first] = EvalState(st[first], hold[first] \ {"l"})]
<1>1. done + 1 \in Nat
  OBVIOUS
<1>2. /\ b \in ArrType /\ b.jobs_running = a.jobs_running /\ b.num_purged = a.num_purged
      /\ b.uncreated = a.uncreated /\ b.being_deleted = a.being_deleted
      /\ b.jobs_done = IF ended THEN done + 1 ELSE a.jobs_done
  <2>1. CASE ended
    BY <1>1, <2>1, Zenon DEF ArrType
  <2>2. CASE ~ended
    BY <2>2, Zenon
  <2> QED
    BY <2>1, <2>2, Zenon
<1>3. /\ arr' = IF walks THEN [b EXCEPT !.ids = fewer] ELSE b
      /\ dep' = (dep \/ DependencyMet(b))
      /\ IF walks /\ first # None
         THEN hold' = [hold EXCEPT ![first] = hold[first] \ {"l"}] /\ Resume(t, s)
         ELSE hold' = hold /\ Resume(t, st)
  BY Zenon DEF Settle
<1>4. b.ids \in SUBSET Ids
  BY <1>2, ArrParts, Zenon
<1>5. first \in others \cup {None} /\ (first # None => InList(first))
  <2>1. {j \in others : InList(j) /\ "l" \in hold[j]} \in SUBSET Ids
    BY <1>4, Zenon
  <2> QED
    BY <2>1, Smallest, Zenon
<1>6. /\ dep \in BOOLEAN /\ hold \in [Ids -> SUBSET {"a", "l"}] /\ st \in [Ids -> MemberStates]
  BY TypeParts, Zenon DEF Typed
<1>7. fewer \in SUBSET Ids
  BY <1>4, Zenon
<1>8. DependencyMet(b) <=> b.jobs_done >= NumJobs
  BY Zenon DEF DependencyMet
<1> HIDE DEF fewer, first, others, passed, b
<1>9. /\ arr' \in ArrType /\ arr'.jobs_running = b.jobs_running /\ arr'.num_purged = b.num_purged
      /\ arr'.uncreated = b.uncreated /\ arr'.being_deleted = b.being_deleted
      /\ arr'.jobs_done = b.jobs_done
  <2>1. CASE walks
    <3>1. arr' = [b EXCEPT !.ids = fewer]
      BY <1>3, <2>1, Zenon
    <3> QED
      BY <1>2, <1>7, <3>1, Zenon DEF ArrType
  <2>2. CASE ~walks
    <3>1. arr' = b
      BY <1>3, <2>2, Zenon
    <3> QED
      BY <1>2, <3>1, Zenon
  <2> QED
    BY <2>1, <2>2, Zenon
<1>10. dep' \in BOOLEAN /\ (dep' => dep \/ arr'.jobs_done >= NumJobs)
  BY <1>3, <1>6, <1>8, <1>9, Zenon
<1>11. hold' \in [Ids -> SUBSET {"a", "l"}] /\ \E r : Evaluated(t, r) /\ Resume(t, r)
  <2>1. CASE walks /\ first # None
    <3>1. /\ first \in Ids /\ first # thr[t].i /\ st[first] \in Listed
      BY <1>4, <1>5, <2>1, Zenon DEF InList, others
    <3>2. hold' = [hold EXCEPT ![first] = hold[first] \ {"l"}] /\ Resume(t, s)
      BY <1>3, <2>1, Zenon
    <3>3. /\ EvalState(st[first], hold[first] \ {"l"}) \in MemberStates
          /\ \/ EvalState(st[first], hold[first] \ {"l"}) = st[first]
             \/ st[first] \in Going /\ EvalState(st[first], hold[first] \ {"l"}) \in IdleStates
      BY <3>1, EvalType, Zenon
    <3>4. Evaluated(t, s)
      BY <1>6, <3>1, <3>3, Zenon DEF Evaluated
    <3>5. hold[first] \ {"l"} \in SUBSET {"a", "l"}
      BY <1>6, <3>1, Zenon
    <3>6. hold' \in [Ids -> SUBSET {"a", "l"}]
      BY <1>6, <3>1, <3>2, <3>5, Zenon
    <3> HIDE DEF s
    <3> QED
      BY <3>2, <3>4, <3>6, Zenon
  <2>2. CASE ~(walks /\ first # None)
    <3>1. hold' = hold /\ Resume(t, st)
      BY <1>3, <2>2, Zenon
    <3>2. Evaluated(t, st)
      BY <1>6, Zenon DEF Evaluated
    <3> QED
      BY <1>6, <3>1, <3>2, Zenon
  <2> QED
    BY <2>1, <2>2, Zenon
<1> QED
  BY <1>2, <1>9, <1>10, <1>11, Zenon DEF Settled

\* b is the array struct a, perhaps with other members forgotten or marked as created.
Narrowed(b, a) ==
  /\ b \in ArrType /\ b.jobs_running = a.jobs_running /\ b.jobs_done = a.jobs_done
  /\ b.num_purged = a.num_purged /\ b.being_deleted = a.being_deleted
  /\ b.uncreated \subseteq a.uncreated

\* The calls that may create a member.
Creators == {"run", "qdel", "qdel all", "purge", "qdel array", "clone"}

\* job_clone: the thread waits to enqueue member k, and the counts are what they were.
LEMMA CloneEffect ==
  ASSUME Typed, NEW t \in Everyone, NEW a \in ArrType, NEW k \in Ids, NEW prev \in Ids \cup {None},
         NEW holds \in SUBSET {"a", "l"}, job_clone(t, a, k, prev, holds),
         thr[t].op \in Creators, thr[t].op = "clone" \/ thr[t].i \in Ids
  PROVE  /\ Narrowed(arr', a) /\ arr'.uncreated = a.uncreated
         /\ Turned(t)
         /\ thr'[t].pc = "enqueue" /\ thr'[t].new = k /\ thr'[t].op = thr[t].op
         /\ thr'[t].i = thr[t].i /\ thr'[t].last = thr[t].last
         /\ MembersTyped /\ dep' \in BOOLEAN /\ hold' \in [Ids -> SUBSET {"a", "l"}]
<1> DEFINE c == thr[t]
           w == [c EXCEPT !.pc = "enqueue", !.new = k, !.prev = prev]
<1>0. /\ thr \in [Everyone -> CallType] /\ c \in CallType
  BY ThreadOf, Zenon DEF Typed
<1>1. /\ w \in CallType /\ w.pc = "enqueue" /\ w.new = k /\ w.op = c.op /\ w.i = c.i /\ w.last = c.last
      /\ w.deleted = c.deleted
  BY <1>0, Zenon DEF CallType
<1>2. /\ thr' = [thr EXCEPT ![t] = w] /\ arr' = [a EXCEPT !.ids = a.ids \cup {k}]
      /\ st' = [st EXCEPT ![k] = "NEW"] /\ hold' = [hold EXCEPT ![k] = holds]
      /\ exec' = exec /\ due' = due /\ dep' = dep /\ asked' = asked
  BY Zenon DEF job_clone
<1>3. Hand(c) /\ (c.op = "clone" => t = Cloner)
  BY Zenon DEF Typed
<1>4. a.ids \cup {k} \in SUBSET Ids
  BY ArrParts, Zenon
<1>5. Narrowed(arr', a) /\ arr'.uncreated = a.uncreated
  BY <1>2, <1>4, Zenon DEF ArrType, Narrowed
<1>6. "NEW" \in MemberStates
  BY Zenon DEF MemberStates
<1>7. MembersTyped /\ dep' \in BOOLEAN /\ hold' \in [Ids -> SUBSET {"a", "l"}]
  BY <1>2, <1>6, TypeParts, Zenon DEF MembersTyped, Typed
<1> HIDE DEF w
<1>8. /\ thr'[t] = w /\ DOMAIN thr' = Everyone /\ thr' \in [Everyone -> CallType]
      /\ \A u \in Everyone \ {t} : thr'[u] = thr[u]
  BY <1>0, <1>1, <1>2, Zenon
<1>9. c.deleted <= (IF c.i = None THEN 0 ELSE c.i + 1)
  BY <1>3, Zenon DEF Hand
<1>10. Hand(w)
  BY <1>1, <1>9, Zenon DEF Hand, Tail, Creating, Creators
<1>11. Turned(t)
  BY <1>1, <1>3, <1>8, <1>10, Zenon DEF Turned
<1> QED
  BY <1>1, <1>2, <1>5, <1>7, <1>8, <1>11, Zenon

\* Marking k as created takes it off the indices left to create.
LEMMA CreatedType ==
  ASSUME NEW a \in ArrType, NEW k \in Ids
  PROVE  /\ Created(a, k) \in ArrType /\ Created(a, k).jobs_running = a.jobs_running
         /\ Created(a, k).jobs_done = a.jobs_done /\ Created(a, k).num_purged = a.num_purged
         /\ Created(a, k).being_deleted = a.being_deleted
         /\ Created(a, k).uncreated = a.uncreated \ {k}
<1>1. a.uncreated \ {k} \in SUBSET Ids
  BY ArrParts, Zenon
<1> QED
  BY <1>1, Zenon DEF Created, ArrType

\* The three ways on from update_array_values.
LEMMA UpdateCases ==
  ASSUME Typed, Extremes, NEW t \in Everyone, NEW old, update_array_values(t, old)
  PROVE  LET a == Counted(arr, EventOf(thr[t].op), old)
         IN  \/ Settle(t, a, a.jobs_done)
             \/ /\ old \in IdleStates /\ EventOf(thr[t].op) # "aeRerun"
                /\ \E k \in a.uncreated : \/ /\ arr' = Created(a, k) /\ Go(t, "tail") /\ NothingElse
                                             /\ HasFile(k)
                                          \/ ~HasFile(k) /\ job_clone(t, a, k, a.highest, {})
<1> DEFINE event == EventOf(thr[t].op)
           a == Counted(arr, event, old)
           k == IF event # "aeRerun" /\ old \in IdleStates THEN get_next_index_to_create(a) ELSE None
<1>1. a \in ArrType
  BY CountedType, TypeParts, Zenon DEF Typed
<1>2. SmallestOf(a.uncreated) \in a.uncreated \cup {None}
  BY <1>1, ArrParts, Smallest, Zenon
<1>3. IF k = None THEN Settle(t, a, a.jobs_done)
      ELSE IF HasFile(k) THEN arr' = Created(a, k) /\ Go(t, "tail") /\ NothingElse
      ELSE job_clone(t, a, k, a.highest, {})
  BY Zenon DEF update_array_values
<1> HIDE DEF a
<1>4. k # None => k \in a.uncreated /\ event # "aeRerun" /\ old \in IdleStates
  BY <1>2, Zenon DEF get_next_index_to_create
<1> HIDE DEF k
<1> QED
  BY <1>3, <1>4, Zenon DEF a

\* All but the threads keeps its type.
StateTyped ==
  /\ arr' \in ArrType /\ dep' \in BOOLEAN /\ MembersTyped
  /\ hold' \in [Ids -> SUBSET {"a", "l"}]

\* What is unchanged keeps its type.
LEMMA AsTyped ==
  ASSUME Typed
  PROVE  /\ UNCHANGED arr => arr' \in ArrType
         /\ NothingElse => dep' \in BOOLEAN /\ MembersTyped /\ hold' \in [Ids -> SUBSET {"a", "l"}]
BY TypeParts, Zenon DEF Typed, NothingElse, MembersTyped

\* The end of update_array_values keeps the types.
LEMMA SettleTyped ==
  ASSUME Typed, Extremes, NEW t \in Everyone, NEW a \in ArrType, NEW done \in Nat, Settle(t, a, done),
         thr[t].op \in Ops, thr[t].i \in Ids
  PROVE  StateTyped /\ Turned(t)
<1>1. Settled(t, a, done)
  BY SettleEffect, Zenon
<1>2. PICK s : Evaluated(t, s) /\ Resume(t, s)
  BY SettleEffect, Zenon
<1>3. MembersTyped /\ Turned(t)
  BY <1>2, ResumeEffect, Zenon DEF Evaluated
<1> QED
  BY <1>1, <1>3, Zenon DEF StateTyped, Settled

\* update_array_values keeps the types.
LEMMA UpdateTyped ==
  ASSUME Typed, Extremes, NEW t \in Everyone, NEW old, update_array_values(t, old),
         thr[t].op \in Ops, thr[t].i \in Ids, old \in IdleStates => thr[t].op # "obit"
  PROVE  StateTyped /\ Turned(t)
<1> DEFINE a == Counted(arr, EventOf(thr[t].op), old)
<1>1. a \in ArrType
  BY CountedType, TypeParts, Zenon DEF Typed
<1>2. /\ a.jobs_done \in Nat /\ a.highest \in Ids \cup {None} /\ a.uncreated \subseteq Ids
  BY <1>1, ArrParts, Zenon
<1>3. \/ Settle(t, a, a.jobs_done)
      \/ /\ old \in IdleStates /\ EventOf(thr[t].op) # "aeRerun"
         /\ \E k \in a.uncreated : \/ arr' = Created(a, k) /\ Go(t, "tail") /\ NothingElse
                                   \/ job_clone(t, a, k, a.highest, {})
  BY UpdateCases, Zenon
<1>0. thr[t] \in CallType
  BY ThreadOf, Zenon DEF Typed
<1> HIDE DEF a
<1>4. CASE Settle(t, a, a.jobs_done)
  BY <1>1, <1>2, <1>4, SettleTyped, Zenon
<1>5. ASSUME old \in IdleStates, EventOf(thr[t].op) # "aeRerun", NEW k \in a.uncreated,
             arr' = Created(a, k), Go(t, "tail"), NothingElse
      PROVE  StateTyped /\ Turned(t)
  <2>1. arr' \in ArrType
    BY <1>1, <1>2, <1>5, CreatedType, Zenon
  <2>2. thr[t].op \in {"run", "qdel", "qdel all", "purge", "qdel array"}
    BY <1>5, Zenon DEF Ops, EventOf
  <2> QED
    BY <1>5, <2>1, <2>2, AsTyped, GoneTo, Zenon DEF StateTyped, Places
<1>6. ASSUME old \in IdleStates, EventOf(thr[t].op) # "aeRerun", NEW k \in a.uncreated,
             job_clone(t, a, k, a.highest, {})
      PROVE  StateTyped /\ Turned(t)
  <2>1. thr[t].op \in Creators
    BY <1>6, Zenon DEF Ops, EventOf, Creators
  <2>2. k \in Ids /\ {} \in SUBSET {"a", "l"}
    BY <1>2, Zenon
  <2> QED
    BY <1>1, <1>2, <1>6, <2>1, <2>2, CloneEffect, Zenon DEF StateTyped, Narrowed
<1> QED
  BY <1>3, <1>4, <1>5, <1>6, Zenon

\* perform_array_postprocessing evaluates members and ends the cloning; the counts stay.
LEMMA PostprocessingEffect ==
  ASSUME Typed, NEW t \in Everyone, NEW a \in ArrType, perform_array_postprocessing(t, a)
  PROVE  /\ StateTyped /\ Turned(t) /\ thr'[t] = NoCall /\ Narrowed(arr', a)
         /\ exec' = exec /\ dep' = dep /\ asked' = asked
         /\ \A j \in Ids : st'[j] = st[j] \/ (st[j] \in Going /\ st'[j] \in IdleStates)
<1> DEFINE found == {j \in a.ids : InList(j)}
           Above(j) == /\ MoabCompatible /\ SlotLimit # -1
                       /\ Cardinality({m \in found : m <= j}) > SlotLimit
           h == [j \in Ids |-> IF j \notin found THEN hold[j]
                               ELSE (hold[j] \ {"a"}) \cup (IF Above(j) THEN {"l"} ELSE {})]
<1>1. /\ arr' = [a EXCEPT !.ids = found] /\ hold' = h
      /\ st' = [j \in Ids |-> IF j \in found THEN EvalState(st[j], h[j]) ELSE st[j]]
      /\ Return(t) /\ exec' = exec /\ due' = due /\ dep' = dep /\ asked' = asked
  BY Zenon DEF perform_array_postprocessing
<1>2. Turned(t) /\ thr'[t] = NoCall
  BY <1>1, Returned, Zenon
<1>3. found \in SUBSET Ids /\ \A j \in found : st[j] \in Listed
  BY ArrParts, Zenon DEF InList
<1>4. /\ dep \in BOOLEAN /\ hold \in [Ids -> SUBSET {"a", "l"}] /\ st \in [Ids -> MemberStates]
      /\ exec \subseteq Ids /\ due \subseteq Ids /\ asked \subseteq Requests
  BY TypeParts, Zenon DEF Typed
<1> HIDE DEF found, Above
<1>5. h \in [Ids -> SUBSET {"a", "l"}]
  <2>1. ASSUME NEW j \in Ids
        PROVE  (IF j \notin found THEN hold[j]
                ELSE (hold[j] \ {"a"}) \cup (IF Above(j) THEN {"l"} ELSE {})) \in SUBSET {"a", "l"}
    <3>1. hold[j] \in SUBSET {"a", "l"}
      BY <1>4, Zenon
    <3>2. (IF Above(j) THEN {"l"} ELSE {}) \in SUBSET {"a", "l"}
      BY Zenon
    <3> QED
      BY <3>1, <3>2, Zenon
  <2> QED
    BY <2>1, Zenon
<1> HIDE DEF h
<1>6. ASSUME NEW j \in Ids
      PROVE  /\ st'[j] = (IF j \in found THEN EvalState(st[j], h[j]) ELSE st[j])
             /\ st'[j] \in MemberStates
             /\ st'[j] = st[j] \/ (st[j] \in Going /\ st'[j] \in IdleStates)
  <2>1. st'[j] = (IF j \in found THEN EvalState(st[j], h[j]) ELSE st[j])
    BY <1>1, Zenon
  <2>2. CASE j \in found
    <3>1. st[j] \in Listed /\ st'[j] = EvalState(st[j], h[j])
      BY <1>3, <2>1, <2>2, Zenon
    <3> QED
      BY <3>1, <2>1, EvalType, Zenon
  <2>3. CASE j \notin found
    BY <1>4, <2>1, <2>3, Zenon
  <2> QED
    BY <2>2, <2>3, Zenon
<1>7. st' \in [Ids -> MemberStates]
  BY <1>1, <1>6, Zenon
<1>8. Narrowed(arr', a)
  BY <1>1, <1>3, Zenon DEF Narrowed, ArrType
<1> QED
  BY <1>1, <1>2, <1>4, <1>5, <1>6, <1>7, <1>8, Zenon DEF StateTyped, MembersTyped, Narrowed

\* The loop of job_clone_wt ends, or is about to enqueue one more member, whose file did
\* not exist and which is no longer left to create.
LEMMA CloneNextEffect ==
  ASSUME Typed, Extremes, NEW t \in Everyone, thr[t].op = "clone", NEW a \in ArrType,
         NEW prev \in Ids \cup {None}, CloneNext(t, a, prev)
  PROVE  /\ StateTyped /\ Turned(t) /\ Narrowed(arr', a)
         /\ exec' = exec /\ dep' = dep /\ asked' = asked
         /\ \/ /\ thr'[t] = NoCall
               /\ \A j \in Ids : st'[j] = st[j] \/ (st[j] \in Going /\ st'[j] \in IdleStates)
            \/ \E k \in a.uncreated :
                 /\ ~HasFile(k) /\ k \notin arr'.uncreated /\ st' = [st EXCEPT ![k] = "NEW"]
                 /\ thr'[t].pc = "enqueue" /\ thr'[t].new = k /\ thr'[t].op = thr[t].op
                 /\ thr'[t].i = thr[t].i /\ thr'[t].last = thr[t].last
<1> DEFINE fresh == {k \in a.uncreated \ a.ids : ~HasFile(k)}
           k == Min(fresh)
           top == IF a.uncreated = {} THEN a.highest ELSE Max(a.uncreated)
           b == [a EXCEPT !.highest = top, !.uncreated = {}]
           later == {j \in a.uncreated : j > k}
           d == [a EXCEPT !.uncreated = later, !.highest = k]
<1>1. a.uncreated \in SUBSET Ids /\ a.highest \in Ids \cup {None}
  BY ArrParts, Zenon
<1>2. \/ perform_array_postprocessing(t, a)
      \/ perform_array_postprocessing(t, b)
      \/ fresh # {} /\ job_clone(t, d, k, prev, CreationHold)
  BY Zenon DEF CloneNext
<1>3. top \in Ids \cup {None}
  BY <1>1, Smallest, Zenon
<1>4. fresh # {} => k \in fresh
  <2>1. fresh \in SUBSET Ids
    BY <1>1, Zenon
  <2> QED
    BY <2>1, Smallest, Zenon
<1>5. fresh # {} => k \in a.uncreated /\ ~HasFile(k) /\ k \in Ids
  BY <1>1, <1>4, Zenon
<1>6. later \subseteq a.uncreated /\ later \in SUBSET Ids
  BY <1>1, Zenon
<1>7. fresh # {} => k \notin later
  <2>1. \A n \in Ids : ~(n > n)
    BY SMT DEF Ids
  <2> QED
    BY <1>5, <2>1, Zenon
<1>8. /\ b \in ArrType /\ Narrowed(b, a) /\ Narrowed(a, a)
  <2>1. {} \in SUBSET Ids /\ {} \subseteq a.uncreated
    BY Zenon
  <2> HIDE DEF top
  <2> QED
    BY <1>3, <2>1, Zenon DEF Narrowed, ArrType
<1> HIDE DEF k, later, fresh, top
<1>9. fresh # {} => d \in ArrType /\ Narrowed(d, a) /\ d.uncreated = later
  BY <1>5, <1>6, Zenon DEF Narrowed, ArrType
<1>10. \A e, f : Narrowed(e, f) /\ Narrowed(f, a) => Narrowed(e, a)
  BY Zenon DEF Narrowed
<1> HIDE DEF b, d
<1>11. CASE perform_array_postprocessing(t, a)
  BY <1>8, <1>11, PostprocessingEffect, Zenon
<1>12. CASE perform_array_postprocessing(t, b)
  <2>1. /\ StateTyped /\ Turned(t) /\ thr'[t] = NoCall /\ Narrowed(arr', b)
        /\ exec' = exec /\ dep' = dep /\ asked' = asked
        /\ \A j \in Ids : st'[j] = st[j] \/ (st[j] \in Going /\ st'[j] \in IdleStates)
    BY <1>8, <1>12, PostprocessingEffect, Zenon
  <2>2. Narrowed(arr', a)
    BY <1>8, <1>10, <2>1, Zenon
  <2> QED
    BY <2>1, <2>2, Zenon
<1>13. CASE fresh # {} /\ job_clone(t, d, k, prev, CreationHold)
  <2>1. d \in ArrType /\ Narrowed(d, a) /\ d.uncreated = later /\ k \in Ids
    BY <1>5, <1>9, <1>13, Zenon
  <2>2. /\ thr[t].op \in Creators /\ CreationHold \in SUBSET {"a", "l"}
        /\ thr[t].op = "clone" \/ thr[t].i \in Ids
    BY Zenon DEF Creators, CreationHold
  <2>0. job_clone(t, d, k, prev, CreationHold)
    BY <1>13, Zenon
  <2> HIDE DEF CreationHold
  <2>3. /\ Turned(t)
        /\ thr'[t].pc = "enqueue" /\ thr'[t].new = k /\ thr'[t].op = thr[t].op
        /\ thr'[t].i = thr[t].i /\ thr'[t].last = thr[t].last
        /\ MembersTyped /\ dep' \in BOOLEAN /\ hold' \in [Ids -> SUBSET {"a", "l"}]
    BY <2>0, <2>1, <2>2, CloneEffect, SMT
  <2>7. st' = [st EXCEPT ![k] = "NEW"] /\ exec' = exec /\ dep' = dep /\ asked' = asked
    BY <2>0, Zenon DEF job_clone
  <2>4. Narrowed(arr', d) /\ arr'.uncreated = d.uncreated
    BY <2>0, <2>1, <2>2, CloneEffect, Zenon
  <2>5. Narrowed(arr', a) /\ k \notin arr'.uncreated /\ k \in a.uncreated /\ ~HasFile(k)
    BY <1>5, <1>7, <1>10, <1>13, <2>1, <2>4, Zenon DEF Narrowed
  <2>6. StateTyped
    BY <2>3, <2>4, Zenon DEF StateTyped, Narrowed
  <2> QED
    BY <2>3, <2>5, <2>6, <2>7, Zenon
<1> QED
  BY <1>2, <1>11, <1>12, <1>13, Zenon

\* A step that changes the call of one thread.
LEMMA Moved ==
  ASSUME Typed, NEW t \in Everyone, NEW w \in CallType, thr' = [thr EXCEPT ![t] = w],
         Hand(w), w.op = "clone" => t = Cloner
  PROVE  Turned(t) /\ thr'[t] = w
<1>1. thr \in [Everyone -> CallType]
  BY ThreadOf, Zenon DEF Typed
<1>2. /\ thr'[t] = w /\ DOMAIN thr' = Everyone /\ thr' \in [Everyone -> CallType]
      /\ \A u \in Everyone \ {t} : thr'[u] = thr[u]
  BY <1>1, Zenon
<1> QED
  BY <1>2, Zenon DEF Turned

\* A call begins in a thread that served none.
LEMMA Begun ==
  ASSUME Typed, NEW t \in Everyone, NEW op, NEW pc, NEW i \in Ids \cup {None}, Begin(t, op, pc, i),
         \/ /\ i \in Ids
            /\ \/ op = "run" /\ pc = "slot"
               \/ op \in {"obit", "rerun"} /\ pc = "obituary"
               \/ op = "exit" /\ pc = "mark"
               \/ op \in {"qdel", "purge"} /\ pc = "count"
         \/ op = "qdel all" /\ pc = "walk"
         \/ op = "qdel array" /\ pc = "next"
  PROVE  /\ Turned(t) /\ thr[t] = NoCall
         /\ thr'[t].op = op /\ thr'[t].pc = pc /\ thr'[t].i = i /\ ~thr'[t].last
<1> DEFINE w == [NoCall EXCEPT !.op = op, !.pc = pc, !.i = i]
<1>1. /\ op \in {"run", "obit", "rerun", "exit", "qdel", "purge", "qdel all", "qdel array"}
      /\ pc \in {"slot", "obituary", "mark", "count", "walk", "next"}
  BY Zenon
<1>2. NoCall \in CallType /\ NoCall.last = FALSE /\ NoCall.deleted = 0
  BY IdleHand DEF NoCall
<1>3. w.op = op /\ w.pc = pc /\ w.i = i /\ w.last = FALSE /\ w.deleted = 0
  BY <1>2, Zenon DEF CallType, NoCall
<1>4. w \in CallType
  BY <1>1, <1>2, Zenon DEF CallType
<1>5. thr' = [thr EXCEPT ![t] = w] /\ thr[t].pc = "idle"
  BY Zenon DEF Begin, CallOf, At
<1>6. thr[t] = NoCall
  BY <1>5, Zenon DEF Typed, Hand
<1> HIDE DEF w
<1>7. w.deleted <= (IF w.i = None THEN 0 ELSE w.i + 1)
  BY <1>3, Numbers, Zenon
<1>8. Hand(w)
  BY <1>3, <1>7, Zenon DEF Hand, Tail, Creating
<1>9. w.op # "clone"
  BY <1>1, <1>3, Zenon
<1> QED
  BY <1>3, <1>4, <1>5, <1>6, <1>8, <1>9, Moved, Zenon

\* svr_enquejob of the clone: it is in alljobs, or given up with its file left.
LEMMA EnqueueEffect ==
  ASSUME Typed, NEW t \in Everyone, EnqueueClone(t)
  PROVE  /\ StateTyped /\ Turned(t)
         /\ thr[t].pc = "enqueue" /\ thr[t].new \in Ids
         /\ thr'[t].op = thr[t].op /\ thr'[t].i = thr[t].i /\ thr'[t].last = thr[t].last
         /\ \/ /\ st' = [st EXCEPT ![thr[t].new] = "LOST"]
               /\ thr'[t].pc = IF thr[t].op = "clone" THEN "clone" ELSE "tail"
            \/ /\ \E s \in IdleStates : st' = [st EXCEPT ![thr[t].new] = s]
               /\ thr'[t].pc = "relock" /\ thr'[t].new = thr[t].new
         /\ UNCHANGED <<arr, here, exec, dep, asked>>
<1> DEFINE c == thr[t]
           p == IF c.op = "clone" THEN "clone" ELSE "tail"
           w1 == [c EXCEPT !.new = None, !.pc = p]
           w2 == [c EXCEPT !.pc = "relock"]
<1>1. c.pc = "enqueue" /\ Hand(c) /\ (c.op = "clone" => t = Cloner)
  BY Zenon DEF EnqueueClone, At, Typed
<1>2. thr \in [Everyone -> CallType] /\ c \in CallType
  BY ThreadOf, Zenon DEF Typed
<1>3. /\ c.new \in Ids /\ c.op \in Creators /\ (c.op # "clone" => c.i \in Ids)
      /\ c.deleted <= (IF c.i = None THEN 0 ELSE c.i + 1)
  BY <1>1, Zenon DEF Hand, Tail, Creating, Creators
<1>4. \/ st' = [st EXCEPT ![c.new] = "LOST"] /\ thr' = [thr EXCEPT ![t] = w1]
      \/ /\ st' = [st EXCEPT ![c.new] = EvalState("NEW", hold[c.new])]
         /\ thr' = [thr EXCEPT ![t] = w2]
  BY Zenon DEF EnqueueClone
<1>5. UNCHANGED <<arr, here, hold, due, dep, asked, exec>>
  BY Zenon DEF EnqueueClone
<1>6. /\ w1 \in CallType /\ w1.pc = p /\ w1.op = c.op /\ w1.i = c.i /\ w1.last = c.last
      /\ w1.deleted = c.deleted
  <2>1. p \in Places
    BY Zenon DEF Places
  <2> HIDE DEF p
  <2> QED
    BY <1>2, <2>1, ZenonT(60) DEF CallType, Places
<1>7. /\ w2 \in CallType /\ w2.pc = "relock" /\ w2.op = c.op /\ w2.i = c.i /\ w2.last = c.last
      /\ w2.deleted = c.deleted /\ w2.new = c.new
  BY <1>2, Zenon DEF CallType
<1> HIDE DEF w1, w2
<1>9. Hand(w1) /\ Hand(w2)
  BY <1>3, <1>6, <1>7, Zenon DEF Hand, Tail, Creating, Creators
<1>10. EvalState("NEW", hold[c.new]) \in IdleStates /\ "LOST" \in MemberStates
  BY Zenon DEF EvalState, IdleStates, MemberStates
<1>11. IdleStates \subseteq MemberStates
  BY Zenon DEF MemberStates, Listed
<1>12. /\ arr \in ArrType /\ dep \in BOOLEAN /\ hold \in [Ids -> SUBSET {"a", "l"}]
       /\ st \in [Ids -> MemberStates] /\ exec \subseteq Ids /\ due \subseteq Ids /\ asked \subseteq Requests
  BY TypeParts, Zenon DEF Typed
<1>13. st' \in [Ids -> MemberStates]
  BY <1>4, <1>10, <1>11, <1>12, Zenon
<1>14. StateTyped
  BY <1>5, <1>12, <1>13, Zenon DEF StateTyped, MembersTyped
<1>15. CASE st' = [st EXCEPT ![c.new] = "LOST"] /\ thr' = [thr EXCEPT ![t] = w1]
  <2>1. Turned(t) /\ thr'[t] = w1
    BY <1>1, <1>6, <1>9, <1>15, Moved, Zenon
  <2> QED
    BY <1>1, <1>3, <1>5, <1>6, <1>14, <1>15, <2>1, Zenon
<1>16. CASE /\ st' = [st EXCEPT ![c.new] = EvalState("NEW", hold[c.new])]
            /\ thr' = [thr EXCEPT ![t] = w2]
  <2>1. Turned(t) /\ thr'[t] = w2
    BY <1>1, <1>7, <1>9, <1>16, Moved, Zenon
  <2> QED
    BY <1>1, <1>3, <1>5, <1>7, <1>10, <1>14, <1>16, <2>1, Zenon
<1> QED
  BY <1>4, <1>15, <1>16, Zenon

\* The array locked again after the clone: it counts the clone and goes on, or the
\* creation is given up.
LEMMA RelockEffect ==
  ASSUME Typed, Extremes, NEW t \in Everyone, RelockArray(t)
  PROVE  /\ StateTyped /\ Turned(t) /\ Narrowed(arr', arr)
         /\ here' = here /\ exec' = exec /\ dep' = dep /\ asked' = asked
         /\ thr[t].pc = "relock" /\ thr[t].new \in Ids
         /\ \/ /\ thr[t].op = "clone" /\ thr'[t] = NoCall
               /\ \A j \in Ids : st'[j] = st[j] \/ (st[j] \in Going /\ st'[j] \in IdleStates)
            \/ /\ thr[t].op = "clone" /\ here
               /\ \E k \in arr.uncreated :
                    /\ ~HasFile(k) /\ k \notin arr'.uncreated /\ st' = [st EXCEPT ![k] = "NEW"]
                    /\ thr'[t].pc = "enqueue" /\ thr'[t].new = k /\ thr'[t].op = thr[t].op
                    /\ thr'[t].i = thr[t].i /\ thr'[t].last = thr[t].last
            \/ /\ thr[t].op \in Creators \ {"clone"} /\ thr'[t].pc = "tail" /\ thr'[t].op = thr[t].op
               /\ thr'[t].i = thr[t].i /\ thr'[t].last = thr[t].last /\ st' = st
               /\ ~here \/ ~InList(thr[t].new) \/ thr[t].new \notin arr'.uncreated
<1> DEFINE c == thr[t]
           a == [arr EXCEPT !.num_idle = @ + 1, !.num_cloned = @ + 1]
           lost == ~here \/ ~InList(c.new)
<1>1. /\ c.pc = "relock" /\ Hand(c) /\ here' = here
  BY Zenon DEF RelockArray, At, Typed
<1>2. /\ c.new \in Ids /\ c.op \in Creators /\ (c.op # "clone" => c.i \in Ids)
  BY <1>1, Zenon DEF Hand, Tail, Creating, Creators
<1>3. arr \in ArrType
  BY TypeParts, Zenon DEF Typed
<1>4. a \in ArrType /\ Narrowed(a, arr) /\ Narrowed(arr, arr) /\ a.uncreated = arr.uncreated
  <2>1. arr.num_idle + 1 \in Int /\ arr.num_cloned + 1 \in Nat
    BY <1>3, ArrParts
  <2> QED
    BY <1>3, <2>1, Zenon DEF Narrowed, ArrType
<1>5. CASE lost
  <2>1. /\ arr' = arr /\ NothingElse
        /\ IF c.op = "clone" THEN Return(t) ELSE Go(t, "tail")
    BY <1>5, Zenon DEF RelockArray
  <2>2. StateTyped /\ Narrowed(arr', arr)
    BY <1>4, <2>1, AsTyped, Zenon DEF StateTyped
  <2>3. st' = st /\ exec' = exec /\ dep' = dep /\ asked' = asked
    BY <2>1, Zenon DEF NothingElse
  <2>4. CASE c.op = "clone"
    <3>1. Turned(t) /\ thr'[t] = NoCall
      BY <2>1, <2>4, Returned, Zenon
    <3> QED
      BY <1>1, <1>2, <2>2, <2>3, <2>4, <3>1, Zenon
  <2>5. CASE c.op # "clone"
    <3>0. Go(t, "tail") /\ "tail" \in Places
      BY <2>1, <2>5, Zenon DEF Places
    <3>1. Turned(t)
      BY <1>2, <2>5, <3>0, GoneTo, Zenon DEF Creators
    <3>2. thr'[t].pc = "tail" /\ thr'[t].op = c.op /\ thr'[t].i = c.i /\ thr'[t].last = c.last
      BY <3>0, Gone, Zenon
    <3> QED
      BY <1>1, <1>2, <1>5, <2>2, <2>3, <2>5, <3>1, <3>2, Zenon
  <2> QED
    BY <2>4, <2>5, Zenon
<1>6. CASE ~lost /\ c.op = "clone"
  <2>1. CloneNext(t, a, c.new)
    BY <1>6, Zenon DEF RelockArray
  <2> HIDE DEF a
  <2>2. /\ StateTyped /\ Turned(t) /\ Narrowed(arr', a)
         /\ exec' = exec /\ dep' = dep /\ asked' = asked
         /\ \/ /\ thr'[t] = NoCall
               /\ \A j \in Ids : st'[j] = st[j] \/ (st[j] \in Going /\ st'[j] \in IdleStates)
            \/ \E k \in a.uncreated :
                 /\ ~HasFile(k) /\ k \notin arr'.uncreated /\ st' = [st EXCEPT ![k] = "NEW"]
                 /\ thr'[t].pc = "enqueue" /\ thr'[t].new = k /\ thr'[t].op = thr[t].op
                 /\ thr'[t].i = thr[t].i /\ thr'[t].last = thr[t].last
    BY <1>2, <1>4, <1>6, <2>1, CloneNextEffect, SMT
  <2>3. Narrowed(arr', arr)
    BY <1>4, <2>2, Zenon DEF Narrowed
  <2> QED
    BY <1>1, <1>2, <1>4, <1>6, <2>2, <2>3, SMT
<1>7. CASE ~lost /\ c.op # "clone"
  <2>1. arr' = Created(a, c.new) /\ Go(t, "tail") /\ NothingElse
    BY <1>7, Zenon DEF RelockArray
  <2> HIDE DEF a
  <2>2. Narrowed(arr', arr) /\ c.new \notin arr'.uncreated
    <3>1. /\ arr' \in ArrType /\ arr'.jobs_running = a.jobs_running
          /\ arr'.jobs_done = a.jobs_done /\ arr'.num_purged = a.num_purged
          /\ arr'.being_deleted = a.being_deleted /\ arr'.uncreated = a.uncreated \ {c.new}
      BY <1>2, <1>4, <2>1, CreatedType, Zenon
    <3> QED
      BY <1>4, <3>1, Zenon DEF Narrowed
  <2>3. StateTyped
    BY <2>1, <2>2, AsTyped, Zenon DEF StateTyped, Narrowed
  <2>4. st' = st /\ exec' = exec /\ dep' = dep /\ asked' = asked
    BY <2>1, Zenon DEF NothingElse
  <2>5. "tail" \in Places
    BY Zenon DEF Places
  <2>6. Turned(t)
    BY <1>2, <1>7, <2>1, <2>5, GoneTo, Zenon DEF Creators
  <2>7. thr'[t].pc = "tail" /\ thr'[t].op = c.op /\ thr'[t].i = c.i /\ thr'[t].last = c.last
    BY <2>1, <2>5, Gone, Zenon
  <2> QED
    BY <1>1, <1>2, <1>7, <2>2, <2>3, <2>4, <2>6, <2>7, Zenon
<1> QED
  BY <1>5, <1>6, <1>7, Zenon

\* A section of a caller that has the array counted keeps the types.
LEMMA InArrayTyped ==
  ASSUME Typed, Extremes, NEW t \in Everyone, NEW old, InArray(t, old),
         thr[t].op \in Ops, thr[t].i \in Ids, old \in IdleStates => thr[t].op # "obit"
  PROVE  StateTyped /\ Turned(t)
<1>1. CASE here
  <2>1. update_array_values(t, old)
    BY <1>1, Zenon DEF InArray
  <2> QED
    BY <2>1, UpdateTyped, Zenon
<1>2. CASE ~here
  <2>1. Resume(t, st) /\ arr' = arr /\ hold' = hold /\ dep' = dep
    BY <1>2, Zenon DEF InArray
  <2>2. st \in [Ids -> MemberStates] /\ arr \in ArrType /\ hold \in [Ids -> SUBSET {"a", "l"}] /\ dep \in BOOLEAN
    BY TypeParts, Zenon DEF Typed
  <2>3. MembersTyped /\ Turned(t)
    BY <2>1, <2>2, ResumeEffect, Zenon
  <2> QED
    BY <2>1, <2>2, <2>3, Zenon DEF StateTyped
<1> QED
  BY <1>1, <1>2, Zenon

\* What is unchanged, or only loses elements, keeps its type.
LEMMA StayTyped ==
  ASSUME Typed
  PROVE  /\ arr' = arr => arr' \in ArrType
         /\ dep' = dep => dep' \in BOOLEAN
         /\ hold' = hold => hold' \in [Ids -> SUBSET {"a", "l"}]
         /\ /\ st' \in [Ids -> MemberStates] \/ st' = st
            /\ due' \subseteq due \cup Ids /\ exec' \subseteq exec /\ asked' = asked
            => MembersTyped
BY TypeParts, Zenon DEF Typed, MembersTyped

\* The unlocked read of jobs_done changes nothing but what the thread has seen.
LEMMA TailReadEffect ==
  ASSUME Typed, NEW t \in Everyone, TailRead(t)
  PROVE  /\ StateTyped /\ Turned(t) /\ thr[t].pc = "tail" /\ thr'[t].pc = "tail2"
         /\ thr'[t].op = thr[t].op /\ thr'[t].i = thr[t].i /\ thr'[t].last = thr[t].last
         /\ thr'[t].seen = arr.jobs_done /\ UNCHANGED <<arr, here, st, exec, dep, asked>>
<1> DEFINE c == thr[t]
           w == [c EXCEPT !.pc = "tail2", !.seen = arr.jobs_done]
<1>1. c.pc = "tail" /\ Hand(c) /\ (c.op = "clone" => t = Cloner) /\ thr' = [thr EXCEPT ![t] = w]
  BY Zenon DEF TailRead, At, Typed
<1>2. UNCHANGED <<arr, here, st, hold, due, dep, asked, exec>>
  BY Zenon DEF TailRead
<1>3. c \in CallType /\ arr.jobs_done \in Nat
  BY ThreadOf, TypeParts, ArrParts, Zenon DEF Typed
<1>4. /\ w \in CallType /\ w.pc = "tail2" /\ w.seen = arr.jobs_done /\ w.op = c.op /\ w.i = c.i
      /\ w.last = c.last /\ w.deleted = c.deleted
  BY <1>3, Zenon DEF CallType
<1> HIDE DEF w
<1>5. Hand(w)
  BY <1>1, <1>4, Zenon DEF Hand, Tail, Creating
<1>6. Turned(t) /\ thr'[t] = w
  BY <1>1, <1>4, <1>5, Moved, Zenon
<1>7. StateTyped
  BY <1>2, StayTyped, Zenon DEF StateTyped
<1> QED
  BY <1>1, <1>2, <1>4, <1>6, <1>7, Zenon

\* svr_job_purge counts the purge if the array is there, and knows if it was the last.
LEMMA PurgeEffect ==
  ASSUME Typed, NEW t \in Everyone, svr_job_purge(t)
  PROVE  /\ StateTyped /\ Turned(t) /\ thr[t].pc = "mark" /\ thr[t].i \in Ids
         /\ UNCHANGED <<here, st, exec, dep, asked>>
         /\ arr'.jobs_running = arr.jobs_running /\ arr'.jobs_done = arr.jobs_done
         /\ arr'.uncreated = arr.uncreated /\ arr'.being_deleted = arr.being_deleted
         /\ \/ thr'[t] = NoCall /\ arr' = arr
            \/ /\ thr'[t].pc = "free" /\ thr'[t].op = thr[t].op /\ thr'[t].i = thr[t].i
               /\ thr'[t].last = thr[t].last /\ arr' = arr
            \/ /\ thr'[t].pc = "free" /\ thr'[t].op = thr[t].op /\ thr'[t].i = thr[t].i
               /\ thr'[t].last = NoMoreSubjobs(arr') /\ arr'.num_purged = arr.num_purged + 1
<1> DEFINE c == thr[t]
           a == mark_end_of_subjob(arr, c.i)
           w == [c EXCEPT !.pc = "free", !.last = NoMoreSubjobs(a)]
<1>1. c.pc = "mark" /\ Hand(c) /\ (c.op = "clone" => t = Cloner)
  BY Zenon DEF svr_job_purge, At, Typed
<1>2. c.op \in {"exit", "purge"} /\ c.i \in Ids /\ "free" \in Places
  BY <1>1, Zenon DEF Hand, Places
<1>3. \/ Return(t) /\ arr' = arr
      \/ Go(t, "free") /\ arr' = arr
      \/ arr' = a /\ thr' = [thr EXCEPT ![t] = w]
  BY Zenon DEF svr_job_purge
<1>4. UNCHANGED <<here, st, hold, due, dep, asked, exec>>
  BY Zenon DEF svr_job_purge
<1>5. c \in CallType /\ arr \in ArrType
  BY ThreadOf, TypeParts, Zenon DEF Typed
<1>6. /\ a \in ArrType /\ a.jobs_running = arr.jobs_running /\ a.jobs_done = arr.jobs_done
      /\ a.uncreated = arr.uncreated /\ a.being_deleted = arr.being_deleted
      /\ a.num_purged = arr.num_purged + 1
  <2>1. arr.ids \ {c.i} \in SUBSET Ids /\ arr.num_purged + 1 \in Nat
    BY <1>5, ArrParts
  <2> QED
    BY <1>5, <2>1, Zenon DEF mark_end_of_subjob, ArrType
<1> HIDE DEF a
<1>7. NoMoreSubjobs(a) \in BOOLEAN
  BY Zenon DEF NoMoreSubjobs
<1>8. /\ w \in CallType /\ w.pc = "free" /\ w.last = NoMoreSubjobs(a) /\ w.op = c.op /\ w.i = c.i
      /\ w.deleted = c.deleted
  BY <1>5, <1>7, Zenon DEF CallType
<1> HIDE DEF w
<1>9. Hand(w)
  BY <1>1, <1>2, <1>8, Zenon DEF Hand, Tail, Creating
<1>10. arr' = arr => StateTyped
  BY <1>4, StayTyped, Zenon DEF StateTyped
<1>11. CASE Return(t) /\ arr' = arr
  BY <1>1, <1>2, <1>4, <1>10, <1>11, Returned, Zenon
<1>12. CASE Go(t, "free") /\ arr' = arr
  BY <1>1, <1>2, <1>4, <1>10, <1>12, Gone, GoneTo, Zenon
<1>13. CASE arr' = a /\ thr' = [thr EXCEPT ![t] = w]
  <2>1. Turned(t) /\ thr'[t] = w
    BY <1>1, <1>8, <1>9, <1>13, Moved, Zenon
  <2>2. StateTyped
    BY <1>4, <1>6, <1>13, StayTyped, Zenon DEF StateTyped
  <2> QED
    BY <1>1, <1>2, <1>4, <1>6, <1>8, <1>13, <2>1, <2>2, Zenon
<1> QED
  BY <1>3, <1>11, <1>12, <1>13, Zenon

\* The next member of a walk that has reached member i.
LEMMA NextOfWalk ==
  ASSUME NEW i \in Ids \cup {None}, NEW j \in Ids, i = None \/ j > i, NEW d \in Nat,
         d <= (IF i = None THEN 0 ELSE i + 1)
  PROVE  d + 1 <= j + 1 /\ d <= j + 1 /\ d + 1 \in 0 .. NumJobs
<1>1. j \in Nat /\ j < NumJobs /\ NumJobs \in Nat
  BY Numbers, Zenon
<1>2. CASE i = None
  <2>1. d <= 0
    BY <1>2, Zenon
  <2> QED
    BY <1>1, <2>1, SMT
<1>3. CASE i # None
  <2>1. d <= i + 1 /\ j > i /\ i \in Nat
    BY <1>3, Numbers, Zenon
  <2> QED
    BY <1>1, <2>1, SMT
<1> QED
  BY <1>2, <1>3, Zenon

\* An overlap is remembered like a request.
LEMMA OverlapType == \A j : Overlap(j) \subseteq Requests
BY Zenon DEF Overlap, Requests

\* delete_all_work goes on to the next member in alljobs, or ends.
LEMMA DeleteAllEffect ==
  ASSUME Typed, Extremes, NEW t \in Everyone, delete_all_work(t)
  PROVE  /\ StateTyped /\ Turned(t) /\ thr[t].pc = "walk"
         /\ UNCHANGED <<here, st, exec, dep>>
         /\ arr'.jobs_running = arr.jobs_running /\ arr'.jobs_done = arr.jobs_done
         /\ arr'.uncreated = arr.uncreated /\ arr'.num_purged = arr.num_purged
         /\ \/ thr'[t] = NoCall
            \/ \E j \in Ids : /\ st[j] \in Listed /\ Overlap(j) \subseteq asked'
                              /\ thr'[t].i = j /\ thr'[t].op = thr[t].op /\ thr'[t].last = thr[t].last
                              /\ thr'[t].pc = IF st[j] \in IdleStates THEN "count" ELSE "walk"
<1> DEFINE c == thr[t]
           S == {k \in Ids : InList(k) /\ (c.i = None \/ k > c.i)}
           j == SmallestOf(S)
           p == IF st[j] \in IdleStates THEN "count" ELSE "walk"
           w == [c EXCEPT !.i = j, !.pc = p]
           b == [arr EXCEPT !.being_deleted = TRUE]
<1>1. c.pc = "walk" /\ Hand(c) /\ (c.op = "clone" => t = Cloner)
  BY Zenon DEF delete_all_work, At, Typed
<1>2. c.op = "qdel all" /\ c.deleted <= (IF c.i = None THEN 0 ELSE c.i + 1)
  BY <1>1, Zenon DEF Hand
<1>3. /\ UNCHANGED <<here, st, hold, due, dep, exec>>
      /\ asked' = asked \cup (IF j = None THEN {} ELSE Overlap(j))
      /\ IF j = None THEN Return(t) /\ arr' = arr
         ELSE arr' = (IF here THEN b ELSE arr) /\ thr' = [thr EXCEPT ![t] = w]
  BY Zenon DEF delete_all_work
<1>4. j \in S \cup {None}
  BY Smallest, Zenon
<1>5. j # None => j \in Ids /\ st[j] \in Listed /\ (c.i = None \/ j > c.i)
  BY <1>4, Zenon DEF InList
<1>6. c \in CallType /\ arr \in ArrType /\ asked \subseteq Requests
  BY ThreadOf, TypeParts, Zenon DEF Typed
<1> HIDE DEF j
<1>7. MembersTyped
  <2>1. asked' \subseteq Requests /\ asked \subseteq asked'
    BY <1>3, <1>6, OverlapType, Zenon
  <2> QED
    BY <1>3, <2>1, TypeParts, Zenon DEF MembersTyped, Typed
<1>8. CASE j = None
  <2>1. Turned(t) /\ thr'[t] = NoCall
    BY <1>3, <1>8, Returned, Zenon
  <2> QED
    BY <1>1, <1>3, <1>7, <1>8, <2>1, StayTyped, Zenon DEF StateTyped
<1>9. CASE j # None
  <2>1. j \in Ids /\ p \in Places
    BY <1>5, <1>9, Zenon DEF Places
  <2>2. w \in CallType /\ w.i = j /\ w.pc = p /\ w.op = c.op /\ w.last = c.last /\ w.deleted = c.deleted
    <3> HIDE DEF p
    <3> QED
      BY <1>6, <2>1, ZenonT(60) DEF CallType, Places
  <2>3. c.deleted <= j + 1
    <3>1. c.deleted \in Nat /\ c.i \in Ids \cup {None}
      BY <1>6, CallParts, Zenon
    <3> QED
      BY <1>2, <1>5, <1>9, <3>1, NextOfWalk
  <2>4. /\ arr' \in ArrType /\ arr'.jobs_running = arr.jobs_running /\ arr'.jobs_done = arr.jobs_done
        /\ arr'.uncreated = arr.uncreated /\ arr'.num_purged = arr.num_purged
    <3>1. /\ b \in ArrType /\ b.jobs_running = arr.jobs_running /\ b.jobs_done = arr.jobs_done
          /\ b.uncreated = arr.uncreated /\ b.num_purged = arr.num_purged
      BY <1>6, Zenon DEF ArrType
    <3>2. arr' = b \/ arr' = arr
      BY <1>3, <1>9, Zenon
    <3> QED
      BY <1>6, <3>1, <3>2, Zenon
  <2> HIDE DEF w
  <2>5. w.deleted <= (IF w.i = None THEN 0 ELSE w.i + 1)
    BY <1>9, <2>2, <2>3, Zenon
  <2>6. Hand(w) /\ w.op # "clone"
    BY <1>2, <2>1, <2>2, <2>5, Zenon DEF Hand, Tail, Creating
  <2>7. Turned(t) /\ thr'[t] = w
    BY <1>3, <1>9, <2>2, <2>6, Moved, Zenon
  <2>8. StateTyped
    BY <1>3, <1>7, <2>4, StayTyped, Zenon DEF StateTyped
  <2>9. Overlap(j) \subseteq asked'
    BY <1>3, <1>9, Zenon
  <2> QED
    BY <1>1, <1>3, <1>5, <1>9, <2>2, <2>4, <2>7, <2>8, <2>9, Zenon
<1> QED
  BY <1>8, <1>9, Zenon

\* delete_whole_array keeps the types: it counts each member at most once, so what it
\* adds to jobs_done is at most num_jobs.
LEMMA DeleteArrayTyped ==
  ASSUME Typed, Extremes, NEW t \in Everyone, delete_whole_array(t)
  PROVE  StateTyped /\ Turned(t)
<1> DEFINE c == thr[t]
           left == {k \in arr.ids : c.i = None \/ k > c.i}
           j == SmallestOf({k \in left : InList(k) /\ st[k] \notin {"EXITING", "COMPLETE"}})
           passed == {k \in left : j = None \/ k < j}
           fewer == arr.ids \ {k \in passed : ~InList(k)}
           a == [arr EXCEPT !.ids = fewer]
           found == c.found \/ j # None \/ \E k \in passed : InList(k)
           d == IF Running(st[j]) THEN c.deleted ELSE c.deleted + 1
           w == [c EXCEPT !.i = j, !.old = st[j], !.pc = "count", !.found = TRUE, !.deleted = d]
<1>1. c.pc = "next" /\ Hand(c) /\ (c.op = "clone" => t = Cloner)
  BY Zenon DEF delete_whole_array, At, Typed
<1>2. c.op = "qdel array" /\ c.deleted <= (IF c.i = None THEN 0 ELSE c.i + 1)
  BY <1>1, Zenon DEF Hand
<1>3. /\ asked' = asked \cup (IF j = None THEN {} ELSE Overlap(j))
      /\ UNCHANGED <<here, hold, dep, exec>>
  BY Zenon DEF delete_whole_array
<1>4. \/ Return(t) /\ arr' = arr /\ st' = st /\ due' = due
      \/ /\ arr' = [a EXCEPT !.jobs_done = a.jobs_done + c.deleted]
         /\ Return(t) \/ Go(t, "reap")
         /\ st' = st /\ due' = due
      \/ /\ j # None /\ arr' = a /\ thr' = [thr EXCEPT ![t] = w]
         /\ st' = st \/ st' = [st EXCEPT ![j] = "COMPLETE"]
         /\ due' = due \/ due' = due \cup {j}
  BY Zenon DEF delete_whole_array
<1>5. c \in CallType /\ arr \in ArrType /\ asked \subseteq Requests /\ st \in [Ids -> MemberStates]
      /\ due \subseteq Ids /\ exec \subseteq Ids
  BY ThreadOf, TypeParts, Zenon DEF Typed
<1>6. arr.ids \in SUBSET Ids /\ c.deleted \in Nat /\ c.i \in Ids \cup {None} /\ c.deleted \in 0 .. NumJobs
  BY <1>5, ArrParts, CallParts, Zenon
<1>7. j # None => j \in Ids /\ (c.i = None \/ j > c.i)
  <2> DEFINE S == {k \in left : InList(k) /\ st[k] \notin {"EXITING", "COMPLETE"}}
  <2>1. S \in SUBSET Ids
    BY <1>6, Zenon
  <2>2. j \in S \cup {None}
    BY <2>1, Smallest, Zenon
  <2> QED
    BY <1>6, <2>2, Zenon
<1>8. fewer \in SUBSET Ids
  BY <1>6, Zenon
<1> HIDE DEF left, j, fewer, found
<1>9. a \in ArrType
  BY <1>5, <1>8, Zenon DEF ArrType
<1>10. asked' \subseteq Requests /\ asked \subseteq asked'
  BY <1>3, <1>5, OverlapType, Zenon
<1>11. CASE Return(t) /\ arr' = arr /\ st' = st /\ due' = due
  <2>1. Turned(t)
    BY <1>11, Returned, Zenon
  <2>2. MembersTyped
    BY <1>3, <1>5, <1>10, <1>11, Zenon DEF MembersTyped
  <2> QED
    BY <1>3, <1>11, <2>1, <2>2, StayTyped, Zenon DEF StateTyped
<1>12. CASE /\ arr' = [a EXCEPT !.jobs_done = a.jobs_done + c.deleted]
            /\ Return(t) \/ Go(t, "reap")
            /\ st' = st /\ due' = due
  <2>1. Turned(t)
    BY <1>2, <1>12, Returned, GoneTo, Zenon DEF Places
  <2>2. MembersTyped
    BY <1>3, <1>5, <1>10, <1>12, Zenon DEF MembersTyped
  <2>3. a.jobs_done + c.deleted \in Nat
    <3>1. a.jobs_done \in Nat
      BY <1>9, ArrParts, Zenon
    <3> HIDE DEF a
    <3> QED
      BY <1>6, <3>1, SMT
  <2> HIDE DEF a
  <2>4. arr' \in ArrType
    BY <1>9, <1>12, <2>3, Zenon DEF ArrType
  <2> QED
    BY <1>3, <2>1, <2>2, <2>4, StayTyped, Zenon DEF StateTyped
<1>13. CASE /\ j # None /\ arr' = a /\ thr' = [thr EXCEPT ![t] = w]
            /\ st' = st \/ st' = [st EXCEPT ![j] = "COMPLETE"]
            /\ due' = due \/ due' = due \cup {j}
  <2>1. j \in Ids /\ (c.i = None \/ j > c.i)
    BY <1>7, <1>13, Zenon
  <2>2. c.deleted + 1 <= j + 1 /\ c.deleted <= j + 1 /\ c.deleted + 1 \in 0 .. NumJobs
    BY <1>2, <1>6, <2>1, NextOfWalk
  <2>3. d \in 0 .. NumJobs /\ d <= j + 1 /\ st[j] \in MemberStates
    BY <1>5, <1>6, <2>1, <2>2, Zenon
  <2> HIDE DEF d
  <2>4. w \in CallType /\ w.op = c.op /\ w.pc = "count" /\ w.i = j /\ w.deleted = d
    BY <1>5, <2>1, <2>3, Zenon DEF CallType
  <2> HIDE DEF w
  <2>5. w.deleted <= (IF w.i = None THEN 0 ELSE w.i + 1)
    BY <1>13, <2>3, <2>4, Zenon
  <2>6. Hand(w) /\ w.op # "clone"
    BY <1>2, <2>1, <2>4, <2>5, Zenon DEF Hand, Tail, Creating
  <2>7. Turned(t)
    BY <1>13, <2>4, <2>6, Moved, Zenon
  <2>8. st' \in [Ids -> MemberStates] /\ due' \subseteq Ids
    <3>1. "COMPLETE" \in MemberStates
      BY Zenon DEF MemberStates, Listed
    <3> QED
      BY <1>5, <1>13, <2>1, <3>1, Zenon
  <2>9. MembersTyped
    BY <1>3, <1>5, <1>10, <2>8, Zenon DEF MembersTyped
  <2> QED
    BY <1>3, <1>9, <1>13, <2>7, <2>9, StayTyped, Zenon DEF StateTyped
<1> QED
  BY <1>4, <1>11, <1>12, <1>13, Zenon

\* A step of thread t that keeps the types.
StepTyped(t) == StateTyped /\ here' \in BOOLEAN /\ Turned(t)

\* The steps that have the array counted keep the types.
LEMMA CountTypes ==
  ASSUME Typed, Extremes, NEW t \in Everyone,
         \/ job_clone_wt(t) \/ TailWrite(t) \/ check_and_run_job_work(t) \/ ArraySubjobEnds(t)
         \/ perform_job_delete_array_bookkeeping(t) \/ CountDeleted(t)
  PROVE  StepTyped(t)
<1> DEFINE c == thr[t]
<1>1. Hand(c) /\ c \in CallType /\ arr \in ArrType
  BY ThreadOf, TypeParts, Zenon DEF Typed
<1>2. Return(t) => Turned(t)
  BY Returned, Zenon
<1>3. arr' = arr /\ NothingElse => StateTyped
  BY AsTyped, Zenon DEF StateTyped
<1>4. here' \in BOOLEAN
  <2>1. here' = here
    BY Zenon DEF job_clone_wt, TailWrite, check_and_run_job_work, ArraySubjobEnds,
                 perform_job_delete_array_bookkeeping, CountDeleted
  <2> QED
    BY <2>1, TypeParts, Zenon DEF Typed
<1>5. CASE job_clone_wt(t)
  <2>1. c.op = "clone" /\ c.prev \in Ids \cup {None}
    BY <1>1, <1>5, CallParts, Zenon DEF job_clone_wt, At, Hand
  <2>2. CloneNext(t, arr, c.prev) \/ (Return(t) /\ arr' = arr /\ NothingElse)
    BY <1>5, Zenon DEF job_clone_wt
  <2> QED
    BY <1>1, <1>2, <1>3, <1>4, <2>1, <2>2, CloneNextEffect, Zenon DEF StepTyped
<1>6. CASE TailWrite(t)
  <2>1. c.op \in Ops /\ c.i \in Ids /\ c.seen \in Nat /\ Settle(t, arr, c.seen)
    BY <1>1, <1>6, CallParts, Zenon DEF TailWrite, At, Hand, Ops, Tail
  <2> QED
    BY <1>1, <1>4, <2>1, SettleTyped, Zenon DEF StepTyped
<1>7. CASE check_and_run_job_work(t)
  <2>1. c.op = "run" /\ c.i \in Ids
    BY <1>1, <1>7, Zenon DEF check_and_run_job_work, At, Hand
  <2>2. InArray(t, st[c.i]) \/ (Return(t) /\ arr' = arr /\ NothingElse)
    BY <1>7, Zenon DEF check_and_run_job_work
  <2>3. c.op \in Ops /\ c.op # "obit"
    BY <2>1, Zenon DEF Ops
  <2> QED
    BY <1>2, <1>3, <1>4, <2>1, <2>2, <2>3, InArrayTyped, Zenon DEF StepTyped
<1>8. CASE ArraySubjobEnds(t)
  <2>1. c.op \in Ops /\ c.i \in Ids
    BY <1>1, <1>8, Zenon DEF ArraySubjobEnds, At, Hand, Ops
  <2>2. InArray(t, "RUNNING") \/ (Return(t) /\ arr' = arr /\ NothingElse)
    BY <1>8, Zenon DEF ArraySubjobEnds
  <2>3. "RUNNING" \notin IdleStates
    BY Zenon DEF IdleStates
  <2> QED
    BY <1>2, <1>3, <1>4, <2>1, <2>2, <2>3, InArrayTyped, Zenon DEF StepTyped
<1>9. CASE perform_job_delete_array_bookkeeping(t)
  <2>1. c.op \in Ops /\ c.i \in Ids /\ c.op # "obit"
    BY <1>1, <1>9, Zenon DEF perform_job_delete_array_bookkeeping, At, Hand, Ops
  <2>2. InArray(t, st[c.i]) \/ (Finish(t) /\ arr' = arr /\ NothingElse)
    BY <1>9, Zenon DEF perform_job_delete_array_bookkeeping
  <2>3. Finish(t) => Turned(t)
    BY <1>2, GoneTo, Zenon DEF Finish, Places
  <2> QED
    BY <1>3, <1>4, <2>1, <2>2, <2>3, InArrayTyped, Zenon DEF StepTyped
<1>10. CASE CountDeleted(t)
  <2>1. c.op \in Ops /\ c.i \in Ids /\ c.op # "obit"
    BY <1>1, <1>10, Zenon DEF CountDeleted, At, Hand, Ops
  <2>2. update_array_values(t, c.old) \/ (Return(t) /\ arr' = arr /\ NothingElse)
    BY <1>10, Zenon DEF CountDeleted
  <2> QED
    BY <1>2, <1>3, <1>4, <2>1, <2>2, UpdateTyped, Zenon DEF StepTyped
<1> QED
  BY <1>5, <1>6, <1>7, <1>8, <1>9, <1>10, Zenon

\* Where a member is after rerun_job and job_free.
LEMMA RequeueEffect ==
  ASSUME Typed, NEW t \in Everyone, rerun_job(t)
  PROVE  /\ StepTyped(t) /\ thr[t].pc = "requeue" /\ thr[t].i \in Ids /\ thr'[t] = NoCall
         /\ UNCHANGED <<arr, here, exec, dep, asked>>
         /\ st' = st \/ \E s \in IdleStates : st' = [st EXCEPT ![thr[t].i] = s]
<1>1. thr[t].pc = "requeue" /\ thr[t].i \in Ids
  BY Zenon DEF rerun_job, At, Typed, Hand
<1>2. UNCHANGED <<arr, here, hold, due, dep, asked, exec>> /\ Return(t)
  BY Zenon DEF rerun_job
<1>3. EvalState("RERUN", hold[thr[t].i]) \in IdleStates
  BY Zenon DEF EvalState, IdleStates
<1>4. st' = st \/ \E s \in IdleStates : st' = [st EXCEPT ![thr[t].i] = s]
  BY <1>3, Zenon DEF rerun_job
<1>5. IdleStates \subseteq MemberStates
  BY Zenon DEF MemberStates, Listed
<1>6. st \in [Ids -> MemberStates] /\ here \in BOOLEAN
  BY TypeParts, Zenon DEF Typed
<1>7. st' \in [Ids -> MemberStates]
  BY <1>1, <1>4, <1>5, <1>6, Zenon
<1>8. StateTyped
  BY <1>2, <1>7, StayTyped, Zenon DEF StateTyped
<1> QED
  BY <1>1, <1>2, <1>4, <1>6, <1>8, Returned, Zenon DEF StepTyped

\* The member is freed, and the thread that purged the last one removes the array next.
LEMMA FreeEffect ==
  ASSUME Typed, NEW t \in Everyone, job_free(t)
  PROVE  /\ StepTyped(t) /\ thr[t].pc = "free" /\ thr[t].i \in Ids
         /\ UNCHANGED <<arr, here, exec, dep, asked>>
         /\ st' = IF InList(thr[t].i) THEN [st EXCEPT ![thr[t].i] = "GONE"] ELSE st
         /\ \/ thr'[t] = NoCall
            \/ /\ thr[t].last /\ thr'[t].pc = "reap" /\ thr'[t].op = thr[t].op
               /\ thr'[t].i = thr[t].i /\ thr'[t].last = thr[t].last
<1>1. thr[t].pc = "free" /\ thr[t].i \in Ids /\ thr[t].op \in {"exit", "purge"} /\ "reap" \in Places
  BY Zenon DEF job_free, At, Typed, Hand, Places
<1>2. /\ UNCHANGED <<arr, here, hold, due, dep, asked, exec>>
      /\ IF thr[t].last THEN Go(t, "reap") ELSE Return(t)
      /\ st' = IF InList(thr[t].i) THEN [st EXCEPT ![thr[t].i] = "GONE"] ELSE st
  BY Zenon DEF job_free
<1>3. "GONE" \in MemberStates
  BY Zenon DEF MemberStates
<1>4. st \in [Ids -> MemberStates] /\ here \in BOOLEAN
  BY TypeParts, Zenon DEF Typed
<1>5. st' \in [Ids -> MemberStates]
  BY <1>1, <1>2, <1>3, <1>4, Zenon
<1>6. StateTyped
  BY <1>2, <1>5, StayTyped, Zenon DEF StateTyped
<1>7. CASE thr[t].last
  <2>1. Go(t, "reap")
    BY <1>2, <1>7, Zenon
  <2>2. Turned(t)
    BY <1>1, <2>1, GoneTo, Zenon
  <2>3. /\ thr'[t].pc = "reap" /\ thr'[t].op = thr[t].op /\ thr'[t].i = thr[t].i
        /\ thr'[t].last = thr[t].last
    BY <1>1, <2>1, Gone, Zenon
  <2> QED
    BY <1>1, <1>2, <1>4, <1>6, <1>7, <2>2, <2>3, Zenon DEF StepTyped
<1>8. CASE ~thr[t].last
  <2>1. Return(t)
    BY <1>2, <1>8, Zenon
  <2> QED
    BY <1>1, <1>2, <1>4, <1>6, <2>1, Returned, Zenon DEF StepTyped
<1> QED
  BY <1>7, <1>8, Zenon

\* Every step of a call keeps the types.
LEMMA ContinueTypes ==
  ASSUME Typed, Extremes, NEW t \in Everyone, Continue(t)
  PROVE  StepTyped(t)
<1>1. here \in BOOLEAN
  BY TypeParts, Zenon DEF Typed
<1>2. CASE \/ job_clone_wt(t) \/ TailWrite(t) \/ check_and_run_job_work(t) \/ ArraySubjobEnds(t)
           \/ perform_job_delete_array_bookkeeping(t) \/ CountDeleted(t)
  BY <1>2, CountTypes, Zenon
<1>3. CASE EnqueueClone(t)
  BY <1>1, <1>3, EnqueueEffect, Zenon DEF StepTyped
<1>4. CASE RelockArray(t)
  BY <1>1, <1>4, RelockEffect, Zenon DEF StepTyped
<1>5. CASE TailRead(t)
  BY <1>1, <1>5, TailReadEffect, Zenon DEF StepTyped
<1>6. CASE rerun_job(t)
  BY <1>6, RequeueEffect, Zenon
<1>7. CASE svr_job_purge(t)
  BY <1>1, <1>7, PurgeEffect, Zenon DEF StepTyped
<1>8. CASE job_free(t)
  BY <1>8, FreeEffect, Zenon
<1>9. CASE array_delete(t)
  <2>1. /\ here' = FALSE /\ Return(t) /\ UNCHANGED <<arr, st, hold, due, dep, asked, exec>>
    BY <1>9, Zenon DEF array_delete
  <2>2. StateTyped
    BY <2>1, StayTyped, Zenon DEF StateTyped
  <2> QED
    BY <2>1, <2>2, Returned, Zenon DEF StepTyped
<1>10. CASE delete_all_work(t)
  BY <1>1, <1>10, DeleteAllEffect, Zenon DEF StepTyped
<1>11. CASE delete_whole_array(t)
  <2>1. here' = here
    BY <1>11, Zenon DEF delete_whole_array
  <2> QED
    BY <1>1, <1>11, <2>1, DeleteArrayTyped, Zenon DEF StepTyped
<1> QED
  BY <1>2, <1>3, <1>4, <1>5, <1>6, <1>7, <1>8, <1>9, <1>10, <1>11, Zenon DEF Continue

\* What a request does but for the call it begins.
Asking(i) ==
  /\ asked' \subseteq Requests /\ asked \subseteq asked' /\ (i \in Ids => Overlap(i) \subseteq asked')

\* An exceptional request is remembered, with an overlap if it makes one.
LEMMA AskType ==
  ASSUME Typed, NEW k \in Kinds, NEW also \in SUBSET Requests, Ask(k, also)
  PROVE  asked' \subseteq Requests /\ asked \subseteq asked' /\ also \subseteq asked' /\ k \in asked'
<1>1. asked' = asked \cup {k} \cup also
  BY Zenon DEF Ask
<1>2. asked \subseteq Requests /\ k \in Requests
  BY TypeParts, Zenon DEF Typed, Requests
<1> QED
  BY <1>1, <1>2, Zenon

\* The requests that begin a call for member i.
LEMMA MemberRequest ==
  ASSUME Typed, NEW t \in Threads, NEW i \in Ids,
         \/ req_runjob(t, i) \/ handle_terminating_job(t, i) \/ rerun_obit(t, i)
         \/ execute_job_delete(t, i) \/ force_purge_work(t, i)
  PROVE  /\ StepTyped(t) /\ Asking(i) /\ thr[t] = NoCall /\ thr'[t].i = i /\ ~thr'[t].last
         /\ UNCHANGED <<arr, here, dep>>
         /\ \/ /\ thr'[t].op = "run" /\ thr'[t].pc = "slot" /\ st[i] \in IdleStates
               /\ UNCHANGED <<st, exec>>
            \/ /\ thr'[t].pc = "obituary" /\ i \in exec /\ exec' = exec \ {i} /\ st[i] = "RUNNING"
               /\ \/ thr'[t].op = "obit" /\ st' = [st EXCEPT ![i] = "EXITING"]
                  \/ thr'[t].op = "rerun" /\ st' = [st EXCEPT ![i] = "RERUN"]
            \/ /\ thr'[t].op = "qdel" /\ thr'[t].pc = "count" /\ st[i] \in IdleStates
               /\ UNCHANGED <<st, exec>>
            \/ "qdel -p" \in asked'
<1>0. t \in Everyone /\ Overlap(i) \in SUBSET Requests /\ here \in BOOLEAN
      /\ asked \subseteq Requests /\ st \in [Ids -> MemberStates]
  BY OverlapType, TypeParts, Zenon DEF Everyone, Typed
<1>1. {"EXITING", "RERUN"} \subseteq MemberStates
      /\ {"qrun held", "rerun", "qdel", "qdel -p"} \subseteq Kinds
  BY Zenon DEF MemberStates, Listed, Kinds
<1>2. UNCHANGED <<arr, here, hold, due, dep>> /\ i \in Ids \cup {None}
  BY Zenon DEF req_runjob, handle_terminating_job, rerun_obit, execute_job_delete, force_purge_work
<1>3. asked' = asked \cup Overlap(i) => Asking(i)
  BY <1>0, Zenon DEF Asking
<1>4. \A k \in Kinds : Ask(k, Overlap(i)) => Asking(i) /\ k \in asked'
  BY <1>0, AskType, Zenon DEF Asking
<1>5. ASSUME st' \in [Ids -> MemberStates] \/ st' = st, exec' \subseteq exec, Asking(i)
      PROVE  StateTyped
  <2>1. MembersTyped
    BY <1>0, <1>2, <1>5, TypeParts, Zenon DEF MembersTyped, Asking, Typed
  <2> QED
    BY <1>2, <2>1, StayTyped, Zenon DEF StateTyped
<1>6. CASE req_runjob(t, i)
  <2>1. /\ Begin(t, "run", "slot", i) /\ st[i] \in IdleStates /\ st' = st /\ exec' = exec
        /\ Ask("qrun held", Overlap(i)) \/ asked' = asked \cup Overlap(i)
    BY <1>6, Zenon DEF req_runjob
  <2>2. Asking(i)
    BY <1>1, <1>3, <1>4, <2>1, Zenon
  <2> QED
    BY <1>0, <1>2, <1>5, <2>1, <2>2, Begun, Zenon DEF StepTyped
<1>7. CASE handle_terminating_job(t, i)
  <2>1. /\ Begin(t, "obit", "obituary", i) /\ i \in exec /\ exec' = exec \ {i} /\ st[i] = "RUNNING"
        /\ asked' = asked \cup Overlap(i) /\ st' = [st EXCEPT ![i] = "EXITING"]
    BY <1>7, Zenon DEF handle_terminating_job
  <2>2. st' \in [Ids -> MemberStates] /\ exec' \subseteq exec
    BY <1>0, <1>1, <2>1, Zenon
  <2> QED
    BY <1>0, <1>2, <1>3, <1>5, <2>1, <2>2, Begun, Zenon DEF StepTyped
<1>8. CASE rerun_obit(t, i)
  <2>1. /\ Begin(t, "rerun", "obituary", i) /\ i \in exec /\ exec' = exec \ {i} /\ st[i] = "RUNNING"
        /\ Ask("rerun", Overlap(i)) /\ st' = [st EXCEPT ![i] = "RERUN"]
    BY <1>8, Zenon DEF rerun_obit
  <2>2. st' \in [Ids -> MemberStates] /\ exec' \subseteq exec /\ Asking(i)
    BY <1>0, <1>1, <1>4, <2>1, Zenon
  <2> QED
    BY <1>0, <1>2, <1>5, <2>1, <2>2, Begun, Zenon DEF StepTyped
<1>9. CASE execute_job_delete(t, i)
  <2>1. /\ Begin(t, "qdel", "count", i) /\ st[i] \in IdleStates /\ st' = st /\ exec' = exec
        /\ Ask("qdel", Overlap(i))
    BY <1>9, Zenon DEF execute_job_delete
  <2>2. Asking(i)
    BY <1>1, <1>4, <2>1, Zenon
  <2> QED
    BY <1>0, <1>2, <1>5, <2>1, <2>2, Begun, Zenon DEF StepTyped
<1>10. CASE force_purge_work(t, i)
  <2>1. /\ Begin(t, "purge", "count", i) /\ st' = st /\ exec' = exec /\ Ask("qdel -p", Overlap(i))
    BY <1>10, Zenon DEF force_purge_work
  <2>2. Asking(i) /\ "qdel -p" \in asked'
    BY <1>1, <1>4, <2>1, Zenon
  <2> QED
    BY <1>0, <1>2, <1>5, <2>1, <2>2, Begun, Zenon DEF StepTyped
<1> QED
  BY <1>6, <1>7, <1>8, <1>9, <1>10, Zenon

\* The timed task of a complete member begins its purge; with keep_completed no member
\* is then being created.
LEMMA ExitTaskEffect ==
  ASSUME Typed, NEW t \in Threads, NEW i \in Ids, on_job_exit_task(t, i)
  PROVE  /\ StepTyped(t) /\ Asking(i) /\ thr[t] = NoCall /\ UNCHANGED <<arr, here, st, exec, dep>>
         /\ KeepCompleted => \A u \in Everyone : thr[u].pc \notin Creating
         /\ \/ thr'[t] = NoCall
            \/ /\ thr'[t].op = "exit" /\ thr'[t].pc = "mark" /\ thr'[t].i = i /\ ~thr'[t].last
               /\ st[i] = "COMPLETE"
<1>0. t \in Everyone /\ Overlap(i) \in SUBSET Requests /\ here \in BOOLEAN /\ asked \subseteq Requests
      /\ i \in Ids \cup {None}
  BY OverlapType, TypeParts, Zenon DEF Everyone, Typed
<1>1. /\ UNCHANGED <<arr, here, st, hold, dep, exec>> /\ due' = due \ {i} /\ asked' = asked \cup Overlap(i)
      /\ IF st[i] = "COMPLETE" THEN Begin(t, "exit", "mark", i) ELSE At(t, "idle") /\ thr' = thr
      /\ KeepCompleted => \A u \in Everyone : ~At(u, "enqueue") /\ ~At(u, "relock")
  BY Zenon DEF on_job_exit_task, Everyone
<1>2. Asking(i)
  BY <1>0, <1>1, Zenon DEF Asking
<1>3. StateTyped
  <2>1. MembersTyped
    BY <1>1, <1>2, TypeParts, Zenon DEF MembersTyped, Asking, Typed
  <2> QED
    BY <1>1, <2>1, StayTyped, Zenon DEF StateTyped
<1>4. KeepCompleted => \A u \in Everyone : thr[u].pc \notin Creating
  BY <1>1, Zenon DEF At, Creating
<1>5. CASE st[i] = "COMPLETE"
  <2>1. Begin(t, "exit", "mark", i)
    BY <1>1, <1>5, Zenon
  <2>2. /\ Turned(t) /\ thr[t] = NoCall
        /\ thr'[t].op = "exit" /\ thr'[t].pc = "mark" /\ thr'[t].i = i /\ ~thr'[t].last
    BY <1>0, <2>1, Begun, Zenon
  <2> QED
    BY <1>0, <1>1, <1>2, <1>3, <1>4, <1>5, <2>2, Zenon DEF StepTyped
<1>6. CASE st[i] # "COMPLETE"
  <2>1. thr[t].pc = "idle" /\ thr' = thr
    BY <1>1, <1>6, Zenon DEF At
  <2>2. thr[t] = NoCall /\ thr \in [Everyone -> CallType] /\ Hand(thr[t]) /\ (thr[t].op = "clone" => t = Cloner)
    BY <1>0, <2>1, ThreadOf, Zenon DEF Typed, Hand
  <2>3. Turned(t)
    BY <1>0, <2>1, <2>2, Zenon DEF Turned
  <2> QED
    BY <1>0, <1>1, <1>2, <1>3, <1>4, <2>1, <2>2, <2>3, Zenon DEF StepTyped
<1> QED
  BY <1>5, <1>6, Zenon

\* qdel all and qdel of the array begin with no member.
LEMMA WholeRequest ==
  ASSUME Typed, NEW t \in Threads, delete_all(t) \/ req_deletearray(t)
  PROVE  /\ StepTyped(t) /\ thr[t] = NoCall /\ UNCHANGED <<arr, here, st, exec, dep>>
         /\ \/ /\ thr'[t].op = "qdel all" /\ thr'[t].pc = "walk" /\ thr'[t].i = None /\ ~thr'[t].last
               /\ "qdel all" \in asked'
            \/ "qdel array" \in asked'
<1>0. t \in Everyone /\ here \in BOOLEAN /\ None \in Ids \cup {None} /\ {} \in SUBSET Requests
      /\ {"qdel all", "qdel array"} \subseteq Kinds
  BY TypeParts, Zenon DEF Everyone, Typed, Kinds
<1>1. UNCHANGED <<arr, here, st, hold, due, dep, exec>>
  BY Zenon DEF delete_all, req_deletearray
<1>2. ASSUME asked' \subseteq Requests, asked \subseteq asked' PROVE StateTyped
  <2>1. MembersTyped
    BY <1>1, <1>2, TypeParts, Zenon DEF MembersTyped, Typed
  <2> QED
    BY <1>1, <2>1, StayTyped, Zenon DEF StateTyped
<1>3. CASE delete_all(t)
  <2>1. Begin(t, "qdel all", "walk", None) /\ Ask("qdel all", {})
    BY <1>3, Zenon DEF delete_all
  <2>2. StateTyped /\ "qdel all" \in asked'
    BY <1>0, <1>2, <2>1, AskType, Zenon
  <2>3. /\ Turned(t) /\ thr[t] = NoCall
        /\ thr'[t].op = "qdel all" /\ thr'[t].pc = "walk" /\ thr'[t].i = None /\ ~thr'[t].last
    BY <1>0, <2>1, Begun, Zenon
  <2> QED
    BY <1>0, <1>1, <2>2, <2>3, Zenon DEF StepTyped
<1>4. CASE req_deletearray(t)
  <2>1. Begin(t, "qdel array", "next", None) /\ Ask("qdel array", {})
    BY <1>4, Zenon DEF req_deletearray
  <2>2. StateTyped /\ "qdel array" \in asked'
    BY <1>0, <1>2, <2>1, AskType, Zenon
  <2> QED
    BY <1>0, <1>1, <2>1, <2>2, Begun, Zenon DEF StepTyped
<1> QED
  BY <1>3, <1>4, Zenon

\* The end of exit processing, and an obituary refused, change no call and no count.
LEMMA AloneEffect ==
  ASSUME Typed, NEW i \in Ids, on_job_exit(i) \/ obit_refused(i)
  PROVE  /\ StateTyped /\ UNCHANGED <<arr, here, dep, thr, asked>> /\ exec' \subseteq exec
         /\ \/ st' = st
            \/ /\ st[i] = "EXITING" /\ st' = [st EXCEPT ![i] = "COMPLETE"]
               /\ \A t \in Threads : ~(At(t, "obituary") /\ thr[t].i = i)
<1>1. /\ UNCHANGED <<arr, here, hold, dep, thr, asked>> /\ exec' \subseteq exec
      /\ due' \subseteq due \cup Ids
      /\ \/ st' = st
         \/ /\ st[i] = "EXITING" /\ st' = [st EXCEPT ![i] = "COMPLETE"]
            /\ \A t \in Threads : ~(At(t, "obituary") /\ thr[t].i = i)
  BY Zenon DEF on_job_exit, obit_refused
<1>2. "COMPLETE" \in MemberStates /\ st \in [Ids -> MemberStates]
  BY TypeParts, Zenon DEF MemberStates, Listed, Typed
<1>3. st' \in [Ids -> MemberStates]
  BY <1>1, <1>2, Zenon
<1>4. StateTyped
  BY <1>1, <1>3, StayTyped, Zenon DEF StateTyped
<1> QED
  BY <1>1, <1>4, Zenon

\* Typed holds after a step that keeps the types of its parts.
LEMMA TypedFromParts ==
  ASSUME Typed, StateTyped, here' \in BOOLEAN
  PROVE  /\ \A t \in Everyone : Turned(t) => Typed'
         /\ thr' = thr => Typed'
<1>1. ASSUME thr' \in [Everyone -> CallType],
             \A t \in Everyone : Hand(thr'[t]) /\ (thr'[t].op = "clone" => t = Cloner)
      PROVE  Typed'
  <2>1. TypeOK'
    BY <1>1, Zenon DEF TypeOK, StateTyped, MembersTyped, ArrType, Everyone, Requests
  <2> QED
    BY <1>1, <2>1, Zenon DEF Typed, Hand, Everyone
<1>2. thr \in [Everyone -> CallType]
  BY Zenon DEF Typed, TypeOK, Everyone
<1>3. \A u \in Everyone : Hand(thr[u]) /\ (thr[u].op = "clone" => u = Cloner)
  BY Zenon DEF Typed
<1>4. ASSUME NEW t \in Everyone, Turned(t) PROVE Typed'
  <2>1. thr' \in [Everyone -> CallType]
    BY <1>4, Zenon DEF Turned
  <2>2. ASSUME NEW u \in Everyone PROVE Hand(thr'[u]) /\ (thr'[u].op = "clone" => u = Cloner)
    <3>1. CASE u = t
      BY <1>4, <3>1, Zenon DEF Turned
    <3>2. CASE u # t
      <4>1. thr'[u] = thr[u]
        BY <1>4, <3>2, Zenon DEF Turned
      <4> QED
        BY <1>3, <4>1, Zenon
    <3> QED
      BY <3>1, <3>2, Zenon
  <2> QED
    BY <1>1, <2>1, <2>2, Zenon
<1>5. thr' = thr => Typed'
  BY <1>1, <1>2, <1>3, Zenon
<1> QED
  BY <1>4, <1>5, Zenon

\* Every step keeps the types, jobs_running in 0 .. num_jobs among them, and a request
\* once made stays remembered.
LEMMA TypesNext ==
  ASSUME Typed, Extremes, [Next]_vars
  PROVE  Typed' /\ asked \subseteq asked'
<1>1. ASSUME NEW t \in Everyone, StepTyped(t) PROVE Typed' /\ asked \subseteq asked'
  BY <1>1, TypedFromParts, Zenon DEF StepTyped, StateTyped, MembersTyped
<1>2. ASSUME NEW t \in Everyone, Continue(t) PROVE Typed' /\ asked \subseteq asked'
  BY <1>1, <1>2, ContinueTypes, Zenon
<1>3. ASSUME NEW t \in Threads, Request(t) PROVE Typed' /\ asked \subseteq asked'
  <2>1. t \in Everyone
    BY Zenon DEF Everyone
  <2>2. StepTyped(t)
    BY <1>3, MemberRequest, ExitTaskEffect, WholeRequest, Zenon DEF Request
  <2> QED
    BY <1>1, <2>1, <2>2, Zenon
<1>4. ASSUME NEW i \in Ids, on_job_exit(i) \/ obit_refused(i) PROVE Typed' /\ asked \subseteq asked'
  <2>1. StateTyped /\ here' = here /\ thr' = thr
    BY <1>4, AloneEffect, Zenon
  <2>2. here' \in BOOLEAN
    BY <2>1, TypeParts, Zenon DEF Typed
  <2> QED
    BY <2>1, <2>2, TypedFromParts, Zenon DEF StateTyped, MembersTyped
<1>5. CASE UNCHANGED vars
  <2>1. StateTyped /\ here' \in BOOLEAN /\ thr' = thr
    BY <1>5, TypeParts, Zenon DEF vars, StateTyped, MembersTyped, Typed
  <2> QED
    BY <2>1, TypedFromParts, Zenon DEF StateTyped, MembersTyped
<1> QED
  BY <1>2, <1>3, <1>4, <1>5, Zenon DEF Next, Everyone


-----------------------------------------------------------------------------
(* The inductive invariant *)

\* What the properties below ask of a site: no call is made for a member that another
\* call deals with, nothing is purged by force, the array is not deleted as such.
Calm == asked \cap {"overlap", "qdel -p", "qdel array"} = {}

\* The member a call is about is where the call left it.
CallOK(c) ==
  /\ c.op \notin {"purge", "qdel array"}
  /\ c.pc \in Tail \cup {"slot", "count"} => st[c.i] \in IdleStates
  /\ c.pc = "obituary" => /\ c.i \notin exec
                          /\ c.op = "obit" => st[c.i] = "EXITING"
                          /\ c.op = "rerun" => st[c.i] \in IdleStates \cup {"RERUN"}
  /\ c.pc = "requeue" => st[c.i] \in IdleStates \cup {"RERUN"}
  /\ c.pc \in {"mark", "free"} => st[c.i] = "COMPLETE"
  /\ c.pc = "reap" => c.last
  /\ c.op = "qdel all" => "qdel all" \in asked

\* The thread of job_clone_wt clones and does nothing else.
CloneCall == LET c == thr[Cloner]
             IN  /\ c.op \in {"none", "clone"} /\ c.i = None /\ ~c.last
                 /\ c.pc \in Creating => c.new \notin arr.uncreated

\* Every call is where its member says.
Calls == CloneCall /\ \A t \in Threads : CallOK(thr[t])

\* Two calls are never about the same member.
Solo == \A t, u \in Threads : t # u /\ thr[t].i # None => thr[t].i # thr[u].i

\* A member that is being created is in no list yet or already in alljobs, and each has one
\* creator; an index left to create is of a member that has not been.
Clones ==
  /\ \A t \in Everyone : At(t, "enqueue") =>
       /\ st[thr[t].new] = "NEW"
       /\ \A u \in Everyone \ {t} : At(u, "enqueue") => thr[u].new # thr[t].new
  /\ \A t \in Everyone : At(t, "relock") =>
       /\ st[thr[t].new] \in Listed
       /\ \A u \in Threads : thr[u].pc \in {"mark", "free"} => thr[u].i # thr[t].new
  /\ here => \A k \in arr.uncreated :
       /\ st[k] # "GONE"
       /\ st[k] \in Listed => \E t \in Threads : At(t, "relock") /\ thr[t].new = k

\* The members that svr_job_purge is done with, or has counted and is about to free.
Freeing(i) == \E t \in Threads : At(t, "free") /\ thr[t].i = i
Purged == {i \in Ids : st[i] = "GONE" \/ Freeing(i)}

\* num_purged counts no member that is not purged, and the array waits for all of them.
Purges ==
  /\ arr.num_purged <= Cardinality(Purged)
  /\ "qdel all" \notin asked =>
       /\ ~arr.being_deleted
       /\ ~here \/ (\E t \in Threads : thr[t].last) => Purged = Ids

\* A call that holds a slot for its member.
Charges(c) == c.pc = "obituary" \/ (c.op = "run" /\ c.pc \in Tail)
\* The members that execute, or for which a call holds a slot.
Charged == exec \cup {i \in Ids : \E t \in Threads : thr[t].i = i /\ Charges(thr[t])}

\* Every slot in use is counted, and no more are than there are.
Slots == "qdel all" \notin asked /\ SlotLimit >= 0 =>
           Cardinality(Charged) <= arr.jobs_running /\ arr.jobs_running <= SlotLimit

\* The members whose end the array has been told of, or is about to be without obituary.
Ended == {i \in Ids : st[i] \in Finished /\ ~\E t \in Threads : At(t, "obituary") /\ thr[t].i = i}

\* jobs_done, and what a thread has read of it, counts no member that has not ended.
Endings ==
  /\ arr.jobs_done <= Cardinality(Ended)
  /\ \A t \in Threads : At(t, "tail2") => thr[t].seen <= Cardinality(Ended)
  /\ dep => Ended = Ids

\* What the array promises, and what every call relies on.
Sound == Calls /\ Solo /\ Clones /\ Purges /\ Slots /\ Endings

\* The inductive invariant.
ArrayInv == Typed /\ (KeepCompleted /\ Calm => Sound)

-----------------------------------------------------------------------------
(* What a step of thread t may do *)

\* A member goes from state to state the way the code moves it, the one of thread t's call
\* by a start, a completion or a purge.
MemberStep(t) ==
  \A j \in Ids :
    \/ st'[j] = st[j]
    \/ st[j] \in Going /\ st'[j] \in IdleStates
    \/ /\ st[j] = "NEW" /\ thr[t].pc = "enqueue" /\ thr[t].new = j
       /\ st'[j] = "LOST" \/ (st'[j] \in IdleStates /\ thr'[t].pc = "relock" /\ thr'[t].new = j)
    \/ st[j] = "NONE" /\ st'[j] = "NEW"
    \/ j = thr[t].i /\ st[j] \in IdleStates /\ st'[j] \in {"RUNNING", "COMPLETE"}
    \/ st[j] = "RUNNING" /\ st'[j] \in {"EXITING", "RERUN"}
    \/ j = thr[t].i /\ thr[t].pc = "free" /\ st[j] = "COMPLETE" /\ st'[j] = "GONE"

\* The call of thread t is again where its member says; a new member was in no call.
OwnStep(t) ==
  /\ asked \subseteq asked' /\ exec' \subseteq exec \cup {thr[t].i} /\ exec' \subseteq Ids
  /\ IF t = Cloner THEN CloneCall' ELSE CallOK(thr[t])'
  /\ thr'[t].i \in {None, thr[t].i} \/ \A u \in Threads : thr[u].i # thr'[t].i
  /\ thr'[t].pc = "obituary" => st[thr'[t].i] = "RUNNING"

\* Indices are only taken off those left to create, and a purge begins while nothing is
\* being created.
CreateStep(t) ==
  /\ arr'.uncreated \subseteq arr.uncreated /\ (here' => here)
  /\ thr[t].pc = "relock" /\ here' => thr[t].new \notin arr'.uncreated
  /\ thr'[t].pc = "enqueue" => st[thr'[t].new] = "NONE" /\ st'[thr'[t].new] = "NEW"
  /\ thr'[t].pc = "relock" => /\ thr[t].pc = "enqueue" /\ thr'[t].new = thr[t].new
                              /\ st'[thr'[t].new] \in IdleStates
  /\ thr'[t].pc \in {"mark", "free"} =>
       \/ thr[t].pc \in {"mark", "free"} /\ thr'[t].i = thr[t].i
       \/ \A u \in Everyone : thr[u].pc \notin Creating

\* num_purged counts the member about to be freed, and only the last purge, or a qdel all,
\* lets the array go.
PurgeStep(t) ==
  /\ \/ arr'.num_purged = arr.num_purged
     \/ /\ thr[t].pc = "mark" /\ thr'[t].pc = "free" /\ thr'[t].i = thr[t].i
        /\ arr'.num_purged = arr.num_purged + 1
  /\ thr[t].pc = "free" => st'[thr[t].i] = "GONE"
  /\ arr'.being_deleted => arr.being_deleted \/ "qdel all" \in asked'
  /\ thr'[t].last => thr[t].last \/ arr'.num_purged = NumJobs \/ arr'.being_deleted
  /\ ~here' => ~here \/ thr[t].last

\* jobs_running stays, grows for a start below the limit, or shrinks for an end.
SlotStep(t) ==
  "qdel all" \notin asked' /\ SlotLimit >= 0 =>
    \/ /\ arr'.jobs_running = arr.jobs_running
       /\ exec' \subseteq exec \/ (Charges(thr[t]) /\ exec' \subseteq exec \cup {thr[t].i})
       /\ Charges(thr'[t]) => thr'[t].i \in exec \/ (Charges(thr[t]) /\ thr'[t].i = thr[t].i)
    \/ /\ exec' \subseteq exec \cup {thr[t].i} /\ thr'[t].i \in {None, thr[t].i}
       /\ arr.jobs_running < SlotLimit
       /\ arr'.jobs_running = IF arr.jobs_running < NumJobs THEN arr.jobs_running + 1
                              ELSE arr.jobs_running
    \/ /\ thr[t].pc = "obituary" /\ exec' \subseteq exec /\ ~Charges(thr'[t])
       /\ arr'.jobs_running = IF arr.jobs_running > 0 THEN arr.jobs_running - 1 ELSE 0

\* jobs_done grows only by a member that ends in this step, also in the unlocked write.
DoneStep(t) ==
  /\ \/ arr'.jobs_done = arr.jobs_done
     \/ /\ \/ arr'.jobs_done = arr.jobs_done + 1
           \/ thr[t].pc = "tail2" /\ arr'.jobs_done = thr[t].seen + 1
        /\ thr[t].i \in Ids /\ (st[thr[t].i] \in Finished => thr[t].pc = "obituary")
        /\ st'[thr[t].i] \in Finished /\ thr'[t].pc # "obituary"
  /\ thr'[t].pc = "tail2" => thr'[t].seen = arr.jobs_done
  /\ dep' => dep \/ arr'.jobs_done >= NumJobs

\* All of it.
Step(t) == /\ Turned(t) /\ arr' \in ArrType /\ MemberStep(t) /\ OwnStep(t) /\ CreateStep(t)
           /\ PurgeStep(t) /\ SlotStep(t) /\ DoneStep(t)

-----------------------------------------------------------------------------
(* Such a step keeps the invariant *)

\* A thread's call and the calls of the others.
LEMMA OtherCalls ==
  ASSUME NEW t \in Everyone, Turned(t)
  PROVE  /\ \A u \in Everyone : u # t => thr'[u] = thr[u]
         /\ \A u \in Threads : u \in Everyone
         /\ Cloner \in Everyone /\ Cloner \notin Threads
BY JobArrayAssumption, Zenon DEF Turned, Everyone

\* What a call of a request thread is about.
LEMMA CallFacts ==
  ASSUME Typed, NEW t \in Threads
  PROVE  /\ thr[t].op # "clone" /\ thr[t].pc # "clone" /\ t \in Everyone
         /\ thr[t].pc \in Tail \cup {"slot", "count", "obituary", "requeue", "mark", "free"} => thr[t].i \in Ids
         /\ thr[t].pc = "obituary" => thr[t].op \in {"obit", "rerun"}
         /\ thr[t].pc \in Creating => thr[t].new \in Ids
<1>1. t \in Everyone /\ t # Cloner
  BY JobArrayAssumption, Zenon DEF Everyone
<1>2. Hand(thr[t]) /\ thr[t].op # "clone"
  BY <1>1, Zenon DEF Typed
<1>3. thr[t].pc \in Tail \cup {"slot", "count", "obituary", "requeue", "mark", "free"} => thr[t].i \in Ids
  <2>1. thr[t].op = "none" => thr[t].pc \notin Tail \cup {"slot", "count", "obituary", "requeue", "mark", "free"}
    BY <1>2, Zenon DEF Hand, Tail, Creating
  <2>2. thr[t].pc \in Tail \cup {"slot", "count", "obituary", "requeue", "mark", "free"} =>
          thr[t].pc \notin {"walk", "next", "reap"}
    BY Zenon DEF Tail, Creating
  <2> QED
    BY <1>2, <2>1, <2>2, Zenon DEF Hand
<1> QED
  BY <1>1, <1>2, <1>3, Zenon DEF Hand

\* The cloning thread does nothing else.
LEMMA CloneFacts ==
  ASSUME Typed, Calls, NEW t \in Everyone
  PROVE  thr[t].pc \in {"slot", "count", "obituary", "requeue", "mark", "free", "reap", "walk", "next",
                        "tail", "tail2"} => t \in Threads
<1>1. t = Cloner => thr[t].op \in {"none", "clone"}
  BY Zenon DEF Calls, CloneCall
<1>2. Hand(thr[t])
  BY Zenon DEF Typed
<1>3. thr[t].op \in {"none", "clone"} =>
        thr[t].pc \notin {"slot", "count", "obituary", "requeue", "mark", "free", "reap", "walk", "next",
                        "tail", "tail2"}
  BY <1>2, Zenon DEF Hand, Tail, Creating
<1> QED
  BY <1>1, <1>3, Zenon DEF Everyone

\* No step moves the member of another thread's call, so every call stays where it was.
LEMMA CallsKept ==
  ASSUME Typed, Calls, Solo, NEW t \in Everyone, Step(t)
  PROVE  Calls'
<1>1. MemberStep(t) /\ OwnStep(t) /\ CreateStep(t) /\ Turned(t)
  BY Zenon DEF Step
<1>2. CloneCall'
  <2>1. CASE t = Cloner
    BY <1>1, <2>1, Zenon DEF OwnStep
  <2>2. CASE t # Cloner
    <3>1. thr'[Cloner] = thr[Cloner]
      BY <1>1, <2>2, OtherCalls, Zenon
    <3>2. arr'.uncreated \subseteq arr.uncreated
      BY <1>1, Zenon DEF CreateStep
    <3>3. CloneCall
      BY Zenon DEF Calls
    <3> QED
      BY <3>1, <3>2, <3>3, Zenon DEF CloneCall
  <2> QED
    BY <2>1, <2>2, Zenon
<1>3. ASSUME NEW u \in Threads PROVE CallOK(thr[u])'
  <2>1. CASE u = t
    <3>1. t # Cloner
      BY <2>1, JobArrayAssumption, Zenon
    <3> QED
      BY <1>1, <2>1, <3>1, Zenon DEF OwnStep
  <2>2. CASE u # t
    <3>0. PICK d : d = thr[u]
      BY Zenon
    <3>1. thr'[u] = d
      BY <1>1, <2>2, <3>0, OtherCalls, Zenon
    <3>2. CallOK(d)
      BY <3>0, Zenon DEF Calls
    <3>3. d.i \in Ids => d.i # thr[t].i
      <4>1. CASE t = Cloner
        BY <4>1, NoneAssumption, Zenon DEF Calls, CloneCall
      <4>2. CASE t # Cloner
        BY <2>2, <3>0, <4>2, NoneAssumption, Zenon DEF Solo, Everyone
      <4> QED
        BY <4>1, <4>2, Zenon
    <3>4. d.i \in Ids /\ d.i \notin exec => d.i \notin exec'
      BY <1>1, <3>3, Zenon DEF OwnStep
    <3>5. d.i \in Ids => /\ st[d.i] \in IdleStates => st'[d.i] \in IdleStates
                         /\ st[d.i] \in IdleStates \cup {"RERUN"} => st'[d.i] \in IdleStates \cup {"RERUN"}
                         /\ st[d.i] = "EXITING" => st'[d.i] = "EXITING"
                         /\ st[d.i] = "COMPLETE" => st'[d.i] = "COMPLETE"
      BY <1>1, <3>3, Zenon DEF MemberStep, IdleStates, Going
    <3>6. /\ d.pc \in Tail \cup {"slot", "count", "obituary", "requeue", "mark", "free"} => d.i \in Ids
      BY <3>0, CallFacts, Zenon
    <3>7. asked \subseteq asked'
      BY <1>1, Zenon DEF OwnStep
    <3>8. CallOK(d)'
      BY <3>2, <3>4, <3>5, <3>6, <3>7, Zenon DEF CallOK
    <3> QED
      BY <3>1, <3>8, Zenon DEF CallOK
  <2> QED
    BY <2>1, <2>2, Zenon
<1> QED
  BY <1>2, <1>3, Zenon DEF Calls

\* A member is in one call at a time.
LEMMA SoloKept ==
  ASSUME Typed, Solo, NEW t \in Everyone, Step(t)
  PROVE  Solo'
<1>1. OwnStep(t) /\ Turned(t)
  BY Zenon DEF Step
<1>2. ASSUME NEW u \in Threads, NEW v \in Threads, u # v, thr'[u].i # None
      PROVE  thr'[u].i # thr'[v].i
  <2>1. CASE u # t /\ v # t
    BY <1>1, <1>2, <2>1, OtherCalls, Zenon DEF Solo
  <2>2. CASE u = t
    <3>1. thr'[v] = thr[v]
      BY <1>1, <1>2, <2>2, OtherCalls, Zenon
    <3>2. thr'[t].i = thr[t].i \/ thr[v].i # thr'[t].i
      BY <1>1, <1>2, <2>2, Zenon DEF OwnStep
    <3> QED
      BY <1>2, <2>2, <3>1, <3>2, Zenon DEF Solo
  <2>3. CASE v = t
    <3>1. thr'[u] = thr[u]
      BY <1>1, <1>2, <2>3, OtherCalls, Zenon
    <3>2. thr'[t].i \in {None, thr[t].i} \/ thr[u].i # thr'[t].i
      BY <1>1, Zenon DEF OwnStep
    <3> QED
      BY <1>2, <2>3, <3>1, <3>2, Zenon DEF Solo
  <2> QED
    BY <2>1, <2>2, <2>3, Zenon
<1> QED
  BY <1>2, Zenon DEF Solo

\* A member in the making has one creator and is not purged meanwhile, so no index left
\* to create is of a purged member.
LEMMA ClonesKept ==
  ASSUME Typed, Calls, Clones, NEW t \in Everyone, Step(t)
  PROVE  Clones'
<1>1. MemberStep(t) /\ CreateStep(t) /\ Turned(t)
  BY Zenon DEF Step
<1>2. \A u \in Everyone : thr[u].pc \in Creating => thr[u].new \in Ids
  BY Zenon DEF Typed, Hand
<1>3. \A u \in Threads : thr[u].pc \in {"mark", "free"} => thr[u].i \in Ids /\ st[thr[u].i] = "COMPLETE"
  <2> TAKE u \in Threads
  <2>1. CallOK(thr[u])
    BY Zenon DEF Calls
  <2> QED
    BY <2>1, CallFacts, Zenon DEF CallOK
<1>4. \A u \in Everyone : thr[u].pc = "enqueue" =>
        /\ st[thr[u].new] = "NEW" /\ thr[u].new \in Ids
        /\ \A v \in Everyone \ {u} : thr[v].pc = "enqueue" => thr[v].new # thr[u].new
  BY <1>2, Zenon DEF Clones, At, Creating
<1>5. \A u \in Everyone : thr[u].pc = "relock" =>
        /\ st[thr[u].new] \in Listed /\ thr[u].new \in Ids
        /\ \A v \in Threads : thr[v].pc \in {"mark", "free"} => thr[v].i # thr[u].new
  BY <1>2, Zenon DEF Clones, At, Creating
<1>6. \A u \in Everyone : u # t => thr'[u] = thr[u]
  BY <1>1, OtherCalls, Zenon
<1>7. ASSUME NEW u \in Everyone, thr'[u].pc = "enqueue"
      PROVE  st'[thr'[u].new] = "NEW" /\ \A v \in Everyone \ {u} : thr'[v].pc = "enqueue" => thr'[v].new # thr'[u].new
  <2>1. CASE u = t
    <3>1. st[thr'[t].new] = "NONE" /\ st'[thr'[t].new] = "NEW"
      BY <1>1, <1>7, <2>1, Zenon DEF CreateStep
    <3> QED
      BY <1>4, <1>6, <2>1, <3>1, Zenon
  <2>2. CASE u # t
    <3>1. thr[u].pc = "enqueue" /\ thr'[u] = thr[u]
      BY <1>6, <1>7, <2>2, Zenon
    <3>2. st[thr[u].new] = "NEW" /\ thr[u].new \in Ids
          /\ \A v \in Everyone \ {u} : thr[v].pc = "enqueue" => thr[v].new # thr[u].new
      BY <1>4, <3>1, Zenon
    <3>3. ~(thr[t].pc = "enqueue" /\ thr[t].new = thr[u].new)
      BY <2>2, <3>2, Zenon
    <3>4. st'[thr[u].new] = "NEW"
      BY <1>1, <3>2, <3>3, Zenon DEF MemberStep, IdleStates, Going
    <3>5. thr'[t].pc = "enqueue" => thr'[t].new # thr[u].new
      BY <1>1, <3>2, Zenon DEF CreateStep
    <3> QED
      BY <1>6, <3>1, <3>2, <3>4, <3>5, Zenon
  <2> QED
    BY <2>1, <2>2, Zenon
<1>8. ASSUME NEW u \in Everyone, thr'[u].pc = "relock"
      PROVE  /\ st'[thr'[u].new] \in Listed
             /\ \A v \in Threads : thr'[v].pc \in {"mark", "free"} => thr'[v].i # thr'[u].new
  <2>1. CASE u = t
    <3>1. thr[t].pc = "enqueue" /\ thr'[t].new = thr[t].new /\ st'[thr'[t].new] \in IdleStates
      BY <1>1, <1>8, <2>1, Zenon DEF CreateStep
    <3>2. st[thr[t].new] = "NEW"
      BY <1>4, <3>1, Zenon
    <3>3. \A v \in Threads : v # t => thr'[v] = thr[v]
      BY <1>6, Zenon DEF Everyone
    <3>4. thr'[t].pc \notin {"mark", "free"}
      BY <1>8, <2>1, Zenon
    <3> QED
      BY <1>3, <2>1, <3>1, <3>2, <3>3, <3>4, Zenon DEF Listed
  <2>2. CASE u # t
    <3>1. thr[u].pc = "relock" /\ thr'[u] = thr[u]
      BY <1>6, <1>8, <2>2, Zenon
    <3>2. /\ st[thr[u].new] \in Listed /\ thr[u].new \in Ids
          /\ \A v \in Threads : thr[v].pc \in {"mark", "free"} => thr[v].i # thr[u].new
      BY <1>5, <3>1, Zenon
    <3>3. thr[t].pc = "free" => t \in Threads
      BY CloneFacts, Zenon
    <3>4. ~(thr[t].pc = "free" /\ thr[t].i = thr[u].new)
      BY <3>2, <3>3, Zenon
    <3>5. st'[thr[u].new] \in Listed
      BY <1>1, <3>2, <3>4, Zenon DEF MemberStep, Listed, IdleStates
    <3>6. ASSUME NEW v \in Threads, thr'[v].pc \in {"mark", "free"} PROVE thr'[v].i # thr[u].new
      <4>1. CASE v # t
        BY <1>6, <3>2, <3>6, <4>1, Zenon DEF Everyone
      <4>2. CASE v = t
        <5>1. thr[t].pc \in {"mark", "free"} /\ thr'[t].i = thr[t].i
          BY <1>1, <3>1, <3>6, <4>2, Zenon DEF CreateStep, Creating
        <5> QED
          BY <3>2, <4>2, <5>1, Zenon
      <4> QED
        BY <4>1, <4>2, Zenon
    <3> QED
      BY <3>1, <3>5, <3>6, Zenon
  <2> QED
    BY <2>1, <2>2, Zenon
<1>9. ASSUME here', NEW k \in arr'.uncreated
      PROVE  /\ st'[k] # "GONE"
             /\ st'[k] \in Listed => \E u \in Threads : thr'[u].pc = "relock" /\ thr'[u].new = k
  <2>1. here /\ k \in arr.uncreated /\ (thr[t].pc = "relock" => thr[t].new # k)
    BY <1>1, <1>9, Zenon DEF CreateStep
  <2>2. k \in Ids
    BY <2>1, TypeParts, ArrParts, Zenon DEF Typed
  <2>3. st[k] # "GONE" /\ (st[k] \in Listed => \E u \in Threads : thr[u].pc = "relock" /\ thr[u].new = k)
    BY <2>1, Zenon DEF Clones, At
  <2>4. ASSUME st[k] \in Listed
        PROVE  /\ \E u \in Threads : thr'[u].pc = "relock" /\ thr'[u].new = k
               /\ ~(thr[t].pc = "free" /\ thr[t].i = k)
    <3>1. PICK u \in Threads : thr[u].pc = "relock" /\ thr[u].new = k
      BY <2>3, <2>4, Zenon
    <3>2. u # t /\ u \in Everyone
      BY <2>1, <3>1, Zenon DEF Everyone
    <3>3. thr'[u] = thr[u]
      BY <1>6, <3>2, Zenon
    <3>4. thr[t].pc = "free" => t \in Threads
      BY CloneFacts, Zenon
    <3>5. ~(thr[t].pc = "free" /\ thr[t].i = k)
      BY <1>5, <3>1, <3>2, <3>4, Zenon
    <3> QED
      BY <3>1, <3>3, <3>5, Zenon
  <2>5. st'[k] # "GONE"
    BY <1>1, <2>2, <2>3, <2>4, Zenon DEF MemberStep, Listed, IdleStates
  <2>6. ASSUME st'[k] \in Listed PROVE \E u \in Threads : thr'[u].pc = "relock" /\ thr'[u].new = k
    <3>1. CASE st[k] \in Listed
      BY <2>4, <3>1, Zenon
    <3>2. CASE st[k] \notin Listed
      <4>1. thr[t].pc = "enqueue" /\ thr[t].new = k /\ thr'[t].pc = "relock" /\ thr'[t].new = k
        BY <1>1, <2>2, <2>6, <3>2, Zenon DEF MemberStep, Listed, IdleStates, Going
      <4>2. t # Cloner
        BY <2>1, <4>1, Zenon DEF Calls, CloneCall, Creating
      <4> QED
        BY <4>1, <4>2, Zenon DEF Everyone
    <3> QED
      BY <3>1, <3>2, Zenon
  <2> QED
    BY <2>5, <2>6, Zenon
<1> QED
  BY <1>7, <1>8, <1>9, Zenon DEF Clones, At

\* num_purged counts no member twice, and reaches num_jobs with the last member.
LEMMA PurgesKept ==
  ASSUME Typed, Counting, Calls, Solo, Purges, NEW t \in Everyone, Step(t)
  PROVE  Purges'
<1>1. MemberStep(t) /\ PurgeStep(t) /\ Turned(t) /\ OwnStep(t)
  BY Zenon DEF Step
<1>2. \A u \in Everyone : u # t => thr'[u] = thr[u]
  BY <1>1, OtherCalls, Zenon
<1>3. Purged \in SUBSET Ids /\ Purged' \in SUBSET Ids
  BY Zenon DEF Purged
<1>4. Purged \subseteq Purged'
  <2>1. SUFFICES ASSUME NEW i \in Ids, st[i] = "GONE" \/ \E u \in Threads : thr[u].pc = "free" /\ thr[u].i = i
                 PROVE  st'[i] = "GONE" \/ \E u \in Threads : thr'[u].pc = "free" /\ thr'[u].i = i
    BY Zenon DEF Purged, Freeing, At
  <2>2. CASE st[i] = "GONE"
    BY <1>1, <2>2, Zenon DEF MemberStep, Going, IdleStates
  <2>3. ASSUME NEW u \in Threads, thr[u].pc = "free", thr[u].i = i
        PROVE  st'[i] = "GONE" \/ \E v \in Threads : thr'[v].pc = "free" /\ thr'[v].i = i
    <3>1. CASE u = t
      BY <1>1, <2>3, <3>1, Zenon DEF PurgeStep
    <3>2. CASE u # t
      BY <1>2, <2>3, <3>2, Zenon DEF Everyone
    <3> QED
      BY <3>1, <3>2, Zenon
  <2> QED
    BY <2>1, <2>2, <2>3, Zenon
<1>5. /\ Cardinality(Purged) \in Nat /\ Cardinality(Purged') \in Nat
      /\ Cardinality(Purged) <= Cardinality(Purged') /\ Cardinality(Purged') <= NumJobs
      /\ Cardinality(Purged') = NumJobs => Purged' = Ids
  BY <1>3, <1>4, Zenon DEF Counting
<1>6. arr.num_purged \in Nat /\ arr.num_purged <= Cardinality(Purged) /\ arr'.num_purged \in Nat
  <2>1. arr \in ArrType /\ arr' \in ArrType
    BY TypeParts, Zenon DEF Typed, Step
  <2> QED
    BY <2>1, ArrParts, Zenon DEF Purges
<1>7. arr'.num_purged <= Cardinality(Purged')
  <2>1. CASE arr'.num_purged = arr.num_purged
    BY <1>5, <1>6, <2>1, SMT
  <2>2. CASE /\ thr[t].pc = "mark" /\ thr'[t].pc = "free" /\ thr'[t].i = thr[t].i
             /\ arr'.num_purged = arr.num_purged + 1
    <3> DEFINE i == thr[t].i
    <3>1. t \in Threads
      BY <2>2, CloneFacts, Zenon
    <3>2. i \in Ids /\ st[i] = "COMPLETE"
      <4>1. CallOK(thr[t])
        BY <3>1, Zenon DEF Calls
      <4> QED
        BY <2>2, <3>1, <4>1, CallFacts, Zenon DEF CallOK
    <3>3. i \notin Purged
      <4>1. ~\E u \in Threads : thr[u].pc = "free" /\ thr[u].i = i
        BY <2>2, <3>1, <3>2, NoneAssumption, Zenon DEF Solo
      <4> QED
        BY <3>2, <4>1, Zenon DEF Purged, Freeing, At
    <3>4. i \in Purged'
      BY <2>2, <3>1, <3>2, Zenon DEF Purged, Freeing, At
    <3>5. Purged \cup {i} \subseteq Purged' /\ i \in Ids \ Purged /\ Purged \cup {i} \in SUBSET Ids
      BY <1>3, <1>4, <3>2, <3>3, <3>4, Zenon
    <3>6. Cardinality(Purged \cup {i}) = Cardinality(Purged) + 1
      BY <1>3, <3>5, Zenon DEF Counting
    <3>7. Cardinality(Purged \cup {i}) <= Cardinality(Purged')
      BY <1>3, <3>5, Zenon DEF Counting
    <3> HIDE DEF i
    <3> QED
      BY <1>5, <1>6, <2>2, <3>6, <3>7, SMT
  <2> QED
    BY <1>1, <2>1, <2>2, Zenon DEF PurgeStep
<1>8. ASSUME "qdel all" \notin asked'
      PROVE  /\ ~arr'.being_deleted
             /\ ~here' \/ (\E u \in Threads : thr'[u].last) => Purged' = Ids
  <2>1. "qdel all" \notin asked
    BY <1>1, <1>8, Zenon DEF OwnStep
  <2>2. ~arr.being_deleted /\ (~here \/ (\E u \in Threads : thr[u].last) => Purged = Ids)
    BY <2>1, Zenon DEF Purges
  <2>3. ~arr'.being_deleted
    BY <1>1, <1>8, <2>2, Zenon DEF PurgeStep
  <2>4. Purged = Ids => Purged' = Ids
    BY <1>3, <1>4, Zenon
  <2>5. thr[t].last => t \in Threads
    BY Zenon DEF Calls, CloneCall, Everyone
  <2>6. arr'.num_purged = NumJobs => Purged' = Ids
    <3>1. arr'.num_purged = NumJobs => Cardinality(Purged') = NumJobs
      BY <1>5, <1>6, <1>7, Numbers, SMT
    <3> QED
      BY <1>5, <3>1, Zenon
  <2>7. ~here' => Purged' = Ids
    BY <1>1, <2>2, <2>4, <2>5, Zenon DEF PurgeStep
  <2>8. ASSUME NEW u \in Threads, thr'[u].last PROVE Purged' = Ids
    <3>1. CASE u # t
      BY <1>2, <2>2, <2>4, <2>8, <3>1, Zenon DEF Everyone
    <3>2. CASE u = t
      BY <1>1, <2>2, <2>3, <2>4, <2>6, <2>8, <3>2, Zenon DEF PurgeStep
    <3> QED
      BY <3>1, <3>2, Zenon
  <2> QED
    BY <2>3, <2>7, <2>8, Zenon
<1> QED
  BY <1>7, <1>8, Zenon DEF Purges

\* jobs_done, written from a stale read or not, never counts a member that goes on.
LEMMA EndingsKept ==
  ASSUME Typed, Counting, Calls, Solo, Endings, NEW t \in Everyone, Step(t)
  PROVE  Endings'
<1>1. MemberStep(t) /\ DoneStep(t) /\ Turned(t) /\ OwnStep(t)
  BY Zenon DEF Step
<1>2. \A u \in Everyone : u # t => thr'[u] = thr[u]
  BY <1>1, OtherCalls, Zenon
<1>3. Ended \in SUBSET Ids /\ Ended' \in SUBSET Ids
  BY Zenon DEF Ended
<1>4. Ended \subseteq Ended'
  <2>1. SUFFICES ASSUME NEW i \in Ids, st[i] \in Finished,
                        ~\E u \in Threads : thr[u].pc = "obituary" /\ thr[u].i = i
                 PROVE  st'[i] \in Finished /\ ~\E u \in Threads : thr'[u].pc = "obituary" /\ thr'[u].i = i
    BY Zenon DEF Ended, At
  <2>2. st'[i] \in Finished
    BY <1>1, <2>1, Zenon DEF MemberStep, Finished, Going, IdleStates
  <2>3. ASSUME NEW u \in Threads, thr'[u].pc = "obituary", thr'[u].i = i PROVE FALSE
    <3>1. CASE u = t
      <4>1. st[i] = "RUNNING"
        BY <1>1, <2>3, <3>1, Zenon DEF OwnStep
      <4> QED
        BY <2>1, <4>1, Zenon DEF Finished
    <3>2. CASE u # t
      BY <1>2, <2>1, <2>3, <3>2, Zenon DEF Everyone
    <3> QED
      BY <3>1, <3>2, Zenon
  <2> QED
    BY <2>2, <2>3, Zenon
<1>5. /\ Cardinality(Ended) \in Nat /\ Cardinality(Ended') \in Nat
      /\ Cardinality(Ended) <= Cardinality(Ended') /\ Cardinality(Ended') <= NumJobs
      /\ Cardinality(Ended') = NumJobs => Ended' = Ids
  BY <1>3, <1>4, Zenon DEF Counting
<1>6. arr.jobs_done \in Nat /\ arr.jobs_done <= Cardinality(Ended) /\ arr'.jobs_done \in Nat
  <2>1. arr \in ArrType /\ arr' \in ArrType
    BY TypeParts, Zenon DEF Typed, Step
  <2> QED
    BY <2>1, ArrParts, Zenon DEF Endings
<1>7. \A u \in Threads : thr[u].seen \in Nat /\ (thr[u].pc = "tail2" => thr[u].seen <= Cardinality(Ended))
  <2> TAKE u \in Threads
  <2>1. thr[u] \in CallType
    BY ThreadOf, Zenon DEF Typed, Everyone
  <2> QED
    BY <2>1, CallParts, Zenon DEF Endings, At
<1>8. arr'.jobs_done <= Cardinality(Ended')
  <2>1. CASE arr'.jobs_done = arr.jobs_done
    BY <1>5, <1>6, <2>1, SMT
  <2>2. CASE /\ \/ arr'.jobs_done = arr.jobs_done + 1
                \/ thr[t].pc = "tail2" /\ arr'.jobs_done = thr[t].seen + 1
             /\ thr[t].i \in Ids /\ (st[thr[t].i] \in Finished => thr[t].pc = "obituary")
             /\ st'[thr[t].i] \in Finished /\ thr'[t].pc # "obituary"
    <3> DEFINE i == thr[t].i
    <3>1. t \in Threads
      BY <2>2, NoneAssumption, Zenon DEF Calls, CloneCall, Everyone
    <3>2. i \notin Ended
      BY <2>2, <3>1, Zenon DEF Ended, At
    <3>3. i \in Ended'
      <4>1. \A u \in Threads : u # t => thr'[u].i # i
        BY <1>2, <2>2, <3>1, NoneAssumption, Zenon DEF Solo, Everyone
      <4> QED
        BY <2>2, <4>1, Zenon DEF Ended, At
    <3>4. Ended \cup {i} \subseteq Ended' /\ i \in Ids \ Ended /\ Ended \cup {i} \in SUBSET Ids
      BY <1>3, <1>4, <2>2, <3>2, <3>3, Zenon
    <3>5. Cardinality(Ended \cup {i}) = Cardinality(Ended) + 1
      BY <1>3, <3>4, Zenon DEF Counting
    <3>6. Cardinality(Ended \cup {i}) <= Cardinality(Ended')
      BY <1>3, <3>4, Zenon DEF Counting
    <3>7. thr[t].seen \in Nat /\ (thr[t].pc = "tail2" => thr[t].seen <= Cardinality(Ended))
      BY <1>7, <3>1, Zenon
    <3> HIDE DEF i
    <3>8. CASE arr'.jobs_done = arr.jobs_done + 1
      BY <1>5, <1>6, <3>5, <3>6, <3>8, SMT
    <3>9. CASE thr[t].pc = "tail2" /\ arr'.jobs_done = thr[t].seen + 1
      BY <1>5, <3>5, <3>6, <3>7, <3>9, SMT
    <3> QED
      BY <2>2, <3>8, <3>9, Zenon
  <2> QED
    BY <1>1, <2>1, <2>2, Zenon DEF DoneStep
<1>9. ASSUME NEW u \in Threads, thr'[u].pc = "tail2" PROVE thr'[u].seen <= Cardinality(Ended')
  <2>1. thr'[u].seen <= Cardinality(Ended) /\ thr'[u].seen \in Nat
    <3>1. CASE u = t
      <4>1. thr'[u].seen = arr.jobs_done
        BY <1>1, <1>9, <3>1, Zenon DEF DoneStep
      <4> QED
        BY <1>6, <4>1, Zenon
    <3>2. CASE u # t
      BY <1>2, <1>7, <1>9, <3>2, Zenon DEF Everyone
    <3> QED
      BY <3>1, <3>2, Zenon
  <2> QED
    BY <1>5, <2>1, SMT
<1>10. dep' => Ended' = Ids
  <2>1. dep => Ended' = Ids
    BY <1>3, <1>4, Zenon DEF Endings
  <2>2. arr'.jobs_done >= NumJobs => Cardinality(Ended') = NumJobs
    BY <1>5, <1>6, <1>8, Numbers, SMT
  <2> QED
    BY <1>1, <1>5, <2>1, <2>2, Zenon DEF DoneStep
<1> QED
  BY <1>8, <1>9, <1>10, Zenon DEF Endings, At

\* A slot is counted before its member executes and given back after it has ended.
LEMMA SlotsKept ==
  ASSUME Typed, Counting, Calls, Solo, Slots, NEW t \in Everyone, Step(t)
  PROVE  Slots'
<1>1. SlotStep(t) /\ Turned(t) /\ OwnStep(t)
  BY Zenon DEF Step
<1>2. \A u \in Everyone : u # t => thr'[u] = thr[u]
  BY <1>1, OtherCalls, Zenon
<1>3. SUFFICES ASSUME "qdel all" \notin asked', SlotLimit >= 0
               PROVE  Cardinality(Charged') <= arr'.jobs_running /\ arr'.jobs_running <= SlotLimit
  BY Zenon DEF Slots
<1>4. "qdel all" \notin asked
  BY <1>1, <1>3, Zenon DEF OwnStep
<1>5. Cardinality(Charged) <= arr.jobs_running /\ arr.jobs_running <= SlotLimit
  BY <1>3, <1>4, Zenon DEF Slots
<1>6. SlotLimit \in Int /\ arr.jobs_running \in Nat /\ arr'.jobs_running \in Nat
  <2>1. SlotLimit \in Int
    BY JobArrayAssumption, SMT
  <2>2. arr.jobs_running \in 0 .. NumJobs /\ arr'.jobs_running \in 0 .. NumJobs
    <3>1. arr \in ArrType /\ arr' \in ArrType
      BY TypeParts, Zenon DEF Typed, Step
    <3> QED
      BY <3>1, ArrParts, Zenon
  <2> QED
    BY <2>1, <2>2, SMT
<1>7. Charged \in SUBSET Ids /\ Charged' \in SUBSET Ids /\ exec \subseteq Ids /\ exec' \subseteq Ids
  <2>1. exec \subseteq Ids /\ exec' \subseteq Ids
    BY <1>1, TypeParts, Zenon DEF Typed, OwnStep
  <2> QED
    BY <2>1, Zenon DEF Charged
<1>8. /\ Cardinality(Charged) \in Nat /\ Cardinality(Charged') \in Nat /\ Cardinality(Charged') <= NumJobs
  BY <1>7, Zenon DEF Counting
<1>9. ASSUME NEW u \in Threads, u # t, thr'[u].i \in Ids, Charges(thr'[u]) PROVE thr'[u].i \in Charged
  <2>1. thr'[u] = thr[u]
    BY <1>2, <1>9, Zenon DEF Everyone
  <2> QED
    BY <1>9, <2>1, Zenon DEF Charged
<1>10. Charges(thr[t]) /\ thr[t].i \in Ids => thr[t].i \in Charged
  <2>1. thr[t].i \in Ids => t \in Threads
    BY NoneAssumption, Zenon DEF Calls, CloneCall, Everyone
  <2> QED
    BY <2>1, Zenon DEF Charged
<1>11. \A j \in Charged' : j \in exec' \/ \E u \in Threads : thr'[u].i = j /\ Charges(thr'[u])
  BY Zenon DEF Charged, Charges
<1>12. exec \subseteq Charged
  BY Zenon DEF Charged
<1>13. CASE /\ arr'.jobs_running = arr.jobs_running
            /\ exec' \subseteq exec \/ (Charges(thr[t]) /\ exec' \subseteq exec \cup {thr[t].i})
            /\ Charges(thr'[t]) => thr'[t].i \in exec \/ (Charges(thr[t]) /\ thr'[t].i = thr[t].i)
  <2>1. ASSUME NEW j \in Charged' PROVE j \in Charged
    <3>1. j \in Ids
      BY <1>7, <2>1, Zenon
    <3>2. CASE j \in exec'
      BY <1>10, <1>12, <1>13, <3>1, <3>2, Zenon
    <3>3. ASSUME NEW u \in Threads, thr'[u].i = j, Charges(thr'[u]) PROVE j \in Charged
      <4>1. CASE u # t
        BY <1>9, <3>1, <3>3, <4>1, Zenon
      <4>2. CASE u = t
        BY <1>10, <1>12, <1>13, <3>1, <3>3, <4>2, Zenon
      <4> QED
        BY <4>1, <4>2, Zenon
    <3> QED
      BY <1>11, <2>1, <3>2, <3>3, Zenon
  <2>2. Cardinality(Charged') <= Cardinality(Charged)
    BY <1>7, <2>1, Zenon DEF Counting
  <2> QED
    BY <1>5, <1>6, <1>8, <1>13, <2>2, SMT
<1>14. CASE /\ exec' \subseteq exec \cup {thr[t].i} /\ thr'[t].i \in {None, thr[t].i}
            /\ arr.jobs_running < SlotLimit
            /\ arr'.jobs_running = IF arr.jobs_running < NumJobs THEN arr.jobs_running + 1
                                   ELSE arr.jobs_running
  <2> DEFINE i == thr[t].i
  <2>1. ASSUME NEW j \in Charged' PROVE j \in Charged \/ (j = i /\ i \in Ids)
    <3>1. j \in Ids /\ j # None
      BY <1>7, <2>1, NoneAssumption, Zenon
    <3>2. CASE j \in exec'
      BY <1>12, <1>14, <3>1, <3>2, Zenon
    <3>3. ASSUME NEW u \in Threads, thr'[u].i = j, Charges(thr'[u]) PROVE j \in Charged \/ (j = i /\ i \in Ids)
      <4>1. CASE u # t
        BY <1>9, <3>1, <3>3, <4>1, Zenon
      <4>2. CASE u = t
        BY <1>14, <3>1, <3>3, <4>2, Zenon
      <4> QED
        BY <4>1, <4>2, Zenon
    <3> QED
      BY <1>11, <2>1, <3>2, <3>3, Zenon
  <2>2. Cardinality(Charged') <= Cardinality(Charged) + 1
    <3>1. CASE i \in Ids \ Charged
      <4>1. Charged \cup {i} \in SUBSET Ids /\ Charged' \subseteq Charged \cup {i}
        BY <1>7, <2>1, <3>1, Zenon
      <4>2. Cardinality(Charged \cup {i}) = Cardinality(Charged) + 1
        BY <1>7, <3>1, Zenon DEF Counting
      <4>3. Cardinality(Charged') <= Cardinality(Charged \cup {i})
        BY <1>7, <4>1, Zenon DEF Counting
      <4> QED
        BY <4>2, <4>3, Zenon
    <3>2. CASE i \notin Ids \ Charged
      <4>1. Charged' \subseteq Charged
        BY <2>1, <3>2, Zenon
      <4>2. Cardinality(Charged') <= Cardinality(Charged)
        BY <1>7, <4>1, Zenon DEF Counting
      <4> QED
        BY <1>8, <4>2, SMT
    <3> QED
      BY <3>1, <3>2, Zenon
  <2> HIDE DEF i
  <2>3. CASE arr.jobs_running < NumJobs
    <3>1. arr'.jobs_running = arr.jobs_running + 1 /\ arr.jobs_running < SlotLimit
      BY <1>14, <2>3, Zenon
    <3> QED
      BY <1>5, <1>6, <1>8, <2>2, <3>1, SMT
  <2>4. CASE ~(arr.jobs_running < NumJobs)
    <3>1. arr'.jobs_running = arr.jobs_running
      BY <1>14, <2>4, Zenon
    <3> QED
      BY <1>5, <1>6, <1>8, <2>4, <3>1, Numbers, SMT
  <2> QED
    BY <2>3, <2>4, Zenon
<1>15. CASE /\ thr[t].pc = "obituary" /\ exec' \subseteq exec /\ ~Charges(thr'[t])
            /\ arr'.jobs_running = IF arr.jobs_running > 0 THEN arr.jobs_running - 1 ELSE 0
  <2> DEFINE i == thr[t].i
             rest == Charged \ {i}
  <2>1. t \in Threads
    BY <1>15, CloneFacts, Zenon
  <2>2. i \in Ids /\ i \notin exec
    <3>1. CallOK(thr[t])
      BY <2>1, Zenon DEF Calls
    <3> QED
      BY <1>15, <2>1, <3>1, CallFacts, Zenon DEF CallOK
  <2>3. i \in Charged
    BY <1>10, <1>15, <2>2, Zenon DEF Charges
  <2>4. ASSUME NEW j \in Charged' PROVE j \in rest
    <3>1. j \in Ids
      BY <1>7, <2>4, Zenon
    <3>2. CASE j \in exec'
      BY <1>12, <1>15, <2>2, <3>2, Zenon
    <3>3. ASSUME NEW u \in Threads, thr'[u].i = j, Charges(thr'[u]) PROVE j \in rest
      <4>1. u # t
        BY <1>15, <3>3, Zenon
      <4>2. thr'[u] = thr[u]
        BY <1>2, <4>1, Zenon DEF Everyone
      <4>3. j # i
        BY <2>1, <2>2, <3>3, <4>1, <4>2, NoneAssumption, Zenon DEF Solo
      <4> QED
        BY <1>9, <3>1, <3>3, <4>1, <4>3, Zenon
    <3> QED
      BY <1>11, <2>4, <3>2, <3>3, Zenon
  <2>5. rest \in SUBSET Ids /\ i \in Ids \ rest /\ rest \cup {i} = Charged
    BY <1>7, <2>2, <2>3, Zenon
  <2>6. Cardinality(Charged') <= Cardinality(rest)
    BY <1>7, <2>4, <2>5, Zenon DEF Counting
  <2>7. Cardinality(rest \cup {i}) = Cardinality(rest) + 1 /\ Cardinality(rest) \in Nat
    BY <2>5, Zenon DEF Counting
  <2>8. Cardinality(Charged) = Cardinality(rest) + 1
    BY <2>5, <2>7, Zenon
  <2> HIDE DEF rest, i
  <2>9. arr.jobs_running > 0
    BY <1>5, <1>6, <2>7, <2>8, SMT
  <2>10. arr'.jobs_running = arr.jobs_running - 1
    BY <1>15, <2>9, Zenon
  <2> QED
    BY <1>5, <1>6, <1>8, <2>6, <2>7, <2>8, <2>10, SMT
<1> QED
  BY <1>1, <1>3, <1>13, <1>14, <1>15, Zenon DEF SlotStep

\* The steps that no thread takes: on_job_exit and the refused obituary.
LEMMA AloneKept ==
  ASSUME Typed, Counting, Sound, NEW i \in Ids, on_job_exit(i) \/ obit_refused(i)
  PROVE  Sound'
<1>1. /\ UNCHANGED <<arr, here, dep, thr, asked>> /\ exec' \subseteq exec
      /\ \/ st' = st
         \/ /\ st[i] = "EXITING" /\ st' = [st EXCEPT ![i] = "COMPLETE"]
            /\ \A t \in Threads : ~(At(t, "obituary") /\ thr[t].i = i)
  BY AloneEffect, Zenon
<1>2. st \in [Ids -> MemberStates] /\ exec \subseteq Ids
  BY TypeParts, Zenon DEF Typed
<1>3. \A j \in Ids : \/ st'[j] = st[j]
                     \/ /\ j = i /\ st[j] = "EXITING" /\ st'[j] = "COMPLETE"
                        /\ \A t \in Threads : ~(thr[t].pc = "obituary" /\ thr[t].i = i)
  BY <1>1, <1>2, Zenon DEF At
<1>4. Calls /\ Solo /\ Clones /\ Purges /\ Slots /\ Endings
  BY Zenon DEF Sound
<1>5. Calls'
  <2>1. CloneCall'
    BY <1>1, <1>4, Zenon DEF Calls, CloneCall
  <2>2. ASSUME NEW u \in Threads PROVE CallOK(thr[u])'
    <3>1. PICK d : d = thr[u]
      BY Zenon
    <3>2. thr'[u] = d /\ CallOK(d) /\ asked' = asked
      BY <1>1, <1>4, <3>1, Zenon DEF Calls
    <3>3. d.pc \in Tail \cup {"slot", "count", "obituary", "requeue", "mark", "free"} => d.i \in Ids
      BY <3>1, CallFacts, Zenon
    <3>4. d.i \in Ids => /\ st[d.i] \in IdleStates \cup {"RERUN", "COMPLETE"} => st'[d.i] = st[d.i]
                         /\ d.pc = "obituary" => st'[d.i] = st[d.i]
      BY <1>3, <3>1, Zenon DEF IdleStates
    <3>5. CallOK(d)'
      BY <1>1, <3>2, <3>3, <3>4, Zenon DEF CallOK
    <3> QED
      BY <3>2, <3>5, Zenon
  <2> QED
    BY <2>1, <2>2, Zenon DEF Calls
<1>6. Solo'
  BY <1>1, <1>4, Zenon DEF Solo
<1>7. Clones'
  <2>1. \A j \in Ids : /\ st[j] = "NEW" => st'[j] = "NEW"
                       /\ st'[j] \in Listed <=> st[j] \in Listed
                       /\ st[j] # "GONE" => st'[j] # "GONE"
    BY <1>3, Zenon DEF Listed
  <2>2. \A u \in Everyone : thr[u].pc \in Creating => thr[u].new \in Ids
    BY Zenon DEF Typed, Hand
  <2>3. arr.uncreated \subseteq Ids
    BY TypeParts, ArrParts, Zenon DEF Typed
  <2>4. \A u \in Everyone : At(u, "enqueue")' =>
          /\ st'[thr'[u].new] = "NEW"
          /\ \A v \in Everyone \ {u} : At(v, "enqueue")' => thr'[v].new # thr'[u].new
    BY <1>1, <1>4, <2>1, <2>2, Zenon DEF Clones, At, Creating
  <2>5. \A u \in Everyone : At(u, "relock")' =>
          /\ st'[thr'[u].new] \in Listed
          /\ \A v \in Threads : thr'[v].pc \in {"mark", "free"} => thr'[v].i # thr'[u].new
    BY <1>1, <1>4, <2>1, <2>2, ZenonT(60) DEF Clones, At, Creating
  <2>6. here' => \A k \in arr'.uncreated :
           /\ st'[k] # "GONE"
           /\ st'[k] \in Listed => \E u \in Threads : At(u, "relock")' /\ thr'[u].new = k
    BY <1>1, <1>4, <2>1, <2>3, Zenon DEF Clones, At
  <2> QED
    BY <2>4, <2>5, <2>6, Zenon DEF Clones
<1>8. Purges'
  <2>1. \A j \in Ids : st'[j] = "GONE" <=> st[j] = "GONE"
    BY <1>3, Zenon
  <2>2. Purged' = Purged
    BY <1>1, <2>1, Zenon DEF Purged, Freeing, At
  <2> QED
    BY <1>1, <1>4, <2>2, Zenon DEF Purges
<1>9. Slots'
  <2>1. Charged' \subseteq Charged /\ Charged \in SUBSET Ids /\ Charged' \in SUBSET Ids
    BY <1>1, <1>2, Zenon DEF Charged, Charges
  <2>2. /\ Cardinality(Charged') <= Cardinality(Charged)
        /\ Cardinality(Charged) \in Nat /\ Cardinality(Charged') \in Nat
    BY <2>1, Zenon DEF Counting
  <2>3. arr.jobs_running \in 0 .. NumJobs
    BY TypeParts, ArrParts, Zenon DEF Typed
  <2>4. Cardinality(Charged) <= arr.jobs_running => Cardinality(Charged') <= arr.jobs_running
    BY <2>2, <2>3, SMT
  <2> QED
    BY <1>1, <1>4, <2>4, Zenon DEF Slots
<1>10. Endings'
  <2>1. \A j \in Ids : st'[j] \in Finished <=> st[j] \in Finished
    BY <1>3, Zenon DEF Finished
  <2>2. Ended' = Ended
    BY <1>1, <2>1, Zenon DEF Ended, At
  <2> QED
    BY <1>1, <1>4, <2>2, Zenon DEF Endings, At
<1> QED
  BY <1>5, <1>6, <1>7, <1>8, <1>9, <1>10, Zenon DEF Sound

-----------------------------------------------------------------------------
(* The actions are such steps *)

\* A thread that serves no call is in nobody's way.
LEMMA NoCallOK == CallOK(NoCall)' /\ ~Charges(NoCall) /\ NoCall.pc = "idle" /\ NoCall.i = None
                  /\ ~NoCall.last
BY IdleHand, Zenon DEF CallOK, Charges, Tail, Creating

\* A member of a call is not purged, so the array waits for it.
LEMMA ArrayHere ==
  ASSUME Typed, Sound, NEW t \in Threads, thr[t].i \in Ids, thr[t].pc # "free",
         st[thr[t].i] # "GONE", "qdel all" \notin asked
  PROVE  here
<1>1. thr[t].i \notin Purged
  BY NoneAssumption, Zenon DEF Sound, Solo, Purged, Freeing, At
<1> QED
  BY <1>1, Zenon DEF Sound, Purges

\* The array struct as this step leaves it, the counts of running, done and purged
\* members as they were.
ArrKept ==
  /\ arr' \in ArrType /\ arr'.jobs_running = arr.jobs_running /\ arr'.jobs_done = arr.jobs_done
  /\ arr'.num_purged = arr.num_purged /\ arr'.uncreated \subseteq arr.uncreated
  /\ arr'.being_deleted => arr.being_deleted \/ "qdel all" \in asked'

\* A step that only narrows the array struct, or leaves it, keeps the counts.
LEMMA KeptArr ==
  ASSUME Typed
  PROVE  (Narrowed(arr', arr) => ArrKept) /\ (arr' = arr => ArrKept)
<1>1. arr \in ArrType
  BY TypeParts, Zenon DEF Typed
<1> QED
  BY <1>1, Zenon DEF Narrowed, ArrKept

\* A step that moves no member: a call begins, or goes on to its next part.
LEMMA PlainStep ==
  ASSUME Typed, NEW t \in Threads, Turned(t), ArrKept, asked \subseteq asked',
         here' = here, dep' = dep, st' = st, exec' = exec,
         thr[t].pc # "free",
         thr[t].pc = "relock" /\ here => thr[t].new \notin arr'.uncreated,
         thr'[t] = NoCall \/ /\ CallOK(thr[t])' /\ (thr'[t].last => thr[t].last)
                             /\ \/ thr'[t].i \in {None, thr[t].i}
                                \/ \A u \in Threads : thr[u].i # thr'[t].i
                             /\ thr'[t].pc \notin Creating \cup {"obituary"}
                             /\ Charges(thr'[t]) => Charges(thr[t]) /\ thr'[t].i = thr[t].i
                             /\ thr'[t].pc = "tail2" => thr'[t].seen = arr.jobs_done
                             /\ thr'[t].pc \in {"mark", "free"} =>
                                  \/ thr[t].pc \in {"mark", "free"} /\ thr'[t].i = thr[t].i
                                  \/ \A u \in Everyone : thr[u].pc \notin Creating
  PROVE  Step(t)
<1>1. t # Cloner /\ exec \subseteq Ids
  BY JobArrayAssumption, TypeParts, Zenon DEF Typed
<1>2. /\ CallOK(thr[t])' /\ (thr'[t].last => thr[t].last)
      /\ \/ thr'[t].i \in {None, thr[t].i}
         \/ \A u \in Threads : thr[u].i # thr'[t].i
      /\ thr'[t].pc \notin Creating \cup {"obituary"}
      /\ Charges(thr'[t]) => Charges(thr[t]) /\ thr'[t].i = thr[t].i
      /\ thr'[t].pc = "tail2" => thr'[t].seen = arr.jobs_done
      /\ thr'[t].pc \in {"mark", "free"} =>
           \/ thr[t].pc \in {"mark", "free"} /\ thr'[t].i = thr[t].i
           \/ \A u \in Everyone : thr[u].pc \notin Creating
  <2>1. CASE thr'[t] = NoCall
    BY <2>1, NoCallOK, Zenon DEF Creating, CallOK
  <2> QED
    BY <2>1, Zenon
<1>3. MemberStep(t)
  BY Zenon DEF MemberStep
<1>4. OwnStep(t)
  BY <1>1, <1>2, Zenon DEF OwnStep
<1>5. CreateStep(t)
  BY <1>2, Zenon DEF CreateStep, ArrKept, Creating
<1>6. PurgeStep(t)
  BY <1>2, Zenon DEF PurgeStep, ArrKept
<1>7. SlotStep(t)
  BY <1>2, Zenon DEF SlotStep, ArrKept
<1>8. DoneStep(t)
  BY <1>2, Zenon DEF DoneStep, ArrKept
<1> QED
  BY <1>3, <1>4, <1>5, <1>6, <1>7, <1>8, Zenon DEF Step, ArrKept

\* The unlocked read of jobs_done is such a step.
LEMMA TailReadStep ==
  ASSUME Typed, Sound, NEW t \in Everyone, TailRead(t)
  PROVE  Step(t)
<1>1. /\ StateTyped /\ Turned(t) /\ thr[t].pc = "tail" /\ thr'[t].pc = "tail2"
      /\ thr'[t].op = thr[t].op /\ thr'[t].i = thr[t].i /\ thr'[t].last = thr[t].last
      /\ thr'[t].seen = arr.jobs_done /\ UNCHANGED <<arr, here, st, exec, dep, asked>>
  BY TailReadEffect, Zenon
<1>2. t \in Threads
  BY <1>1, CloneFacts, Zenon DEF Sound
<1>3. CallOK(thr[t])
  BY <1>2, Zenon DEF Sound, Calls
<1>4. CallOK(thr[t])'
  BY <1>1, <1>3, Zenon DEF CallOK, Tail, Creating
<1>5. Charges(thr'[t]) => Charges(thr[t])
  BY <1>1, Zenon DEF Charges, Tail
<1>6. ArrKept /\ asked \subseteq asked' /\ thr'[t].pc \notin Creating
  BY <1>1, KeptArr, Zenon DEF Creating
<1> QED
  BY <1>1, <1>2, <1>4, <1>5, <1>6, PlainStep, Zenon

\* So is going on in the walk of qdel all.
LEMMA WalkStep ==
  ASSUME Typed, Extremes, Sound, Calm', NEW t \in Everyone, delete_all_work(t)
  PROVE  Step(t)
<1>1. /\ StateTyped /\ Turned(t) /\ thr[t].pc = "walk" /\ UNCHANGED <<here, st, exec, dep>>
      /\ arr'.jobs_running = arr.jobs_running /\ arr'.jobs_done = arr.jobs_done
      /\ arr'.uncreated = arr.uncreated /\ arr'.num_purged = arr.num_purged
      /\ \/ thr'[t] = NoCall
         \/ \E j \in Ids : /\ st[j] \in Listed /\ Overlap(j) \subseteq asked'
                           /\ thr'[t].i = j /\ thr'[t].op = thr[t].op /\ thr'[t].last = thr[t].last
                           /\ thr'[t].pc = IF st[j] \in IdleStates THEN "count" ELSE "walk"
  BY DeleteAllEffect, Zenon
<1>2. t \in Threads
  BY <1>1, CloneFacts, Zenon DEF Sound
<1>3. thr[t].op = "qdel all" /\ CallOK(thr[t])
  BY <1>1, <1>2, Zenon DEF Sound, Calls, Typed, Hand
<1>4. asked \subseteq asked' /\ "qdel all" \in asked'
  BY <1>1, <1>3, Zenon DEF StateTyped, MembersTyped, CallOK
<1>5. ArrKept
  BY <1>1, <1>4, Zenon DEF ArrKept, StateTyped
<1>6. CASE thr'[t] = NoCall
  BY <1>1, <1>2, <1>4, <1>5, <1>6, PlainStep, Zenon
<1>7. ASSUME NEW j \in Ids, st[j] \in Listed, Overlap(j) \subseteq asked',
             thr'[t].i = j, thr'[t].op = thr[t].op, thr'[t].last = thr[t].last,
             thr'[t].pc = IF st[j] \in IdleStates THEN "count" ELSE "walk"
      PROVE  Step(t)
  <2>1. \A u \in Threads : thr[u].i # j
    BY <1>7, Zenon DEF Calm, Overlap
  <2>2. CallOK(thr[t])'
    BY <1>1, <1>3, <1>4, <1>7, Zenon DEF CallOK, Tail, Creating
  <2>3. ~Charges(thr'[t]) /\ thr'[t].pc \notin Creating \cup {"obituary", "tail2", "mark", "free"}
    BY <1>7, Zenon DEF Charges, Creating, Tail
  <2> QED
    BY <1>1, <1>2, <1>4, <1>5, <1>7, <2>1, <2>2, <2>3, PlainStep, Zenon
<1> QED
  BY <1>1, <1>6, <1>7, Zenon

\* So is the beginning of every call.
LEMMA RequestStep ==
  ASSUME Typed, Sound, KeepCompleted, Calm', NEW t \in Threads, Request(t)
  PROVE  Step(t)
<1>0. t \in Everyone /\ t # Cloner /\ exec \subseteq Ids
  BY JobArrayAssumption, TypeParts, Zenon DEF Everyone, Typed
<1>1. ASSUME NEW i \in Ids, Asking(i) PROVE asked \subseteq asked' /\ \A u \in Threads : thr[u].i # i
  BY <1>1, Zenon DEF Asking, Calm, Overlap
<1>2. thr[t] = NoCall => ~Charges(thr[t]) /\ thr[t].pc = "idle" /\ ~thr[t].last /\ thr[t].i = None
  BY NoCallOK, Zenon
<1>3. ASSUME NEW i \in Ids,
             \/ req_runjob(t, i) \/ handle_terminating_job(t, i) \/ rerun_obit(t, i)
             \/ execute_job_delete(t, i) \/ force_purge_work(t, i)
      PROVE  Step(t)
  <2>1. /\ StepTyped(t) /\ Asking(i) /\ thr[t] = NoCall /\ thr'[t].i = i /\ ~thr'[t].last
        /\ UNCHANGED <<arr, here, dep>>
        /\ \/ /\ thr'[t].op = "run" /\ thr'[t].pc = "slot" /\ st[i] \in IdleStates
              /\ UNCHANGED <<st, exec>>
           \/ /\ thr'[t].pc = "obituary" /\ i \in exec /\ exec' = exec \ {i} /\ st[i] = "RUNNING"
              /\ \/ thr'[t].op = "obit" /\ st' = [st EXCEPT ![i] = "EXITING"]
                 \/ thr'[t].op = "rerun" /\ st' = [st EXCEPT ![i] = "RERUN"]
           \/ /\ thr'[t].op = "qdel" /\ thr'[t].pc = "count" /\ st[i] \in IdleStates
              /\ UNCHANGED <<st, exec>>
           \/ "qdel -p" \in asked'
    BY <1>3, MemberRequest, Zenon
  <2>2. "qdel -p" \notin asked'
    BY Zenon DEF Calm
  <2>3. Turned(t) /\ ArrKept /\ asked \subseteq asked' /\ \A u \in Threads : thr[u].i # i
    BY <1>1, <2>1, KeptArr, Zenon DEF StepTyped
  <2>4. CASE /\ thr'[t].op = "run" /\ thr'[t].pc = "slot" /\ st[i] \in IdleStates
             /\ UNCHANGED <<st, exec>>
    <3>1. CallOK(thr[t])'
      BY <2>1, <2>4, Zenon DEF CallOK, Tail, Creating
    <3>2. ~Charges(thr'[t]) /\ thr'[t].pc \notin Creating \cup {"obituary", "tail2", "mark", "free"}
      BY <2>4, Zenon DEF Charges, Tail, Creating
    <3> QED
      BY <1>2, <2>1, <2>3, <2>4, <3>1, <3>2, PlainStep, Zenon
  <2>5. CASE /\ thr'[t].op = "qdel" /\ thr'[t].pc = "count" /\ st[i] \in IdleStates
             /\ UNCHANGED <<st, exec>>
    <3>1. CallOK(thr[t])'
      BY <2>1, <2>5, Zenon DEF CallOK, Tail, Creating
    <3>2. ~Charges(thr'[t]) /\ thr'[t].pc \notin Creating \cup {"obituary", "tail2", "mark", "free"}
      BY <2>5, Zenon DEF Charges, Tail, Creating
    <3> QED
      BY <1>2, <2>1, <2>3, <2>5, <3>1, <3>2, PlainStep, Zenon
  <2>6. CASE /\ thr'[t].pc = "obituary" /\ i \in exec /\ exec' = exec \ {i} /\ st[i] = "RUNNING"
             /\ \/ thr'[t].op = "obit" /\ st' = [st EXCEPT ![i] = "EXITING"]
                \/ thr'[t].op = "rerun" /\ st' = [st EXCEPT ![i] = "RERUN"]
    <3>0. st \in [Ids -> MemberStates]
      BY TypeParts, Zenon DEF Typed
    <3>1. MemberStep(t)
      BY <2>6, <3>0, Zenon DEF MemberStep
    <3>2. /\ thr'[t].op = "obit" => st'[i] = "EXITING"
          /\ thr'[t].op = "rerun" => st'[i] = "RERUN"
          /\ thr'[t].op \in {"obit", "rerun"} /\ i \notin exec'
      BY <2>6, <3>0, Zenon
    <3>3. CallOK(thr[t])'
      BY <2>1, <2>6, <3>2, Zenon DEF CallOK, Tail, Creating
    <3>4. OwnStep(t)
      BY <1>0, <2>1, <2>3, <2>6, <3>3, Zenon DEF OwnStep
    <3>5. CreateStep(t)
      BY <1>2, <2>1, <2>3, <2>6, Zenon DEF CreateStep, ArrKept
    <3>6. PurgeStep(t)
      BY <1>2, <2>1, <2>3, Zenon DEF PurgeStep, ArrKept
    <3>7. SlotStep(t)
      BY <2>1, <2>3, <2>6, Zenon DEF SlotStep, ArrKept
    <3>8. DoneStep(t)
      BY <2>1, <2>3, <2>6, Zenon DEF DoneStep, ArrKept
    <3> QED
      BY <2>3, <3>1, <3>4, <3>5, <3>6, <3>7, <3>8, Zenon DEF Step, ArrKept
  <2> QED
    BY <2>1, <2>2, <2>4, <2>5, <2>6, Zenon
<1>4. ASSUME NEW i \in Ids, on_job_exit_task(t, i) PROVE Step(t)
  <2>1. /\ StepTyped(t) /\ Asking(i) /\ thr[t] = NoCall /\ UNCHANGED <<arr, here, st, exec, dep>>
        /\ \A u \in Everyone : thr[u].pc \notin Creating
        /\ \/ thr'[t] = NoCall
           \/ /\ thr'[t].op = "exit" /\ thr'[t].pc = "mark" /\ thr'[t].i = i /\ ~thr'[t].last
              /\ st[i] = "COMPLETE"
    BY <1>4, ExitTaskEffect, Zenon
  <2>2. Turned(t) /\ ArrKept /\ asked \subseteq asked' /\ \A u \in Threads : thr[u].i # i
    BY <1>1, <2>1, KeptArr, Zenon DEF StepTyped
  <2>3. CASE thr'[t] = NoCall
    BY <1>2, <2>1, <2>2, <2>3, PlainStep, Zenon
  <2>4. CASE /\ thr'[t].op = "exit" /\ thr'[t].pc = "mark" /\ thr'[t].i = i /\ ~thr'[t].last
             /\ st[i] = "COMPLETE"
    <3>1. CallOK(thr[t])'
      BY <2>1, <2>4, Zenon DEF CallOK, Tail, Creating
    <3>2. ~Charges(thr'[t]) /\ thr'[t].pc \notin Creating \cup {"obituary", "tail2"}
      BY <2>4, Zenon DEF Charges, Tail, Creating
    <3> QED
      BY <1>2, <2>1, <2>2, <2>4, <3>1, <3>2, PlainStep, Zenon
  <2> QED
    BY <2>1, <2>3, <2>4, Zenon
<1>5. CASE delete_all(t) \/ req_deletearray(t)
  <2>1. /\ StepTyped(t) /\ thr[t] = NoCall /\ UNCHANGED <<arr, here, st, exec, dep>>
        /\ \/ /\ thr'[t].op = "qdel all" /\ thr'[t].pc = "walk" /\ thr'[t].i = None /\ ~thr'[t].last
              /\ "qdel all" \in asked'
           \/ "qdel array" \in asked'
    BY <1>5, WholeRequest, Zenon
  <2>2. "qdel array" \notin asked'
    BY Zenon DEF Calm
  <2>3. Turned(t) /\ ArrKept /\ asked \subseteq asked'
    BY <2>1, KeptArr, Zenon DEF StepTyped, StateTyped, MembersTyped
  <2>4. CallOK(thr[t])'
    BY <2>1, <2>2, Zenon DEF CallOK, Tail, Creating
  <2>5. ~Charges(thr'[t]) /\ thr'[t].pc \notin Creating \cup {"obituary", "tail2", "mark", "free"}
    BY <2>1, <2>2, Zenon DEF Charges, Tail, Creating
  <2> QED
    BY <1>2, <2>1, <2>2, <2>3, <2>4, <2>5, PlainStep, Zenon
<1> QED
  BY <1>3, <1>4, <1>5, Zenon DEF Request

\* So is svr_job_purge up to the release of the array.
LEMMA MarkStep ==
  ASSUME Typed, Sound, NEW t \in Everyone, svr_job_purge(t)
  PROVE  Step(t)
<1>1. /\ StateTyped /\ Turned(t) /\ thr[t].pc = "mark" /\ thr[t].i \in Ids
      /\ UNCHANGED <<here, st, exec, dep, asked>>
      /\ arr'.jobs_running = arr.jobs_running /\ arr'.jobs_done = arr.jobs_done
      /\ arr'.uncreated = arr.uncreated /\ arr'.being_deleted = arr.being_deleted
      /\ \/ thr'[t] = NoCall /\ arr' = arr
         \/ /\ thr'[t].pc = "free" /\ thr'[t].op = thr[t].op /\ thr'[t].i = thr[t].i
            /\ thr'[t].last = thr[t].last /\ arr' = arr
         \/ /\ thr'[t].pc = "free" /\ thr'[t].op = thr[t].op /\ thr'[t].i = thr[t].i
            /\ thr'[t].last = NoMoreSubjobs(arr') /\ arr'.num_purged = arr.num_purged + 1
  BY PurgeEffect, Zenon
<1>2. t \in Threads /\ t # Cloner /\ exec \subseteq Ids
  BY <1>1, CloneFacts, JobArrayAssumption, TypeParts, Zenon DEF Sound, Typed
<1>3. CallOK(thr[t])
  BY <1>2, Zenon DEF Sound, Calls
<1>4. CASE thr'[t] = NoCall /\ arr' = arr
  BY <1>1, <1>2, <1>4, PlainStep, KeptArr, Zenon
<1>5. CASE /\ thr'[t].pc = "free" /\ thr'[t].op = thr[t].op /\ thr'[t].i = thr[t].i
           /\ \/ thr'[t].last = thr[t].last /\ arr' = arr
              \/ thr'[t].last = NoMoreSubjobs(arr') /\ arr'.num_purged = arr.num_purged + 1
  <2>1. CallOK(thr[t])'
    BY <1>1, <1>3, <1>5, Zenon DEF CallOK, Tail, Creating
  <2>2. ~Charges(thr'[t])
    BY <1>5, Zenon DEF Charges, Tail, Creating
  <2>3. MemberStep(t)
    BY <1>1, Zenon DEF MemberStep
  <2>4. OwnStep(t)
    BY <1>1, <1>2, <1>5, <2>1, Zenon DEF OwnStep
  <2>5. CreateStep(t)
    BY <1>1, <1>5, Zenon DEF CreateStep
  <2>6. PurgeStep(t)
    <3>1. NoMoreSubjobs(arr') => arr'.num_purged = NumJobs \/ arr'.being_deleted
      BY Zenon DEF NoMoreSubjobs
    <3> QED
      BY <1>1, <1>5, <3>1, Zenon DEF PurgeStep
  <2>7. SlotStep(t)
    BY <1>1, <2>2, Zenon DEF SlotStep
  <2>8. DoneStep(t)
    BY <1>1, <1>5, Zenon DEF DoneStep
  <2> QED
    BY <1>1, <2>3, <2>4, <2>5, <2>6, <2>7, <2>8, Zenon DEF Step, StateTyped
<1> QED
  BY <1>1, <1>4, <1>5, Zenon

\* So is freeing the purged member.
LEMMA FreeStep ==
  ASSUME Typed, Sound, NEW t \in Everyone, job_free(t)
  PROVE  Step(t)
<1>1. /\ StepTyped(t) /\ thr[t].pc = "free" /\ thr[t].i \in Ids
      /\ UNCHANGED <<arr, here, exec, dep, asked>>
      /\ st' = IF InList(thr[t].i) THEN [st EXCEPT ![thr[t].i] = "GONE"] ELSE st
      /\ \/ thr'[t] = NoCall
         \/ /\ thr[t].last /\ thr'[t].pc = "reap" /\ thr'[t].op = thr[t].op
            /\ thr'[t].i = thr[t].i /\ thr'[t].last = thr[t].last
  BY FreeEffect, Zenon
<1>2. t \in Threads /\ t # Cloner /\ exec \subseteq Ids /\ st \in [Ids -> MemberStates] /\ ArrKept
  BY <1>1, CloneFacts, JobArrayAssumption, TypeParts, KeptArr, Zenon DEF Sound, Typed
<1>3. CallOK(thr[t])
  BY <1>2, Zenon DEF Sound, Calls
<1>4. st[thr[t].i] = "COMPLETE" /\ InList(thr[t].i)
  BY <1>1, <1>3, Zenon DEF CallOK, InList, Listed
<1>5. st' = [st EXCEPT ![thr[t].i] = "GONE"]
  BY <1>1, <1>4, Zenon
<1>6. /\ CallOK(thr[t])' /\ ~Charges(thr'[t]) /\ thr'[t].i \in {None, thr[t].i}
      /\ thr'[t].last => thr[t].last
      /\ thr'[t].pc \in {"idle", "reap"}
  <2>1. CASE thr'[t] = NoCall
    BY <2>1, NoCallOK, Zenon DEF CallOK
  <2>2. CASE /\ thr[t].last /\ thr'[t].pc = "reap" /\ thr'[t].op = thr[t].op
             /\ thr'[t].i = thr[t].i /\ thr'[t].last = thr[t].last
    BY <1>1, <1>3, <2>2, Zenon DEF CallOK, Charges, Tail, Creating
  <2> QED
    BY <1>1, <2>1, <2>2, Zenon
<1>7. MemberStep(t)
  BY <1>1, <1>2, <1>4, <1>5, Zenon DEF MemberStep
<1>8. OwnStep(t)
  BY <1>1, <1>2, <1>6, Zenon DEF OwnStep
<1>9. CreateStep(t)
  BY <1>1, <1>2, <1>6, Zenon DEF CreateStep, ArrKept
<1>10. PurgeStep(t)
  BY <1>1, <1>2, <1>5, <1>6, Zenon DEF PurgeStep, ArrKept
<1>11. SlotStep(t)
  BY <1>1, <1>6, Zenon DEF SlotStep
<1>12. DoneStep(t)
  BY <1>1, <1>6, Zenon DEF DoneStep
<1> QED
  BY <1>1, <1>2, <1>7, <1>8, <1>9, <1>10, <1>11, <1>12, Zenon DEF Step, ArrKept, StepTyped

\* So is removing the array after the last purge.
LEMMA ReapStep ==
  ASSUME Typed, Sound, NEW t \in Everyone, array_delete(t)
  PROVE  Step(t)
<1>1. /\ thr[t].pc = "reap" /\ here' = FALSE /\ Return(t)
      /\ UNCHANGED <<arr, st, hold, due, dep, asked, exec>>
  BY Zenon DEF array_delete, At
<1>2. t \in Threads /\ t # Cloner /\ exec \subseteq Ids /\ ArrKept
  BY <1>1, CloneFacts, JobArrayAssumption, TypeParts, KeptArr, Zenon DEF Sound, Typed
<1>3. thr[t].last
  BY <1>1, <1>2, Zenon DEF Sound, Calls, CallOK
<1>4. Turned(t) /\ thr'[t] = NoCall
  BY <1>1, Returned, Zenon
<1>5. /\ CallOK(thr[t])' /\ ~Charges(thr'[t]) /\ thr'[t].pc = "idle" /\ thr'[t].i = None /\ ~thr'[t].last
  BY <1>4, NoCallOK, Zenon DEF CallOK
<1>6. MemberStep(t)
  BY <1>1, Zenon DEF MemberStep
<1>7. OwnStep(t)
  BY <1>1, <1>2, <1>5, Zenon DEF OwnStep
<1>8. CreateStep(t)
  BY <1>1, <1>2, <1>5, Zenon DEF CreateStep, ArrKept
<1>9. PurgeStep(t)
  BY <1>1, <1>2, <1>3, <1>5, Zenon DEF PurgeStep, ArrKept
<1>10. SlotStep(t)
  BY <1>1, <1>5, Zenon DEF SlotStep
<1>11. DoneStep(t)
  BY <1>1, <1>5, Zenon DEF DoneStep
<1> QED
  BY <1>2, <1>4, <1>6, <1>7, <1>8, <1>9, <1>10, <1>11, Zenon DEF Step, ArrKept

\* So is requeueing a member after a rerun.
LEMMA RequeueStep ==
  ASSUME Typed, Sound, NEW t \in Everyone, rerun_job(t)
  PROVE  Step(t)
<1>1. /\ StepTyped(t) /\ thr[t].pc = "requeue" /\ thr[t].i \in Ids /\ thr'[t] = NoCall
      /\ UNCHANGED <<arr, here, exec, dep, asked>>
      /\ st' = st \/ \E s \in IdleStates : st' = [st EXCEPT ![thr[t].i] = s]
  BY RequeueEffect, Zenon
<1>2. t \in Threads /\ t # Cloner /\ exec \subseteq Ids /\ st \in [Ids -> MemberStates] /\ ArrKept
  BY <1>1, CloneFacts, JobArrayAssumption, TypeParts, KeptArr, Zenon DEF Sound, Typed
<1>3. st[thr[t].i] \in Going
  BY <1>1, <1>2, Zenon DEF Sound, Calls, CallOK, Going, IdleStates
<1>5. /\ CallOK(thr[t])' /\ ~Charges(thr'[t]) /\ thr'[t].pc = "idle" /\ thr'[t].i = None /\ ~thr'[t].last
  BY <1>1, NoCallOK, Zenon DEF CallOK
<1>6. MemberStep(t)
  BY <1>1, <1>2, <1>3, Zenon DEF MemberStep
<1>7. OwnStep(t)
  BY <1>1, <1>2, <1>5, Zenon DEF OwnStep
<1>8. CreateStep(t)
  BY <1>1, <1>2, <1>5, Zenon DEF CreateStep, ArrKept
<1>9. PurgeStep(t)
  BY <1>1, <1>2, <1>5, Zenon DEF PurgeStep, ArrKept
<1>10. SlotStep(t)
  BY <1>1, <1>5, Zenon DEF SlotStep
<1>11. DoneStep(t)
  BY <1>1, <1>5, Zenon DEF DoneStep
<1> QED
  BY <1>1, <1>2, <1>6, <1>7, <1>8, <1>9, <1>10, <1>11, Zenon DEF Step, ArrKept, StepTyped

\* So is enqueueing a clone.
LEMMA EnqueueStep ==
  ASSUME Typed, Sound, NEW t \in Everyone, EnqueueClone(t)
  PROVE  Step(t)
<1>1. /\ StateTyped /\ Turned(t)
      /\ thr[t].pc = "enqueue" /\ thr[t].new \in Ids
      /\ thr'[t].op = thr[t].op /\ thr'[t].i = thr[t].i /\ thr'[t].last = thr[t].last
      /\ \/ /\ st' = [st EXCEPT ![thr[t].new] = "LOST"]
            /\ thr'[t].pc = IF thr[t].op = "clone" THEN "clone" ELSE "tail"
         \/ /\ \E s \in IdleStates : st' = [st EXCEPT ![thr[t].new] = s]
            /\ thr'[t].pc = "relock" /\ thr'[t].new = thr[t].new
      /\ UNCHANGED <<arr, here, exec, dep, asked>>
  BY EnqueueEffect, Zenon
<1>2. exec \subseteq Ids /\ st \in [Ids -> MemberStates] /\ ArrKept
  BY <1>1, TypeParts, KeptArr, Zenon DEF Typed
<1>3. st[thr[t].new] = "NEW"
  BY <1>1, Zenon DEF Sound, Clones, At
<1>4. /\ \A j \in Ids : j # thr[t].new => st'[j] = st[j]
      /\ \/ st'[thr[t].new] = "LOST"
         \/ st'[thr[t].new] \in IdleStates /\ thr'[t].pc = "relock" /\ thr'[t].new = thr[t].new
      /\ thr'[t].pc \in {"clone", "tail", "relock"}
      /\ thr'[t].pc = "relock" => thr'[t].new = thr[t].new /\ st'[thr[t].new] \in IdleStates
  BY <1>1, <1>2, Zenon
<1>5. MemberStep(t)
  BY <1>1, <1>3, <1>4, Zenon DEF MemberStep
<1>6. IF t = Cloner THEN CloneCall' ELSE CallOK(thr[t])'
  <2>1. CASE t = Cloner
    <3>1. CloneCall
      BY Zenon DEF Sound, Calls
    <3> QED
      BY <1>1, <1>4, <2>1, <3>1, Zenon DEF CloneCall, Creating
  <2>2. CASE t # Cloner
    <3>1. t \in Threads
      BY <2>2, Zenon DEF Everyone
    <3>2. CallOK(thr[t]) /\ thr[t].op # "clone"
      BY <2>2, <3>1, Zenon DEF Sound, Calls, Typed
    <3>3. thr[t].i \in Ids /\ st[thr[t].i] \in IdleStates
      BY <1>1, <3>1, <3>2, CallFacts, Zenon DEF CallOK, Tail, Creating
    <3>4. st'[thr[t].i] \in IdleStates
      BY <1>3, <1>4, <3>3, Zenon DEF IdleStates
    <3>5. thr'[t].pc \in {"tail", "relock"}
      BY <1>1, <3>2, Zenon
    <3> QED
      BY <1>1, <2>2, <3>2, <3>4, <3>5, Zenon DEF CallOK
  <2> QED
    BY <2>1, <2>2, Zenon
<1>7. OwnStep(t)
  BY <1>1, <1>2, <1>4, <1>6, Zenon DEF OwnStep
<1>8. CreateStep(t)
  BY <1>1, <1>2, <1>4, Zenon DEF CreateStep, ArrKept
<1>9. PurgeStep(t)
  BY <1>1, <1>2, Zenon DEF PurgeStep, ArrKept
<1>10. Charges(thr'[t]) => Charges(thr[t])
  BY <1>1, <1>4, Zenon DEF Charges, Tail, Creating
<1>11. SlotStep(t)
  BY <1>1, <1>10, Zenon DEF SlotStep
<1>12. DoneStep(t)
  BY <1>1, <1>4, Zenon DEF DoneStep
<1> QED
  BY <1>1, <1>2, <1>5, <1>7, <1>8, <1>9, <1>11, <1>12, Zenon DEF Step, ArrKept

\* The cloning thread goes on to the next member, or ends.
LEMMA ClonerStep ==
  ASSUME Typed, Sound, NEW t \in Everyone, thr[t].op = "clone", StateTyped, Turned(t), Narrowed(arr', arr),
         here' = here, exec' = exec, dep' = dep, asked' = asked,
         thr[t].pc = "clone" \/ thr[t].pc = "relock",
         \/ /\ thr'[t] = NoCall
            /\ \A j \in Ids : st'[j] = st[j] \/ (st[j] \in Going /\ st'[j] \in IdleStates)
         \/ /\ here
            /\ \E k \in arr.uncreated :
                 /\ ~HasFile(k) /\ k \notin arr'.uncreated /\ st' = [st EXCEPT ![k] = "NEW"]
                 /\ thr'[t].pc = "enqueue" /\ thr'[t].new = k /\ thr'[t].op = thr[t].op
                 /\ thr'[t].i = thr[t].i /\ thr'[t].last = thr[t].last
  PROVE  Step(t)
<1>1. /\ t = Cloner /\ exec \subseteq Ids /\ st \in [Ids -> MemberStates] /\ ArrKept
      /\ arr.uncreated \subseteq Ids /\ asked \subseteq asked'
  BY TypeParts, KeptArr, ArrParts, Zenon DEF Typed
<1>2. CloneCall /\ (thr[t].pc = "relock" => thr[t].new \notin arr.uncreated)
  BY <1>1, Zenon DEF Sound, Calls, CloneCall, Creating
<1>3. /\ MemberStep(t) /\ CloneCall' /\ thr'[t].i = None /\ ~thr'[t].last /\ thr'[t].pc \in {"idle", "enqueue"}
      /\ thr'[t].pc = "enqueue" => st[thr'[t].new] = "NONE" /\ st'[thr'[t].new] = "NEW"
      /\ ~Charges(thr'[t])
  <2>1. CASE /\ thr'[t] = NoCall
             /\ \A j \in Ids : st'[j] = st[j] \/ (st[j] \in Going /\ st'[j] \in IdleStates)
    <3>1. MemberStep(t)
      BY <2>1, Zenon DEF MemberStep
    <3> QED
      BY <1>1, <2>1, <3>1, IdleHand, NoCallOK, Zenon DEF CloneCall, Creating
  <2>2. ASSUME NEW k \in arr.uncreated, here,
               ~HasFile(k), k \notin arr'.uncreated, st' = [st EXCEPT ![k] = "NEW"],
               thr'[t].pc = "enqueue", thr'[t].new = k, thr'[t].op = thr[t].op,
               thr'[t].i = thr[t].i, thr'[t].last = thr[t].last
        PROVE  /\ MemberStep(t) /\ CloneCall' /\ thr'[t].i = None /\ ~thr'[t].last /\ thr'[t].pc = "enqueue"
               /\ st[thr'[t].new] = "NONE" /\ st'[thr'[t].new] = "NEW" /\ ~Charges(thr'[t])
    <3>1. st[k] = "NONE"
      BY <2>2, Zenon DEF HasFile, Sound, Clones
    <3>2. k \in Ids /\ st'[k] = "NEW" /\ \A j \in Ids : j # k => st'[j] = st[j]
      BY <1>1, <2>2, Zenon
    <3>3. MemberStep(t)
      BY <3>1, <3>2, Zenon DEF MemberStep
    <3>4. CloneCall'
      BY <1>1, <1>2, <2>2, Zenon DEF CloneCall
    <3>5. ~Charges(thr'[t])
      BY <2>2, Zenon DEF Charges
    <3> QED
      BY <1>1, <1>2, <2>2, <3>1, <3>2, <3>3, <3>4, <3>5, Zenon DEF CloneCall
  <2> QED
    BY <2>1, <2>2, Zenon
<1>4. OwnStep(t)
  BY <1>1, <1>3, Zenon DEF OwnStep
<1>5. CreateStep(t)
  BY <1>1, <1>2, <1>3, Zenon DEF CreateStep, ArrKept
<1>6. PurgeStep(t)
  BY <1>1, <1>3, Zenon DEF PurgeStep, ArrKept
<1>7. SlotStep(t)
  BY <1>1, <1>3, Zenon DEF SlotStep, ArrKept
<1>8. DoneStep(t)
  BY <1>1, <1>3, Zenon DEF DoneStep, ArrKept
<1> QED
  BY <1>1, <1>3, <1>4, <1>5, <1>6, <1>7, <1>8, Zenon DEF Step, ArrKept

\* So is the loop of job_clone_wt.
LEMMA CloneStep ==
  ASSUME Typed, Extremes, Sound, NEW t \in Everyone, job_clone_wt(t)
  PROVE  Step(t)
<1>1. /\ thr[t].pc = "clone" /\ here' = here /\ thr[t].op = "clone"
      /\ IF here THEN CloneNext(t, arr, thr[t].prev)
         ELSE Return(t) /\ UNCHANGED arr /\ NothingElse
  BY Zenon DEF job_clone_wt, At, Typed, Hand
<1>2. arr \in ArrType /\ thr[t].prev \in Ids \cup {None}
  BY TypeParts, ThreadOf, CallParts, Zenon DEF Typed
<1>3. CASE here
  <2>1. CloneNext(t, arr, thr[t].prev)
    BY <1>1, <1>3, Zenon
  <2>2. /\ StateTyped /\ Turned(t) /\ Narrowed(arr', arr)
        /\ exec' = exec /\ dep' = dep /\ asked' = asked
        /\ \/ /\ thr'[t] = NoCall
              /\ \A j \in Ids : st'[j] = st[j] \/ (st[j] \in Going /\ st'[j] \in IdleStates)
           \/ \E k \in arr.uncreated :
                /\ ~HasFile(k) /\ k \notin arr'.uncreated /\ st' = [st EXCEPT ![k] = "NEW"]
                /\ thr'[t].pc = "enqueue" /\ thr'[t].new = k /\ thr'[t].op = thr[t].op
                /\ thr'[t].i = thr[t].i /\ thr'[t].last = thr[t].last
    BY <1>1, <1>2, <2>1, CloneNextEffect, Zenon
  <2> QED
    BY <1>1, <1>3, <2>2, ClonerStep, Zenon
<1>4. CASE ~here
  <2>1. Turned(t) /\ thr'[t] = NoCall
    BY <1>1, <1>4, Returned, Zenon
  <2>2. StateTyped
    BY <1>1, <1>4, AsTyped, Zenon DEF StateTyped
  <2>3. Narrowed(arr', arr) /\ exec' = exec /\ dep' = dep /\ asked' = asked /\ st' = st
    BY <1>1, <1>2, <1>4, Zenon DEF Narrowed, NothingElse
  <2> QED
    BY <1>1, <2>1, <2>2, <2>3, ClonerStep, Zenon
<1> QED
  BY <1>3, <1>4, Zenon

\* So is locking the array again after a clone.
LEMMA RelockStep ==
  ASSUME Typed, Extremes, Sound, NEW t \in Everyone, RelockArray(t)
  PROVE  Step(t)
<1>1. /\ StateTyped /\ Turned(t) /\ Narrowed(arr', arr)
      /\ here' = here /\ exec' = exec /\ dep' = dep /\ asked' = asked
      /\ thr[t].pc = "relock" /\ thr[t].new \in Ids
      /\ \/ /\ thr[t].op = "clone" /\ thr'[t] = NoCall
            /\ \A j \in Ids : st'[j] = st[j] \/ (st[j] \in Going /\ st'[j] \in IdleStates)
         \/ /\ thr[t].op = "clone" /\ here
            /\ \E k \in arr.uncreated :
                 /\ ~HasFile(k) /\ k \notin arr'.uncreated /\ st' = [st EXCEPT ![k] = "NEW"]
                 /\ thr'[t].pc = "enqueue" /\ thr'[t].new = k /\ thr'[t].op = thr[t].op
                 /\ thr'[t].i = thr[t].i /\ thr'[t].last = thr[t].last
         \/ /\ thr[t].op \in Creators \ {"clone"} /\ thr'[t].pc = "tail" /\ thr'[t].op = thr[t].op
            /\ thr'[t].i = thr[t].i /\ thr'[t].last = thr[t].last /\ st' = st
            /\ ~here \/ ~InList(thr[t].new) \/ thr[t].new \notin arr'.uncreated
  BY RelockEffect, Zenon
<1>2. CASE thr[t].op = "clone"
  BY <1>1, <1>2, ClonerStep, Zenon
<1>3. CASE thr[t].op # "clone"
  <2>1. /\ thr'[t].pc = "tail" /\ thr'[t].op = thr[t].op
        /\ thr'[t].i = thr[t].i /\ thr'[t].last = thr[t].last /\ st' = st
        /\ ~here \/ ~InList(thr[t].new) \/ thr[t].new \notin arr'.uncreated
        /\ thr[t].op \in Creators
    BY <1>1, <1>3, Zenon
  <2>2. t \in Threads
    <3>1. t = Cloner => thr[t].op \in {"none", "clone"}
      BY Zenon DEF Sound, Calls, CloneCall
    <3> QED
      BY <1>3, <2>1, <3>1, Zenon DEF Everyone, Creators
  <2>3. CallOK(thr[t])
    BY <2>2, Zenon DEF Sound, Calls
  <2>4. st[thr[t].new] \in Listed
    BY <1>1, Zenon DEF Sound, Clones, At
  <2>5. CallOK(thr[t])'
    BY <1>1, <2>1, <2>3, Zenon DEF CallOK, Tail, Creating
  <2>6. Charges(thr'[t]) => Charges(thr[t])
    BY <1>1, <2>1, Zenon DEF Charges, Tail, Creating
  <2>7. ArrKept /\ asked \subseteq asked' /\ thr'[t].pc \notin Creating
        /\ (here => thr[t].new \notin arr'.uncreated)
    BY <1>1, <2>1, <2>4, KeptArr, Zenon DEF Creating, InList
  <2> QED
    BY <1>1, <2>1, <2>2, <2>5, <2>6, <2>7, PlainStep, Zenon
<1> QED
  BY <1>2, <1>3, Zenon

\* The part of the server that has the array counted: a start, the deletion of an idle
\* member, an end or a requeue.
Counts(t) ==
  /\ thr[t].i \in Ids
  /\ \/ thr[t].pc \in {"slot", "tail2"} /\ thr[t].op = "run" /\ st[thr[t].i] \in IdleStates
     \/ thr[t].pc \in {"count", "tail2"} /\ thr[t].op \in {"qdel", "qdel all"} /\ st[thr[t].i] \in IdleStates
     \/ thr[t].pc = "obituary" /\ thr[t].op = "obit" /\ st[thr[t].i] = "EXITING"
     \/ thr[t].pc = "obituary" /\ thr[t].op = "rerun" /\ st[thr[t].i] \in IdleStates \cup {"RERUN"}

\* A call that has the array counted finds its member in the state it left it in.
LEMMA CountsOf ==
  ASSUME Typed, Sound, NEW t \in Everyone, thr[t].pc \in {"slot", "count", "tail2", "obituary"}
  PROVE  t \in Threads /\ t # Cloner /\ CallOK(thr[t]) /\ Counts(t) /\ InList(thr[t].i)
         /\ st[thr[t].i] # "GONE"
<1>1. t \in Threads /\ t # Cloner
  BY CloneFacts, JobArrayAssumption, Zenon DEF Sound
<1>2. CallOK(thr[t]) /\ thr[t].i \in Ids /\ thr[t].op # "clone" /\ Hand(thr[t])
  <2>1. thr[t].pc \in Tail \cup {"slot", "count", "obituary", "requeue", "mark", "free"}
    BY Zenon DEF Tail
  <2> QED
    BY <1>1, <2>1, CallFacts, Zenon DEF Sound, Calls, Typed
<1>3. Counts(t)
  BY <1>2, Zenon DEF CallOK, Hand, Counts, Tail
<1> QED
  BY <1>1, <1>2, <1>3, Zenon DEF Counts, InList, Listed, IdleStates

\* What the caller does with its member when the array is counted.
LEMMA Resuming ==
  ASSUME Typed, Sound, NEW t \in Threads, t # Cloner, CallOK(thr[t]), Counts(t),
         NEW s, Evaluated(t, s), Resume(t, s)
  PROVE  /\ Turned(t) /\ MemberStep(t) /\ OwnStep(t) /\ asked \subseteq asked'
         /\ thr'[t].pc \in {"idle", "walk", "requeue"} /\ ~Charges(thr'[t])
         /\ thr'[t].i \in {None, thr[t].i} /\ (thr'[t].last => thr[t].last)
         /\ exec' = exec \/ (thr[t].op = "run" /\ exec' = exec \cup {thr[t].i})
         /\ thr[t].op \in {"qdel", "qdel all", "obit"} => st'[thr[t].i] \in Finished
<1>1. /\ thr[t].i \in Ids /\ t \in Everyone /\ thr[t].op \in {"run", "qdel", "qdel all", "obit", "rerun"}
      /\ thr[t].op \in {"run", "qdel", "qdel all"} => st[thr[t].i] \in IdleStates
      /\ thr[t].op = "obit" => st[thr[t].i] = "EXITING"
      /\ thr[t].op = "rerun" => st[thr[t].i] \in IdleStates \cup {"RERUN"}
  BY Zenon DEF Counts, Everyone
<1>2. thr[t].op \in Ops /\ s \in [Ids -> MemberStates] /\ s[thr[t].i] = st[thr[t].i]
  BY <1>1, Zenon DEF Ops, Evaluated
<1>3. /\ Turned(t) /\ MembersTyped
      /\ \A j \in Ids \ {thr[t].i} : st'[j] = s[j]
      /\ \/ st' = s /\ exec' = exec
         \/ /\ thr[t].op = "run" /\ s[thr[t].i] \in Listed
            /\ st'[thr[t].i] = "RUNNING" /\ exec' = exec \cup {thr[t].i}
         \/ /\ thr[t].op \in {"qdel", "qdel all", "purge"} /\ s[thr[t].i] \in Listed
            /\ st'[thr[t].i] = "COMPLETE" /\ exec' = exec
      /\ thr[t].op \in {"qdel", "qdel all"} /\ s[thr[t].i] \in Listed => st'[thr[t].i] = "COMPLETE"
      /\ thr[t].op \in {"run", "qdel", "obit"} => thr'[t] = NoCall
      /\ thr[t].op \in {"qdel all", "rerun"} => /\ thr'[t].op = thr[t].op /\ thr'[t].i = thr[t].i
                                                /\ thr'[t].last = thr[t].last
                                                /\ thr'[t].pc \in {"walk", "requeue"}
                                                /\ thr[t].op = "rerun" => thr'[t].pc = "requeue"
                                                /\ thr[t].op = "qdel all" => thr'[t].pc = "walk"
  BY <1>1, <1>2, ResumeEffect, Zenon
<1>4. st'[thr[t].i] = st[thr[t].i] \/ (st[thr[t].i] \in IdleStates /\ st'[thr[t].i] \in {"RUNNING", "COMPLETE"})
  BY <1>1, <1>2, <1>3, Zenon
<1>5. MemberStep(t)
  <2>1. \A j \in Ids : j # thr[t].i => st'[j] = st[j] \/ (st[j] \in Going /\ st'[j] \in IdleStates)
    BY <1>3, Zenon DEF Evaluated
  <2> QED
    BY <1>4, <2>1, Zenon DEF MemberStep
<1>6. asked \subseteq asked' /\ exec' \subseteq Ids
  BY <1>3, Zenon DEF MembersTyped
<1>7. thr[t].op \in {"qdel", "qdel all", "obit"} => st'[thr[t].i] \in Finished
  BY <1>1, <1>2, <1>3, Zenon DEF Finished, Listed
<1>8. thr[t].op = "rerun" => st'[thr[t].i] = st[thr[t].i]
  BY <1>2, <1>3, Zenon
<1>9. /\ CallOK(thr[t])' /\ thr'[t].pc \in {"idle", "walk", "requeue"} /\ ~Charges(thr'[t])
      /\ thr'[t].i \in {None, thr[t].i} /\ (thr'[t].last => thr[t].last)
  <2>1. CASE thr'[t] = NoCall
    BY <2>1, NoCallOK, Zenon DEF CallOK
  <2>2. CASE thr[t].op = "rerun"
    BY <1>1, <1>3, <1>8, <2>2, Zenon DEF CallOK, Charges, Tail, Creating
  <2>3. CASE thr[t].op = "qdel all"
    BY <1>3, <1>6, <2>3, Zenon DEF CallOK, Charges, Tail, Creating
  <2> QED
    BY <1>1, <1>3, <2>1, <2>2, <2>3, Zenon
<1>10. exec' = exec \/ (thr[t].op = "run" /\ exec' = exec \cup {thr[t].i})
  BY <1>3, Zenon
<1>11. OwnStep(t)
  BY <1>6, <1>9, <1>10, Zenon DEF OwnStep
<1> QED
  BY <1>3, <1>5, <1>6, <1>7, <1>9, <1>10, <1>11, Zenon

\* A step that counts the array and lets the caller go on.
LEMMA SettleStep ==
  ASSUME Typed, Extremes, Sound, NEW t \in Threads, t # Cloner, CallOK(thr[t]), Counts(t), here' = here,
         NEW a \in ArrType, NEW done \in Nat, Settle(t, a, done),
         done = arr.jobs_done \/ (thr[t].pc = "tail2" /\ done = thr[t].seen),
         a.jobs_done = arr.jobs_done, a.num_purged = arr.num_purged, a.uncreated = arr.uncreated,
         a.being_deleted = arr.being_deleted,
         SlotLimit >= 0 =>
           \/ a.jobs_running = arr.jobs_running /\ (thr[t].op = "run" => Charges(thr[t]))
           \/ /\ arr.jobs_running < SlotLimit
              /\ a.jobs_running = IF arr.jobs_running < NumJobs THEN arr.jobs_running + 1
                                  ELSE arr.jobs_running
           \/ /\ thr[t].pc = "obituary"
              /\ a.jobs_running = IF arr.jobs_running > 0 THEN arr.jobs_running - 1 ELSE 0
  PROVE  Step(t)
<1>0. t \in Everyone
  BY Zenon DEF Everyone
<1>1. Settled(t, a, done) /\ \E s : Evaluated(t, s) /\ Resume(t, s)
  BY <1>0, SettleEffect, Zenon
<1>2. /\ Turned(t) /\ MemberStep(t) /\ OwnStep(t) /\ asked \subseteq asked'
      /\ thr'[t].pc \in {"idle", "walk", "requeue"} /\ ~Charges(thr'[t])
      /\ thr'[t].i \in {None, thr[t].i} /\ (thr'[t].last => thr[t].last)
      /\ exec' = exec \/ (thr[t].op = "run" /\ exec' = exec \cup {thr[t].i})
      /\ thr[t].op \in {"qdel", "qdel all", "obit"} => st'[thr[t].i] \in Finished
  BY <1>1, Resuming, Zenon
<1>3. /\ arr' \in ArrType /\ arr'.jobs_running = a.jobs_running /\ arr'.num_purged = arr.num_purged
      /\ arr'.uncreated = arr.uncreated /\ arr'.being_deleted = arr.being_deleted
      /\ arr'.jobs_done = IF EventOf(thr[t].op) = "aeTerminate" THEN done + 1 ELSE arr.jobs_done
      /\ dep' => dep \/ arr'.jobs_done >= NumJobs
  BY <1>1, Zenon DEF Settled
<1>4. thr[t].pc \in {"slot", "count", "tail2", "obituary"} /\ thr[t].i \in Ids
  BY Zenon DEF Counts
<1>5. CreateStep(t)
  BY <1>2, <1>3, <1>4, Zenon DEF CreateStep
<1>6. PurgeStep(t)
  BY <1>2, <1>3, <1>4, Zenon DEF PurgeStep
<1>7. SlotStep(t)
  <2>1. exec' \subseteq exec \cup {thr[t].i} /\ (thr[t].op # "run" => exec' \subseteq exec)
    BY <1>2, Zenon
  <2>2. thr[t].pc = "obituary" => thr[t].op # "run"
    BY Zenon DEF Counts
  <2> QED
    BY <1>2, <1>3, <2>1, <2>2, Zenon DEF SlotStep
<1>8. DoneStep(t)
  <2>1. CASE EventOf(thr[t].op) = "aeTerminate"
    <3>1. thr[t].op \in {"qdel", "qdel all", "obit"}
      BY <2>1, Zenon DEF Counts, EventOf
    <3>2. st[thr[t].i] \in Finished => thr[t].pc = "obituary"
      BY Zenon DEF Counts, Finished, IdleStates
    <3>3. arr'.jobs_done = done + 1
      BY <1>3, <2>1, Zenon
    <3> QED
      BY <1>2, <1>3, <1>4, <3>1, <3>2, <3>3, Zenon DEF DoneStep
  <2>2. CASE EventOf(thr[t].op) # "aeTerminate"
    BY <1>2, <1>3, <2>2, Zenon DEF DoneStep
  <2> QED
    BY <2>1, <2>2, Zenon
<1> QED
  BY <1>2, <1>3, <1>5, <1>6, <1>7, <1>8, Zenon DEF Step

\* The calls that may create the next member.
Starters == {"run", "qdel", "qdel all"}

\* The array as counted, a, with the next member k there already or being made.
Spawned(t, a, k) ==
  /\ Turned(t) /\ arr' \in ArrType /\ arr'.jobs_running = a.jobs_running
  /\ arr'.jobs_done = a.jobs_done /\ arr'.num_purged = a.num_purged
  /\ arr'.being_deleted = a.being_deleted /\ arr'.uncreated \subseteq arr.uncreated
  /\ exec' = exec /\ dep' = dep /\ asked' = asked
  /\ thr'[t].op = thr[t].op /\ thr'[t].i = thr[t].i /\ thr'[t].last = thr[t].last
  /\ \/ thr'[t].pc = "tail" /\ st' = st
     \/ /\ thr'[t].pc = "enqueue" /\ thr'[t].new = k /\ st[k] = "NONE" /\ st'[k] = "NEW"
        /\ \A j \in Ids : j # k => st'[j] = st[j]

\* job_clone for thread t: the next member has no file yet and gets one.
LEMMA CloningEffect ==
  ASSUME Typed, Clones, here, NEW t \in Everyone, thr[t].i \in Ids, thr[t].op \in Starters,
         NEW a \in ArrType, NEW k \in a.uncreated, a.uncreated = arr.uncreated, ~HasFile(k),
         job_clone(t, a, k, a.highest, {})
  PROVE  Spawned(t, a, k)
<1>1. /\ k \in Ids /\ a.highest \in Ids \cup {None} /\ thr[t].op \in Creators /\ {} \in SUBSET {"a", "l"}
      /\ st \in [Ids -> MemberStates]
  BY ArrParts, TypeParts, Zenon DEF Creators, Typed, Starters
<1>2. Narrowed(arr', a) /\ Turned(t)
  BY <1>1, CloneEffect, Zenon
<1>3. /\ thr'[t].pc = "enqueue" /\ thr'[t].new = k /\ thr'[t].op = thr[t].op
      /\ thr'[t].i = thr[t].i /\ thr'[t].last = thr[t].last
  BY <1>1, CloneEffect, Zenon
<1>4. st' = [st EXCEPT ![k] = "NEW"] /\ exec' = exec /\ dep' = dep /\ asked' = asked
  BY Zenon DEF job_clone
<1>5. st[k] = "NONE"
  BY Zenon DEF HasFile, Clones
<1>6. st'[k] = "NEW" /\ \A j \in Ids : j # k => st'[j] = st[j]
  BY <1>1, <1>4, Zenon
<1> QED
  BY <1>2, <1>3, <1>4, <1>5, <1>6, Zenon DEF Narrowed, Spawned

\* create_job_if_needed: the next member is there already, or job_clone makes it.
LEMMA SpawnEffect ==
  ASSUME Typed, Clones, here, NEW t \in Everyone, thr[t].i \in Ids, thr[t].op \in Starters,
         NEW a \in ArrType, NEW k \in a.uncreated, a.uncreated = arr.uncreated,
         \/ arr' = Created(a, k) /\ Go(t, "tail") /\ NothingElse
         \/ ~HasFile(k) /\ job_clone(t, a, k, a.highest, {})
  PROVE  Spawned(t, a, k)
<1>1. k \in Ids
  BY ArrParts, Zenon
<1>2. CASE arr' = Created(a, k) /\ Go(t, "tail") /\ NothingElse
  <2>1. "tail" \in Places /\ thr[t].op \in {"run", "qdel", "qdel all", "purge", "qdel array"}
    BY Zenon DEF Places, Starters
  <2>2. Turned(t)
    BY <1>2, <2>1, GoneTo, Zenon
  <2>3. thr'[t].pc = "tail" /\ thr'[t].op = thr[t].op /\ thr'[t].i = thr[t].i /\ thr'[t].last = thr[t].last
    BY <1>2, <2>1, Gone, Zenon
  <2>4. /\ Created(a, k) \in ArrType /\ Created(a, k).jobs_running = a.jobs_running
        /\ Created(a, k).jobs_done = a.jobs_done /\ Created(a, k).num_purged = a.num_purged
        /\ Created(a, k).being_deleted = a.being_deleted
        /\ Created(a, k).uncreated = a.uncreated \ {k}
    BY <1>1, CreatedType, Zenon
  <2>5. exec' = exec /\ dep' = dep /\ asked' = asked /\ st' = st
    BY <1>2, Zenon DEF NothingElse
  <2> QED
    BY <1>2, <2>2, <2>3, <2>4, <2>5, Zenon DEF Spawned
<1>3. CASE ~HasFile(k) /\ job_clone(t, a, k, a.highest, {})
  BY <1>3, CloningEffect, Zenon
<1> QED
  BY <1>2, <1>3, Zenon

\* A start or a deletion that goes on to create the next member.
LEMMA SpawnStep ==
  ASSUME Typed, Extremes, Sound, NEW t \in Threads, t # Cloner, CallOK(thr[t]), Counts(t), here, here' = here,
         thr[t].pc \in {"slot", "count"}, thr[t].op \in Starters,
         NEW a \in ArrType, NEW k \in a.uncreated,
         \/ arr' = Created(a, k) /\ Go(t, "tail") /\ NothingElse
         \/ ~HasFile(k) /\ job_clone(t, a, k, a.highest, {}),
         a.jobs_done = arr.jobs_done, a.num_purged = arr.num_purged, a.uncreated = arr.uncreated,
         a.being_deleted = arr.being_deleted,
         SlotLimit >= 0 =>
           \/ a.jobs_running = arr.jobs_running /\ thr[t].op # "run"
           \/ /\ arr.jobs_running < SlotLimit
              /\ a.jobs_running = IF arr.jobs_running < NumJobs THEN arr.jobs_running + 1
                                  ELSE arr.jobs_running
  PROVE  Step(t)
<1>1. /\ t \in Everyone /\ k \in Ids /\ exec \subseteq Ids /\ st \in [Ids -> MemberStates]
      /\ thr[t].i \in Ids /\ st[thr[t].i] \in IdleStates /\ a.highest \in Ids \cup {None}
      /\ asked \subseteq asked
  BY TypeParts, ArrParts, Zenon DEF Everyone, Typed, Counts
<1>2. /\ Turned(t) /\ arr' \in ArrType /\ arr'.jobs_running = a.jobs_running
      /\ arr'.jobs_done = a.jobs_done /\ arr'.num_purged = a.num_purged
      /\ arr'.being_deleted = a.being_deleted /\ arr'.uncreated \subseteq arr.uncreated
      /\ exec' = exec /\ dep' = dep /\ asked' = asked
      /\ thr'[t].op = thr[t].op /\ thr'[t].i = thr[t].i /\ thr'[t].last = thr[t].last
      /\ \/ thr'[t].pc = "tail" /\ st' = st
         \/ /\ thr'[t].pc = "enqueue" /\ thr'[t].new = k /\ st[k] = "NONE" /\ st'[k] = "NEW"
            /\ \A j \in Ids : j # k => st'[j] = st[j]
  <2>1. Clones
    BY Zenon DEF Sound
  <2>2. Spawned(t, a, k)
    BY <1>1, <2>1, SpawnEffect, Zenon
  <2> QED
    BY <2>2, Zenon DEF Spawned
<1>3. MemberStep(t)
  BY <1>2, Zenon DEF MemberStep
<1>4. CallOK(thr[t])' /\ thr'[t].pc \in {"tail", "enqueue"}
  <2>1. st'[thr[t].i] \in IdleStates
    BY <1>1, <1>2, Zenon DEF IdleStates
  <2>2. thr'[t].pc \in {"tail", "enqueue"}
    BY <1>2, Zenon
  <2> QED
    BY <1>2, <2>1, <2>2, Zenon DEF CallOK
<1>5. OwnStep(t)
  BY <1>1, <1>2, <1>4, Zenon DEF OwnStep
<1>6. CreateStep(t)
  BY <1>2, <1>4, Zenon DEF CreateStep
<1>7. PurgeStep(t)
  BY <1>2, <1>4, Zenon DEF PurgeStep
<1>8. SlotStep(t)
  <2>1. thr[t].op # "run" => ~Charges(thr'[t])
    BY <1>2, <1>4, Zenon DEF Charges
  <2> QED
    BY <1>2, <2>1, Zenon DEF SlotStep
<1>9. DoneStep(t)
  BY <1>2, <1>4, Zenon DEF DoneStep
<1> QED
  BY <1>2, <1>3, <1>5, <1>6, <1>7, <1>8, <1>9, Zenon DEF Step

\* update_array_values is such a step, whichever way it ends: the limit was tested under
\* the same hold of the array as the start is counted.
LEMMA UpdateStep ==
  ASSUME Typed, Extremes, Sound, NEW t \in Threads, t # Cloner, CallOK(thr[t]), Counts(t), here, here' = here,
         thr[t].pc \in {"slot", "count", "obituary"}, NEW old, update_array_values(t, old),
         thr[t].pc \in {"slot", "count"} => old = st[thr[t].i],
         thr[t].pc = "obituary" => old = "RUNNING",
         thr[t].pc = "slot" /\ SlotLimit >= 0 => arr.jobs_running < SlotLimit
  PROVE  Step(t)
<1> DEFINE event == EventOf(thr[t].op)
           a == Counted(arr, event, old)
<1>0. t \in Everyone /\ arr \in ArrType
  BY TypeParts, Zenon DEF Everyone, Typed
<1>1. a \in ArrType /\ SameButCounts(a, arr) /\ Recounted(arr, a, event, old)
  BY <1>0, CountedType, Zenon
<1>2. /\ a.jobs_done = arr.jobs_done /\ a.num_purged = arr.num_purged /\ a.uncreated = arr.uncreated
      /\ a.being_deleted = arr.being_deleted
  BY <1>1, Zenon DEF SameButCounts
<1>3. a.jobs_done \in Nat
  BY <1>1, ArrParts, Zenon
<1>4. thr[t].pc \in {"slot", "count"} =>
        old \in IdleStates /\ ~Running(old) /\ thr[t].op \in {"run", "qdel", "qdel all"}
  BY Zenon DEF Counts, IdleStates, Running
<1>5. SlotLimit >= 0 =>
        \/ a.jobs_running = arr.jobs_running /\ thr[t].op # "run"
        \/ /\ arr.jobs_running < SlotLimit
           /\ a.jobs_running = IF arr.jobs_running < NumJobs THEN arr.jobs_running + 1
                               ELSE arr.jobs_running
        \/ /\ thr[t].pc = "obituary"
           /\ a.jobs_running = IF arr.jobs_running > 0 THEN arr.jobs_running - 1 ELSE 0
  <2>1. CASE thr[t].pc = "slot"
    <3>1. event = "aeRun" /\ ~Running(old)
      BY <1>4, <2>1, Zenon DEF Counts, EventOf
    <3>2. a.jobs_running = IF arr.jobs_running < NumJobs THEN arr.jobs_running + 1 ELSE arr.jobs_running
      BY <1>1, <3>1, Zenon DEF Recounted
    <3> QED
      BY <2>1, <3>2, Zenon
  <2>2. CASE thr[t].pc = "count"
    <3>1. event = "aeTerminate" /\ ~Running(old) /\ thr[t].op # "run"
      BY <1>4, <2>2, Zenon DEF Counts, EventOf
    <3>2. a.jobs_running = arr.jobs_running
      BY <1>1, <3>1, Zenon DEF Recounted
    <3> QED
      BY <3>1, <3>2, Zenon
  <2>3. CASE thr[t].pc = "obituary"
    <3>1. event \in {"aeTerminate", "aeRerun"} /\ Running(old)
      BY <2>3, Zenon DEF Counts, EventOf, Running
    <3>2. a.jobs_running = IF arr.jobs_running > 0 THEN arr.jobs_running - 1 ELSE 0
      BY <1>1, <3>1, Zenon DEF Recounted
    <3> QED
      BY <2>3, <3>2, Zenon
  <2> QED
    BY <2>1, <2>2, <2>3, Zenon
<1>6. \/ Settle(t, a, a.jobs_done)
      \/ /\ old \in IdleStates /\ event # "aeRerun"
         /\ \E k \in a.uncreated : \/ arr' = Created(a, k) /\ Go(t, "tail") /\ NothingElse /\ HasFile(k)
                                   \/ ~HasFile(k) /\ job_clone(t, a, k, a.highest, {})
  BY <1>0, UpdateCases, Zenon
<1>7. CASE Settle(t, a, a.jobs_done)
  <2> HIDE DEF a
  <2> QED
    BY <1>1, <1>2, <1>3, <1>5, <1>7, SettleStep, Zenon
<1>8. CASE /\ old \in IdleStates
           /\ \E k \in a.uncreated : \/ arr' = Created(a, k) /\ Go(t, "tail") /\ NothingElse /\ HasFile(k)
                                     \/ ~HasFile(k) /\ job_clone(t, a, k, a.highest, {})
  <2> HIDE DEF a
  <2>1. thr[t].pc \in {"slot", "count"}
    BY <1>8, Zenon DEF IdleStates
  <2>2. PICK k \in a.uncreated : \/ arr' = Created(a, k) /\ Go(t, "tail") /\ NothingElse
                                 \/ ~HasFile(k) /\ job_clone(t, a, k, a.highest, {})
    BY <1>8, Zenon
  <2>3. SlotLimit >= 0 =>
          \/ a.jobs_running = arr.jobs_running /\ thr[t].op # "run"
          \/ /\ arr.jobs_running < SlotLimit
             /\ a.jobs_running = IF arr.jobs_running < NumJobs THEN arr.jobs_running + 1
                                 ELSE arr.jobs_running
    BY <1>5, <2>1, Zenon
  <2>4. thr[t].op \in Starters
    BY <1>4, <2>1, Zenon DEF Starters
  <2> QED
    BY <1>1, <1>2, <2>1, <2>2, <2>3, <2>4, SpawnStep, Zenon
<1> QED
  BY <1>6, <1>7, <1>8, Zenon

\* The array is gone: the caller goes on, and no slot is at stake.
LEMMA AbsentStep ==
  ASSUME Typed, Sound, NEW t \in Threads, t # Cloner, CallOK(thr[t]), Counts(t), st[thr[t].i] # "GONE",
         ~here, here' = here, Resume(t, st), UNCHANGED <<arr, hold, dep>>
  PROVE  Step(t)
<1>1. Evaluated(t, st) /\ arr \in ArrType
  BY TypeParts, Zenon DEF Evaluated, Typed
<1>2. /\ Turned(t) /\ MemberStep(t) /\ OwnStep(t) /\ asked \subseteq asked'
      /\ thr'[t].pc \in {"idle", "walk", "requeue"} /\ ~Charges(thr'[t])
      /\ thr'[t].i \in {None, thr[t].i} /\ (thr'[t].last => thr[t].last)
  BY <1>1, Resuming, Zenon
<1>3. thr[t].pc \in {"slot", "count", "tail2", "obituary"} /\ thr[t].i \in Ids
  BY Zenon DEF Counts
<1>4. "qdel all" \in asked
  BY <1>3, ArrayHere, Zenon
<1>5. CreateStep(t)
  BY <1>2, <1>3, Zenon DEF CreateStep
<1>6. PurgeStep(t)
  BY <1>2, <1>3, Zenon DEF PurgeStep
<1>7. SlotStep(t)
  BY <1>2, <1>4, Zenon DEF SlotStep
<1>8. DoneStep(t)
  BY <1>2, Zenon DEF DoneStep
<1> QED
  BY <1>1, <1>2, <1>5, <1>6, <1>7, <1>8, Zenon DEF Step

\* The test of check_and_run_job_work.
LEMMA SlotFreeMeans ==
  ASSUME Typed, SlotFree, SlotLimit >= 0
  PROVE  arr.jobs_running < SlotLimit
<1>1. arr.jobs_running \in 0 .. NumJobs
  BY TypeParts, ArrParts, Zenon DEF Typed
<1>2. arr.jobs_running \in Int
  BY <1>1, Numbers, SMT
<1>3. SlotLimit \in Int
  BY JobArrayAssumption, SMT
<1> QED
  BY <1>2, <1>3, SMT DEF SlotFree

\* The unlocked write of jobs_done is such a step.
LEMMA TailWriteStep ==
  ASSUME Typed, Extremes, Sound, NEW t \in Everyone, TailWrite(t)
  PROVE  Step(t)
<1>1. thr[t].pc = "tail2" /\ Settle(t, arr, thr[t].seen) /\ here' = here
  BY Zenon DEF TailWrite, At
<1>2. t \in Threads /\ t # Cloner /\ CallOK(thr[t]) /\ Counts(t)
  BY <1>1, CountsOf, Zenon
<1>3. arr \in ArrType /\ thr[t].seen \in Nat
  BY TypeParts, ThreadOf, CallParts, Zenon DEF Typed
<1>4. thr[t].op = "run" => Charges(thr[t])
  BY <1>1, Zenon DEF Charges, Tail
<1> QED
  BY <1>1, <1>2, <1>3, <1>4, SettleStep, Zenon

\* So is the section of a caller, with the array there or not.
LEMMA InArrayStep ==
  ASSUME Typed, Extremes, Sound, NEW t \in Threads, t # Cloner, CallOK(thr[t]), Counts(t),
         st[thr[t].i] # "GONE", here' = here,
         thr[t].pc \in {"slot", "count", "obituary"}, NEW old, InArray(t, old),
         thr[t].pc \in {"slot", "count"} => old = st[thr[t].i],
         thr[t].pc = "obituary" => old = "RUNNING",
         thr[t].pc = "slot" /\ SlotLimit >= 0 => ~here \/ arr.jobs_running < SlotLimit
  PROVE  Step(t)
<1>1. CASE here
  <2>1. update_array_values(t, old)
    BY <1>1, Zenon DEF InArray
  <2> QED
    BY <1>1, <2>1, UpdateStep, Zenon
<1>2. CASE ~here
  <2>1. Resume(t, st) /\ UNCHANGED <<arr, hold, dep>>
    BY <1>2, Zenon DEF InArray
  <2> QED
    BY <1>2, <2>1, AbsentStep, Zenon
<1> QED
  BY <1>1, <1>2, Zenon

\* So is a start, counted or refused.
LEMMA StartStep ==
  ASSUME Typed, Extremes, Sound, NEW t \in Everyone, check_and_run_job_work(t)
  PROVE  Step(t)
<1>1. /\ thr[t].pc = "slot" /\ here' = here
      /\ \/ InArray(t, st[thr[t].i]) /\ (~here \/ SlotFree)
         \/ Return(t) /\ UNCHANGED arr /\ NothingElse
  BY Zenon DEF check_and_run_job_work, At
<1>2. t \in Threads /\ t # Cloner /\ CallOK(thr[t]) /\ Counts(t) /\ st[thr[t].i] # "GONE"
  BY <1>1, CountsOf, Zenon
<1>3. CASE InArray(t, st[thr[t].i]) /\ (~here \/ SlotFree)
  <2>1. SlotLimit >= 0 => ~here \/ arr.jobs_running < SlotLimit
    BY <1>3, SlotFreeMeans, Zenon
  <2> QED
    BY <1>1, <1>2, <1>3, <2>1, InArrayStep, Zenon
<1>4. CASE Return(t) /\ UNCHANGED arr /\ NothingElse
  <2>1. Turned(t) /\ thr'[t] = NoCall
    BY <1>4, Returned, Zenon
  <2>2. ArrKept /\ asked' = asked /\ dep' = dep /\ st' = st /\ exec' = exec
    BY <1>4, KeptArr, Zenon DEF NothingElse
  <2> QED
    BY <1>1, <1>2, <2>1, <2>2, PlainStep, Zenon
<1> QED
  BY <1>1, <1>3, <1>4, Zenon

\* So is the end or the requeue of a member, counted.
LEMMA EndStep ==
  ASSUME Typed, Extremes, Sound, NEW t \in Everyone, ArraySubjobEnds(t)
  PROVE  Step(t)
<1>1. thr[t].pc = "obituary" /\ here' = here
  BY Zenon DEF ArraySubjobEnds, At
<1>2. /\ t \in Threads /\ t # Cloner /\ CallOK(thr[t]) /\ Counts(t) /\ st[thr[t].i] # "GONE"
      /\ InList(thr[t].i)
  BY <1>1, CountsOf, Zenon
<1>3. InArray(t, "RUNNING")
  BY <1>2, Zenon DEF ArraySubjobEnds
<1> QED
  BY <1>1, <1>2, <1>3, InArrayStep, Zenon

\* So is the deletion of an idle member, counted.
LEMMA DeleteStep ==
  ASSUME Typed, Extremes, Sound, NEW t \in Everyone, perform_job_delete_array_bookkeeping(t)
  PROVE  Step(t)
<1>1. thr[t].pc = "count" /\ here' = here
  BY Zenon DEF perform_job_delete_array_bookkeeping, At
<1>2. /\ t \in Threads /\ t # Cloner /\ CallOK(thr[t]) /\ Counts(t) /\ st[thr[t].i] # "GONE"
      /\ InList(thr[t].i)
  BY <1>1, CountsOf, Zenon
<1>3. InArray(t, st[thr[t].i])
  BY <1>2, Zenon DEF perform_job_delete_array_bookkeeping
<1> QED
  BY <1>1, <1>2, <1>3, InArrayStep, Zenon

\* The array is not deleted as a whole at a calm site.
LEMMA NoArrayDeletion ==
  ASSUME Typed, Sound, NEW t \in Everyone
  PROVE  ~delete_whole_array(t) /\ ~CountDeleted(t)
<1>1. thr[t].op # "qdel array"
  BY Zenon DEF Sound, Calls, CloneCall, CallOK, Everyone
<1>2. thr[t].pc # "next"
  BY <1>1, Zenon DEF Typed, Hand
<1> QED
  BY <1>1, <1>2, Zenon DEF delete_whole_array, CountDeleted, At

\* Every step of a call is such a step.
LEMMA ContinueStep ==
  ASSUME Typed, Extremes, Sound, Calm', NEW t \in Everyone, Continue(t)
  PROVE  Step(t)
BY CloneStep, EnqueueStep, RelockStep, TailReadStep, TailWriteStep, StartStep, EndStep, RequeueStep,
   MarkStep, FreeStep, ReapStep, WalkStep, DeleteStep, NoArrayDeletion, Zenon DEF Continue

\* Such a step keeps the invariant.
LEMMA StepKeeps ==
  ASSUME Typed, Counting, Sound, NEW t \in Everyone, Step(t)
  PROVE  Sound'
<1>1. Calls /\ Solo /\ Clones /\ Purges /\ Slots /\ Endings
  BY Zenon DEF Sound
<1>2. Calls' /\ Solo' /\ Clones'
  BY <1>1, CallsKept, SoloKept, ClonesKept, Zenon
<1>3. Purges' /\ Slots' /\ Endings'
  BY <1>1, PurgesKept, SlotsKept, EndingsKept, Zenon
<1> QED
  BY <1>2, <1>3, Zenon DEF Sound

\* So does a step of something else.
LEMMA UnchangedKeeps ==
  ASSUME Sound, UNCHANGED vars
  PROVE  Sound'
<1>1. thr' = thr /\ st' = st /\ arr' = arr /\ here' = here /\ exec' = exec /\ asked' = asked /\ dep' = dep
  BY Zenon DEF vars
<1>2. Calls' /\ Solo'
  BY <1>1, Zenon DEF Sound, Calls, CloneCall, CallOK, Solo
<1>3. Clones'
  BY <1>1, ZenonT(60) DEF Sound, Clones, At
<1>4. Purged' = Purged /\ Charged' = Charged /\ Ended' = Ended
  BY <1>1, Zenon DEF Purged, Freeing, Charged, Charges, Ended, At
<1>5. Purges' /\ Slots' /\ Endings'
  BY <1>1, <1>4, Zenon DEF Sound, Purges, Slots, Endings, At
<1> QED
  BY <1>2, <1>3, <1>5, Zenon DEF Sound

\* ArrayInv is inductive.
LEMMA InvNext ==
  ASSUME ArrayInv, Extremes, Counting, [Next]_vars
  PROVE  ArrayInv'
<1>1. Typed /\ Typed' /\ asked \subseteq asked'
  BY TypesNext, Zenon DEF ArrayInv
<1>2. SUFFICES ASSUME KeepCompleted, Calm' PROVE Sound'
  BY <1>1, Zenon DEF ArrayInv
<1>3. Sound
  BY <1>1, <1>2, Zenon DEF ArrayInv, Calm
<1>4. ASSUME NEW t \in Everyone, Continue(t) PROVE Sound'
  BY <1>1, <1>2, <1>3, <1>4, ContinueStep, StepKeeps, Zenon
<1>5. ASSUME NEW t \in Threads, Request(t) PROVE Sound'
  <2>1. t \in Everyone
    BY Zenon DEF Everyone
  <2> QED
    BY <1>1, <1>2, <1>3, <1>5, <2>1, RequestStep, StepKeeps, Zenon
<1>6. ASSUME NEW i \in Ids, on_job_exit(i) \/ obit_refused(i) PROVE Sound'
  BY <1>1, <1>3, <1>6, AloneKept, Zenon
<1>7. CASE UNCHANGED vars
  BY <1>3, <1>7, UnchangedKeeps, Zenon
<1> QED
  BY <1>4, <1>5, <1>6, <1>7, Zenon DEF Next, Everyone
=============================================================================
