--------------------------- MODULE JobCountsSteps ---------------------------
(***************************************************************************)
(* Every step of JobCounts keeps the types and the account of reserved    *)
(* places, and is of one of the kinds of JobCountsKinds.                  *)
(***************************************************************************)
EXTENDS JobCountsKinds

-----------------------------------------------------------------------------
(* Counting *)

\* So can the entries of the queues, which correct_ct goes through.
LEMMA EntriesCountable ==
  ASSUME Sizes, NEW S, S \subseteq Queues \X Jobs
  PROVE  IsFiniteSet(S) /\ Cardinality(S) \in Nat
<1>1. IsFiniteSet(Queues \X Jobs)
  BY CountsAssumption, Zenon DEF Sizes
<1> QED
  BY <1>1, Zenon DEF Sizes

-----------------------------------------------------------------------------
(* Types *)

\* Before the test of bad_ct the number of jobs may be below zero.
RawServer == [num : Int, st : [States -> Int], users : Nat]

\* ... and so may that of a queue.
RawQueue == [jobs : SUBSET Jobs, num : Int, st : [States -> Int], uih : Nat, reserved : Nat]

\* decrement_queued_jobs stops at zero.
LEMMA LessType ==
  ASSUME NEW n \in Nat, NEW counted, NEW bit
  PROVE  Less(n, counted, bit) \in Nat
BY DEF Less

\* increment_queued_jobs counts up.
LEMMA MoreType ==
  ASSUME NEW n \in Nat, NEW counted, NEW bit, NEW state
  PROVE  More(n, counted, bit, state) \in Nat
BY DEF More

\* A count per state stays one when svr_setjobstate moves a job between two states,
LEMMA MoveType ==
  ASSUME NEW st \in [States -> Int], NEW old \in States, NEW new \in States
  PROVE  Move(st, old, new) \in [States -> Int]
BY DEF Move

\* ... and when a job comes or goes.
LEMMA RaiseType ==
  ASSUME NEW st \in [States -> Int], NEW s \in States
  PROVE  Raise(st, s) \in [States -> Int] /\ Lower(st, s) \in [States -> Int]
BY DEF Raise, Lower

\* What svr_setjobstate leaves has the right types,
LEMMA SettleTypes ==
  ASSUME TypeOK, NEW j \in Jobs, NEW q \in Queues, NEW new \in States, NEW sub \in Substates,
         NEW svc \in ServerRecord, SettleState(j, q, new, sub, svc)
  PROVE  job' \in [Jobs -> JobRecord] /\ sv' \in ServerRecord /\ que' \in [Queues -> QueueRecord]
<1>1. job[j] \in JobRecord /\ que[q] \in QueueRecord
  BY Zenon DEF TypeOK, JobRecord, QueueRecord
<1>2. job' \in [Jobs -> JobRecord]
  BY <1>1, Zenon DEF SettleState, TypeOK, JobRecord
<1>3. sv' \in ServerRecord
  BY LessType, Zenon DEF SettleState, ServerRecord
<1>4. que' \in [Queues -> QueueRecord]
  <2> DEFINE o == job[j].state
             ends == o # new /\ new = "COMPLETE"
             u == IF ends THEN Less(que[q].uih, job[j].counted, "queue") ELSE que[q].uih
             r == [que[q] EXCEPT !.st = Move(@, o, new), !.uih = u]
  <2>1. o \in States /\ que[q].st \in [States -> Int] /\ que[q].uih \in Nat
    BY <1>1, Zenon DEF JobRecord, QueueRecord
  <2>2. u \in Nat /\ Move(que[q].st, o, new) \in [States -> Int]
    BY <2>1, LessType, MoveType, Zenon
  <2>3. r \in QueueRecord
    BY <1>1, <2>2, Zenon DEF QueueRecord
  <2>4. que' = que \/ que' = [que EXCEPT ![q] = r]
    BY Zenon DEF SettleState
  <2> QED
    BY <2>3, <2>4, ZenonT(40) DEF TypeOK, QueueRecord
<1> QED
  BY <1>2, <1>3, <1>4, Zenon

\* ... and what svr_enquejob leaves,
LEMMA EnqueueTypes ==
  ASSUME TypeOK, NEW j \in Jobs, NEW q \in Queues, NEW qr \in QueueRecord, NEW state \in States,
         Enqueue(j, q, qr, state)
  PROVE  /\ job' \in [Jobs -> JobRecord] /\ sv' \in ServerRecord /\ que' \in [Queues -> QueueRecord]
         /\ alljobs' \subseteq Jobs /\ summary' \subseteq Jobs
<1> DEFINE counted == job[j].counted
           old == j \in qr.jobs
<1>1. job[j] \in JobRecord /\ sv \in ServerRecord /\ que \in [Queues -> QueueRecord]
  BY Zenon DEF TypeOK, JobRecord, QueueRecord, ServerRecord
<1>2. job' \in [Jobs -> JobRecord]
  BY <1>1, ZenonT(40) DEF Enqueue, TypeOK, JobRecord
<1>3. sv' \in ServerRecord
  <2> DEFINE u == IF old THEN sv.users ELSE More(sv.users, counted, "global", state)
             c == Raise(sv.st, state)
             n == sv.num + 1
  <2>1. u \in Nat /\ c \in [States -> Int] /\ n \in Nat
    BY <1>1, MoreType, RaiseType DEF ServerRecord
  <2>2. sv' = [sv EXCEPT !.num = n, !.st = c, !.users = u]
    BY Zenon DEF Enqueue
  <2> HIDE DEF u, c, n
  <2> QED
    BY <1>1, <2>1, <2>2, Zenon DEF ServerRecord
<1>4. que' \in [Queues -> QueueRecord]
  <2> DEFINE u == More(qr.uih, counted, "queue", state)
             c == Raise(qr.st, state)
             n == qr.num + 1
             J == qr.jobs \cup {j}
             r == [qr EXCEPT !.jobs = J, !.num = n, !.st = c, !.uih = u]
  <2>1. u \in Nat /\ c \in [States -> Int] /\ n \in Nat /\ J \subseteq Jobs
    BY MoreType, RaiseType DEF QueueRecord
  <2>2. que' = [que EXCEPT ![q] = qr] \/ que' = [que EXCEPT ![q] = r]
    BY Zenon DEF Enqueue
  <2> HIDE DEF u, c, n, J
  <2>3. r \in QueueRecord
    BY <2>1, Zenon DEF QueueRecord
  <2> QED
    BY <1>1, <2>2, <2>3, Zenon
<1>5. alljobs' \subseteq Jobs /\ summary' \subseteq Jobs
  BY Zenon DEF Enqueue, TypeOK
<1> QED
  BY <1>2, <1>3, <1>4, <1>5, Zenon

\* A recount, whatever it starts from.
LEMMA RecountTypes ==
  ASSUME Sizes, NEW jobs, NEW svr \in RawServer, NEW queues \in [Queues -> RawQueue],
         correct_ct(jobs, svr, queues)
  PROVE  sv' \in ServerRecord /\ que' \in [Queues -> QueueRecord]
<1> DEFINE queued == {e \in Queues \X Jobs : e[2] \in queues[e[1]].jobs}
           In(S, s) == Cardinality({e \in S : jobs[e[2]].state = s})
           Of(q) == {e \in queued : e[1] = q}
<1>1. \A S : S \subseteq queued => \A s : In(S, s) \in Nat
  <2> SUFFICES ASSUME NEW S, S \subseteq queued, NEW s PROVE In(S, s) \in Nat
    BY Zenon
  <2>1. {e \in S : jobs[e[2]].state = s} \subseteq Queues \X Jobs
    BY Zenon
  <2> QED
    BY <2>1, EntriesCountable, Zenon
<1>2. \A q : Of(q) \subseteq queued
  BY Zenon
<1>3. Cardinality(queued) \in Nat /\ \A q : Cardinality(Of(q)) \in Nat
  <2>1. queued \subseteq Queues \X Jobs /\ \A q : Of(q) \subseteq Queues \X Jobs
    BY Zenon
  <2> QED
    BY <2>1, EntriesCountable, Zenon
<1>4. /\ sv' = [svr EXCEPT !.num = Cardinality(queued), !.st = [s \in States |-> In(queued, s)]]
      /\ que' = [q \in Queues |-> [queues[q] EXCEPT !.num = Cardinality(Of(q)),
                                                   !.st = [s \in States |-> In(Of(q), s)]]]
  BY Zenon DEF correct_ct
<1> HIDE DEF queued, In, Of
<1>5. [s \in States |-> In(queued, s)] \in [States -> Int]
  BY <1>1
<1>6. \A q \in Queues : [s \in States |-> In(Of(q), s)] \in [States -> Int]
  BY <1>1, <1>2, SMTT(30)
<1>7. sv' \in ServerRecord
  BY <1>3, <1>4, <1>5, ZenonT(40) DEF ServerRecord, RawServer
<1>8. que' \in [Queues -> QueueRecord]
  BY <1>3, <1>4, <1>6, Zenon DEF QueueRecord, RawQueue
<1> QED
  BY <1>7, <1>8, Zenon

\* ... and what svr_dequejob leaves, whether it recounts or not.
LEMMA DequeueTypes ==
  ASSUME Sizes, TypeOK, NEW j \in Jobs, NEW q \in Queues, NEW jr \in JobRecord,
         NEW qs \in [Queues -> QueueRecord], NEW life \in {"live", "gone"},
         NEW list \in SUBSET Jobs, NEW why \in SUBSET Causes,
         Dequeue(j, q, jr, qs, life, list, why)
  PROVE  /\ job' \in [Jobs -> JobRecord] /\ sv' \in ServerRecord /\ que' \in [Queues -> QueueRecord]
         /\ alljobs' \subseteq Jobs /\ summary' \subseteq Jobs /\ blame' \subseteq Causes
<1> DEFINE o == jr.state
           offQueue == q \in RouteQueues \/ o # "COMPLETE"
           offServer == o # "COMPLETE"
           bits == (IF offQueue THEN {"queue"} ELSE {}) \cup (IF offServer THEN {"global"} ELSE {})
           left == [jr EXCEPT !.qhdr = None, !.counted = @ \ bits, !.life = life]
           jobs == [job EXCEPT ![j] = left]
           uih == IF offQueue THEN Less(qs[q].uih, jr.counted, "queue") ELSE qs[q].uih
           qn == qs[q].num - 1
           qc == Lower(qs[q].st, o)
           J == qs[q].jobs \ {j}
           qr == IF j \in qs[q].jobs
                 THEN [qs[q] EXCEPT !.jobs = J, !.num = qn, !.st = qc, !.uih = uih]
                 ELSE [qs[q] EXCEPT !.uih = uih]
           u == Less(sv.users, jr.counted, "global")
           sn == sv.num - 1
           sc == Lower(sv.st, o)
           svu == IF offServer THEN [sv EXCEPT !.users = u] ELSE sv
           svr == IF j \in alljobs THEN [svu EXCEPT !.num = sn, !.st = sc] ELSE svu
           bad == qr.num < 0 \/ qr.st[o] < 0 \/ svr.num < 0 \/ svr.st[o] < 0
<1>1. sv \in ServerRecord /\ qs[q] \in QueueRecord /\ job \in [Jobs -> JobRecord] /\ o \in States
  BY Zenon DEF TypeOK, ServerRecord, JobRecord
<1>2. /\ job' = jobs /\ alljobs' = alljobs \ {j} /\ summary' = list
      /\ blame' = blame \cup why \cup (IF bad THEN {"recounted"} ELSE {})
      /\ IF bad THEN correct_ct(jobs, svr, [qs EXCEPT ![q] = qr])
         ELSE sv' = svr /\ que' = [qs EXCEPT ![q] = qr]
  BY DEF Dequeue, LeaveQueue, LeaveServer, bad_ct
<1>3. jobs \in [Jobs -> JobRecord]
  BY <1>1, Zenon DEF JobRecord
<1>4. uih \in Nat /\ qc \in [States -> Int] /\ qn \in Int /\ J \subseteq Jobs
  BY <1>1, LessType, RaiseType DEF QueueRecord
<1>5. u \in Nat /\ sc \in [States -> Int] /\ sn \in Int
  BY <1>1, LessType, RaiseType DEF ServerRecord
<1> HIDE DEF jobs, uih, qn, qc, J, u, sn, sc
<1>6. svu \in ServerRecord
  BY <1>1, <1>5, Zenon DEF ServerRecord
<1>7. qr \in RawQueue /\ (qr.num >= 0 => qr \in QueueRecord)
  <2> DEFINE g == [qs[q] EXCEPT !.jobs = J, !.num = qn, !.st = qc, !.uih = uih]
             h == [qs[q] EXCEPT !.uih = uih]
  <2>1. g \in RawQueue /\ g.num = qn
    BY <1>1, <1>4, Zenon DEF QueueRecord, RawQueue
  <2>2. qn >= 0 => qn \in Nat
    BY <1>4
  <2>3. qn \in Nat => g \in QueueRecord
    BY <1>1, <1>4, Zenon DEF QueueRecord
  <2>4. h \in RawQueue
    BY <1>1, <1>4, SMTT(30) DEF QueueRecord, RawQueue
  <2>5. h \in QueueRecord
    BY <1>1, <1>4, Zenon DEF QueueRecord
  <2> HIDE DEF g, h
  <2> QED
    BY <2>1, <2>2, <2>3, <2>4, <2>5, Zenon DEF g, h
<1> HIDE DEF svu
<1>8. svr \in RawServer /\ (svr.num >= 0 => svr \in ServerRecord)
  <2> DEFINE g == [svu EXCEPT !.num = sn, !.st = sc]
  <2>1. g \in RawServer /\ g.num = sn
    BY <1>5, <1>6, Zenon DEF ServerRecord, RawServer
  <2>2. sn >= 0 => sn \in Nat
    BY <1>5
  <2>3. sn \in Nat => g \in ServerRecord
    BY <1>5, <1>6, Zenon DEF ServerRecord
  <2>4. svu \in RawServer
    BY <1>6 DEF ServerRecord, RawServer
  <2> HIDE DEF g
  <2> QED
    BY <2>1, <2>2, <2>3, <2>4, <1>6, Zenon DEF g
<1> HIDE DEF qr, svr
<1>9. sv' \in ServerRecord /\ que' \in [Queues -> QueueRecord]
  <2>1. CASE bad
    <3>1. [qs EXCEPT ![q] = qr] \in [Queues -> RawQueue]
      BY <1>7 DEF QueueRecord, RawQueue
    <3> QED
      BY <2>1, <3>1, <1>2, <1>8, RecountTypes, Zenon
  <2>2. CASE ~bad
    <3>1. qr.num >= 0 /\ svr.num >= 0
      BY <2>2, <1>7, <1>8, SMTT(30) DEF RawQueue, RawServer
    <3> QED
      BY <2>2, <3>1, <1>2, <1>7, <1>8, Zenon
  <2> QED
    BY <2>1, <2>2, Zenon
<1>10. alljobs' \subseteq Jobs /\ summary' \subseteq Jobs /\ blame' \subseteq Causes
  BY <1>2, Zenon DEF TypeOK, Causes
<1> QED
  BY <1>2, <1>3, <1>9, <1>10, Zenon

-----------------------------------------------------------------------------
(* What the three operations do, field by field *)

\* SettleState, as the kinds of steps state it;
LEMMA SettleEffect ==
  ASSUME TypeOK, NEW j \in Jobs, NEW q \in Queues, NEW new \in States, NEW sub,
         NEW svc \in ServerRecord, SettleState(j, q, new, sub, svc), job[j].state # new
  PROVE  Settled(j, q, new, svc)
<1>1. /\ job' = [job EXCEPT ![j].state = new, ![j].sub = sub,
                           ![j].counted = IF new = "COMPLETE" THEN {} ELSE @]
      /\ job[j] \in JobRecord /\ job \in [Jobs -> JobRecord]
  BY Zenon DEF SettleState, TypeOK, JobRecord
<1>2. /\ \A x \in Jobs \ {j} : job'[x] = job[x]
      /\ job'[j].state = new /\ job'[j].qhdr = job[j].qhdr /\ job'[j].life = job[j].life
      /\ job'[j].counted = IF new = "COMPLETE" THEN {} ELSE job[j].counted
  BY <1>1, Zenon DEF JobRecord
<1>3. /\ sv'.num = svc.num /\ sv'.st = svc.st
      /\ sv'.users = IF new = "COMPLETE" THEN Less(svc.users, job[j].counted, "global") ELSE svc.users
  BY Zenon DEF SettleState, ServerRecord
<1>4. /\ que' = [que EXCEPT ![q].st = Move(@, job[j].state, new),
                            ![q].uih = IF new = "COMPLETE" THEN Less(@, job[j].counted, "queue") ELSE @]
      /\ que \in [Queues -> QueueRecord]
  BY Zenon DEF SettleState, TypeOK, QueueRecord
<1>5. /\ \A p \in Queues \ {q} : que'[p] = que[p]
      /\ que'[q].jobs = que[q].jobs /\ que'[q].num = que[q].num /\ que'[q].reserved = que[q].reserved
      /\ que'[q].st = Move(que[q].st, job[j].state, new)
      /\ que'[q].uih = IF new = "COMPLETE" THEN Less(que[q].uih, job[j].counted, "queue") ELSE que[q].uih
  BY <1>4, Zenon DEF QueueRecord
<1> QED
  BY <1>2, <1>3, <1>5, Zenon DEF Settled

\* ... Enqueue;
LEMMA EnqueueEffect ==
  ASSUME TypeOK, NEW j \in Jobs, NEW q \in Queues, NEW qr \in QueueRecord, NEW s \in States,
         Enqueue(j, q, qr, s), j \notin qr.jobs
  PROVE  Arrived(j, q, qr, s)
<1>1. /\ job' = [job EXCEPT ![j].state = s, ![j].qhdr = q, ![j].life = "live",
                            ![j].counted = IF s = "COMPLETE" THEN @ ELSE {"global", "queue"}]
      /\ job[j] \in JobRecord /\ job \in [Jobs -> JobRecord]
  BY Zenon DEF Enqueue, TypeOK, JobRecord
<1>2. /\ \A x \in Jobs \ {j} : job'[x] = job[x]
      /\ job'[j].state = s /\ job'[j].qhdr = q /\ job'[j].life = "live"
      /\ job'[j].counted = IF s = "COMPLETE" THEN job[j].counted ELSE {"global", "queue"}
  BY <1>1, Zenon DEF JobRecord
<1>3. /\ sv' = [sv EXCEPT !.num = @ + 1, !.st = Raise(@, s),
                          !.users = More(@, job[j].counted, "global", s)]
      /\ sv \in ServerRecord
  BY Zenon DEF Enqueue, TypeOK, ServerRecord
<1>4. /\ sv'.num = sv.num + 1 /\ sv'.st = Raise(sv.st, s)
      /\ sv'.users = More(sv.users, job[j].counted, "global", s)
  BY <1>3, Zenon DEF ServerRecord
<1> DEFINE grown == [qr EXCEPT !.jobs = @ \cup {j}, !.num = @ + 1, !.st = Raise(@, s),
                               !.uih = More(@, job[j].counted, "queue", s)]
<1>5. que' = [que EXCEPT ![q] = grown] /\ DOMAIN que = Queues
  BY Zenon DEF Enqueue, TypeOK
<1>6. /\ grown.jobs = qr.jobs \cup {j} /\ grown.num = qr.num + 1 /\ grown.reserved = qr.reserved
      /\ grown.st = Raise(qr.st, s) /\ grown.uih = More(qr.uih, job[j].counted, "queue", s)
  BY Zenon DEF QueueRecord
<1> HIDE DEF grown
<1>7. que'[q] = grown /\ \A p \in Queues \ {q} : que'[p] = que[p]
  BY <1>5, Zenon
<1>8. alljobs' = alljobs \cup {j}
  BY Zenon DEF Enqueue
<1> QED
  BY <1>2, <1>4, <1>6, <1>7, <1>8, Zenon DEF Arrived

\* A queue's share of the entries correct_ct goes through is as large as the queue.
LEMMA OnePerJob ==
  ASSUME Sizes, NEW p, NEW A \in SUBSET Jobs
  PROVE  Cardinality({p} \X A) = Cardinality(A)
<1>1. IsFiniteSet({p}) /\ Cardinality({p}) = 1
  BY Zenon DEF Sizes
<1>2. IsFiniteSet(A) /\ Cardinality(A) \in Nat
  BY Countable, Zenon
<1>3. Cardinality({p} \X A) = Cardinality({p}) * Cardinality(A)
  BY <1>1, <1>2, ZenonT(20) DEF Sizes
<1> QED
  BY <1>1, <1>2, <1>3

\* The entries of queue p.
LEMMA Entries ==
  ASSUME NEW queues \in [Queues -> RawQueue], NEW p \in Queues
  PROVE  {e \in {d \in Queues \X Jobs : d[2] \in queues[d[1]].jobs} : e[1] = p}
           = {p} \X queues[p].jobs
<1> DEFINE B == {e \in {d \in Queues \X Jobs : d[2] \in queues[d[1]].jobs} : e[1] = p}
<1>1. queues[p].jobs \subseteq Jobs
  BY Zenon DEF RawQueue
<1>2. ASSUME NEW e \in B PROVE e \in {p} \X queues[p].jobs
  <2>1. e \in Queues \X Jobs /\ e[2] \in queues[e[1]].jobs /\ e[1] = p
    BY Zenon
  <2>2. PICK x \in Jobs : e = <<p, x>>
    BY <2>1
  <2> QED
    BY <2>1, <2>2, Zenon
<1>3. ASSUME NEW e \in {p} \X queues[p].jobs PROVE e \in B
  <2>1. PICK x \in queues[p].jobs : e = <<p, x>>
    OBVIOUS
  <2> QED
    BY <1>1, <2>1, Zenon
<1> QED
  BY <1>2, <1>3, Zenon

\* After a recount the queues' numbers are exact.
LEMMA RecountEffect ==
  ASSUME Sizes, NEW jobs, NEW svr \in RawServer, NEW queues \in [Queues -> RawQueue],
         correct_ct(jobs, svr, queues)
  PROVE  /\ sv'.users = svr.users
         /\ \A p \in Queues :
              /\ que'[p].jobs = queues[p].jobs /\ que'[p].uih = queues[p].uih
              /\ que'[p].reserved = queues[p].reserved
              /\ que'[p].num = Cardinality(queues[p].jobs)
              /\ \A s \in States :
                   que'[p].st[s] = Cardinality({x \in queues[p].jobs : jobs[x].state = s})
<1> DEFINE queued == {e \in Queues \X Jobs : e[2] \in queues[e[1]].jobs}
           In(S, s) == Cardinality({e \in S : jobs[e[2]].state = s})
           Of(q) == {e \in queued : e[1] = q}
           all == [s \in States |-> In(queued, s)]
<1>1. /\ sv' = [svr EXCEPT !.num = Cardinality(queued), !.st = all]
      /\ que' = [q \in Queues |-> [queues[q] EXCEPT !.num = Cardinality(Of(q)),
                                                   !.st = [s \in States |-> In(Of(q), s)]]]
  BY ZenonT(40) DEF correct_ct
<1>2. sv'.users = svr.users
  <2> HIDE DEF all
  <2> QED
    BY <1>1, Zenon DEF RawServer
<1>3. ASSUME NEW p \in Queues
      PROVE  /\ que'[p].jobs = queues[p].jobs /\ que'[p].uih = queues[p].uih
             /\ que'[p].reserved = queues[p].reserved
             /\ que'[p].num = Cardinality(queues[p].jobs)
             /\ \A s \in States :
                  que'[p].st[s] = Cardinality({x \in queues[p].jobs : jobs[x].state = s})
  <2>1. queues[p] \in RawQueue /\ queues[p].jobs \subseteq Jobs
    BY Zenon DEF RawQueue
  <2>2. Of(p) = {p} \X queues[p].jobs
    BY <2>1, Entries, Zenon
  <2>3. Cardinality(Of(p)) = Cardinality(queues[p].jobs)
    <3>1. Cardinality({p} \X queues[p].jobs) = Cardinality(queues[p].jobs)
      BY <2>1, OnePerJob, Zenon
    <3> HIDE DEF Of
    <3> QED
      BY <2>2, <3>1, Zenon
  <2>4. ASSUME NEW s \in States
        PROVE  In(Of(p), s) = Cardinality({x \in queues[p].jobs : jobs[x].state = s})
    <3> DEFINE A == {x \in queues[p].jobs : jobs[x].state = s}
    <3>1. {e \in {p} \X queues[p].jobs : jobs[e[2]].state = s} = {p} \X A
      <4> DEFINE B == {e \in {p} \X queues[p].jobs : jobs[e[2]].state = s}
      <4>1. ASSUME NEW e \in B PROVE e \in {p} \X A
        <5>1. e \in {p} \X queues[p].jobs /\ jobs[e[2]].state = s
          BY Zenon
        <5>2. PICK x \in queues[p].jobs : e = <<p, x>>
          BY <5>1
        <5> QED
          BY <5>1, <5>2, Zenon
      <4>2. ASSUME NEW e \in {p} \X A PROVE e \in B
        <5>1. PICK x \in A : e = <<p, x>>
          OBVIOUS
        <5> QED
          BY <5>1, Zenon
      <4> QED
        BY <4>1, <4>2, Zenon
    <3>2. A \subseteq Jobs
      BY <2>1, Zenon
    <3>3. Cardinality({p} \X A) = Cardinality(A)
      BY <3>2, OnePerJob, Zenon
    <3>4. In(Of(p), s) = Cardinality({e \in {p} \X queues[p].jobs : jobs[e[2]].state = s})
      <4> HIDE DEF Of
      <4> QED
        BY <2>2, Zenon
    <3> HIDE DEF A, In, Of
    <3>5. In(Of(p), s) = Cardinality(A)
      BY <3>1, <3>3, <3>4, Zenon
    <3> QED
      BY <3>5, Zenon DEF A
  <2> DEFINE n == Cardinality(Of(p))
             c == [s \in States |-> In(Of(p), s)]
  <2>5. que'[p] = [queues[p] EXCEPT !.num = n, !.st = c]
    BY <1>1, Zenon
  <2>6. \A s \in States : c[s] = Cardinality({x \in queues[p].jobs : jobs[x].state = s})
    BY <2>4, Zenon
  <2>7. n = Cardinality(queues[p].jobs)
    BY <2>3, Zenon
  <2> HIDE DEF n, c
  <2> QED
    BY <2>1, <2>5, <2>6, <2>7, Zenon DEF RawQueue
<1> QED
  BY <1>2, <1>3, Zenon

\* ... and Dequeue.
LEMMA DequeueEffect ==
  ASSUME Sizes, TypeOK, NEW j \in Jobs, NEW q \in Queues, NEW jr \in JobRecord,
         NEW qs \in [Queues -> QueueRecord], NEW life \in {"live", "gone"},
         NEW list \in SUBSET Jobs, NEW why \in SUBSET Causes,
         Dequeue(j, q, jr, qs, life, list, why), j \in qs[q].jobs, j \in alljobs
  PROVE  Left(j, q, jr, qs, life, why)
<1> DEFINE o == jr.state
           offQueue == q \in RouteQueues \/ o # "COMPLETE"
           offServer == o # "COMPLETE"
           bits == (IF offQueue THEN {"queue"} ELSE {}) \cup (IF offServer THEN {"global"} ELSE {})
           left == [jr EXCEPT !.qhdr = None, !.counted = @ \ bits, !.life = life]
           jobs == [job EXCEPT ![j] = left]
           uih == IF offQueue THEN Less(qs[q].uih, jr.counted, "queue") ELSE qs[q].uih
           qn == qs[q].num - 1
           qc == Lower(qs[q].st, o)
           J == qs[q].jobs \ {j}
           qr == [qs[q] EXCEPT !.jobs = J, !.num = qn, !.st = qc, !.uih = uih]
           u == Less(sv.users, jr.counted, "global")
           sn == sv.num - 1
           sc == Lower(sv.st, o)
           svu == IF offServer THEN [sv EXCEPT !.users = u] ELSE sv
           svr == [svu EXCEPT !.num = sn, !.st = sc]
           bad == qr.num < 0 \/ qr.st[o] < 0 \/ svr.num < 0 \/ svr.st[o] < 0
           queues == [qs EXCEPT ![q] = qr]
<1>1. sv \in ServerRecord /\ qs[q] \in QueueRecord /\ job \in [Jobs -> JobRecord] /\ o \in States
  BY Zenon DEF TypeOK, ServerRecord, JobRecord
<1>2. /\ job' = jobs /\ alljobs' = alljobs \ {j}
      /\ blame' = blame \cup why \cup (IF bad THEN {"recounted"} ELSE {})
      /\ IF bad THEN correct_ct(jobs, svr, queues)
         ELSE sv' = svr /\ que' = queues
  BY DEF Dequeue, LeaveQueue, LeaveServer, bad_ct
<1>3. /\ \A x \in Jobs \ {j} : job'[x] = job[x]
      /\ job'[j].state = jr.state /\ job'[j].qhdr = None /\ job'[j].life = life
      /\ job'[j].counted = jr.counted \ bits
  BY <1>1, <1>2, Zenon DEF JobRecord
<1>4. /\ jr.state # "COMPLETE" => job'[j].counted = jr.counted \ {"global", "queue"}
      /\ jr.counted = {} => job'[j].counted = {}
  BY <1>3, Zenon
<1>5. uih \in Nat /\ qc \in [States -> Int] /\ qn \in Int /\ J \subseteq Jobs
  BY <1>1, LessType, RaiseType DEF QueueRecord
<1>6. u \in Nat /\ sc \in [States -> Int] /\ sn \in Int
  BY <1>1, LessType, RaiseType DEF ServerRecord
<1>7. /\ jr.state # "COMPLETE" => uih = Less(qs[q].uih, jr.counted, "queue")
      /\ jr.counted = {} => uih = qs[q].uih
  BY Zenon DEF Less
<1> HIDE DEF jobs, uih, qn, qc, J, u, sn, sc
<1>8. /\ qr \in RawQueue /\ qr.jobs = J /\ qr.num = qn /\ qr.st = qc /\ qr.uih = uih
      /\ qr.reserved = qs[q].reserved
  BY <1>1, <1>5, Zenon DEF QueueRecord, RawQueue
<1>9. svr \in RawServer /\ svr.num = sn /\ svr.st = sc
      /\ svr.users = IF jr.state # "COMPLETE" THEN u ELSE sv.users
  BY <1>1, <1>6, ZenonT(40) DEF ServerRecord, RawServer
<1> HIDE DEF qr, svr
<1>10. /\ queues \in [Queues -> RawQueue] /\ queues[q] = qr
       /\ \A p \in Queues \ {q} : queues[p] = qs[p]
  BY <1>8, SMTT(30) DEF QueueRecord, RawQueue
<1> HIDE DEF queues
<1>11. CASE bad
  <2>1. correct_ct(jobs, svr, queues)
    BY <1>2, <1>11, Zenon
  <2>2. /\ sv'.users = svr.users
        /\ \A p \in Queues :
              /\ que'[p].jobs = queues[p].jobs /\ que'[p].uih = queues[p].uih
              /\ que'[p].reserved = queues[p].reserved
              /\ que'[p].num = Cardinality(queues[p].jobs)
              /\ \A s \in States :
                   que'[p].st[s] = Cardinality({x \in queues[p].jobs : jobs[x].state = s})
    BY <2>1, <1>9, <1>10, RecountEffect, Zenon
  <2>3. \A p \in Queues :
             /\ que'[p].num = Cardinality(que'[p].jobs)
             /\ \A s \in States : que'[p].st[s] = Cardinality({x \in que'[p].jobs : job'[x].state = s})
    BY <2>2, <1>2, SMTT(30)
  <2>4. blame' = blame \cup why \cup {"recounted"}
    BY <1>2, <1>11, Zenon
  <2>5. sv'.users = IF jr.state # "COMPLETE" THEN u ELSE sv.users
    BY <2>2, <1>9, Zenon
  <2>6. /\ \A p \in Queues : que'[p].reserved = qs[p].reserved
        /\ \A p \in Queues \ {q} : que'[p].jobs = qs[p].jobs /\ que'[p].uih = qs[p].uih
        /\ que'[q].jobs = J /\ que'[q].uih = uih
    BY <2>2, <1>8, <1>10, Zenon
  <2> QED
    BY <2>3, <2>4, <2>5, <2>6, <1>2, <1>3, <1>4, <1>7, Zenon DEF Left, u, J
<1>12. CASE ~bad
  <2>1. sv' = svr /\ que' = queues /\ blame' = blame \cup why
    BY <1>2, <1>12, Zenon
  <2>2. /\ \A p \in Queues : que'[p].reserved = qs[p].reserved
        /\ \A p \in Queues \ {q} : que'[p] = qs[p]
        /\ que'[q].jobs = J /\ que'[q].uih = uih /\ que'[q].num = qn /\ que'[q].st = qc
    BY <2>1, <1>8, <1>10, Zenon
  <2>3. sv'.users = IF jr.state # "COMPLETE" THEN u ELSE sv.users
    BY <2>1, <1>9, Zenon
  <2> QED
    BY <2>1, <2>2, <2>3, <1>2, <1>3, <1>4, <1>7, <1>9, Zenon DEF Left, u, J, qn, qc, sn, sc
<1> QED
  BY <1>11, <1>12, Zenon

-----------------------------------------------------------------------------
(* The types are kept, action by action *)

\* One thread's wait changes.
LEMMA WaitsChange ==
  ASSUME TypeOK, WaitsOK, NEW t \in Threads, NEW w, WaitOK(w), at' = [at EXCEPT ![t] = w]
  PROVE  WaitsOK' /\ DOMAIN at' = Threads /\ at'[t] = w
         /\ \A u \in Threads \ {t} : at'[u] = at[u]
<1>1. DOMAIN at = Threads
  BY Zenon DEF TypeOK
<1>2. at'[t] = w /\ \A u \in Threads \ {t} : at'[u] = at[u]
  BY <1>1, Zenon
<1>3. DOMAIN at' = Threads
  BY <1>1, Zenon
<1>4. ASSUME NEW u \in Threads PROVE WaitOK(at'[u])
  BY <1>2, Zenon DEF WaitsOK
<1> QED
  BY <1>2, <1>3, <1>4, Zenon DEF WaitsOK, WaitOK

\* No wait changes.
LEMMA WaitsSame ==
  ASSUME TypeOK, WaitsOK, at' = at
  PROVE  WaitsOK' /\ DOMAIN at' = Threads
BY Zenon DEF TypeOK, WaitsOK, WaitOK

\* A thread that is done has nothing in its hands.
LEMMA IdleOK == WaitOK(Idle) /\ Idle.op = "idle"
BY Zenon DEF WaitOK, Idle

\* What svr_setjobstate is asked for.
LEMMA RequestTypes ==
  ASSUME NEW r \in Requests
  PROVE  /\ r[1] \in States /\ r[2] \in States /\ r[3] \in Substates
         /\ r[1] = "COMPLETE" => r[2] = "COMPLETE"
BY DEF Requests, States, Substates

\* The queues with one more place reserved in dest.
Held(dest) == [que EXCEPT ![dest].reserved = @ + 1]

\* The queues after local_move has reserved a place in dest: only the places differ.
LEMMA HeldTypes ==
  ASSUME TypeOK, NEW dest \in Queues
  PROVE  /\ Held(dest) \in [Queues -> QueueRecord]
         /\ \A p \in Queues :
              /\ Held(dest)[p].jobs = que[p].jobs /\ Held(dest)[p].num = que[p].num
              /\ Held(dest)[p].st = que[p].st /\ Held(dest)[p].uih = que[p].uih
              /\ Held(dest)[p].reserved = IF p = dest THEN que[p].reserved + 1 ELSE que[p].reserved
<1> DEFINE n == que[dest].reserved + 1
           r == [que[dest] EXCEPT !.reserved = n]
<1>1. que \in [Queues -> QueueRecord] /\ que[dest] \in QueueRecord
  BY Zenon DEF TypeOK, QueueRecord
<1>2. n \in Nat
  BY <1>1 DEF QueueRecord
<1>3. Held(dest) = [que EXCEPT ![dest] = r]
  BY Zenon DEF Held
<1> HIDE DEF n
<1>4. /\ r \in QueueRecord /\ r.jobs = que[dest].jobs /\ r.num = que[dest].num
      /\ r.st = que[dest].st /\ r.uih = que[dest].uih /\ r.reserved = n
  BY <1>1, <1>2, Zenon DEF QueueRecord
<1> HIDE DEF r
<1>5. Held(dest)[dest] = r /\ \A p \in Queues \ {dest} : Held(dest)[p] = que[p]
  BY <1>1, <1>3, Zenon
<1>6. Held(dest) \in [Queues -> QueueRecord]
  BY <1>1, <1>3, <1>4, Zenon
<1> QED
  BY <1>4, <1>5, <1>6, Zenon DEF n

\* Every step keeps the types.
LEMMA TypesNext ==
  ASSUME Sizes, Typed, PlacesKept, [Next]_vars
  PROVE  Typed'
<1>CommitTypes. ASSUME NEW t \in Threads, NEW j \in Jobs, NEW q \in Queues,
                       NEW s \in {"QUEUED", "HELD"}, req_commit(t, j, q, s)
      PROVE  Typed'
  <2> USE <1>CommitTypes
  <2>1. TypesOf(job, alljobs, summary, sv, que, blame) /\ WaitsOK /\ TypeOK
    BY TypeParts, Zenon DEF Typed
  <2>2. at' = at /\ blame' = blame
    BY Zenon DEF req_commit
  <2>3. TypesOf(job', alljobs', summary', sv', que', blame')
    <3>1. CASE Enqueue(j, q, que[q], s)
      <4>1. que[q] \in QueueRecord /\ s \in States
        BY <2>1, Zenon DEF TypesOf, States
      <4> QED
        BY <2>1, <2>2, <3>1, <4>1, EnqueueTypes, Zenon DEF TypesOf
    <3>2. CASE /\ job' = [job EXCEPT ![j].life = "gone", ![j].state = "COMPLETE"]
               /\ UNCHANGED <<alljobs, summary, sv, que>>
      <4> DEFINE r == [job[j] EXCEPT !.life = "gone", !.state = "COMPLETE"]
      <4>1. job \in [Jobs -> JobRecord] /\ job[j] \in JobRecord
        BY <2>1, Zenon DEF TypesOf
      <4>2. r \in JobRecord
        BY <4>1, Zenon DEF JobRecord, States
      <4>3. job' = [job EXCEPT ![j] = r]
        BY <3>2, Zenon
      <4> HIDE DEF r
      <4>4. job' \in [Jobs -> JobRecord]
        BY <4>1, <4>2, <4>3, SMTT(30)
      <4> QED
        BY <2>1, <2>2, <3>2, <4>4, Zenon DEF TypesOf
    <3> QED
      BY <3>1, <3>2, Zenon DEF req_commit
  <2> QED
    BY <2>1, <2>2, <2>3, WaitsSame, TypePartsNext, Zenon DEF Typed
<1>SetTypes. ASSUME NEW t \in Threads, NEW j \in Jobs, NEW new \in States, NEW sub \in Substates,
                    svr_setjobstate(t, j, new, sub)
      PROVE  Typed'
  <2> USE <1>SetTypes
  <2> DEFINE old == job[j].state
             q == job[j].qhdr
             charged == [sv EXCEPT !.st = Move(@, old, new)]
  <2>1. TypesOf(job, alljobs, summary, sv, que, blame) /\ WaitsOK /\ TypeOK
    BY TypeParts, Zenon DEF Typed
  <2>2. /\ alljobs' = alljobs /\ summary' = summary /\ old \in States
        /\ q \in Queues \cup {None} /\ job[j] \in JobRecord
    BY <2>1, Zenon DEF svr_setjobstate, TypesOf, JobRecord
  <2>3. charged \in ServerRecord
    <3>1. Move(sv.st, old, new) \in [States -> Int]
      BY <2>1, <2>2, MoveType, Zenon DEF TypesOf, ServerRecord
    <3> QED
      BY <2>1, <3>1, Zenon DEF TypesOf, ServerRecord
  <2>4. CASE /\ job' = [job EXCEPT ![j].sub = sub]
             /\ UNCHANGED <<sv, que, at, blame, bound>>
    <3>1. job' \in [Jobs -> JobRecord]
      BY <2>1, <2>4 DEF TypesOf, JobRecord
    <3> QED
      BY <2>1, <2>2, <2>4, <3>1, WaitsSame, TypePartsNext, SMTT(30) DEF TypesOf, Typed
  <2>5. CASE /\ old # new /\ q = None
             /\ job' = [job EXCEPT ![j].state = new, ![j].sub = sub,
                                ![j].counted = IF new = "COMPLETE" THEN @ \ {"global"} ELSE @]
             /\ sv' = IF new = "COMPLETE"
                      THEN [charged EXCEPT !.users = Less(@, job[j].counted, "global")]
                      ELSE charged
             /\ blame' = blame \cup {"unqueued"}
             /\ UNCHANGED <<que, at, bound>>
    <3>1. job' \in [Jobs -> JobRecord]
      <4> DEFINE c == IF new = "COMPLETE" THEN job[j].counted \ {"global"} ELSE job[j].counted
                 r == [job[j] EXCEPT !.state = new, !.sub = sub, !.counted = c]
      <4>1. job \in [Jobs -> JobRecord] /\ c \in SUBSET {"global", "queue"}
        BY <2>1, <2>2, Zenon DEF TypesOf, JobRecord
      <4>2. job' = [job EXCEPT ![j] = r]
        BY <2>5, Zenon
      <4> HIDE DEF c
      <4>3. r \in JobRecord
        BY <2>2, <4>1, Zenon DEF JobRecord
      <4> HIDE DEF r
      <4> QED
        BY <4>1, <4>2, <4>3, Zenon
    <3>2. sv' \in ServerRecord
      <4> HIDE DEF charged
      <4> QED
        BY <2>3, <2>5, LessType, Zenon DEF ServerRecord
    <3>3. blame' \subseteq Causes
      BY <2>1, <2>5, Zenon DEF TypesOf, Causes
    <3> QED
      BY <2>1, <2>2, <2>5, <3>1, <3>2, <3>3, WaitsSame, TypePartsNext, Zenon DEF TypesOf, Typed
  <2>6. CASE q # None /\ SettleState(j, q, new, sub, charged) /\ UNCHANGED <<at, blame, bound>>
    <3> HIDE DEF charged
    <3>1. job' \in [Jobs -> JobRecord] /\ sv' \in ServerRecord /\ que' \in [Queues -> QueueRecord]
      BY <2>1, <2>2, <2>3, <2>6, SettleTypes, Zenon
    <3> QED
      BY <2>1, <2>2, <2>6, <3>1, WaitsSame, TypePartsNext, Zenon DEF TypesOf, Typed
  <2>7. CASE /\ old # new /\ q # None /\ Contend
             /\ sv' = charged
             /\ at' = [at EXCEPT ![t] = [op |-> "set", job |-> j, que |-> q, old |-> old,
                                         new |-> new, sub |-> sub]]
             /\ UNCHANGED <<job, que, blame>>
    <3> DEFINE w == [op |-> "set", job |-> j, que |-> q, old |-> old, new |-> new, sub |-> sub]
    <3>1. old # "COMPLETE"
      BY <2>7, RequestTypes, Zenon DEF svr_setjobstate
    <3>2. WaitOK(w)
      BY <2>2, <2>7, <3>1, Zenon DEF WaitOK
    <3>3. WaitsOK' /\ DOMAIN at' = Threads
      <4> HIDE DEF w
      <4>1. at' = [at EXCEPT ![t] = w]
        BY <2>7, Zenon DEF w
      <4> QED
        BY <4>1, <3>2, <2>1, WaitsChange, Zenon
    <3>4. TypesOf(job', alljobs', summary', sv', que', blame')
      <4> HIDE DEF charged
      <4> QED
        BY <2>1, <2>2, <2>3, <2>7, Zenon DEF TypesOf
    <3> QED
      BY <3>3, <3>4, TypePartsNext, Zenon DEF Typed
  <2> QED
    BY <2>4, <2>5, <2>6, <2>7, Zenon DEF svr_setjobstate
<1>ResumeSetTypes. ASSUME NEW t \in Threads, ResumeSet(t)
      PROVE  Typed'
  <2> USE <1>ResumeSetTypes
  <2> DEFINE j == at[t].job
  <2>1. TypesOf(job, alljobs, summary, sv, que, blame) /\ WaitsOK /\ TypeOK
    BY TypeParts, Zenon DEF Typed
  <2>2. WaitOK(at[t]) /\ at[t].op = "set" /\ at' = [at EXCEPT ![t] = Idle]
        /\ alljobs' = alljobs /\ summary' = summary
    BY <2>1, Zenon DEF WaitsOK, ResumeSet
  <2>3. /\ j \in Jobs /\ at[t].que \in Queues /\ at[t].new \in States /\ at[t].sub \in Substates
    BY <2>2, Zenon DEF WaitOK
  <2>4. WaitsOK' /\ DOMAIN at' = Threads
    BY <2>1, <2>2, IdleOK, WaitsChange, Zenon
  <2>5. blame' \subseteq Causes
    BY <2>1, Zenon DEF ResumeSet, Moved, TypesOf, Causes
  <2>6. CASE SettleState(j, at[t].que, at[t].new, at[t].sub, sv)
    <3>1. job' \in [Jobs -> JobRecord] /\ sv' \in ServerRecord /\ que' \in [Queues -> QueueRecord]
      BY <2>1, <2>3, <2>6, SettleTypes, Zenon DEF TypesOf
    <3> QED
      BY <2>1, <2>2, <2>4, <2>5, <3>1, TypePartsNext, Zenon DEF TypesOf, Typed
  <2>7. CASE UNCHANGED <<job, sv, que>>
    BY <2>1, <2>2, <2>4, <2>5, <2>7, TypePartsNext, Zenon DEF TypesOf, Typed
  <2> QED
    BY <2>6, <2>7, Zenon DEF ResumeSet
<1>PurgeTypes. ASSUME NEW t \in Threads, NEW j \in Jobs, svr_job_purge(t, j)
      PROVE  Typed'
  <2> USE <1>PurgeTypes
  <2> DEFINE q == job[j].qhdr
             jr == [job[j] EXCEPT !.state = "COMPLETE"]
             known == job[j].state = "COMPLETE"
             why == IF known THEN {} ELSE {"unsettled"}
  <2>1. TypesOf(job, alljobs, summary, sv, que, blame) /\ WaitsOK /\ TypeOK
    BY TypeParts, Zenon DEF Typed
  <2>2. job[j] \in JobRecord /\ jr \in JobRecord /\ q \in Queues \cup {None}
        /\ why \subseteq Causes /\ summary \ {j} \subseteq Jobs
    BY <2>1, Zenon DEF TypesOf, JobRecord, States, Causes
  <2>3. CASE q # None /\ Dequeue(j, q, jr, que, "gone", summary \ {j}, why) /\ UNCHANGED at
    <3> HIDE DEF jr, why
    <3>1. TypesOf(job', alljobs', summary', sv', que', blame')
      BY <2>1, <2>2, <2>3, DequeueTypes, Zenon DEF TypesOf
    <3> QED
      BY <2>1, <2>3, <3>1, WaitsSame, TypePartsNext, Zenon DEF Typed
  <2>4. ASSUME /\ job' = [job EXCEPT ![j] = jr] /\ summary' = summary \ {j} /\ blame' = blame \cup why
               /\ UNCHANGED <<alljobs, sv, que>>
        PROVE  TypesOf(job', alljobs', summary', sv', que', blame')
    <3> HIDE DEF jr, why
    <3> QED
      BY <2>1, <2>2, <2>4, Zenon DEF TypesOf
  <2>5. CASE /\ job' = [job EXCEPT ![j] = jr] /\ summary' = summary \ {j} /\ blame' = blame \cup why
             /\ UNCHANGED <<alljobs, sv, que, at>>
    BY <2>1, <2>4, <2>5, WaitsSame, TypePartsNext, Zenon DEF Typed
  <2>6. CASE /\ q # None
             /\ job' = [job EXCEPT ![j] = jr] /\ summary' = summary \ {j}
             /\ at' = [at EXCEPT ![t] = [op |-> "purge", job |-> j, que |-> q]]
             /\ blame' = blame \cup why
             /\ UNCHANGED <<alljobs, sv, que>>
    <3> DEFINE w == [op |-> "purge", job |-> j, que |-> q]
    <3>1. WaitOK(w) /\ at' = [at EXCEPT ![t] = w]
      BY <2>2, <2>6, Zenon DEF WaitOK
    <3>2. TypesOf(job', alljobs', summary', sv', que', blame')
      BY <2>4, <2>6, Zenon
    <3> HIDE DEF w
    <3> QED
      BY <2>1, <3>1, <3>2, WaitsChange, TypePartsNext, Zenon DEF Typed
  <2> QED
    BY <2>3, <2>5, <2>6, Zenon DEF svr_job_purge
<1>ResumePurgeTypes. ASSUME NEW t \in Threads, ResumePurge(t)
      PROVE  Typed'
  <2> USE <1>ResumePurgeTypes
  <2> DEFINE j == at[t].job
  <2>1. TypesOf(job, alljobs, summary, sv, que, blame) /\ WaitsOK /\ TypeOK
    BY TypeParts DEF Typed
  <2>2. WaitOK(at[t]) /\ at[t].op = "purge" /\ at' = [at EXCEPT ![t] = Idle]
    BY <2>1, Zenon DEF WaitsOK, ResumePurge
  <2>3. j \in Jobs /\ at[t].que \in Queues
    BY <2>2, Zenon DEF WaitOK
  <2>4. WaitsOK' /\ DOMAIN at' = Threads
    BY <2>1, <2>2, IdleOK, WaitsChange, Zenon
  <2>5. CASE Dequeue(j, at[t].que, job[j], que, "gone", summary, Moved(t))
    <3>1. Moved(t) \subseteq Causes
      BY Zenon DEF Moved, Causes
    <3>2. TypesOf(job', alljobs', summary', sv', que', blame')
      BY <2>1, <2>3, <2>5, <3>1, DequeueTypes, Zenon DEF TypesOf
    <3> QED
      BY <2>4, <3>2, TypePartsNext, Zenon DEF Typed
  <2>6. CASE UNCHANGED <<job, alljobs, summary, sv, que, blame>>
    BY <2>1, <2>4, <2>6, TypePartsNext, Zenon DEF TypesOf, Typed
  <2> QED
    BY <2>5, <2>6, Zenon DEF ResumePurge
<1>LocalMoveTypes. ASSUME NEW t \in Threads, NEW j \in Jobs, NEW dest \in Queues, NEW mgr,
            local_move(t, j, dest, mgr)
      PROVE  Typed'
  <2> USE <1>LocalMoveTypes
  <2> DEFINE w == [op |-> "move", job |-> j, dest |-> dest, mgr |-> mgr]
  <2>1. TypesOf(job, alljobs, summary, sv, que, blame) /\ WaitsOK /\ TypeOK
    BY TypeParts, Zenon DEF Typed
  <2>2. WaitOK(w) /\ at' = [at EXCEPT ![t] = w] /\ UNCHANGED <<job, alljobs, summary, sv, que, blame>>
    BY Zenon DEF WaitOK, local_move
  <2> HIDE DEF w
  <2> QED
    BY <2>1, <2>2, WaitsChange, TypePartsNext, Zenon DEF TypesOf, Typed
<1>MoveDequeTypes. ASSUME NEW t \in Threads, MoveDeque(t)
      PROVE  Typed'
  <2> USE <1>MoveDequeTypes
  <2> DEFINE j == at[t].job
             dest == at[t].dest
             q == job[j].qhdr
             full == Full(que[dest])
             skipped == IF full THEN {"bypassed"} ELSE {}
  <2>1. TypesOf(job, alljobs, summary, sv, que, blame) /\ WaitsOK /\ TypeOK
    BY TypeParts DEF Typed
  <2>2. WaitOK(at[t]) /\ at[t].op = "move"
    BY <2>1, Zenon DEF WaitsOK, MoveDeque
  <2>3. j \in Jobs /\ dest \in Queues
    BY <2>2, Zenon DEF WaitOK
  <2>4. Held(dest) \in [Queues -> QueueRecord] /\ skipped \subseteq Causes /\ job[j] \in JobRecord
    BY <2>1, <2>3, HeldTypes, Zenon DEF Causes, TypesOf
  <2>5. q \in Queues \cup {None}
    BY <2>4, Zenon DEF JobRecord
  <2>6. CASE /\ at' = [at EXCEPT ![t] = Idle]
             /\ UNCHANGED <<job, alljobs, summary, sv, que, blame>>
    BY <2>1, <2>6, IdleOK, WaitsChange, TypePartsNext, Zenon DEF TypesOf, Typed
  <2>7. CASE /\ que' = Held(dest) /\ blame' = blame \cup skipped \cup {"leaked"}
             /\ at' = [at EXCEPT ![t] = Idle]
             /\ UNCHANGED <<job, alljobs, summary, sv>>
    <3>1. blame' \subseteq Causes
      BY <2>1, <2>4, <2>7, Zenon DEF TypesOf, Causes
    <3> QED
      BY <2>1, <2>4, <2>7, <3>1, IdleOK, WaitsChange, TypePartsNext, Zenon DEF TypesOf, Typed
  <2>8. CASE /\ q # None /\ Dequeue(j, q, job[j], Held(dest), "live", summary, skipped)
             /\ at' = [at EXCEPT ![t] = [op |-> "enque", job |-> j, dest |-> dest]]
    <3> DEFINE w == [op |-> "enque", job |-> j, dest |-> dest]
    <3>1. WaitOK(w) /\ at' = [at EXCEPT ![t] = w]
      BY <2>3, <2>8, Zenon DEF WaitOK
    <3> HIDE DEF w, skipped
    <3>2. TypesOf(job', alljobs', summary', sv', que', blame')
      BY <2>1, <2>3, <2>4, <2>5, <2>8, DequeueTypes, Zenon DEF TypesOf
    <3> QED
      BY <2>1, <3>1, <3>2, WaitsChange, TypePartsNext, Zenon DEF Typed
  <2>9. CASE /\ q # None
             /\ que' = Held(dest) /\ blame' = blame \cup skipped
             /\ at' = [at EXCEPT ![t] = [op |-> "deque", job |-> j, que |-> q, dest |-> dest]]
             /\ UNCHANGED <<job, alljobs, summary, sv>>
    <3> DEFINE w == [op |-> "deque", job |-> j, que |-> q, dest |-> dest]
    <3>1. WaitOK(w) /\ at' = [at EXCEPT ![t] = w]
      BY <2>3, <2>5, <2>9, Zenon DEF WaitOK
    <3> HIDE DEF w, skipped
    <3>2. TypesOf(job', alljobs', summary', sv', que', blame')
      BY <2>1, <2>4, <2>9, Zenon DEF TypesOf
    <3> QED
      BY <2>1, <3>1, <3>2, WaitsChange, TypePartsNext, Zenon DEF Typed
  <2>10. CASE /\ q # None
              /\ Dequeue(j, q, job[j], Held(dest), "gone", summary, skipped \cup {"leaked"})
              /\ at' = [at EXCEPT ![t] = Idle]
    <3> DEFINE why == skipped \cup {"leaked"}
    <3>1. why \subseteq Causes
      BY <2>4, Zenon DEF Causes
    <3> HIDE DEF why
    <3>2. TypesOf(job', alljobs', summary', sv', que', blame')
      BY <2>1, <2>3, <2>4, <2>5, <2>10, <3>1, DequeueTypes, Zenon DEF TypesOf, why
    <3> QED
      BY <2>1, <2>10, <3>2, IdleOK, WaitsChange, TypePartsNext, Zenon DEF Typed
  <2> QED
    BY <2>6, <2>7, <2>8, <2>9, <2>10, ZenonT(40) DEF MoveDeque, Held
<1>ResumeDequeTypes. ASSUME NEW t \in Threads, ResumeDeque(t)
      PROVE  Typed'
  <2> USE <1>ResumeDequeTypes
  <2> DEFINE j == at[t].job
  <2>1. TypesOf(job, alljobs, summary, sv, que, blame) /\ WaitsOK /\ TypeOK
    BY TypeParts DEF Typed
  <2>2. WaitOK(at[t]) /\ at[t].op = "deque"
    BY <2>1, Zenon DEF WaitsOK, ResumeDeque
  <2>3. j \in Jobs /\ at[t].que \in Queues /\ at[t].dest \in Queues
    BY <2>2, Zenon DEF WaitOK
  <2>4. CASE /\ Dequeue(j, at[t].que, job[j], que, "live", summary, Moved(t))
             /\ at' = [at EXCEPT ![t] = [op |-> "enque", job |-> j, dest |-> at[t].dest]]
    <3> DEFINE w == [op |-> "enque", job |-> j, dest |-> at[t].dest]
    <3>1. WaitOK(w) /\ at' = [at EXCEPT ![t] = w]
      BY <2>3, <2>4, Zenon DEF WaitOK
    <3> HIDE DEF w
    <3>2. Moved(t) \subseteq Causes
      BY DEF Moved, Causes
    <3>3. TypesOf(job', alljobs', summary', sv', que', blame')
      BY <2>1, <2>3, <2>4, <3>2, DequeueTypes, Zenon DEF TypesOf
    <3> QED
      BY <2>1, <3>1, <3>3, WaitsChange, TypePartsNext, Zenon DEF Typed
  <2>5. CASE /\ at' = [at EXCEPT ![t] = Idle]
             /\ blame' = blame \cup {"leaked"}
             /\ UNCHANGED <<job, alljobs, summary, sv, que>>
    <3>1. blame' \subseteq Causes
      BY <2>1, <2>5, Zenon DEF TypesOf, Causes
    <3> QED
      BY <2>1, <2>5, <3>1, IdleOK, WaitsChange, TypePartsNext, Zenon DEF TypesOf, Typed
  <2>6. CASE /\ Dequeue(j, at[t].que, job[j], que, "gone", summary, Moved(t) \cup {"leaked"})
             /\ at' = [at EXCEPT ![t] = Idle]
    <3> DEFINE why == Moved(t) \cup {"leaked"}
    <3>1. why \subseteq Causes
      BY DEF Moved, Causes
    <3> HIDE DEF why
    <3>2. TypesOf(job', alljobs', summary', sv', que', blame')
      BY <2>1, <2>3, <2>6, <3>1, DequeueTypes, Zenon DEF TypesOf, why
    <3> QED
      BY <2>1, <2>6, <3>2, IdleOK, WaitsChange, TypePartsNext, Zenon DEF Typed
  <2> QED
    BY <2>4, <2>5, <2>6, Zenon DEF ResumeDeque
<1>MoveEnqueTypes. ASSUME NEW t \in Threads, MoveEnque(t)
      PROVE  Typed'
  <2> USE <1>MoveEnqueTypes
  <2> DEFINE j == at[t].job
             dest == at[t].dest
  <2>1. TypesOf(job, alljobs, summary, sv, que, blame) /\ WaitsOK /\ TypeOK
    BY TypeParts DEF Typed
  <2>2. WaitOK(at[t]) /\ at[t].op = "enque" /\ at' = [at EXCEPT ![t] = Idle] /\ blame' = blame
    BY <2>1, Zenon DEF WaitsOK, MoveEnque
  <2>3. j \in Jobs /\ dest \in Queues /\ job[j].state \in States
    BY <2>1, <2>2, Zenon DEF WaitOK, TypesOf, JobRecord
  <2>4. GivenBack(dest) \in QueueRecord
    BY <2>1, <2>2, <2>3, PlaceToGiveBack, Zenon
  <2>5. CASE Enqueue(j, dest, GivenBack(dest), job[j].state)
    <3>1. TypesOf(job', alljobs', summary', sv', que', blame')
      BY <2>1, <2>2, <2>3, <2>4, <2>5, EnqueueTypes, Zenon DEF TypesOf
    <3> QED
      BY <2>1, <2>2, <3>1, IdleOK, WaitsChange, TypePartsNext, Zenon DEF Typed
  <2>6. CASE que' = [que EXCEPT ![dest] = GivenBack(dest)] /\ UNCHANGED <<job, alljobs, summary, sv>>
    <3>1. TypesOf(job', alljobs', summary', sv', que', blame')
      BY <2>1, <2>2, <2>3, <2>4, <2>6, Zenon DEF TypesOf
    <3> QED
      BY <2>1, <2>2, <3>1, IdleOK, WaitsChange, TypePartsNext, Zenon DEF Typed
  <2> QED
    BY <2>5, <2>6, Zenon DEF MoveEnque, GivenBack
<1>1. CASE UNCHANGED vars
  BY <1>1, Zenon DEF Typed, TypeOK, WaitsOK, WaitOK, vars
<1>2. ASSUME NEW t \in Threads, NEW j \in Jobs, NEW r \in Requests, svr_setjobstate(t, j, r[2], r[3])
      PROVE  Typed'
  BY <1>2, RequestTypes, <1>SetTypes, Zenon
<1> QED
  BY <1>1, <1>2, <1>CommitTypes, <1>PurgeTypes, <1>LocalMoveTypes, <1>ResumeSetTypes, <1>ResumePurgeTypes,
     <1>MoveDequeTypes, <1>ResumeDequeTypes, <1>MoveEnqueTypes, SMTT(30) DEF Next

-----------------------------------------------------------------------------
(* Reserved places *)

\* The step a thread takes in its wait, with w the wait it has now.
LEMMA WaitStep ==
  ASSUME Typed, NEW t \in Threads, NEW w, at' = [at EXCEPT ![t] = w]
  PROVE  at'[t] = w /\ \A u \in Threads \ {t} : at'[u] = at[u]
BY Zenon DEF Typed, TypeOK

\* A step of thread t.
ThreadNext(t) ==
  \/ \E j \in Jobs, q \in Queues, s \in {"QUEUED", "HELD"} : req_commit(t, j, q, s)
  \/ \E j \in Jobs, r \in Requests : svr_setjobstate(t, j, r[2], r[3])
  \/ \E j \in Jobs : svr_job_purge(t, j)
  \/ \E j \in Jobs, q \in Queues, mgr \in BOOLEAN : local_move(t, j, q, mgr)
  \/ ResumeSet(t) \/ ResumePurge(t) \/ MoveDeque(t) \/ ResumeDeque(t) \/ MoveEnque(t)

\* Every step keeps account of the places reserved in the queues.
LEMMA PlacesNext ==
  ASSUME Sizes, Typed, PlacesKept, NEW t \in Threads, ThreadNext(t)
  PROVE  PlacesStep(t)
<1>EnqueueReserves. ASSUME TypeOK, NEW j \in Jobs, NEW q \in Queues, NEW qr \in QueueRecord,
            NEW state \in States, Enqueue(j, q, qr, state)
      PROVE  \A p \in Queues : que'[p].reserved = IF p = q THEN qr.reserved ELSE que[p].reserved
  <2> USE <1>EnqueueReserves
  <2> DEFINE u == More(qr.uih, job[j].counted, "queue", state)
             c == Raise(qr.st, state)
             n == qr.num + 1
             J == qr.jobs \cup {j}
             r == [qr EXCEPT !.jobs = J, !.num = n, !.st = c, !.uih = u]
  <2>1. que' = [que EXCEPT ![q] = qr] \/ que' = [que EXCEPT ![q] = r]
    BY Zenon DEF Enqueue
  <2> HIDE DEF u, c, n, J
  <2>2. r.reserved = qr.reserved /\ DOMAIN que = Queues
    BY Zenon DEF QueueRecord, TypeOK
  <2> HIDE DEF r
  <2> QED
    BY <2>1, <2>2, Zenon
<1>DequeueReserves. ASSUME TypeOK, NEW j \in Jobs, NEW q \in Queues, NEW jr \in JobRecord,
            NEW qs \in [Queues -> QueueRecord], NEW life \in {"live", "gone"},
            NEW list \in SUBSET Jobs, NEW why \in SUBSET Causes,
            Dequeue(j, q, jr, qs, life, list, why)
      PROVE  \A p \in Queues : que'[p].reserved = qs[p].reserved
  <2> USE <1>DequeueReserves
  <2> DEFINE o == jr.state
             offQueue == q \in RouteQueues \/ o # "COMPLETE"
             offServer == o # "COMPLETE"
             bits == (IF offQueue THEN {"queue"} ELSE {}) \cup (IF offServer THEN {"global"} ELSE {})
             left == [jr EXCEPT !.qhdr = None, !.counted = @ \ bits, !.life = life]
             jobs == [job EXCEPT ![j] = left]
             uih == IF offQueue THEN Less(qs[q].uih, jr.counted, "queue") ELSE qs[q].uih
             qn == qs[q].num - 1
             qc == Lower(qs[q].st, o)
             J == qs[q].jobs \ {j}
             qr == IF j \in qs[q].jobs
                   THEN [qs[q] EXCEPT !.jobs = J, !.num = qn, !.st = qc, !.uih = uih]
                   ELSE [qs[q] EXCEPT !.uih = uih]
             u == Less(sv.users, jr.counted, "global")
             sn == sv.num - 1
             sc == Lower(sv.st, o)
             svu == IF offServer THEN [sv EXCEPT !.users = u] ELSE sv
             svr == IF j \in alljobs THEN [svu EXCEPT !.num = sn, !.st = sc] ELSE svu
             bad == qr.num < 0 \/ qr.st[o] < 0 \/ svr.num < 0 \/ svr.st[o] < 0
             queues == [qs EXCEPT ![q] = qr]
  <2>1. sv \in ServerRecord /\ qs[q] \in QueueRecord /\ o \in States
    BY Zenon DEF TypeOK, ServerRecord, JobRecord
  <2>2. IF bad THEN correct_ct(jobs, svr, queues) ELSE que' = queues
    BY DEF Dequeue, LeaveQueue, LeaveServer, bad_ct
  <2>3. uih \in Nat /\ qc \in [States -> Int] /\ qn \in Int /\ J \subseteq Jobs
    BY <2>1, LessType, RaiseType DEF QueueRecord
  <2>4. u \in Nat /\ sc \in [States -> Int] /\ sn \in Int
    BY <2>1, LessType, RaiseType DEF ServerRecord
  <2> HIDE DEF jobs, uih, qn, qc, J, u, sn, sc
  <2>5. svu \in ServerRecord
    BY <2>1, <2>4, Zenon DEF ServerRecord
  <2> HIDE DEF svu
  <2>6. svr \in RawServer
    <3> DEFINE g == [svu EXCEPT !.num = sn, !.st = sc]
    <3>1. g \in RawServer
      BY <2>4, <2>5, Zenon DEF ServerRecord, RawServer
    <3>2. svu \in RawServer
      BY <2>5 DEF ServerRecord, RawServer
    <3> HIDE DEF g
    <3> QED
      BY <3>1, <3>2, Zenon DEF g
  <2>7. qr \in RawQueue /\ qr.reserved = qs[q].reserved
    <3> DEFINE g == [qs[q] EXCEPT !.jobs = J, !.num = qn, !.st = qc, !.uih = uih]
               h == [qs[q] EXCEPT !.uih = uih]
    <3>1. g \in RawQueue /\ g.reserved = qs[q].reserved
      BY <2>1, <2>3, Zenon DEF QueueRecord, RawQueue
    <3>2. h \in RawQueue /\ h.reserved = qs[q].reserved
      BY <2>1, <2>3 DEF QueueRecord, RawQueue
    <3> HIDE DEF g, h
    <3> QED
      BY <3>1, <3>2, Zenon DEF g, h
  <2> HIDE DEF qr, svr
  <2>8. queues \in [Queues -> RawQueue] /\ \A p \in Queues : queues[p].reserved = qs[p].reserved
    BY <2>7 DEF QueueRecord, RawQueue
  <2> HIDE DEF queues
  <2> QED
    BY <2>2, <2>6, <2>8, RecountEffect, Zenon
<1>NoPlace. ASSUME NEW w, w.op \notin {"deque", "enque"}
      PROVE  \A q : Place(w, q) = 0
  BY <1>NoPlace, Zenon DEF Place
\* Steps in which no place is reserved or given back.
<1>PlacesSame. ASSUME NEW w, \A q \in Queues : que'[q].reserved = que[q].reserved,
                      at' = [at EXCEPT ![t] = w], w.op \notin {"deque", "enque"},
                      at[t].op \notin {"deque", "enque"}
      PROVE  PlacesStep(t)
  <2> USE <1>PlacesSame
  <2>1. at'[t] = w /\ \A u \in Threads \ {t} : at'[u] = at[u]
    BY WaitStep, Zenon
  <2>2. \A q \in Queues : que[q].reserved \in Nat
    BY Zenon DEF Typed, TypeOK
  <2>3. \A q : Place(at[t], q) = 0 /\ Place(at'[t], q) = 0
    BY <2>1, <1>NoPlace, Zenon
  <2> QED
    BY <2>1, <2>2, <2>3 DEF PlacesStep
<1>PlacesStay. ASSUME at' = at, \A q \in Queues : que'[q].reserved = que[q].reserved
      PROVE  PlacesStep(t)
  <2> USE <1>PlacesStay
  <2>1. \A q \in Queues : que[q].reserved \in Nat /\ Place(at[t], q) \in Int
    BY DEF Typed, TypeOK, Place
  <2> QED
    BY <2>1 DEF PlacesStep
<1>SettleReserves. ASSUME TypeOK, NEW j \in Jobs, NEW q \in Queues, NEW new \in States, NEW sub,
            NEW svc, SettleState(j, q, new, sub, svc)
      PROVE  \A p \in Queues : que'[p].reserved = que[p].reserved
  <2> USE <1>SettleReserves
  <2>1. que \in [Queues -> QueueRecord]
    BY Zenon DEF TypeOK, QueueRecord
  <2>2. CASE que' = que
    BY <2>2, Zenon
  <2>3. CASE que' = [que EXCEPT ![q].st = Move(@, job[j].state, new),
                                ![q].uih = IF new = "COMPLETE" THEN Less(@, job[j].counted, "queue") ELSE @]
    BY <2>1, <2>3, Zenon DEF QueueRecord
  <2> QED
    BY <2>2, <2>3, Zenon DEF SettleState
<1>PlacesOfCalls. ASSUME NEW j \in Jobs, at[t] = Idle,
        \/ \E q \in Queues, s \in {"QUEUED", "HELD"} : req_commit(t, j, q, s)
        \/ \E r \in Requests : svr_setjobstate(t, j, r[2], r[3])
        \/ svr_job_purge(t, j)
        \/ \E q \in Queues, mgr \in BOOLEAN : local_move(t, j, q, mgr)
      PROVE  PlacesStep(t)
  <2> USE <1>PlacesOfCalls
  <2>1. TypesOf(job, alljobs, summary, sv, que, blame) /\ WaitsOK /\ TypeOK
    BY TypeParts, Zenon DEF Typed
  <2>2. at[t].op \notin {"deque", "enque"} /\ job[j] \in JobRecord
        /\ job[j].qhdr \in Queues \cup {None} /\ que \in [Queues -> QueueRecord]
    BY <2>1, IdleOK, Zenon DEF TypesOf, JobRecord
  <2>3. ASSUME NEW q \in Queues, NEW s \in {"QUEUED", "HELD"}, req_commit(t, j, q, s)
        PROVE  PlacesStep(t)
    <3>1. at' = at
      BY <2>3, Zenon DEF req_commit
    <3>2. CASE Enqueue(j, q, que[q], s)
      <4>1. que[q] \in QueueRecord /\ s \in States
        BY <2>2, Zenon DEF States
      <4>2. \A p \in Queues : que'[p].reserved = que[p].reserved
        BY <2>1, <3>2, <4>1, <1>EnqueueReserves, SMTT(30)
      <4> QED
        BY <3>1, <4>2, <1>PlacesStay, Zenon
    <3>3. CASE que' = que
      BY <3>1, <3>3, <1>PlacesStay, Zenon
    <3> QED
      BY <2>3, <3>2, <3>3, Zenon DEF req_commit
  <2>4. ASSUME NEW r \in Requests, svr_setjobstate(t, j, r[2], r[3])
        PROVE  PlacesStep(t)
    <3> DEFINE new == r[2]
               charged == [sv EXCEPT !.st = Move(@, job[j].state, new)]
               w == [op |-> "set", job |-> j, que |-> job[j].qhdr, old |-> job[j].state,
                     new |-> new, sub |-> r[3]]
    <3>1. new \in States
      BY RequestTypes, Zenon
    <3>2. CASE at' = at /\ que' = que
      BY <3>2, <1>PlacesStay, Zenon
    <3>3. CASE at' = at /\ job[j].qhdr # None /\ SettleState(j, job[j].qhdr, new, r[3], charged)
      <4>1. \A p \in Queues : que'[p].reserved = que[p].reserved
        BY <2>1, <2>2, <3>1, <3>3, <1>SettleReserves, Zenon
      <4> QED
        BY <3>3, <4>1, <1>PlacesStay, Zenon
    <3>4. CASE que' = que /\ at' = [at EXCEPT ![t] = w]
      <4>1. w.op \notin {"deque", "enque"}
        BY Zenon
      <4> HIDE DEF w
      <4> QED
        BY <2>2, <3>4, <4>1, <1>PlacesSame, Zenon
    <3> QED
      BY <2>4, <3>2, <3>3, <3>4, Zenon DEF svr_setjobstate
  <2>5. ASSUME svr_job_purge(t, j)
        PROVE  PlacesStep(t)
    <3> DEFINE q == job[j].qhdr
               jr == [job[j] EXCEPT !.state = "COMPLETE"]
               known == job[j].state = "COMPLETE"
               why == IF known THEN {} ELSE {"unsettled"}
               w == [op |-> "purge", job |-> j, que |-> q]
    <3>1. jr \in JobRecord /\ why \subseteq Causes /\ summary \ {j} \subseteq Jobs
      BY <2>1, <2>2, Zenon DEF TypesOf, JobRecord, States, Causes
    <3>2. CASE at' = at /\ que' = que
      BY <3>2, <1>PlacesStay, Zenon
    <3>3. CASE at' = at /\ q # None /\ Dequeue(j, q, jr, que, "gone", summary \ {j}, why)
      <4> HIDE DEF jr, why
      <4>1. \A p \in Queues : que'[p].reserved = que[p].reserved
        BY <2>1, <2>2, <3>1, <3>3, <1>DequeueReserves, Zenon
      <4> QED
        BY <3>3, <4>1, <1>PlacesStay, Zenon
    <3>4. CASE que' = que /\ at' = [at EXCEPT ![t] = w]
      <4>1. w.op \notin {"deque", "enque"}
        BY Zenon
      <4> HIDE DEF w
      <4> QED
        BY <2>2, <3>4, <4>1, <1>PlacesSame, Zenon
    <3> QED
      BY <2>5, <3>2, <3>3, <3>4, Zenon DEF svr_job_purge
  <2>6. ASSUME NEW q \in Queues, NEW mgr \in BOOLEAN, local_move(t, j, q, mgr)
        PROVE  PlacesStep(t)
    <3> DEFINE w == [op |-> "move", job |-> j, dest |-> q, mgr |-> mgr]
    <3>1. que' = que /\ at' = [at EXCEPT ![t] = w] /\ w.op \notin {"deque", "enque"}
      BY <2>6, Zenon DEF local_move
    <3> HIDE DEF w
    <3> QED
      BY <2>2, <3>1, <1>PlacesSame, Zenon
  <2> QED
    BY <2>3, <2>4, <2>5, <2>6, Zenon
<1>PlacesOfWaits. ASSUME ResumeSet(t) \/ ResumePurge(t) \/ MoveDeque(t) \/ ResumeDeque(t) \/ MoveEnque(t)
      PROVE  PlacesStep(t)
  <2> USE <1>PlacesOfWaits
  <2> DEFINE j == at[t].job
             dest == at[t].dest
  <2>1. TypesOf(job, alljobs, summary, sv, que, blame) /\ WaitsOK /\ TypeOK /\ WaitOK(at[t])
    BY TypeParts, Zenon DEF Typed, WaitsOK
  <2>2. que \in [Queues -> QueueRecord] /\ \A q \in Queues : que[q].reserved \in Nat
    BY <2>1, Zenon DEF TypesOf, QueueRecord
  <2>3. CASE ResumeSet(t)
    <3>1. /\ j \in Jobs /\ at[t].que \in Queues /\ at[t].new \in States /\ at[t].op = "set"
          /\ at' = [at EXCEPT ![t] = Idle]
      BY <2>1, <2>3, Zenon DEF ResumeSet, WaitOK
    <3>2. \A p \in Queues : que'[p].reserved = que[p].reserved
      BY <2>1, <2>3, <3>1, <1>SettleReserves, ZenonT(40) DEF ResumeSet
    <3> QED
      BY <3>1, <3>2, IdleOK, <1>PlacesSame, ZenonT(40)
  <2>4. CASE ResumePurge(t)
    <3>1. /\ j \in Jobs /\ at[t].que \in Queues /\ at[t].op = "purge"
          /\ at' = [at EXCEPT ![t] = Idle] /\ Moved(t) \subseteq Causes
      BY <2>1, <2>4, Zenon DEF ResumePurge, WaitOK, Moved, Causes
    <3>2. job[j] \in JobRecord
      BY <2>1, <3>1, Zenon DEF TypesOf
    <3>3. \A p \in Queues : que'[p].reserved = que[p].reserved
      BY <2>1, <2>2, <2>4, <3>1, <3>2, <1>DequeueReserves, SMTT(30) DEF ResumePurge, TypesOf
    <3> QED
      BY <3>1, <3>3, IdleOK, <1>PlacesSame, ZenonT(40)
  <2>5. CASE MoveDeque(t)
    <3> DEFINE q == job[j].qhdr
               skipped == IF Full(que[dest]) THEN {"bypassed"} ELSE {}
               in == [op |-> "enque", job |-> j, dest |-> dest]
               out == [op |-> "deque", job |-> j, que |-> q, dest |-> dest]
    <3>1. j \in Jobs /\ dest \in Queues /\ at[t].op = "move" /\ skipped \subseteq Causes
      BY <2>1, <2>5, Zenon DEF MoveDeque, WaitOK, Causes
    <3>2. job[j] \in JobRecord
      BY <2>1, <3>1, Zenon DEF TypesOf
    <3>3. Held(dest) \in [Queues -> QueueRecord] /\ \A p \in Queues :
            Held(dest)[p].reserved = IF p = dest THEN que[p].reserved + 1 ELSE que[p].reserved
      BY <2>1, <3>1, HeldTypes, Zenon
    <3>4. CASE at' = [at EXCEPT ![t] = Idle] /\ que' = que
      BY <3>1, <3>4, IdleOK, <1>PlacesSame, Zenon
    <3>5. ASSUME at' = [at EXCEPT ![t] = Idle], "leaked" \in blame',
                 \A p \in Queues : que'[p].reserved = Held(dest)[p].reserved
          PROVE  PlacesStep(t)
      <4>1. at'[t] = Idle /\ \A u \in Threads \ {t} : at'[u] = at[u]
        BY <3>5, WaitStep, ZenonT(40)
      <4>2. \A p : Place(at[t], p) = 0 /\ Place(at'[t], p) = 0
        BY <3>1, <4>1, IdleOK, <1>NoPlace, Zenon
      <4> QED
        BY <2>2, <3>3, <3>5, <4>1, <4>2, SMTT(30) DEF PlacesStep
    <3>6. ASSUME at'[t].op \in {"deque", "enque"}, at'[t].dest = dest,
                 \A u \in Threads \ {t} : at'[u] = at[u],
                 \A p \in Queues : que'[p].reserved = Held(dest)[p].reserved
          PROVE  PlacesStep(t)
      <4>1. \A p : Place(at[t], p) = 0 /\ Place(at'[t], p) = IF p = dest THEN 1 ELSE 0
        BY <3>1, <3>6, Zenon DEF Place
      <4> QED
        BY <2>2, <3>3, <3>6, <4>1, SMTT(30) DEF PlacesStep
    <3>7. CASE /\ q # None /\ Dequeue(j, q, job[j], Held(dest), "live", summary, skipped)
               /\ at' = [at EXCEPT ![t] = in]
      <4>1. in.op \in {"deque", "enque"} /\ in.dest = dest /\ q \in Queues
        BY <3>2, <3>7, Zenon DEF JobRecord
      <4> HIDE DEF in, skipped
      <4>2. \A p \in Queues : que'[p].reserved = Held(dest)[p].reserved
        BY <2>1, <3>1, <3>2, <3>3, <3>7, <4>1, <1>DequeueReserves, Zenon DEF TypesOf
      <4>3. at'[t] = in /\ \A u \in Threads \ {t} : at'[u] = at[u]
        BY <3>7, WaitStep, Zenon
      <4> QED
        BY <3>6, <4>1, <4>2, <4>3, Zenon
    <3>8. CASE que' = Held(dest) /\ at' = [at EXCEPT ![t] = out]
      <4>1. out.op \in {"deque", "enque"} /\ out.dest = dest
        BY Zenon
      <4> HIDE DEF out
      <4>2. at'[t] = out /\ \A u \in Threads \ {t} : at'[u] = at[u]
        BY <3>8, WaitStep, ZenonT(40)
      <4> QED
        BY <3>6, <3>8, <4>1, <4>2, Zenon
    <3>9. CASE at' = [at EXCEPT ![t] = Idle] /\ que' = Held(dest) /\ "leaked" \in blame'
      BY <3>5, <3>9, Zenon
    <3>10. CASE /\ q # None
                /\ Dequeue(j, q, job[j], Held(dest), "gone", summary, skipped \cup {"leaked"})
                /\ at' = [at EXCEPT ![t] = Idle]
      <4> DEFINE why == skipped \cup {"leaked"}
      <4>1. why \in SUBSET Causes /\ q \in Queues /\ "leaked" \in blame'
        BY <3>1, <3>2, <3>10, Zenon DEF Causes, JobRecord, Dequeue
      <4>2. Dequeue(j, q, job[j], Held(dest), "gone", summary, why)
        BY <3>10
      <4> HIDE DEF why
      <4>3. \A p \in Queues : que'[p].reserved = Held(dest)[p].reserved
        BY <2>1, <3>1, <3>2, <3>3, <4>1, <4>2, <1>DequeueReserves, Zenon DEF TypesOf
      <4> QED
        BY <3>5, <3>10, <4>1, <4>3, Zenon
    <3> QED
      BY <2>5, <3>4, <3>7, <3>8, <3>9, <3>10, ZenonT(40) DEF MoveDeque, Held
  <2>6. CASE ResumeDeque(t)
    <3> DEFINE in == [op |-> "enque", job |-> j, dest |-> dest]
    <3>1. j \in Jobs /\ dest \in Queues /\ at[t].op = "deque" /\ at[t].que \in Queues
          /\ Moved(t) \subseteq Causes
      BY <2>1, <2>6, Zenon DEF ResumeDeque, WaitOK, Moved, Causes
    <3>2. job[j] \in JobRecord
      BY <2>1, <3>1, Zenon DEF TypesOf
    <3>3. \A p : Place(at[t], p) = IF p = dest THEN 1 ELSE 0
      BY <3>1, Zenon DEF Place
    <3>4. CASE /\ Dequeue(j, at[t].que, job[j], que, "live", summary, Moved(t))
               /\ at' = [at EXCEPT ![t] = in]
      <4>1. in.op \in {"deque", "enque"} /\ in.dest = dest
        BY Zenon
      <4> HIDE DEF in
      <4>2. \A p \in Queues : que'[p].reserved = que[p].reserved
        BY <2>1, <2>2, <3>1, <3>2, <3>4, <1>DequeueReserves, Zenon DEF TypesOf
      <4>3. at'[t] = in /\ \A u \in Threads \ {t} : at'[u] = at[u]
        BY <3>4, WaitStep, Zenon
      <4>4. \A p : Place(at'[t], p) = IF p = dest THEN 1 ELSE 0
        BY <4>1, <4>3, Zenon DEF Place
      <4> QED
        BY <2>2, <3>3, <4>2, <4>3, <4>4, SMTT(30) DEF PlacesStep
    <3>5. ASSUME at' = [at EXCEPT ![t] = Idle], "leaked" \in blame',
                 \A p \in Queues : que'[p].reserved = que[p].reserved
          PROVE  PlacesStep(t)
      <4>1. at'[t] = Idle /\ \A u \in Threads \ {t} : at'[u] = at[u]
        BY <3>5, WaitStep, Zenon
      <4>2. \A p : Place(at'[t], p) = 0
        BY <4>1, IdleOK, <1>NoPlace, Zenon
      <4> QED
        BY <2>2, <3>3, <3>5, <4>1, <4>2, SMTT(30) DEF PlacesStep
    <3>6. CASE at' = [at EXCEPT ![t] = Idle] /\ que' = que /\ "leaked" \in blame'
      BY <3>5, <3>6, Zenon
    <3>7. CASE /\ Dequeue(j, at[t].que, job[j], que, "gone", summary, Moved(t) \cup {"leaked"})
               /\ at' = [at EXCEPT ![t] = Idle]
      <4> DEFINE why == Moved(t) \cup {"leaked"}
      <4>1. why \in SUBSET Causes /\ "leaked" \in blame'
        BY <3>1, <3>7, Zenon DEF Causes, Dequeue
      <4>2. Dequeue(j, at[t].que, job[j], que, "gone", summary, why)
        BY <3>7
      <4> HIDE DEF why
      <4>3. \A p \in Queues : que'[p].reserved = que[p].reserved
        BY <2>1, <2>2, <3>1, <3>2, <4>1, <4>2, <1>DequeueReserves, Zenon DEF TypesOf
      <4> QED
        BY <3>5, <3>7, <4>1, <4>3, Zenon
    <3> QED
      BY <2>6, <3>4, <3>6, <3>7, Zenon DEF ResumeDeque
  <2>7. CASE MoveEnque(t)
    <3>1. j \in Jobs /\ dest \in Queues /\ at[t].op = "enque" /\ at' = [at EXCEPT ![t] = Idle]
      BY <2>1, <2>7, Zenon DEF MoveEnque, WaitOK
    <3>2. job[j].state \in States
      BY <2>1, <3>1, Zenon DEF TypesOf, JobRecord
    <3>3. GivenBack(dest) \in QueueRecord /\ GivenBack(dest).reserved = que[dest].reserved - 1
      BY <2>1, <3>1, PlaceToGiveBack, Zenon
    <3>4. \A p \in Queues : que'[p].reserved = IF p = dest THEN que[p].reserved - 1 ELSE que[p].reserved
      <4>1. CASE Enqueue(j, dest, GivenBack(dest), job[j].state)
        BY <2>1, <3>1, <3>2, <3>3, <4>1, <1>EnqueueReserves
      <4>2. CASE que' = [que EXCEPT ![dest] = GivenBack(dest)]
        BY <2>2, <3>1, <3>3, <4>2, Zenon
      <4> QED
        BY <2>7, <4>1, <4>2, Zenon DEF MoveEnque, GivenBack
    <3>5. at'[t] = Idle /\ \A u \in Threads \ {t} : at'[u] = at[u]
      BY <3>1, WaitStep, Zenon
    <3>6. \A p : Place(at'[t], p) = 0 /\ Place(at[t], p) = IF p = dest THEN 1 ELSE 0
      BY <3>1, <3>5, IdleOK, Zenon DEF Place
    <3> QED
      BY <2>2, <3>4, <3>5, <3>6, SMTT(30) DEF PlacesStep
  <2> QED
    BY <2>3, <2>4, <2>5, <2>6, <2>7, Zenon
<1>2. ASSUME NEW j \in Jobs, \E q \in Queues, s \in {"QUEUED", "HELD"} : req_commit(t, j, q, s)
      PROVE  PlacesStep(t)
  <2>1. at[t] = Idle
    BY <1>2, Zenon DEF req_commit
  <2> QED
    BY <1>2, <2>1, <1>PlacesOfCalls, Zenon
<1>3. ASSUME NEW j \in Jobs, \E r \in Requests : svr_setjobstate(t, j, r[2], r[3])
      PROVE  PlacesStep(t)
  <2>1. at[t] = Idle
    BY <1>3, Zenon DEF svr_setjobstate
  <2> QED
    BY <1>3, <2>1, <1>PlacesOfCalls, Zenon
<1>4. ASSUME NEW j \in Jobs, svr_job_purge(t, j)
      PROVE  PlacesStep(t)
  <2>1. at[t] = Idle
    BY <1>4, Zenon DEF svr_job_purge
  <2> QED
    BY <1>4, <2>1, <1>PlacesOfCalls, Zenon
<1>5. ASSUME NEW j \in Jobs, \E q \in Queues, mgr \in BOOLEAN : local_move(t, j, q, mgr)
      PROVE  PlacesStep(t)
  <2>1. at[t] = Idle
    BY <1>5, Zenon DEF local_move
  <2> QED
    BY <1>5, <2>1, <1>PlacesOfCalls, Zenon
<1> QED
  BY <1>2, <1>3, <1>4, <1>5, <1>PlacesOfWaits, Zenon DEF ThreadNext

\* Nobody takes a blame back.
LEMMA BlameGrows ==
  ASSUME NEW t \in Threads, ThreadNext(t)
  PROVE  blame \subseteq blame'
<1>1. ASSUME NEW j, NEW q, NEW s, req_commit(t, j, q, s) PROVE blame \subseteq blame'
  BY <1>1, Zenon DEF req_commit
<1>2. ASSUME NEW j, NEW new, NEW sub, svr_setjobstate(t, j, new, sub) PROVE blame \subseteq blame'
  BY <1>2, Zenon DEF svr_setjobstate
<1>3. ASSUME NEW j, NEW q, NEW jr, NEW qs, NEW life, NEW list, NEW why,
             Dequeue(j, q, jr, qs, life, list, why)
      PROVE  blame \subseteq blame'
  BY <1>3, Zenon DEF Dequeue
<1>4. ASSUME NEW j, svr_job_purge(t, j) PROVE blame \subseteq blame'
  BY <1>3, <1>4, Zenon DEF svr_job_purge
<1>5. ASSUME NEW j, NEW q, NEW mgr, local_move(t, j, q, mgr) PROVE blame \subseteq blame'
  BY <1>5, Zenon DEF local_move
<1>6. ASSUME ResumeSet(t) PROVE blame \subseteq blame'
  BY <1>6, Zenon DEF ResumeSet
<1>7. ASSUME ResumePurge(t) PROVE blame \subseteq blame'
  BY <1>3, <1>7, Zenon DEF ResumePurge
<1>8. ASSUME MoveDeque(t) PROVE blame \subseteq blame'
  BY <1>3, <1>8, Zenon DEF MoveDeque
<1>9. ASSUME ResumeDeque(t) PROVE blame \subseteq blame'
  BY <1>3, <1>9, Zenon DEF ResumeDeque
<1>10. ASSUME MoveEnque(t) PROVE blame \subseteq blame'
  BY <1>10, SMTT(30) DEF MoveEnque
<1> QED
  BY <1>1, <1>2, <1>4, <1>5, <1>6, <1>7, <1>8, <1>9, <1>10, Zenon DEF ThreadNext

-----------------------------------------------------------------------------
(* The kinds of steps there are as long as no thread comes back to a job that has
   left its queue *)

\* Every step of every operation is of one of the kinds, unless it is one of the
\* thread that comes back to a job moved meanwhile.
LEMMA KindsNext ==
  ASSUME Sizes, Typed, PlacesKept, Members, "moved" \notin blame', NEW t \in Threads, ThreadNext(t)
  PROVE  Kinds(t)
<1>CommitKind. ASSUME "moved" \notin blame, NEW j \in Jobs, NEW q \in Queues,
                      NEW s \in {"QUEUED", "HELD"}, req_commit(t, j, q, s)
      PROVE  Arriving(t, j, q, s) \/ Aside(j)
  <2> USE <1>CommitKind
  <2>1. at[t] = Idle /\ job[j].life = "new" /\ at' = at /\ blame' = blame
    BY Zenon DEF req_commit
  <2>2. job[j].qhdr = None /\ j \notin alljobs /\ j \notin que[q].jobs /\ job[j] \in JobRecord
    BY <2>1, Whereabouts, Zenon
  <2>3. TypeOK /\ job \in [Jobs -> JobRecord] /\ que[q] \in QueueRecord /\ s \in States
    BY TypeParts, Zenon DEF Typed, TypesOf, States
  <2>4. CASE ~Full(que[q]) /\ Enqueue(j, q, que[q], s)
    <3>1. Arrived(j, q, que[q], s)
      BY <2>2, <2>3, <2>4, EnqueueEffect, Zenon
    <3>2. que[q].reserved <= que[q].reserved
      BY <2>3 DEF QueueRecord
    <3> QED
      BY <2>1, <2>2, <2>3, <2>4, <3>1, <3>2, SMTT(30) DEF Arriving
  <2>5. CASE /\ job' = [job EXCEPT ![j].life = "gone", ![j].state = "COMPLETE"]
             /\ UNCHANGED <<alljobs, summary, sv, que>>
    <3>1. \A x \in Jobs \ {j} : job'[x] = job[x]
      BY <2>3, <2>5, Zenon
    <3>2. job'[j].life = "gone" /\ job'[j].qhdr = job[j].qhdr /\ job'[j].counted = job[j].counted
      BY <2>3, <2>5, Zenon DEF JobRecord
    <3> QED
      BY <2>1, <2>2, <2>5, <3>1, <3>2, Zenon DEF Aside, Same
  <2> QED
    BY <2>4, <2>5, Zenon DEF req_commit
<1>SetKind. ASSUME "moved" \notin blame, NEW j \in Jobs, NEW new \in States,
                   NEW sub \in Substates, svr_setjobstate(t, j, new, sub)
      PROVE  Quiet(t) \/ Aside(j) \/ Charging(t, j, new) \/ Settling(t, j, new)
  <2> USE <1>SetKind
  <2> DEFINE old == job[j].state
             q == job[j].qhdr
             charged == [sv EXCEPT !.st = Move(@, old, new)]
  <2>1. /\ TypeOK /\ job \in [Jobs -> JobRecord] /\ job[j] \in JobRecord /\ sv \in ServerRecord
        /\ que \in [Queues -> QueueRecord]
    BY TypeParts, Zenon DEF Typed, TypesOf
  <2>2. at[t].op = "idle" /\ alljobs' = alljobs /\ <<old, new, sub>> \in Requests /\ old \in States
    BY <2>1, IdleOK, Zenon DEF svr_setjobstate, JobRecord
  <2>3. q # None => q \in Queues /\ j \in alljobs
    BY Whereabouts, Zenon
  <2>4. /\ charged \in ServerRecord /\ charged.num = sv.num /\ charged.users = sv.users
        /\ charged.st = Move(sv.st, old, new)
    <3>1. Move(sv.st, old, new) \in [States -> Int]
      BY <2>1, <2>2, MoveType, Zenon DEF ServerRecord
    <3> QED
      BY <2>1, <3>1, Zenon DEF ServerRecord
  <2>5. CASE /\ job' = [job EXCEPT ![j].sub = sub] /\ UNCHANGED <<sv, que, at, blame, bound>>
    <3>1. \A x \in Jobs : Same(x)
      BY <2>1, <2>5, Zenon DEF JobRecord, Same
    <3>2. \A p \in Queues : que[p].reserved <= que[p].reserved
      BY <2>1 DEF QueueRecord
    <3> QED
      BY <2>2, <2>5, <3>1, <3>2 DEF Quiet, CountsAre, RoomStep
  <2>6. CASE /\ old # new /\ q = None
             /\ job' = [job EXCEPT ![j].state = new, ![j].sub = sub,
                                ![j].counted = IF new = "COMPLETE" THEN @ \ {"global"} ELSE @]
             /\ sv' = IF new = "COMPLETE"
                      THEN [charged EXCEPT !.users = Less(@, job[j].counted, "global")]
                      ELSE charged
             /\ blame' = blame \cup {"unqueued"}
             /\ UNCHANGED <<que, at, bound>>
    <3>1. \A x \in Jobs \ {j} : job'[x] = job[x]
      BY <2>1, <2>6, Zenon
    <3>2. /\ job'[j].qhdr = job[j].qhdr /\ job'[j].counted \subseteq job[j].counted
          /\ job'[j].life = job[j].life
      BY <2>1, <2>6, Zenon DEF JobRecord
    <3> HIDE DEF charged
    <3>3. sv'.num = sv.num
      BY <2>4, <2>6, Zenon DEF ServerRecord
    <3>4. sv'.users = sv.users \/ sv'.users = Less(sv.users, job[j].counted, "global")
      BY <2>4, <2>6, Zenon DEF ServerRecord
    <3>5. "unqueued" \in blame'
      BY <2>6, Zenon
    <3> QED
      BY <2>2, <2>6, <3>1, <3>2, <3>3, <3>4, <3>5, Zenon DEF Aside, Same
  <2>7. CASE /\ old # new /\ q # None /\ SettleState(j, q, new, sub, charged)
             /\ UNCHANGED <<at, blame, bound>>
    <3>1. old # "COMPLETE"
      BY <2>2, <2>7, RequestTypes, SMTT(30)
    <3> HIDE DEF charged
    <3>2. Settled(j, q, new, charged)
      BY <2>1, <2>3, <2>4, <2>7, SettleEffect, Zenon
    <3> QED
      BY <2>2, <2>3, <2>4, <2>7, <3>1, <3>2, Zenon DEF Settling
  <2>8. CASE /\ old # new /\ q # None
             /\ sv' = charged
             /\ at' = [at EXCEPT ![t] = [op |-> "set", job |-> j, que |-> q, old |-> old,
                                         new |-> new, sub |-> sub]]
             /\ UNCHANGED <<job, que, blame>>
    <3> DEFINE w == [op |-> "set", job |-> j, que |-> q, old |-> old, new |-> new, sub |-> sub]
    <3>1. w.op = "set" /\ w.old = old /\ w.new = new
      BY Zenon
    <3>2. at' = [at EXCEPT ![t] = w]
      BY <2>8, Zenon
    <3> HIDE DEF w
    <3>3. at'[t] = w
      BY <3>2, WaitStep, Zenon
    <3> HIDE DEF charged
    <3> QED
      BY <2>2, <2>3, <2>4, <2>8, <3>1, <3>3, ZenonT(40) DEF Charging, Same
  <2> QED
    BY <2>5, <2>6, <2>7, <2>8, SMTT(30) DEF svr_setjobstate
<1>ResumeSetKind. ASSUME ResumeSet(t)
      PROVE  Quiet(t) \/ \E j \in Jobs, new \in States : Settling(t, j, new)
  <2> USE <1>ResumeSetKind
  <2> DEFINE j == at[t].job
             q == job[j].qhdr
             new == at[t].new
  <2>1. /\ TypeOK /\ job \in [Jobs -> JobRecord] /\ sv \in ServerRecord
        /\ que \in [Queues -> QueueRecord] /\ WaitOK(at[t])
    BY TypeParts, Zenon DEF Typed, TypesOf, WaitsOK
  <2>2. at[t].op = "set" /\ alljobs' = alljobs /\ "moved" \notin blame /\ at' = [at EXCEPT ![t] = Idle]
    BY Zenon DEF ResumeSet
  <2>3. j \in Jobs /\ at[t].que \in Queues /\ new \in States /\ at[t].old # new
    BY <2>1, <2>2, Zenon DEF WaitOK
  <2>4. at'[t].op = "idle"
    BY <2>2, WaitStep, IdleOK, ZenonT(40)
  <2>5. \A p \in Queues : que[p].reserved <= que[p].reserved
    BY <2>1 DEF QueueRecord
  <2>6. job[j] \in JobRecord
    BY <2>1, <2>3, Zenon
  <2>7. CASE /\ SettleState(j, at[t].que, new, at[t].sub, sv)
             /\ blame' = blame \cup (IF job[j].state # at[t].old THEN {"overtaken"} ELSE {})
                               \cup Moved(t)
    <3>1. q = at[t].que
      BY <2>7, Zenon DEF Moved
    <3>2. q \in Queues /\ j \in alljobs
      BY <2>2, <2>3, <3>1, Whereabouts, CountsAssumption, Zenon
    <3>3. "overtaken" \notin blame' => job[j].state = at[t].old
      BY <2>7, Zenon
    <3>4. CASE job[j].state # new
      <4>1. Settled(j, q, new, sv)
        BY <2>1, <2>3, <2>7, <3>1, <3>4, SettleEffect, ZenonT(40)
      <4> QED
        BY <2>2, <2>3, <2>4, <3>2, <3>3, <3>4, <4>1, Zenon DEF Settling
    <3>5. CASE job[j].state = new
      <4>1. job' = [job EXCEPT ![j].state = new, ![j].sub = at[t].sub,
                               ![j].counted = @] /\ sv' = sv /\ que' = que
        BY <2>7, <3>5, Zenon DEF SettleState
      <4>2. \A x \in Jobs \ {j} : job'[x] = job[x]
        BY <2>1, <4>1, Zenon
      <4>3. Same(j)
        BY <2>1, <2>3, <2>6, <3>5, <4>1, SMTT(30) DEF JobRecord, Same
      <4>4. "overtaken" \in blame'
        BY <2>3, <3>3, <3>5, Zenon
      <4> QED
        BY <2>2, <2>4, <2>5, <4>1, <4>2, <4>3, <4>4, ZenonT(40) DEF Quiet, CountsAre, RoomStep, Same
    <3> QED
      BY <3>4, <3>5, Zenon
  <2>8. CASE blame' = blame \cup {"overtaken"} /\ UNCHANGED <<job, sv, que>>
    BY <2>2, <2>4, <2>5, <2>8, SMTT(30) DEF Quiet, CountsAre, RoomStep, Same
  <2> QED
    BY <2>7, <2>8, Zenon DEF ResumeSet
<1>PurgeKind. ASSUME "moved" \notin blame, NEW j \in Jobs, svr_job_purge(t, j)
      PROVE  Quiet(t) \/ Aside(j) \/ Dooming(t, j) \/ Leaving(t, j, "gone")
  <2> USE <1>PurgeKind
  <2> DEFINE q == job[j].qhdr
             jr == [job[j] EXCEPT !.state = "COMPLETE"]
             known == job[j].state = "COMPLETE"
             why == IF known THEN {} ELSE {"unsettled"}
  <2>1. /\ TypeOK /\ job \in [Jobs -> JobRecord] /\ job[j] \in JobRecord /\ sv \in ServerRecord
        /\ que \in [Queues -> QueueRecord] /\ summary \ {j} \in SUBSET Jobs
    BY TypeParts, Zenon DEF Typed, TypesOf
  <2>2. at[t].op = "idle"
    BY IdleOK, Zenon DEF svr_job_purge
  <2>3. q # None => q \in Queues /\ j \in alljobs /\ j \in que[q].jobs
    BY Whereabouts, Zenon
  <2>4. /\ jr \in JobRecord /\ jr.state = "COMPLETE" /\ jr.qhdr = q /\ jr.life = job[j].life
        /\ jr.counted = job[j].counted /\ (known => jr.state = job[j].state)
        /\ why \in SUBSET Causes
    BY <2>1, Zenon DEF JobRecord, States, Causes
  <2>5. CountsAre(que) /\ RoomStep(que)
    <3>1. \A p \in Queues : que[p].reserved <= que[p].reserved
      BY <2>1, SMTT(30) DEF QueueRecord
    <3> QED
      BY <3>1, Zenon DEF CountsAre, RoomStep
  <2>6. CASE q # None /\ Dequeue(j, q, jr, que, "gone", summary \ {j}, why) /\ UNCHANGED at
    <3>1. jr.state = job[j].state \/ (jr.state = "COMPLETE" /\ "unsettled" \in blame')
      BY <2>4, <2>6, ZenonT(40) DEF Dequeue
    <3> HIDE DEF jr, why
    <3>2. Left(j, q, jr, que, "gone", why)
      BY <2>1, <2>3, <2>4, <2>6, DequeueEffect, ZenonT(40)
    <3>3. jr.counted = job[j].counted /\ jr \in JobRecord /\ why \in SUBSET Causes
      BY <2>4, Zenon
    <3> QED
      BY <2>1, <2>2, <2>3, <2>5, <2>6, <3>1, <3>2, <3>3, ZenonT(40) DEF Leaving
  <2>7. ASSUME job' = [job EXCEPT ![j] = jr]
        PROVE  /\ \A x \in Jobs \ {j} : Same(x)
               /\ job'[j].state = "COMPLETE" /\ job'[j].qhdr = q /\ job'[j].life = job[j].life
               /\ job'[j].counted = job[j].counted /\ (known => Same(j))
    <3> HIDE DEF jr
    <3>1. job'[j] = jr /\ \A x \in Jobs \ {j} : job'[x] = job[x]
      BY <2>1, <2>7, Zenon
    <3> QED
      BY <3>1, <2>4, Zenon DEF Same
  <2>8. CASE /\ q = None
             /\ job' = [job EXCEPT ![j] = jr] /\ UNCHANGED <<alljobs, sv, que, at>>
    BY <2>7, <2>8, Zenon DEF Aside
  <2>9. CASE /\ q # None
             /\ job' = [job EXCEPT ![j] = jr]
             /\ at' = [at EXCEPT ![t] = [op |-> "purge", job |-> j, que |-> q]]
             /\ blame' = blame \cup why
             /\ UNCHANGED <<alljobs, sv, que>>
    <3> DEFINE w == [op |-> "purge", job |-> j, que |-> q]
    <3>1. w.op = "purge" /\ at' = [at EXCEPT ![t] = w]
      BY <2>9, Zenon
    <3> HIDE DEF w
    <3>2. at'[t].op = "purge"
      BY <3>1, WaitStep, Zenon
    <3>3. CASE known
      <4>1. \A x \in Jobs : Same(x)
        BY <2>7, <2>9, <3>3
      <4> QED
        BY <2>2, <2>5, <2>9, <3>2, <4>1, Zenon DEF Quiet, CountsAre, RoomStep
    <3>4. CASE ~known
      <4>1. "unsettled" \in blame'
        BY <2>9, <3>4, Zenon
      <4> QED
        BY <2>2, <2>7, <2>9, <3>2, <4>1, Zenon DEF Dooming
    <3> QED
      BY <3>3, <3>4, Zenon
  <2> QED
    BY <2>6, <2>8, <2>9, Zenon DEF svr_job_purge
<1>ResumePurgeKind. ASSUME "moved" \notin blame, ResumePurge(t)
      PROVE  Quiet(t) \/ \E j \in Jobs : Leaving(t, j, "gone")
  <2> USE <1>ResumePurgeKind
  <2> DEFINE j == at[t].job
             q == job[j].qhdr
  <2>1. /\ TypeOK /\ job \in [Jobs -> JobRecord] /\ sv \in ServerRecord
        /\ que \in [Queues -> QueueRecord] /\ WaitOK(at[t]) /\ summary \in SUBSET Jobs
    BY TypeParts, Zenon DEF Typed, TypesOf, WaitsOK
  <2>2. at[t].op = "purge" /\ at' = [at EXCEPT ![t] = Idle]
    BY Zenon DEF ResumePurge
  <2>3. j \in Jobs /\ at[t].que \in Queues
    BY <2>1, <2>2, Zenon DEF WaitOK
  <2>4. at'[t].op = "idle"
    BY <2>2, WaitStep, IdleOK, ZenonT(40)
  <2>5. CountsAre(que) /\ RoomStep(que)
    <3>1. \A p \in Queues : que[p].reserved <= que[p].reserved
      BY <2>1 DEF QueueRecord
    <3> QED
      BY <3>1, Zenon DEF CountsAre, RoomStep
  <2>6. CASE Dequeue(j, at[t].que, job[j], que, "gone", summary, Moved(t))
    <3>1. q = at[t].que /\ Moved(t) \in SUBSET Causes
      BY <2>6, ZenonT(40) DEF Moved, Dequeue, Causes
    <3>2. q \in Queues /\ j \in alljobs /\ j \in que[q].jobs /\ job[j] \in JobRecord
      BY <2>3, <3>1, Whereabouts, CountsAssumption, ZenonT(40)
    <3>3. Left(j, q, job[j], que, "gone", Moved(t))
      BY <2>1, <2>3, <2>6, <3>1, <3>2, DequeueEffect, Zenon
    <3> QED
      BY <2>1, <2>2, <2>3, <2>4, <2>5, <3>1, <3>2, <3>3, Zenon DEF Leaving
  <2>7. CASE UNCHANGED <<job, alljobs, summary, sv, que, blame>>
    BY <2>2, <2>4, <2>5, <2>7, ZenonT(40) DEF Quiet, CountsAre, RoomStep, Same
  <2> QED
    BY <2>6, <2>7, Zenon DEF ResumePurge
<1>LocalMoveKind. ASSUME NEW j \in Jobs, NEW dest \in Queues, NEW mgr, local_move(t, j, dest, mgr)
      PROVE  Quiet(t)
  <2> USE <1>LocalMoveKind
  <2> DEFINE w == [op |-> "move", job |-> j, dest |-> dest, mgr |-> mgr]
  <2>1. /\ at[t].op = "idle" /\ w.op = "move" /\ at' = [at EXCEPT ![t] = w]
        /\ UNCHANGED <<job, alljobs, summary, sv, que, blame>>
    BY IdleOK, Zenon DEF local_move
  <2> HIDE DEF w
  <2>2. at'[t].op = "move"
    BY <2>1, WaitStep, ZenonT(40)
  <2>3. \A p \in Queues : que[p].reserved <= que[p].reserved
    BY DEF Typed, TypeOK
  <2> QED
    BY <2>1, <2>2, <2>3, ZenonT(40) DEF Quiet, CountsAre, RoomStep, Same
<1>MoveDequeKind. ASSUME "moved" \notin blame, MoveDeque(t)
      PROVE  Quiet(t) \/ \E j \in Jobs : Leaving(t, j, "live") \/ Leaving(t, j, "gone")
  <2> USE <1>MoveDequeKind
  <2> DEFINE j == at[t].job
             dest == at[t].dest
             q == job[j].qhdr
             full == Full(que[dest])
             skipped == IF full THEN {"bypassed"} ELSE {}
  <2>1. /\ TypeOK /\ job \in [Jobs -> JobRecord] /\ sv \in ServerRecord
        /\ que \in [Queues -> QueueRecord] /\ WaitOK(at[t]) /\ summary \in SUBSET Jobs
    BY TypeParts, SMTT(30) DEF Typed, TypesOf, WaitsOK
  <2>2. at[t].op = "move"
    BY Zenon DEF MoveDeque
  <2>3. j \in Jobs /\ dest \in Queues /\ skipped \in SUBSET Causes
    BY <2>1, <2>2, Zenon DEF WaitOK, Causes
  <2>4. job[j] \in JobRecord /\ (q # None => q \in Queues /\ j \in alljobs /\ j \in que[q].jobs)
    BY <2>3, Whereabouts, Zenon
  <2>5. Held(dest) \in [Queues -> QueueRecord] /\ CountsAre(Held(dest))
        /\ \A p \in Queues :
             Held(dest)[p].reserved = IF p = dest THEN que[p].reserved + 1 ELSE que[p].reserved
    BY <2>1, <2>3, HeldTypes, SMTT(30) DEF CountsAre
  <2>6. ASSUME skipped \subseteq blame' PROVE RoomStep(Held(dest))
    <3>1. \A p \in Queues : que[p].reserved <= que[p].reserved
      BY <2>1 DEF QueueRecord
    <3>2. ~Full(que[dest]) \/ "bypassed" \in blame'
      BY <2>6, Zenon
    <3> HIDE DEF skipped
    <3> QED
      BY <2>5, <3>1, <3>2, Zenon DEF RoomStep
  <2>7. CASE at' = [at EXCEPT ![t] = Idle] /\ UNCHANGED <<job, alljobs, summary, sv, que, blame, bound>>
    <3>1. at'[t].op = "idle"
      BY <2>7, WaitStep, IdleOK, ZenonT(40)
    <3>2. \A p \in Queues : que[p].reserved <= que[p].reserved
      BY <2>1 DEF QueueRecord
    <3> QED
      BY <2>2, <2>7, <3>1, <3>2, Zenon DEF Quiet, CountsAre, RoomStep, Same
  <2>8. CASE /\ que' = Held(dest) /\ blame' = blame \cup skipped \cup {"leaked"}
             /\ at' = [at EXCEPT ![t] = Idle]
             /\ UNCHANGED <<job, alljobs, summary, sv, bound>>
    <3>1. at'[t].op = "idle"
      BY <2>8, WaitStep, IdleOK, ZenonT(40)
    <3>2. RoomStep(que') /\ CountsAre(que')
      BY <2>5, <2>6, <2>8, SMTT(30)
    <3> QED
      BY <2>2, <2>8, <3>1, <3>2 DEF Quiet, Same
  <2>9. CASE /\ q # None /\ Dequeue(j, q, job[j], Held(dest), "live", summary, skipped)
             /\ at' = [at EXCEPT ![t] = [op |-> "enque", job |-> j, dest |-> dest]]
    <3> DEFINE w == [op |-> "enque", job |-> j, dest |-> dest]
    <3>1. w.op = "enque" /\ w.job = j /\ at' = [at EXCEPT ![t] = w]
      BY <2>9, Zenon
    <3> HIDE DEF w
    <3>2. at'[t].op = "enque" /\ at'[t].job = j
      BY <3>1, WaitStep, Zenon
    <3>3. skipped \subseteq blame'
      BY <2>9, Zenon DEF Dequeue
    <3>4. RoomStep(Held(dest))
      BY <2>6, <3>3, Zenon
    <3> HIDE DEF skipped
    <3>5. j \in Held(dest)[q].jobs
      BY <2>4, <2>5, <2>9, SMTT(30) DEF CountsAre
    <3>6. Left(j, q, job[j], Held(dest), "live", skipped)
      BY <2>1, <2>3, <2>4, <2>5, <2>9, <3>5, DequeueEffect, ZenonT(40)
    <3> QED
      BY <2>2, <2>3, <2>4, <2>5, <2>9, <3>2, <3>4, <3>6, Zenon DEF Leaving
  <2>10. CASE /\ que' = Held(dest) /\ blame' = blame \cup skipped
              /\ at' = [at EXCEPT ![t] = [op |-> "deque", job |-> j, que |-> q, dest |-> dest]]
              /\ UNCHANGED <<job, alljobs, summary, sv>>
    <3> DEFINE w == [op |-> "deque", job |-> j, que |-> q, dest |-> dest]
    <3>1. w.op = "deque" /\ at' = [at EXCEPT ![t] = w]
      BY <2>10, Zenon
    <3> HIDE DEF w
    <3>2. at'[t].op = "deque"
      BY <3>1, WaitStep, Zenon
    <3>3. RoomStep(que') /\ CountsAre(que')
      BY <2>5, <2>6, <2>10, Zenon
    <3> QED
      BY <2>2, <2>10, <3>2, <3>3, Zenon DEF Quiet, Same
  <2>11. CASE /\ q # None
              /\ Dequeue(j, q, job[j], Held(dest), "gone", summary, skipped \cup {"leaked"})
              /\ at' = [at EXCEPT ![t] = Idle]
    <3> DEFINE why == skipped \cup {"leaked"}
    <3>1. at'[t].op = "idle"
      BY <2>11, WaitStep, IdleOK, ZenonT(40)
    <3>2. skipped \subseteq blame' /\ why \in SUBSET Causes
      BY <2>3, <2>11, Zenon DEF Dequeue, Causes
    <3>3. RoomStep(Held(dest))
      BY <2>6, <3>2, Zenon
    <3> HIDE DEF why
    <3>4. j \in Held(dest)[q].jobs
      BY <2>4, <2>5, <2>11, SMTT(30) DEF CountsAre
    <3>5. Left(j, q, job[j], Held(dest), "gone", why)
      BY <2>1, <2>3, <2>4, <2>5, <2>11, <3>2, <3>4, DequeueEffect, ZenonT(40) DEF why
    <3> QED
      BY <2>2, <2>3, <2>4, <2>5, <2>11, <3>1, <3>2, <3>3, <3>5, Zenon DEF Leaving
  <2> QED
    BY <2>7, <2>8, <2>9, <2>10, <2>11, ZenonT(40) DEF MoveDeque, Held
<1>ResumeDequeKind. ASSUME "moved" \notin blame, ResumeDeque(t)
      PROVE  Quiet(t) \/ \E j \in Jobs : Leaving(t, j, "live") \/ Leaving(t, j, "gone")
  <2> USE <1>ResumeDequeKind
  <2> DEFINE j == at[t].job
             q == job[j].qhdr
  <2>1. /\ TypeOK /\ job \in [Jobs -> JobRecord] /\ sv \in ServerRecord
        /\ que \in [Queues -> QueueRecord] /\ WaitOK(at[t]) /\ summary \in SUBSET Jobs
    BY TypeParts DEF Typed, TypesOf, WaitsOK
  <2>2. at[t].op = "deque"
    BY Zenon DEF ResumeDeque
  <2>3. j \in Jobs /\ at[t].que \in Queues
    BY <2>1, <2>2, SMTT(30) DEF WaitOK
  <2>4. CountsAre(que) /\ RoomStep(que)
    <3>1. \A p \in Queues : que[p].reserved <= que[p].reserved
      BY <2>1 DEF QueueRecord
    <3> QED
      BY <3>1 DEF CountsAre, RoomStep
  <2>5. CASE /\ Dequeue(j, at[t].que, job[j], que, "live", summary, Moved(t))
             /\ at' = [at EXCEPT ![t] = [op |-> "enque", job |-> j, dest |-> at[t].dest]]
    <3> DEFINE w == [op |-> "enque", job |-> j, dest |-> at[t].dest]
    <3>1. w.op = "enque" /\ w.job = j /\ at' = [at EXCEPT ![t] = w]
      BY <2>5
    <3> HIDE DEF w
    <3>2. at'[t].op = "enque" /\ at'[t].job = j
      BY <3>1, WaitStep, ZenonT(40)
    <3>3. q = at[t].que /\ Moved(t) \in SUBSET Causes
      BY <2>5, Zenon DEF Moved, Dequeue, Causes
    <3>4. q \in Queues /\ j \in alljobs /\ j \in que[q].jobs /\ job[j] \in JobRecord
      BY <2>3, <3>3, Whereabouts, CountsAssumption, Zenon
    <3>5. Left(j, q, job[j], que, "live", Moved(t))
      BY <2>1, <2>3, <2>5, <3>3, <3>4, DequeueEffect, SMTT(30)
    <3> QED
      BY <2>1, <2>2, <2>3, <2>4, <3>2, <3>3, <3>4, <3>5, ZenonT(40) DEF Leaving
  <2>6. CASE /\ at' = [at EXCEPT ![t] = Idle]
             /\ UNCHANGED <<job, alljobs, summary, sv, que>>
    <3>1. at'[t].op = "idle"
      BY <2>6, WaitStep, IdleOK, Zenon
    <3> QED
      BY <2>2, <2>4, <2>6, <3>1, ZenonT(40) DEF Quiet, CountsAre, RoomStep, Same
  <2>7. CASE /\ Dequeue(j, at[t].que, job[j], que, "gone", summary, Moved(t) \cup {"leaked"})
             /\ at' = [at EXCEPT ![t] = Idle]
    <3> DEFINE why == Moved(t) \cup {"leaked"}
    <3>1. at'[t].op = "idle"
      BY <2>7, WaitStep, IdleOK, Zenon
    <3>2. q = at[t].que /\ why \in SUBSET Causes
      BY <2>7, Zenon DEF Moved, Dequeue, Causes
    <3>3. q \in Queues /\ j \in alljobs /\ j \in que[q].jobs /\ job[j] \in JobRecord
      BY <2>3, <3>2, Whereabouts, CountsAssumption, Zenon
    <3> HIDE DEF why
    <3>4. Left(j, q, job[j], que, "gone", why)
      BY <2>1, <2>3, <2>7, <3>2, <3>3, DequeueEffect, Zenon DEF why
    <3> QED
      BY <2>1, <2>2, <2>3, <2>4, <3>1, <3>2, <3>3, <3>4, ZenonT(40) DEF Leaving
  <2> QED
    BY <2>5, <2>6, <2>7, Zenon DEF ResumeDeque
<1>MoveEnqueKind. ASSUME "moved" \notin blame, MoveEnque(t)
      PROVE  Quiet(t) \/ \E j \in Jobs, q \in Queues, s \in States : Arriving(t, j, q, s)
  <2> USE <1>MoveEnqueKind
  <2> DEFINE j == at[t].job
             dest == at[t].dest
             qr == GivenBack(dest)
             s == job[j].state
  <2>1. /\ TypeOK /\ job \in [Jobs -> JobRecord] /\ sv \in ServerRecord
        /\ que \in [Queues -> QueueRecord] /\ WaitOK(at[t])
    BY TypeParts, Zenon DEF Typed, TypesOf, WaitsOK
  <2>2. at[t].op = "enque" /\ at' = [at EXCEPT ![t] = Idle] /\ blame' = blame
    BY Zenon DEF MoveEnque
  <2>3. j \in Jobs /\ dest \in Queues
    BY <2>1, <2>2, Zenon DEF WaitOK
  <2>4. at'[t].op = "idle"
    BY <2>2, WaitStep, IdleOK, ZenonT(40)
  <2>5. job[j].qhdr = None
    BY <2>2, Zenon DEF Members
  <2>6. s \in States /\ j \notin alljobs /\ j \notin que[dest].jobs
    BY <2>3, <2>5, Whereabouts, Zenon
  <2>7. /\ que[dest].reserved > 0 /\ qr \in QueueRecord
        /\ qr.jobs = que[dest].jobs /\ qr.num = que[dest].num
        /\ qr.st = que[dest].st /\ qr.uih = que[dest].uih
        /\ qr.reserved = que[dest].reserved - 1
    BY <2>1, <2>2, <2>3, PlaceToGiveBack, Zenon
  <2>8. \A p \in Queues : que[p].reserved \in Nat /\ que[p].reserved <= que[p].reserved
    BY <2>1, SMTT(30) DEF QueueRecord
  <2>9. qr.reserved <= que[dest].reserved
    BY <2>3, <2>7, <2>8, SMTT(30)
  <2> HIDE DEF qr
  <2>10. CASE ~Full(qr) /\ Enqueue(j, dest, qr, s)
    <3>1. Arrived(j, dest, qr, s)
      BY <2>1, <2>3, <2>6, <2>7, <2>10, EnqueueEffect, ZenonT(40)
    <3> QED
      BY <2>2, <2>3, <2>4, <2>5, <2>6, <2>7, <2>9, <2>10, <3>1, ZenonT(40) DEF Arriving
  <2>11. CASE /\ job[j].life # "live" \/ Full(qr)
              /\ que' = [que EXCEPT ![dest] = qr]
              /\ UNCHANGED <<job, alljobs, summary, sv>>
    <3>1. que'[dest] = qr /\ \A p \in Queues \ {dest} : que'[p] = que[p]
      BY <2>1, <2>3, <2>11, Zenon
    <3>2. CountsAre(que')
      BY <2>7, <3>1, Zenon DEF CountsAre
    <3>3. RoomStep(que')
      BY <2>8, <2>9, <3>1, Zenon DEF RoomStep
    <3>4. job[j].life # "live" \/ Full(GivenBack(dest))
      BY <2>11, Zenon DEF qr
    <3> QED
      BY <2>2, <2>4, <2>11, <3>2, <3>3, <3>4, ZenonT(40) DEF Quiet, Same
  <2> QED
    BY <2>10, <2>11, Zenon DEF MoveEnque, qr, GivenBack
<1>1. "moved" \notin blame
  BY BlameGrows, Zenon
<1>2. ASSUME NEW j \in Jobs, NEW q \in Queues, NEW s \in {"QUEUED", "HELD"}, req_commit(t, j, q, s)
      PROVE  Kinds(t)
  <2>1. s \in States
    BY Zenon DEF States
  <2> QED
    BY <1>1, <1>2, <2>1, <1>CommitKind, Zenon DEF Kinds
<1>3. ASSUME NEW j \in Jobs, NEW r \in Requests, svr_setjobstate(t, j, r[2], r[3])
      PROVE  Kinds(t)
  <2>1. r[2] \in States /\ r[3] \in Substates
    BY RequestTypes, Zenon
  <2> QED
    BY <1>1, <1>3, <2>1, <1>SetKind, Zenon DEF Kinds
<1>4. ASSUME NEW j \in Jobs, svr_job_purge(t, j)
      PROVE  Kinds(t)
  BY <1>1, <1>4, <1>PurgeKind, Zenon DEF Kinds
<1>5. ASSUME NEW j \in Jobs, NEW q \in Queues, NEW mgr \in BOOLEAN, local_move(t, j, q, mgr)
      PROVE  Kinds(t)
  BY <1>5, <1>LocalMoveKind, Zenon DEF Kinds
<1>6. CASE ResumeSet(t)
  BY <1>6, <1>ResumeSetKind, Zenon DEF Kinds
<1>7. CASE ResumePurge(t)
  BY <1>1, <1>7, <1>ResumePurgeKind, Zenon DEF Kinds
<1>8. CASE MoveDeque(t)
  BY <1>1, <1>8, <1>MoveDequeKind, Zenon DEF Kinds
<1>9. CASE ResumeDeque(t)
  BY <1>1, <1>9, <1>ResumeDequeKind, Zenon DEF Kinds
<1>10. CASE MoveEnque(t)
  BY <1>1, <1>10, <1>MoveEnqueKind, Zenon DEF Kinds
<1> QED
  BY <1>2, <1>3, <1>4, <1>5, <1>6, <1>7, <1>8, <1>9, <1>10, Zenon DEF ThreadNext

=============================================================================
