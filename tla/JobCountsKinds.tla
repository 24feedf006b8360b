--------------------------- MODULE JobCountsKinds ----------------------------
(***************************************************************************)
(* The inductive invariant of JobCounts, the kinds of steps it is proved  *)
(* by, and the lemmas that each kind keeps each part of the invariant.    *)
(* JobCountsSteps shows that every step of every operation is of one of   *)
(* these kinds, and JobCountsProofs puts the two together.                *)
(***************************************************************************)
EXTENDS JobCounts, TLAPS

-----------------------------------------------------------------------------
(* The inductive invariant *)

\* What a waiting thread has in its hands.
WaitOK(w) ==
  /\ w.op \in {"idle", "set", "purge", "move", "deque", "enque"}
  /\ w.op # "idle" => w.job \in Jobs
  /\ w.op \in {"set", "purge", "deque"} => w.que \in Queues
  /\ w.op \in {"move", "deque", "enque"} => w.dest \in Queues
  /\ w.op = "set" => /\ w.old \in States \ {"COMPLETE"} /\ w.new \in States
                     /\ w.sub \in Substates /\ w.old # w.new

\* ... for every thread.
WaitsOK == \A t \in Threads : WaitOK(at[t])

\* The threads that have a place reserved in q.
Movers(q) == {t \in Threads : at[t].op \in {"deque", "enque"} /\ at[t].dest = q}

\* qu_reserved_jobs of a queue is never below the moves that rely on it.
PlacesKept == \A q \in Queues : que[q].reserved >= Cardinality(Movers(q))

\* A job is in the list of the queue ji_qhdr names and in alljobs, or in neither; a
\* job between two queues is carried by one thread.
Members ==
  "moved" \notin blame =>
    /\ \A q \in Queues : que[q].jobs = {j \in Jobs : job[j].qhdr = q}
    /\ alljobs = {j \in Jobs : job[j].qhdr # None}
    /\ \A j \in Jobs : job[j].qhdr # None => job[j].life = "live"
    /\ \A t \in Threads : at[t].op = "enque" =>
         /\ job[at[t].job].qhdr = None /\ job[at[t].job].life = "live"
         /\ \A u \in Threads \ {t} : at[u].op = "enque" => at[u].job # at[t].job

\* ji_queue_counted tells whether a job is counted: exactly while it is queued and open.
Marked ==
  blame \cap {"moved", "unsettled", "overtaken"} = {} =>
    \A j \in Jobs : job[j].counted = IF job[j].qhdr # None /\ job[j].state # "COMPLETE"
                                     THEN {"global", "queue"} ELSE {}

\* count_queued_jobs: what svr_enquejob and svr_chkque compare with max_queuable.
Estimate(q) == que[q].num - que[q].st["COMPLETE"]

\* The estimate is never below the open jobs and never above the limit.
Estimated ==
  blame \cap {"overtaken", "moved"} = {} =>
    \A q \in Queues : Cardinality(Open(q)) <= Estimate(q) /\ Estimate(q) <= MaxQueuable

\* The places reserved in a queue are free.
RoomKept ==
  blame \cap {"moved", "overtaken", "leaked", "bypassed"} = {} =>
    \A q \in Queues : Estimate(q) + que[q].reserved <= MaxQueuable

\* The inductive invariant: the properties the runs check need the whereabouts of the
\* jobs (Members), the marks (Marked) and the estimates to be kept by every step.
CountsInv ==
  /\ TypeOK /\ WaitsOK /\ PlacesKept /\ Members /\ Marked
  /\ Estimated /\ RoomKept
  /\ ServerCountsHold /\ QueueCountsHold /\ UserCountsHold /\ NoJobStranded

-----------------------------------------------------------------------------
(* What the operations do *)

\* The records of TypeOK.
JobRecord == [state : States, sub : Substates, qhdr : Queues \cup {None},
              counted : SUBSET {"global", "queue"}, life : {"new", "live", "gone"}]

\* ... of the server, and
ServerRecord == [num : Nat, st : [States -> Int], users : Nat]

\* ... of a queue.
QueueRecord == [jobs : SUBSET Jobs, num : Nat, st : [States -> Int], uih : Nat, reserved : Nat]

\* The parts of TypeOK.
TypesOf(jb, al, su, s, qs, bl) ==
  /\ jb \in [Jobs -> JobRecord] /\ al \subseteq Jobs /\ su \subseteq Jobs
  /\ s \in ServerRecord /\ qs \in [Queues -> QueueRecord] /\ bl \subseteq Causes

\* A state of the right types.
Typed == TypeOK /\ WaitsOK

\* The queue dest with the place given back.
GivenBack(dest) == [que[dest] EXCEPT !.reserved = @ - 1]

\* svr_setjobstate has changed the state of job j, which is in queue q.
Settled(j, q, new, svc) ==
  /\ \A x \in Jobs \ {j} : job'[x] = job[x]
  /\ job'[j].state = new /\ job'[j].qhdr = job[j].qhdr /\ job'[j].life = job[j].life
  /\ job'[j].counted = IF new = "COMPLETE" THEN {} ELSE job[j].counted
  /\ sv'.num = svc.num /\ sv'.st = svc.st
  /\ sv'.users = IF new = "COMPLETE" THEN Less(svc.users, job[j].counted, "global") ELSE svc.users
  /\ \A p \in Queues \ {q} : que'[p] = que[p]
  /\ que'[q].jobs = que[q].jobs /\ que'[q].num = que[q].num /\ que'[q].reserved = que[q].reserved
  /\ que'[q].st = Move(que[q].st, job[j].state, new)
  /\ que'[q].uih = IF new = "COMPLETE" THEN Less(que[q].uih, job[j].counted, "queue") ELSE que[q].uih

\* svr_enquejob has put job j, which was in no queue, into q.
Arrived(j, q, qr, s) ==
  /\ \A x \in Jobs \ {j} : job'[x] = job[x]
  /\ job'[j].state = s /\ job'[j].qhdr = q /\ job'[j].life = "live"
  /\ job'[j].counted = IF s = "COMPLETE" THEN job[j].counted ELSE {"global", "queue"}
  /\ alljobs' = alljobs \cup {j}
  /\ sv'.num = sv.num + 1 /\ sv'.st = Raise(sv.st, s)
  /\ sv'.users = More(sv.users, job[j].counted, "global", s)
  /\ \A p \in Queues \ {q} : que'[p] = que[p]
  /\ que'[q].jobs = qr.jobs \cup {j} /\ que'[q].num = qr.num + 1 /\ que'[q].reserved = qr.reserved
  /\ que'[q].st = Raise(qr.st, s)
  /\ que'[q].uih = More(qr.uih, job[j].counted, "queue", s)

\* svr_dequejob has taken job j out of its queue q: jr is the job as the caller had
\* it and qs are the queues.  The counts are lowered, or all are taken anew.
Left(j, q, jr, qs, life, why) ==
  /\ \A x \in Jobs \ {j} : job'[x] = job[x]
  /\ job'[j].state = jr.state /\ job'[j].qhdr = None /\ job'[j].life = life
  /\ jr.state # "COMPLETE" => job'[j].counted = jr.counted \ {"global", "queue"}
  /\ jr.counted = {} => job'[j].counted = {}
  /\ alljobs' = alljobs \ {j}
  /\ sv'.users = IF jr.state # "COMPLETE" THEN Less(sv.users, jr.counted, "global") ELSE sv.users
  /\ \A p \in Queues : que'[p].reserved = qs[p].reserved
  /\ \A p \in Queues \ {q} : que'[p].jobs = qs[p].jobs /\ que'[p].uih = qs[p].uih
  /\ que'[q].jobs = qs[q].jobs \ {j}
  /\ jr.state # "COMPLETE" => que'[q].uih = Less(qs[q].uih, jr.counted, "queue")
  /\ jr.counted = {} => que'[q].uih = qs[q].uih
  /\ \/ /\ blame' = blame \cup why
        /\ sv'.num = sv.num - 1 /\ sv'.st = Lower(sv.st, jr.state)
        /\ \A p \in Queues \ {q} : que'[p].num = qs[p].num /\ que'[p].st = qs[p].st
        /\ que'[q].num = qs[q].num - 1 /\ que'[q].st = Lower(qs[q].st, jr.state)
     \/ /\ blame' = blame \cup why \cup {"recounted"}
        /\ \A p \in Queues :
             /\ que'[p].num = Cardinality(que'[p].jobs)
             /\ \A s \in States : que'[p].st[s] = Cardinality({x \in que'[p].jobs : job'[x].state = s})

-----------------------------------------------------------------------------
(* The kinds of steps *)

\* One if a thread that waits with w has a place reserved in q.
Place(w, q) == IF w.op \in {"deque", "enque"} /\ w.dest = q THEN 1 ELSE 0

\* A step of thread t adds to the places of a queue what t has reserved there; it may
\* leave a place behind only where svr_dequejob refuses the job (leaked).
PlacesStep(t) ==
  /\ \A u \in Threads \ {t} : at'[u] = at[u]
  /\ \A q \in Queues :
       /\ que'[q].reserved >= que[q].reserved + Place(at'[t], q) - Place(at[t], q)
       /\ "leaked" \notin blame' =>
            que'[q].reserved = que[q].reserved + Place(at'[t], q) - Place(at[t], q)

\* The step leaves job x alone.
Same(x) == /\ job'[x].state = job[x].state /\ job'[x].qhdr = job[x].qhdr
           /\ job'[x].life = job[x].life /\ job'[x].counted = job[x].counted

\* Each queue has the jobs and the counts it has in qs.
CountsAre(qs) == \A p \in Queues : /\ qs[p].jobs = que[p].jobs /\ qs[p].num = que[p].num
                                   /\ qs[p].st = que[p].st /\ qs[p].uih = que[p].uih

\* A place is reserved where there is room, or by someone who need not look.
RoomStep(qs) ==
  \A p \in Queues :
    \/ qs[p].reserved <= que[p].reserved
    \/ /\ qs[p].reserved = que[p].reserved + 1
       /\ ~Full(que[p]) \/ blame' \cap {"leaked", "bypassed"} # {}

\* No job and no count changes.
Quiet(t) ==
  /\ \A x \in Jobs : Same(x)
  /\ alljobs' = alljobs /\ sv' = sv /\ CountsAre(que') /\ RoomStep(que')
  /\ \/ at' = at
     \/ /\ at'[t].op \notin {"set", "enque"}
        /\ at[t].op = "set" => "overtaken" \in blame'
        /\ at[t].op = "enque" => \/ job[at[t].job].life # "live"
                                 \/ Full(GivenBack(at[t].dest))

\* The server is charged for a new state, and the thread waits for the queue.
Charging(t, j, new) ==
  /\ \A x \in Jobs : Same(x)
  /\ alljobs' = alljobs /\ que' = que
  /\ j \in alljobs /\ new # job[j].state
  /\ sv'.num = sv.num /\ sv'.users = sv.users /\ sv'.st = Move(sv.st, job[j].state, new)
  /\ at[t].op = "idle" /\ at'[t].op = "set" /\ at'[t].old = job[j].state /\ at'[t].new = new

\* The state of a job in a queue changes, at once or after the wait.
Settling(t, j, new) ==
  /\ job[j].qhdr \in Queues /\ j \in alljobs /\ alljobs' = alljobs /\ new # job[j].state
  /\ \/ /\ at' = at /\ job[j].state # "COMPLETE"
        /\ \E svc \in ServerRecord :
             /\ Settled(j, job[j].qhdr, new, svc)
             /\ svc.num = sv.num /\ svc.users = sv.users
             /\ svc.st = Move(sv.st, job[j].state, new)
     \/ /\ at[t].op = "set" /\ at[t].new = new /\ at'[t].op = "idle"
        /\ Settled(j, job[j].qhdr, new, sv)
        /\ "overtaken" \notin blame' => at[t].old = job[j].state

\* Something happens to a job that is in no queue.
Aside(j) ==
  /\ \A x \in Jobs \ {j} : Same(x)
  /\ job[j].qhdr = None /\ job'[j].qhdr = None /\ job'[j].counted \subseteq job[j].counted
  /\ job'[j].life = job[j].life \/ (job[j].life = "new" /\ job'[j].life = "gone")
  /\ alljobs' = alljobs /\ que' = que /\ at' = at
  /\ sv'.num = sv.num
  /\ sv'.users = sv.users \/ sv'.users = Less(sv.users, job[j].counted, "global")
  /\ sv'.st = sv.st \/ "unqueued" \in blame'

\* svr_job_purge makes a running job complete and waits for the queue.
Dooming(t, j) ==
  /\ \A x \in Jobs \ {j} : Same(x)
  /\ job'[j].qhdr = job[j].qhdr /\ job'[j].life = job[j].life /\ job'[j].state = "COMPLETE"
  /\ alljobs' = alljobs /\ que' = que /\ sv' = sv
  /\ at[t].op = "idle" /\ at'[t].op = "purge" /\ "unsettled" \in blame'

\* A job comes into queue q.
Arriving(t, j, q, s) ==
  /\ job[j].qhdr = None /\ j \notin alljobs /\ j \notin que[q].jobs
  /\ \E qr \in QueueRecord :
       /\ Arrived(j, q, qr, s) /\ ~Full(qr)
       /\ qr.jobs = que[q].jobs /\ qr.num = que[q].num /\ qr.st = que[q].st /\ qr.uih = que[q].uih
       /\ qr.reserved <= que[q].reserved
  /\ blame' = blame
  /\ \/ at' = at /\ job[j].life = "new"
     \/ at[t].op = "enque" /\ at[t].job = j /\ at'[t].op = "idle" /\ s = job[j].state

\* A job leaves its queue, to be put into another one or for good.
Leaving(t, j, life) ==
  /\ job[j].qhdr \in Queues /\ j \in alljobs /\ j \in que[job[j].qhdr].jobs
  /\ \E jr \in JobRecord, qs \in [Queues -> QueueRecord], why \in SUBSET Causes :
       /\ Left(j, job[j].qhdr, jr, qs, life, why)
       /\ jr.counted = job[j].counted
       /\ jr.state = job[j].state \/ (jr.state = "COMPLETE" /\ "unsettled" \in blame')
       /\ CountsAre(qs) /\ RoomStep(qs)
  /\ \/ life = "gone" /\ at'[t].op = "idle" /\ at[t].op \in {"idle", "purge", "move", "deque"}
     \/ life = "live" /\ at'[t].op = "enque" /\ at'[t].job = j /\ at[t].op \in {"move", "deque"}

\* Every step of a thread is of one of these kinds (KindsNext of JobCountsSteps).
Kinds(t) ==
  \/ Quiet(t)
  \/ \E j \in Jobs : \/ Aside(j) \/ Dooming(t, j)
                     \/ \E s \in States : Charging(t, j, s) \/ Settling(t, j, s)
                     \/ \E q \in Queues, s \in States : Arriving(t, j, q, s)
                     \/ \E life \in {"live", "gone"} : Leaving(t, j, life)

\* The setting of the lemmas below: a step of thread t of one of these kinds.
Step(t) == Typed /\ Typed' /\ PlacesStep(t) /\ blame \subseteq blame' /\ "moved" \notin blame'

-----------------------------------------------------------------------------
(* Types and whereabouts *)

\* What is used of finite sets and their sizes; JobCountsProofs derives it from the library.
\* The lemmas that need it assume it, and the library stays out of their context.
Sizes ==
  /\ Cardinality({}) = 0
  /\ \A S : IsFiniteSet(S) /\ Cardinality(S) = 0 => S = {}
  /\ \A x : IsFiniteSet({x}) /\ Cardinality({x}) = 1
  /\ \A T, S : IsFiniteSet(T) /\ S \subseteq T => IsFiniteSet(S) /\ Cardinality(S) \in Nat
  /\ \A T, S : IsFiniteSet(T) /\ S \subseteq T =>
        Cardinality(T \ S) = Cardinality(T) - Cardinality(S)
  /\ \A S, T : IsFiniteSet(S) /\ IsFiniteSet(T) =>
        IsFiniteSet(S \X T) /\ Cardinality(S \X T) = Cardinality(S) * Cardinality(T)
  /\ \A A, B, x : IsFiniteSet(A) /\ B \ {x} = A \ {x} =>
        /\ IsFiniteSet(B) /\ Cardinality(A) \in Nat /\ Cardinality(B) \in Nat
        /\ x \in A /\ x \in B => Cardinality(B) = Cardinality(A)
        /\ x \notin A /\ x \notin B => Cardinality(B) = Cardinality(A)
        /\ x \notin A /\ x \in B => Cardinality(B) = Cardinality(A) + 1
        /\ x \in A /\ x \notin B => Cardinality(B) = Cardinality(A) - 1

\* Sets of jobs and sets of threads can be counted.
LEMMA Countable ==
  ASSUME Sizes, NEW S, S \subseteq Jobs \/ S \subseteq Threads
  PROVE  IsFiniteSet(S) /\ Cardinality(S) \in Nat
BY CountsAssumption, ZenonT(20) DEF Sizes

\* TypeOK, part by part,
LEMMA TypeParts ==
  TypeOK <=> TypesOf(job, alljobs, summary, sv, que, blame) /\ DOMAIN at = Threads
BY Zenon DEF TypeOK, TypesOf, JobRecord, ServerRecord, QueueRecord

\* ... and in the next state.
LEMMA TypePartsNext ==
  TypeOK' <=> TypesOf(job', alljobs', summary', sv', que', blame') /\ DOMAIN at' = Threads
BY Zenon DEF TypeOK, TypesOf, JobRecord, ServerRecord, QueueRecord

\* A thread that is about to put a job into dest has a place there to give back.
LEMMA PlaceToGiveBack ==
  ASSUME Sizes, TypeOK, PlacesKept, NEW t \in Threads, at[t].op = "enque", at[t].dest \in Queues
  PROVE  LET dest == at[t].dest IN
         /\ que[dest].reserved > 0 /\ GivenBack(dest) \in QueueRecord
         /\ GivenBack(dest).jobs = que[dest].jobs /\ GivenBack(dest).num = que[dest].num
         /\ GivenBack(dest).st = que[dest].st /\ GivenBack(dest).uih = que[dest].uih
         /\ GivenBack(dest).reserved = que[dest].reserved - 1
<1> DEFINE dest == at[t].dest
           n == que[dest].reserved - 1
<1>1. que[dest] \in QueueRecord
  BY Zenon DEF TypeOK, QueueRecord
<1>2. t \in Movers(dest) /\ Movers(dest) \subseteq Threads
  BY Zenon DEF Movers
<1>3. IsFiniteSet(Movers(dest)) /\ Cardinality(Movers(dest)) \in Nat
  BY <1>2, Countable, Zenon
<1>4. Cardinality(Movers(dest)) # 0
  BY <1>2, <1>3, Zenon DEF Sizes
<1>5. que[dest].reserved > 0 /\ n \in Nat
  BY <1>1, <1>3, <1>4 DEF PlacesKept, QueueRecord
<1>6. GivenBack(dest) = [que[dest] EXCEPT !.reserved = n]
  BY Zenon DEF GivenBack
<1> HIDE DEF n
<1>7. /\ GivenBack(dest) \in QueueRecord
      /\ GivenBack(dest).jobs = que[dest].jobs /\ GivenBack(dest).num = que[dest].num
      /\ GivenBack(dest).st = que[dest].st /\ GivenBack(dest).uih = que[dest].uih
      /\ GivenBack(dest).reserved = n
  BY <1>1, <1>5, <1>6, Zenon DEF QueueRecord
<1> QED
  BY <1>5, <1>7, Zenon DEF n

\* A step that keeps account of the places keeps them above, or at, the moves.
LEMMA PlacesFromStep ==
  ASSUME Sizes, Typed, Typed', NEW t \in Threads, PlacesStep(t), NEW q \in Queues
  PROVE  /\ que[q].reserved >= Cardinality(Movers(q)) =>
              que'[q].reserved >= Cardinality(Movers(q)')
         /\ "leaked" \notin blame' /\ que[q].reserved = Cardinality(Movers(q)) =>
              que'[q].reserved = Cardinality(Movers(q)')
<1> DEFINE A == Movers(q)
           B == Movers(q)'
<1>1. A = {u \in Threads : at[u].op \in {"deque", "enque"} /\ at[u].dest = q}
      /\ B = {u \in Threads : at'[u].op \in {"deque", "enque"} /\ at'[u].dest = q}
  BY Zenon DEF Movers
<1>2. Place(at[t], q) = (IF t \in A THEN 1 ELSE 0) /\ Place(at'[t], q) = (IF t \in B THEN 1 ELSE 0)
  BY <1>1, Zenon DEF Place
<1>3. B \ {t} = A \ {t}
  BY <1>1, Zenon DEF PlacesStep
<1>4. A \subseteq Threads
  BY <1>1, Zenon
<1> HIDE DEF A, B
<1>5. IsFiniteSet(A)
  BY <1>4, Countable, Zenon
<1>6. /\ Cardinality(A) \in Nat /\ Cardinality(B) \in Nat
      /\ Cardinality(B) = Cardinality(A) + Place(at'[t], q) - Place(at[t], q)
  <2>1. /\ Cardinality(A) \in Nat /\ Cardinality(B) \in Nat
        /\ t \in A /\ t \in B => Cardinality(B) = Cardinality(A)
        /\ t \notin A /\ t \notin B => Cardinality(B) = Cardinality(A)
        /\ t \notin A /\ t \in B => Cardinality(B) = Cardinality(A) + 1
        /\ t \in A /\ t \notin B => Cardinality(B) = Cardinality(A) - 1
    BY <1>3, <1>5, ZenonT(20) DEF Sizes
  <2> QED
    BY <1>2, <2>1
<1>7. que[q].reserved \in Nat /\ que'[q].reserved \in Nat
  BY Zenon DEF Typed, TypeOK
<1>8. Place(at[t], q) \in {0, 1} /\ Place(at'[t], q) \in {0, 1}
  BY Zenon DEF Place
<1>9. /\ que'[q].reserved >= que[q].reserved + Place(at'[t], q) - Place(at[t], q)
      /\ "leaked" \notin blame' =>
            que'[q].reserved = que[q].reserved + Place(at'[t], q) - Place(at[t], q)
  BY Zenon DEF PlacesStep
<1>10. /\ que[q].reserved >= Cardinality(A) => que'[q].reserved >= Cardinality(B)
       /\ "leaked" \notin blame' /\ que[q].reserved = Cardinality(A) =>
              que'[q].reserved = Cardinality(B)
  BY <1>6, <1>7, <1>8, <1>9
<1> QED
  BY <1>10, Zenon DEF A, B

\* Where a job is, as long as the queues agree with the jobs.
LEMMA Whereabouts ==
  ASSUME Typed, Members, "moved" \notin blame, NEW j \in Jobs
  PROVE  /\ job[j] \in JobRecord /\ job[j].qhdr \in Queues \cup {None} /\ job[j].state \in States
         /\ job[j].qhdr # None => /\ job[j].qhdr \in Queues /\ j \in alljobs
                                  /\ j \in que[job[j].qhdr].jobs /\ job[j].life = "live"
         /\ job[j].qhdr = None => j \notin alljobs /\ \A q \in Queues : j \notin que[q].jobs
<1>1. job[j] \in JobRecord /\ job[j].qhdr \in Queues \cup {None} /\ job[j].state \in States
  BY Zenon DEF Typed, TypeOK, JobRecord
<1>2. None \notin Queues
  BY CountsAssumption, Zenon
<1> QED
  BY <1>1, <1>2 DEF Members

\* What each of the lemmas on a kind of step uses of Step.
LEMMA StepFacts ==
  ASSUME NEW t \in Threads, Step(t)
  PROVE  /\ "moved" \notin blame /\ None \notin Queues
         /\ \A u \in Threads \ {t} : at'[u] = at[u]
         /\ job \in [Jobs -> JobRecord] /\ job' \in [Jobs -> JobRecord]
         /\ \A x \in Jobs : job[x].state \in States /\ job[x].qhdr \in Queues \cup {None}
                            /\ job[x].counted \subseteq {"global", "queue"}
         /\ alljobs \subseteq Jobs
         /\ \A u \in Threads : at[u].op = "enque" => at[u].job \in Jobs
         /\ \A u \in Threads : at'[u].op = "enque" => at'[u].job \in Jobs
         /\ sv \in ServerRecord /\ sv' \in ServerRecord
         /\ que \in [Queues -> QueueRecord] /\ que' \in [Queues -> QueueRecord]
<1>1. TypesOf(job, alljobs, summary, sv, que, blame) /\ WaitsOK
  BY TypeParts, Zenon DEF Step, Typed
<1>2. TypesOf(job', alljobs', summary', sv', que', blame') /\ WaitsOK'
  BY TypePartsNext, Zenon DEF Step, Typed
<1>3. \A x \in Jobs : job[x].state \in States /\ job[x].qhdr \in Queues \cup {None}
                            /\ job[x].counted \subseteq {"global", "queue"}
  BY <1>1, Zenon DEF TypesOf, JobRecord
<1>4. /\ \A u \in Threads : at[u].op = "enque" => at[u].job \in Jobs
      /\ \A u \in Threads : at'[u].op = "enque" => at'[u].job \in Jobs
  BY <1>1, <1>2, Zenon DEF WaitsOK, WaitOK
<1> QED
  BY <1>1, <1>2, <1>3, <1>4, CountsAssumption, Zenon DEF Step, PlacesStep, TypesOf

\* Every kind of step keeps the lists and ji_qhdr together: svr_enquejob and
\* svr_dequejob change all of them, the others none.
LEMMA MembersNext ==
  ASSUME NEW t \in Threads, Step(t), Members, Kinds(t)
  PROVE  Members'
<1>QuietMembers. ASSUME Quiet(t)
      PROVE  Members'
  <2> USE <1>QuietMembers
  <2>1. /\ "moved" \notin blame /\ \A u \in Threads \ {t} : at'[u] = at[u]
        /\ \A u \in Threads : at[u].op = "enque" => at[u].job \in Jobs
    BY StepFacts, Zenon
  <2>2. /\ \A x \in Jobs : job'[x].qhdr = job[x].qhdr /\ job'[x].life = job[x].life
        /\ alljobs' = alljobs /\ \A q \in Queues : que'[q].jobs = que[q].jobs
    BY Zenon DEF Quiet, CountsAre, Same
  <2>3. \A u \in Threads : at'[u].op = "enque" => at'[u] = at[u]
    BY <2>1, Zenon DEF Quiet
  <2> QED
    BY <2>1, <2>2, <2>3 DEF Members
<1>ChargingMembers. ASSUME NEW j \in Jobs, NEW new \in States, Charging(t, j, new)
      PROVE  Members'
  <2> USE <1>ChargingMembers
  <2>1. /\ "moved" \notin blame /\ \A u \in Threads \ {t} : at'[u] = at[u]
        /\ \A u \in Threads : at[u].op = "enque" => at[u].job \in Jobs
    BY StepFacts, Zenon
  <2>2. /\ \A x \in Jobs : job'[x].qhdr = job[x].qhdr /\ job'[x].life = job[x].life
        /\ alljobs' = alljobs /\ que' = que
    BY Zenon DEF Charging, Same
  <2>3. \A u \in Threads : at'[u].op = "enque" => at'[u] = at[u]
    BY <2>1, Zenon DEF Charging
  <2> QED
    BY <2>1, <2>2, <2>3 DEF Members
<1>SettlingMembers. ASSUME NEW j \in Jobs, NEW new \in States, Settling(t, j, new)
      PROVE  Members'
  <2> USE <1>SettlingMembers
  <2>1. /\ "moved" \notin blame /\ \A u \in Threads \ {t} : at'[u] = at[u]
        /\ \A u \in Threads : at[u].op = "enque" => at[u].job \in Jobs
    BY StepFacts
  <2>2. PICK svc \in ServerRecord : Settled(j, job[j].qhdr, new, svc)
    BY StepFacts, Zenon DEF Settling
  <2>3. /\ \A x \in Jobs : job'[x].qhdr = job[x].qhdr /\ job'[x].life = job[x].life
        /\ alljobs' = alljobs /\ \A q \in Queues : que'[q].jobs = que[q].jobs
    BY <2>2, Zenon DEF Settled, Settling
  <2>4. \A u \in Threads : at'[u].op = "enque" => at'[u] = at[u]
    BY <2>1, Zenon DEF Settling
  <2> QED
    BY <2>1, <2>3, <2>4, SMTT(30) DEF Members
<1>AsideMembers. ASSUME NEW j \in Jobs, Aside(j)
      PROVE  Members'
  <2> USE <1>AsideMembers
  <2>1. /\ "moved" \notin blame
        /\ \A u \in Threads : at[u].op = "enque" => at[u].job \in Jobs
    BY StepFacts, Zenon
  <2>2. /\ \A x \in Jobs : job'[x].qhdr = job[x].qhdr
        /\ \A x \in Jobs : job[x].life = "live" => job'[x].life = "live"
        /\ alljobs' = alljobs /\ que' = que /\ at' = at
    BY Zenon DEF Aside, Same
  <2> QED
    BY <2>1, <2>2 DEF Members
<1>DoomingMembers. ASSUME NEW j \in Jobs, Dooming(t, j)
      PROVE  Members'
  <2> USE <1>DoomingMembers
  <2>1. /\ "moved" \notin blame /\ \A u \in Threads \ {t} : at'[u] = at[u]
        /\ \A u \in Threads : at[u].op = "enque" => at[u].job \in Jobs
    BY StepFacts, Zenon
  <2>2. /\ \A x \in Jobs : job'[x].qhdr = job[x].qhdr /\ job'[x].life = job[x].life
        /\ alljobs' = alljobs /\ que' = que
    BY Zenon DEF Dooming, Same
  <2>3. \A u \in Threads : at'[u].op = "enque" => at'[u] = at[u]
    BY <2>1, Zenon DEF Dooming
  <2> QED
    BY <2>1, <2>2, <2>3 DEF Members
<1>ArrivingMembers. ASSUME NEW j \in Jobs, NEW q \in Queues, NEW s \in States,
            Arriving(t, j, q, s)
      PROVE  Members'
  <2> USE <1>ArrivingMembers
  <2>1. /\ "moved" \notin blame /\ \A u \in Threads \ {t} : at'[u] = at[u]
        /\ \A u \in Threads : at[u].op = "enque" => at[u].job \in Jobs
        /\ None \notin Queues
    BY StepFacts, Zenon
  <2>2. PICK qr \in QueueRecord : Arrived(j, q, qr, s) /\ qr.jobs = que[q].jobs
    BY Zenon DEF Arriving
  <2>3. /\ \A x \in Jobs \ {j} : job'[x] = job[x]
        /\ job[j].qhdr = None /\ job'[j].qhdr = q /\ job'[j].life = "live"
        /\ alljobs' = alljobs \cup {j}
        /\ \A p \in Queues \ {q} : que'[p].jobs = que[p].jobs
        /\ que'[q].jobs = que[q].jobs \cup {j}
    BY <2>2, Zenon DEF Arrived, Arriving
  <2>4. \A u \in Threads : at'[u].op = "enque" => at'[u] = at[u] /\ at[u].job # j
    BY <2>1 DEF Members, Arriving
  <2>5. \A p \in Queues : que[p].jobs = {x \in Jobs : job[x].qhdr = p}
    BY <2>1, Zenon DEF Members
  <2>6. \A p \in Queues : que'[p].jobs = {x \in Jobs : job'[x].qhdr = p}
    BY <2>1, <2>3, <2>5, SMTT(30)
  <2>7. alljobs' = {x \in Jobs : job'[x].qhdr # None}
    BY <2>1, <2>3 DEF Members
  <2>8. \A x \in Jobs : job'[x].qhdr # None => job'[x].life = "live"
    BY <2>1, <2>3 DEF Members
  <2>9. \A u \in Threads : at'[u].op = "enque" =>
           /\ job'[at'[u].job].qhdr = None /\ job'[at'[u].job].life = "live"
           /\ \A v \in Threads \ {u} : at'[v].op = "enque" => at'[v].job # at'[u].job
    BY <2>1, <2>3, <2>4, SMTT(30) DEF Members
  <2> QED
    BY <2>6, <2>7, <2>8, <2>9, Zenon DEF Members
<1>LeavingMembers. ASSUME NEW j \in Jobs, NEW life \in {"live", "gone"}, Leaving(t, j, life)
      PROVE  Members'
  <2> USE <1>LeavingMembers
  <2> DEFINE q == job[j].qhdr
  <2>1. /\ "moved" \notin blame /\ \A u \in Threads \ {t} : at'[u] = at[u]
        /\ \A u \in Threads : at[u].op = "enque" => at[u].job \in Jobs
        /\ None \notin Queues /\ q \in Queues
    BY StepFacts, Zenon DEF Leaving
  <2>2. PICK jr \in JobRecord, qs \in [Queues -> QueueRecord], why \in SUBSET Causes :
          Left(j, q, jr, qs, life, why) /\ CountsAre(qs)
    BY Zenon DEF Leaving
  <2>3. /\ \A x \in Jobs \ {j} : job'[x] = job[x]
        /\ job'[j].qhdr = None /\ job'[j].life = life
        /\ alljobs' = alljobs \ {j}
        /\ \A p \in Queues \ {q} : que'[p].jobs = que[p].jobs
        /\ que'[q].jobs = que[q].jobs \ {j}
    BY <2>1, <2>2 DEF Left, CountsAre
  <2>4. \A u \in Threads \ {t} : at'[u].op = "enque" => at'[u] = at[u] /\ at[u].job # j
    BY <2>1 DEF Members
  <2>5. at'[t].op = "enque" => at'[t].job = j /\ life = "live"
    BY Zenon DEF Leaving
  <2>6. \A p \in Queues : que[p].jobs = {x \in Jobs : job[x].qhdr = p}
    BY <2>1, Zenon DEF Members
  <2>7. \A p \in Queues : que'[p].jobs = {x \in Jobs : job'[x].qhdr = p}
    BY <2>1, <2>3, <2>6, SMTT(30)
  <2>8. alljobs' = {x \in Jobs : job'[x].qhdr # None}
    BY <2>1, <2>3 DEF Members
  <2>9. \A x \in Jobs : job'[x].qhdr # None => job'[x].life = "live"
    BY <2>1, <2>3, SMTT(30) DEF Members
  <2>10. \A u \in Threads : at'[u].op = "enque" =>
           /\ job'[at'[u].job].qhdr = None /\ job'[at'[u].job].life = "live"
           /\ \A v \in Threads \ {u} : at'[v].op = "enque" => at'[v].job # at'[u].job
    BY <2>1, <2>3, <2>4, <2>5 DEF Members
  <2> QED
    BY <2>7, <2>8, <2>9, <2>10, Zenon DEF Members
<1> QED
  BY <1>QuietMembers, <1>ChargingMembers, <1>SettlingMembers, <1>AsideMembers, <1>DoomingMembers,
     <1>ArrivingMembers,
     <1>LeavingMembers, Zenon DEF Kinds

-----------------------------------------------------------------------------
(* Counting what one job changes *)

\* How much a condition adds to a count.
One(b) == IF b THEN 1 ELSE 0

\* It is none or one.
LEMMA OneType == \A b : One(b) \in {0, 1}
BY Zenon DEF One

\* A set of jobs or threads that changes at most at x.
LEMMA Shift ==
  ASSUME Sizes, NEW A, A \subseteq Jobs \/ A \subseteq Threads, NEW B, NEW x, B \ {x} = A \ {x}
  PROVE  /\ Cardinality(A) \in Nat /\ Cardinality(B) \in Nat
         /\ Cardinality(B) = Cardinality(A) + One(x \in B) - One(x \in A)
<1>1. IsFiniteSet(A)
  BY Countable, Zenon
<1>2. /\ Cardinality(A) \in Nat /\ Cardinality(B) \in Nat
      /\ x \in A /\ x \in B => Cardinality(B) = Cardinality(A)
      /\ x \notin A /\ x \notin B => Cardinality(B) = Cardinality(A)
      /\ x \notin A /\ x \in B => Cardinality(B) = Cardinality(A) + 1
      /\ x \in A /\ x \notin B => Cardinality(B) = Cardinality(A) - 1
  BY <1>1, ZenonT(20) DEF Sizes
<1> QED
  BY <1>2 DEF One

\* Two sets of jobs that differ at most in j.
LEMMA JobShift ==
  ASSUME Sizes, NEW j \in Jobs, NEW P \in SUBSET Jobs, NEW Q \in SUBSET Jobs,
         \A x \in Jobs \ {j} : x \in Q <=> x \in P
  PROVE  /\ Cardinality(P) \in Nat /\ Cardinality(Q) \in Nat
         /\ Cardinality(Q) = Cardinality(P) + One(j \in Q) - One(j \in P)
<1>1. Q \ {j} = P \ {j}
  BY Zenon
<1> QED
  BY <1>1, Shift, Zenon

\* The counts by state, read at s.
LEMMA CountsAt ==
  ASSUME NEW st \in [States -> Int], NEW s \in States, NEW o \in States, NEW n \in States
  PROVE  /\ Raise(st, n)[s] = st[s] + One(n = s) /\ Lower(st, o)[s] = st[s] - One(o = s)
         /\ o # n => Move(st, o, n)[s] = st[s] + One(n = s) - One(o = s)
         /\ st[s] \in Int
<1>1. st[s] \in Int /\ Raise(st, n)[s] = st[s] + One(n = s) /\ Lower(st, o)[s] = st[s] - One(o = s)
  BY DEF Raise, Lower, One
<1>2. o # n => Move(st, o, n)[s] = st[s] + One(n = s) - One(o = s)
  BY DEF Move, One
<1> QED
  BY <1>1, <1>2, Zenon

-----------------------------------------------------------------------------
(* The counts of the queues *)

\* total_jobs and state_count of q are right.
Exact(q) ==
  /\ que[q].num = Cardinality(que[q].jobs)
  /\ \A s \in States : que[q].st[s] = CountIn(que[q].jobs, s)

\* svr_setjobstate, svr_enquejob and svr_dequejob move the counts of a queue with its
\* jobs; the step kind by kind.
LEMMA QueueCountsNext ==
  ASSUME Sizes, NEW t \in Threads, Step(t), Members, Members', Kinds(t), QueueCountsHold
  PROVE  QueueCountsHold'
<1>ExactSame. ASSUME NEW q \in Queues, Exact(q), que[q].jobs \subseteq Jobs,
                     que'[q].jobs = que[q].jobs, que'[q].num = que[q].num, que'[q].st = que[q].st,
                     \A x \in que[q].jobs : job'[x].state = job[x].state
      PROVE  Exact(q)'
  <2> USE <1>ExactSame
  <2>1. ASSUME NEW s PROVE {x \in que'[q].jobs : job'[x].state = s} = {x \in que[q].jobs : job[x].state = s}
    BY Zenon
  <2> QED
    BY <2>1, Zenon DEF Exact, CountIn
\* A recount is exact.
<1>ExactRecount. ASSUME NEW q \in Queues, que'[q].num = Cardinality(que'[q].jobs),
                        \A s \in States : que'[q].st[s] = Cardinality({x \in que'[q].jobs : job'[x].state = s})
      PROVE  Exact(q)'
  BY <1>ExactRecount, Zenon DEF Exact, CountIn
<1>SettlingExact. ASSUME NEW j \in Jobs, NEW new \in States, Settling(t, j, new),
                         NEW p \in Queues, Exact(p)
      PROVE  Exact(p)'
  <2> USE <1>SettlingExact
  <2> DEFINE q == job[j].qhdr
  <2>1. /\ "moved" \notin blame /\ job[j].state \in States /\ q \in Queues
        /\ que \in [Queues -> QueueRecord]
    BY StepFacts, Zenon DEF Settling
  <2>2. PICK svc \in ServerRecord : Settled(j, q, new, svc)
    BY StepFacts, Zenon DEF Settling
  <2>3. \A x \in Jobs \ {j} : job'[x].state = job[x].state
    BY <2>2, Zenon DEF Settled
  <2>4. \A r \in Queues : que[r].jobs \subseteq Jobs /\ que[r].st \in [States -> Int]
                          /\ (j \in que[r].jobs <=> r = q)
    BY <2>1, SMTT(30) DEF Members, QueueRecord
  <2>5. CASE p # q
    BY <2>2, <2>3, <2>4, <2>5, <1>ExactSame, Zenon DEF Settled
  <2>6. CASE p = q
    <3>1. que'[q].jobs = que[q].jobs /\ que'[q].num = que[q].num /\ job'[j].state = new
          /\ que'[q].st = Move(que[q].st, job[j].state, new)
      BY <2>2, Zenon DEF Settled
    <3>2. ASSUME NEW s \in States
          PROVE que'[q].st[s] = Cardinality({x \in que'[q].jobs : job'[x].state = s})
      <4> DEFINE P == {x \in que[q].jobs : job[x].state = s}
                 Q == {x \in que'[q].jobs : job'[x].state = s}
      <4>1. P \in SUBSET Jobs /\ Q \in SUBSET Jobs /\ \A x \in Jobs \ {j} : x \in Q <=> x \in P
        BY <2>1, <2>3, <2>4, <3>1, Zenon
      <4>2. que[q].st[s] = Cardinality(P)
        BY <2>6, Zenon DEF Exact, CountIn
      <4>3. One(j \in Q) = One(new = s) /\ One(j \in P) = One(job[j].state = s)
        BY <2>1, <2>4, <3>1, Zenon DEF One
      <4> HIDE DEF P, Q
      <4>4. que'[q].st[s] = que[q].st[s] + One(new = s) - One(job[j].state = s)
        BY <2>1, <2>4, <3>1, CountsAt, SMTT(30) DEF Settling
      <4>5. que'[q].st[s] = Cardinality(Q)
        BY <4>1, <4>2, <4>3, <4>4, JobShift, OneType, SMTT(30)
      <4> QED
        BY <4>5, Zenon DEF Q
    <3>3. que'[q].num = Cardinality(que'[q].jobs)
      BY <2>6, <3>1, Zenon DEF Exact
    <3> QED
      BY <2>6, <3>2, <3>3, <1>ExactRecount, Zenon
  <2> QED
    BY <2>5, <2>6, Zenon
<1>ArrivingExact. ASSUME NEW j \in Jobs, NEW q \in Queues, NEW new \in States,
                         Arriving(t, j, q, new), NEW p \in Queues, Exact(p)
      PROVE  Exact(p)'
  <2> USE <1>ArrivingExact
  <2>1. "moved" \notin blame /\ que \in [Queues -> QueueRecord]
    BY StepFacts, Zenon
  <2>2. PICK qr \in QueueRecord :
          /\ Arrived(j, q, qr, new)
          /\ qr.jobs = que[q].jobs /\ qr.num = que[q].num /\ qr.st = que[q].st
    BY Zenon DEF Arriving
  <2>3. \A x \in Jobs \ {j} : job'[x].state = job[x].state
    BY <2>2, Zenon DEF Arrived
  <2>4. \A r \in Queues : que[r].jobs \subseteq Jobs /\ que[r].st \in [States -> Int]
                          /\ j \notin que[r].jobs
    BY <2>1, Whereabouts, Zenon DEF QueueRecord, Step, Arriving
  <2>5. CASE p # q
    BY <2>2, <2>3, <2>4, <2>5, <1>ExactSame, Zenon DEF Arrived
  <2>6. CASE p = q
    <3>1. que'[q].jobs = que[q].jobs \cup {j} /\ que'[q].num = que[q].num + 1 /\ job'[j].state = new
          /\ que'[q].st = Raise(que[q].st, new)
      BY <2>2, Zenon DEF Arrived
    <3>2. ASSUME NEW s \in States
          PROVE que'[q].st[s] = Cardinality({x \in que'[q].jobs : job'[x].state = s})
      <4> DEFINE P == {x \in que[q].jobs : job[x].state = s}
                 Q == {x \in que'[q].jobs : job'[x].state = s}
      <4>1. P \in SUBSET Jobs /\ Q \in SUBSET Jobs /\ \A x \in Jobs \ {j} : x \in Q <=> x \in P
        BY <2>1, <2>3, <2>4, <3>1, Zenon
      <4>2. que[q].st[s] = Cardinality(P)
        BY <2>6, Zenon DEF Exact, CountIn
      <4>3. One(j \in Q) = One(new = s) /\ One(j \in P) = 0
        BY <2>1, <2>4, <3>1, Zenon DEF One
      <4> HIDE DEF P, Q
      <4>4. que'[q].st[s] = que[q].st[s] + One(new = s)
        BY <2>1, <2>4, <3>1, CountsAt, SMTT(30)
      <4>5. que'[q].st[s] = Cardinality(Q)
        BY <4>1, <4>2, <4>3, <4>4, JobShift, OneType, SMTT(30)
      <4> QED
        BY <4>5, Zenon DEF Q
    <3>3. que'[q].num = Cardinality(que'[q].jobs)
      <4> DEFINE P == que[q].jobs
                 Q == que'[q].jobs
      <4>1. P \in SUBSET Jobs /\ Q \in SUBSET Jobs /\ \A x \in Jobs \ {j} : x \in Q <=> x \in P
        BY <2>4, <3>1, Zenon
      <4>2. One(j \in Q) = 1 /\ One(j \in P) = 0 /\ que'[q].num = Cardinality(P) + 1
        BY <2>4, <2>6, <3>1, Zenon DEF One, Exact
      <4> HIDE DEF P, Q
      <4>3. que'[q].num = Cardinality(Q)
        BY <4>1, <4>2, JobShift, SMTT(30)
      <4> QED
        BY <4>3, Zenon DEF Q
    <3> QED
      BY <2>6, <3>2, <3>3, <1>ExactRecount, Zenon
  <2> QED
    BY <2>5, <2>6, Zenon
<1>LeavingExact. ASSUME NEW j \in Jobs, NEW life \in {"live", "gone"}, Leaving(t, j, life),
                        "unsettled" \notin blame', NEW p \in Queues, Exact(p)
      PROVE  Exact(p)'
  <2> USE <1>LeavingExact
  <2> DEFINE q == job[j].qhdr
  <2>1. "moved" \notin blame /\ que \in [Queues -> QueueRecord] /\ q \in Queues /\ job[j].state \in States
    BY StepFacts, Zenon DEF Leaving
  <2>2. PICK jr \in JobRecord, qs \in [Queues -> QueueRecord], why \in SUBSET Causes :
          Left(j, q, jr, qs, life, why) /\ CountsAre(qs) /\ jr.state = job[j].state
    BY Zenon DEF Leaving
  <2>3. \A x \in Jobs \ {j} : job'[x].state = job[x].state
    BY <2>2, Zenon DEF Left
  <2>4. \A r \in Queues : que[r].jobs \subseteq Jobs /\ que[r].st \in [States -> Int]
                          /\ (j \in que[r].jobs <=> r = q)
    BY <2>1 DEF Members, QueueRecord
  <2>5. CASE /\ que'[p].num = Cardinality(que'[p].jobs)
             /\ \A s \in States : que'[p].st[s] = Cardinality({x \in que'[p].jobs : job'[x].state = s})
    BY <2>5, <1>ExactRecount, Zenon
  <2>6. CASE /\ \A r \in Queues \ {q} : que'[r].num = qs[r].num /\ que'[r].st = qs[r].st
             /\ que'[q].num = qs[q].num - 1 /\ que'[q].st = Lower(qs[q].st, jr.state)
    <3>1. CASE p # q
      <4>1. que'[p].jobs = que[p].jobs /\ que'[p].num = que[p].num /\ que'[p].st = que[p].st
        BY <2>2, <2>6, <3>1, SMTT(30) DEF Left, CountsAre
      <4> QED
        BY <2>3, <2>4, <3>1, <4>1, <1>ExactSame, Zenon
    <3>2. CASE p = q
      <4>1. que'[q].jobs = que[q].jobs \ {j} /\ que'[q].num = que[q].num - 1
            /\ que'[q].st = Lower(que[q].st, job[j].state)
        BY <2>1, <2>2, <2>6, ZenonT(40) DEF Left, CountsAre
      <4>2. ASSUME NEW s \in States
          PROVE que'[q].st[s] = Cardinality({x \in que'[q].jobs : job'[x].state = s})
        <5> DEFINE P == {x \in que[q].jobs : job[x].state = s}
                   Q == {x \in que'[q].jobs : job'[x].state = s}
        <5>1. P \in SUBSET Jobs /\ Q \in SUBSET Jobs /\ \A x \in Jobs \ {j} : x \in Q <=> x \in P
          BY <2>1, <2>3, <2>4, <4>1, Zenon
        <5>2. que[q].st[s] = Cardinality(P)
          BY <3>2, Zenon DEF Exact, CountIn
        <5>3. One(j \in Q) = 0 /\ One(j \in P) = One(job[j].state = s)
          BY <2>1, <2>4, <4>1, Zenon DEF One
        <5> HIDE DEF P, Q
        <5>4. que'[q].st[s] = que[q].st[s] - One(job[j].state = s)
          BY <2>1, <2>4, <4>1, CountsAt, SMTT(30)
        <5>5. que'[q].st[s] = Cardinality(Q)
          BY <5>1, <5>2, <5>3, <5>4, JobShift, OneType, SMTT(30)
        <5> QED
          BY <5>5, Zenon DEF Q
      <4>3. que'[q].num = Cardinality(que'[q].jobs)
        <5> DEFINE P == que[q].jobs
                   Q == que'[q].jobs
        <5>1. P \in SUBSET Jobs /\ Q \in SUBSET Jobs /\ \A x \in Jobs \ {j} : x \in Q <=> x \in P
          BY <2>1, <2>4, <4>1, Zenon
        <5>2. One(j \in Q) = 0 /\ One(j \in P) = 1 /\ que'[q].num = Cardinality(P) - 1
          BY <2>1, <2>4, <3>2, <4>1, Zenon DEF One, Exact
        <5> HIDE DEF P, Q
        <5>3. que'[q].num = Cardinality(Q)
          BY <5>1, <5>2, JobShift, SMTT(30)
        <5> QED
          BY <5>3, Zenon DEF Q
      <4> QED
        BY <3>2, <4>2, <4>3, <1>ExactRecount, Zenon
    <3> QED
      BY <3>1, <3>2, Zenon
  <2> QED
    BY <2>2, <2>5, <2>6, ZenonT(40) DEF Left
<1> SUFFICES ASSUME "unsettled" \notin blame' PROVE \A p \in Queues : Exact(p)'
  <2>1. "moved" \notin blame'
    BY Zenon DEF Step
  <2>2. \A q \in Queues : que'[q].jobs = {j \in Jobs : job'[j].qhdr = q}
    BY <2>1, Zenon DEF Members
  <2> QED
    BY <2>2, Zenon DEF QueueCountsHold, Exact
<1> TAKE p \in Queues
<1>1. "moved" \notin blame /\ "unsettled" \notin blame
  BY StepFacts, Zenon DEF Step
<1>2. Exact(p) /\ que[p].jobs \subseteq Jobs
  BY <1>1, StepFacts, Zenon DEF QueueCountsHold, Exact, QueueRecord
<1>3. CASE Quiet(t)
  BY <1>2, <1>3, <1>ExactSame, Zenon DEF Quiet, CountsAre, Same
<1>4. ASSUME NEW j \in Jobs, NEW s \in States, Charging(t, j, s) PROVE Exact(p)'
  BY <1>2, <1>4, <1>ExactSame, Zenon DEF Charging, Same
<1>5. ASSUME NEW j \in Jobs, Aside(j) PROVE Exact(p)'
  <2>1. j \notin que[p].jobs
    BY <1>1, <1>5, Whereabouts, Zenon DEF Step, Aside
  <2> QED
    BY <1>2, <1>5, <2>1, <1>ExactSame, Zenon DEF Aside, Same
<1>6. ASSUME NEW j \in Jobs PROVE ~Dooming(t, j)
  BY Zenon DEF Dooming
<1> QED
  BY <1>2, <1>3, <1>4, <1>5, <1>6, <1>SettlingExact, <1>ArrivingExact, <1>LeavingExact, Zenon DEF Kinds

-----------------------------------------------------------------------------
(* What the users are charged for *)

\* A settled job was not complete before, unless it was overtaken.
LEMMA SettledOpen ==
  ASSUME NEW t \in Threads, Step(t), NEW j \in Jobs, NEW new \in States, Settling(t, j, new),
         "overtaken" \notin blame'
  PROVE  job[j].state # "COMPLETE"
<1>1. WaitOK(at[t])
  BY Zenon DEF Step, Typed, WaitsOK
<1>2. at[t].op = "set" => at[t].old # "COMPLETE"
  BY <1>1, Zenon DEF WaitOK
<1> QED
  BY <1>2, Zenon DEF Settling

\* The bits of ji_queue_counted of one job.
MarkedJob(j) == job[j].counted = IF job[j].qhdr # None /\ job[j].state # "COMPLETE"
                                 THEN {"global", "queue"} ELSE {}

\* svr_enquejob sets the marks, svr_dequejob and a completion take them away.
LEMMA MarkedNext ==
  ASSUME NEW t \in Threads, Step(t), Members, Kinds(t), Marked
  PROVE  Marked'
<1> SUFFICES ASSUME blame' \cap {"moved", "unsettled", "overtaken"} = {}
             PROVE  \A x \in Jobs : MarkedJob(x)'
  BY Zenon DEF Marked, MarkedJob
<1>1. "overtaken" \notin blame' /\ "unsettled" \notin blame' /\ None \notin Queues
  BY CountsAssumption, Zenon
<1>2. \A x \in Jobs : MarkedJob(x)
  BY Zenon DEF Marked, MarkedJob, Step
<1>3. ASSUME NEW x \in Jobs, Same(x) PROVE MarkedJob(x)'
  BY <1>2, <1>3, Zenon DEF MarkedJob, Same
<1>4. CASE Quiet(t)
  BY <1>3, <1>4, Zenon DEF Quiet
<1>5. ASSUME NEW j \in Jobs, NEW s \in States, Charging(t, j, s) PROVE \A x \in Jobs : MarkedJob(x)'
  BY <1>3, <1>5, Zenon DEF Charging
<1>6. ASSUME NEW j \in Jobs, Aside(j) PROVE \A x \in Jobs : MarkedJob(x)'
  <2>1. job[j].counted = {} /\ job'[j].counted = {}
    BY <1>2, <1>6, Zenon DEF Aside, MarkedJob
  <2>2. MarkedJob(j)'
    BY <1>6, <2>1, Zenon DEF Aside, MarkedJob
  <2> QED
    BY <1>3, <1>6, <2>2, Zenon DEF Aside
<1>7. ASSUME NEW j \in Jobs PROVE ~Dooming(t, j)
  BY <1>1, Zenon DEF Dooming
<1>8. ASSUME NEW j \in Jobs, NEW s \in States, Settling(t, j, s) PROVE \A x \in Jobs : MarkedJob(x)'
  <2>1. PICK svc \in ServerRecord : Settled(j, job[j].qhdr, s, svc)
    BY <1>8, StepFacts, Zenon DEF Settling
  <2>2. job[j].state # "COMPLETE" /\ job[j].qhdr # None
    BY <1>1, <1>8, SettledOpen, Zenon DEF Settling
  <2>3. MarkedJob(j)'
    BY <1>2, <2>1, <2>2, Zenon DEF Settled, MarkedJob
  <2>4. \A x \in Jobs \ {j} : Same(x)
    BY <2>1, Zenon DEF Settled, Same
  <2> QED
    BY <1>3, <2>3, <2>4, Zenon
<1>9. ASSUME NEW j \in Jobs, NEW q \in Queues, NEW s \in States, Arriving(t, j, q, s)
      PROVE  \A x \in Jobs : MarkedJob(x)'
  <2>1. PICK qr \in QueueRecord : Arrived(j, q, qr, s)
    BY <1>9, Zenon DEF Arriving
  <2>2. job[j].qhdr = None
    BY <1>9, Zenon DEF Arriving
  <2>3. MarkedJob(j)'
    BY <1>1, <1>2, <2>1, <2>2, Zenon DEF Arrived, MarkedJob
  <2>4. \A x \in Jobs \ {j} : Same(x)
    BY <2>1, Zenon DEF Arrived, Same
  <2> QED
    BY <1>3, <2>3, <2>4, Zenon
<1>10. ASSUME NEW j \in Jobs, NEW life \in {"live", "gone"}, Leaving(t, j, life)
       PROVE  \A x \in Jobs : MarkedJob(x)'
  <2>1. PICK jr \in JobRecord, qs \in [Queues -> QueueRecord], why \in SUBSET Causes :
          /\ Left(j, job[j].qhdr, jr, qs, life, why)
          /\ jr.counted = job[j].counted /\ jr.state = job[j].state
    BY <1>1, <1>10, Zenon DEF Leaving
  <2>2. job[j].qhdr # None
    BY <1>1, <1>10, Zenon DEF Leaving
  <2>3. job'[j].qhdr = None /\ job'[j].counted = {}
    BY <1>2, <2>1, <2>2, ZenonT(40) DEF Left, MarkedJob
  <2>4. MarkedJob(j)'
    BY <2>3, Zenon DEF MarkedJob
  <2>5. \A x \in Jobs \ {j} : Same(x)
    BY <2>1, Zenon DEF Left, Same
  <2> QED
    BY <1>3, <2>4, <2>5, Zenon
<1> QED
  BY <1>4, <1>5, <1>6, <1>7, <1>8, <1>9, <1>10, Zenon DEF Kinds

-----------------------------------------------------------------------------
(* The counts of the users *)

\* The open jobs of the server, and what it counts.
OpenJobs == {j \in alljobs : job[j].state # "COMPLETE"}

\* The users are charged for exactly the open jobs.
UsersExact == /\ sv.users = Cardinality(OpenJobs)
              /\ \A q \in Queues : que[q].uih = Cardinality(Open(q))

\* Who is in the sets the users are charged for.
LEMMA InOpen ==
  ASSUME NEW x
  PROVE  /\ x \in OpenJobs <=> x \in alljobs /\ job[x].state # "COMPLETE"
         /\ x \in OpenJobs' <=> x \in alljobs' /\ job'[x].state # "COMPLETE"
         /\ \A p \in Queues : /\ x \in Open(p) <=> x \in que[p].jobs /\ job[x].state # "COMPLETE"
                              /\ x \in Open(p)' <=> x \in que'[p].jobs /\ job'[x].state # "COMPLETE"
BY Zenon DEF OpenJobs, Open

\* increment_queued_jobs and decrement_queued_jobs change a count only with the mark
\* of the job, so that a job is counted in once and counted off once.
LEMMA UserCountsNext ==
  ASSUME Sizes, NEW t \in Threads, Step(t), Members, Marked, Kinds(t), UserCountsHold
  PROVE  UserCountsHold'
\* A job that is counted off, and one that is counted in.
<1>LessOne. ASSUME NEW j \in Jobs, NEW P \in SUBSET Jobs, NEW Q \in SUBSET Jobs,
                   \A x \in Jobs \ {j} : x \in Q <=> x \in P, j \in P, j \notin Q, NEW counted,
                   NEW bit, bit \in counted
      PROVE  Less(Cardinality(P), counted, bit) = Cardinality(Q)
  BY <1>LessOne, JobShift DEF One, Less
<1>MoreOne. ASSUME NEW j \in Jobs, NEW P \in SUBSET Jobs, NEW Q \in SUBSET Jobs,
                   \A x \in Jobs \ {j} : x \in Q <=> x \in P, j \notin P, j \in Q, NEW counted,
                   NEW bit, bit \notin counted, NEW s, s # "COMPLETE"
      PROVE  More(Cardinality(P), counted, bit, s) = Cardinality(Q)
  BY <1>MoreOne, JobShift, SMTT(30) DEF One, More
<1>UsersSame. ASSUME UsersExact, alljobs' \subseteq Jobs, sv'.users = sv.users,
                     \A q \in Queues : que'[q].uih = que[q].uih /\ que'[q].jobs \subseteq Jobs,
                     \A x \in Jobs : x \in OpenJobs' <=> x \in OpenJobs,
                     \A q \in Queues : \A x \in Jobs : x \in Open(q)' <=> x \in Open(q),
                     alljobs \subseteq Jobs, \A q \in Queues : que[q].jobs \subseteq Jobs
      PROVE  UsersExact'
  <2> USE <1>UsersSame
  <2>1. OpenJobs \subseteq Jobs /\ OpenJobs' \subseteq Jobs
    BY Zenon DEF OpenJobs
  <2>2. OpenJobs' = OpenJobs
    BY <2>1, Zenon
  <2>3. ASSUME NEW q \in Queues PROVE que'[q].uih = Cardinality(Open(q)')
    <3>1. Open(q) \subseteq Jobs /\ Open(q)' \subseteq Jobs
      BY Zenon DEF Open
    <3>2. Open(q)' = Open(q)
      BY <3>1, Zenon
    <3> QED
      BY <3>2, Zenon DEF UsersExact
  <2> QED
    BY <2>2, <2>3, Zenon DEF UsersExact
\* Job j is counted off, in the server and in its queue q.
<1>UsersLess. ASSUME UsersExact, NEW j \in Jobs, NEW q \in Queues, alljobs \subseteq Jobs,
                     alljobs' \subseteq Jobs,
                     \A p \in Queues : que[p].jobs \subseteq Jobs /\ que'[p].jobs \subseteq Jobs,
                     \A x \in Jobs \ {j} : x \in OpenJobs' <=> x \in OpenJobs, j \in OpenJobs,
                     j \notin OpenJobs',
                     \A p \in Queues : \A x \in Jobs \ {j} : x \in Open(p)' <=> x \in Open(p),
                     \A p \in Queues : (j \in Open(p) <=> p = q) /\ j \notin Open(p)',
                     "global" \in job[j].counted, "queue" \in job[j].counted,
                     sv'.users = Less(sv.users, job[j].counted, "global"),
                     \A p \in Queues \ {q} : que'[p].uih = que[p].uih,
                     que'[q].uih = Less(que[q].uih, job[j].counted, "queue")
      PROVE  UsersExact'
  <2> USE <1>UsersLess
  <2>1. OpenJobs \in SUBSET Jobs /\ OpenJobs' \in SUBSET Jobs
    BY Zenon DEF OpenJobs
  <2>2. sv'.users = Cardinality(OpenJobs')
    BY <2>1, <1>LessOne, SMTT(30) DEF UsersExact
  <2>3. ASSUME NEW p \in Queues PROVE que'[p].uih = Cardinality(Open(p)')
    <3>1. Open(p) \in SUBSET Jobs /\ Open(p)' \in SUBSET Jobs
      BY Zenon DEF Open
    <3>2. CASE p = q
      BY <3>1, <3>2, <1>LessOne, SMTT(30) DEF UsersExact
    <3>3. CASE p # q
      <4>1. \A x \in Jobs : x \in Open(p)' <=> x \in Open(p)
        BY <3>3, Zenon
      <4>2. Open(p)' = Open(p)
        BY <3>1, <4>1, Zenon
      <4> QED
        BY <3>3, <4>2, Zenon DEF UsersExact
    <3> QED
      BY <3>2, <3>3, Zenon
  <2> QED
    BY <2>2, <2>3, Zenon DEF UsersExact
\* Job j is counted in.
<1>UsersMore. ASSUME UsersExact, NEW j \in Jobs, NEW q \in Queues, NEW s \in States,
                     s # "COMPLETE", alljobs \subseteq Jobs, alljobs' \subseteq Jobs,
                     \A p \in Queues : que[p].jobs \subseteq Jobs /\ que'[p].jobs \subseteq Jobs,
                     \A x \in Jobs \ {j} : x \in OpenJobs' <=> x \in OpenJobs, j \notin OpenJobs,
                     j \in OpenJobs',
                     \A p \in Queues : \A x \in Jobs \ {j} : x \in Open(p)' <=> x \in Open(p),
                     \A p \in Queues : j \notin Open(p) /\ (j \in Open(p)' <=> p = q),
                     job[j].counted = {}, sv'.users = More(sv.users, job[j].counted, "global", s),
                     \A p \in Queues \ {q} : que'[p].uih = que[p].uih,
                     que'[q].uih = More(que[q].uih, job[j].counted, "queue", s)
      PROVE  UsersExact'
  <2> USE <1>UsersMore
  <2>1. OpenJobs \in SUBSET Jobs /\ OpenJobs' \in SUBSET Jobs
    BY Zenon DEF OpenJobs
  <2> DEFINE c == job[j].counted
  <2>b. "global" \notin c /\ "queue" \notin c
    BY Zenon
  <2> HIDE DEF c
  <2>2. sv'.users = Cardinality(OpenJobs')
    <3>1. More(Cardinality(OpenJobs), c, "global", s) = Cardinality(OpenJobs')
      BY <2>1, <2>b, <1>MoreOne, SMTT(30)
    <3> QED
      BY <3>1, Zenon DEF UsersExact, c
  <2>3. ASSUME NEW p \in Queues PROVE que'[p].uih = Cardinality(Open(p)')
    <3>1. Open(p) \in SUBSET Jobs /\ Open(p)' \in SUBSET Jobs
      BY Zenon DEF Open
    <3>2. CASE p = q
      <4>1. More(Cardinality(Open(p)), c, "queue", s) = Cardinality(Open(p)')
        BY <2>b, <3>1, <3>2, <1>MoreOne, SMTT(30)
      <4> QED
        BY <3>2, <4>1, Zenon DEF UsersExact, c
    <3>3. CASE p # q
      <4>1. \A x \in Jobs : x \in Open(p)' <=> x \in Open(p)
        BY <3>3, Zenon
      <4>2. Open(p)' = Open(p)
        BY <3>1, <4>1, ZenonT(40)
      <4> QED
        BY <3>3, <4>2, Zenon DEF UsersExact
    <3> QED
      BY <3>2, <3>3, Zenon
  <2> QED
    BY <2>2, <2>3, Zenon DEF UsersExact
<1>SettlingUsers. ASSUME NEW j \in Jobs, NEW new \in States, Settling(t, j, new),
                         "overtaken" \notin blame', MarkedJob(j), UsersExact
      PROVE  UsersExact'
  <2> USE <1>SettlingUsers
  <2> DEFINE q == job[j].qhdr
  <2>1. /\ "moved" \notin blame /\ q \in Queues /\ que \in [Queues -> QueueRecord] /\ None \notin Queues
        /\ que' \in [Queues -> QueueRecord] /\ alljobs \subseteq Jobs /\ alljobs' = alljobs
        /\ j \in alljobs
    BY StepFacts, Zenon DEF Settling
  <2>2. PICK svc \in ServerRecord : Settled(j, q, new, svc) /\ svc.users = sv.users
    BY StepFacts, Zenon DEF Settling
  <2>3. job[j].state # "COMPLETE"
    BY SettledOpen, Zenon
  <2>4. job[j].counted = {"global", "queue"}
    BY <2>1, <2>3, Zenon DEF MarkedJob
  <2>5. /\ \A x \in Jobs \ {j} : job'[x] = job[x]
        /\ job'[j].state = new
        /\ sv'.users = IF new = "COMPLETE" THEN Less(sv.users, job[j].counted, "global") ELSE sv.users
        /\ \A p \in Queues \ {q} : que'[p] = que[p]
        /\ \A p \in Queues : que'[p].jobs = que[p].jobs
        /\ que'[q].uih = IF new = "COMPLETE" THEN Less(que[q].uih, job[j].counted, "queue")
                         ELSE que[q].uih
    BY <2>2, ZenonT(40) DEF Settled
  <2>6. \A p \in Queues : /\ que[p].jobs \subseteq Jobs /\ que'[p].jobs \subseteq Jobs
                          /\ (j \in que[p].jobs <=> p = q)
    BY <2>1, SMTT(30) DEF Members, QueueRecord
  <2>7. \A x \in Jobs \ {j} : /\ x \in OpenJobs' <=> x \in OpenJobs
                              /\ \A p \in Queues : x \in Open(p)' <=> x \in Open(p)
    BY <2>1, <2>5, InOpen, ZenonT(40)
  <2>8. j \in OpenJobs /\ \A p \in Queues : j \in Open(p) <=> p = q
    BY <2>1, <2>3, <2>6, InOpen, ZenonT(40)
  <2>9. CASE new = "COMPLETE"
    <3>1. j \notin OpenJobs' /\ \A p \in Queues : j \notin Open(p)'
      BY <2>5, <2>9, InOpen, Zenon
    <3>2. /\ "global" \in job[j].counted /\ "queue" \in job[j].counted
          /\ sv'.users = Less(sv.users, job[j].counted, "global")
          /\ \A p \in Queues \ {q} : que'[p].uih = que[p].uih
          /\ que'[q].uih = Less(que[q].uih, job[j].counted, "queue")
      BY <2>4, <2>5, <2>9, Zenon
    <3> QED
      BY <2>1, <2>6, <2>7, <2>8, <3>1, <3>2, <1>UsersLess, SMTT(30)
  <2>10. CASE new # "COMPLETE"
    <3>1. j \in OpenJobs' /\ \A p \in Queues : j \in Open(p)' <=> p = q
      BY <2>1, <2>5, <2>6, <2>10, InOpen, Zenon
    <3>2. \A x \in Jobs : /\ x \in OpenJobs' <=> x \in OpenJobs
                          /\ \A p \in Queues : x \in Open(p)' <=> x \in Open(p)
      BY <2>7, <2>8, <3>1, Zenon
    <3>3. sv'.users = sv.users /\ \A p \in Queues : que'[p].uih = que[p].uih
      BY <2>5, <2>10, Zenon
    <3> QED
      BY <2>1, <2>6, <3>2, <3>3, <1>UsersSame, Zenon
  <2> QED
    BY <2>9, <2>10, Zenon
<1>ArrivingUsers. ASSUME NEW j \in Jobs, NEW q \in Queues, NEW s \in States, Arriving(t, j, q, s),
                         MarkedJob(j), UsersExact
      PROVE  UsersExact'
  <2> USE <1>ArrivingUsers
  <2>1. /\ "moved" \notin blame /\ que \in [Queues -> QueueRecord] /\ que' \in [Queues -> QueueRecord]
        /\ alljobs \subseteq Jobs /\ job[j].qhdr = None /\ j \notin alljobs
    BY StepFacts, ZenonT(40) DEF Arriving
  <2>2. PICK qr \in QueueRecord : Arrived(j, q, qr, s) /\ qr.uih = que[q].uih /\ qr.jobs = que[q].jobs
    BY Zenon DEF Arriving
  <2>3. job[j].counted = {}
    BY <2>1, Zenon DEF MarkedJob
  <2>4. /\ \A x \in Jobs \ {j} : job'[x] = job[x]
        /\ job'[j].state = s /\ alljobs' = alljobs \cup {j}
        /\ sv'.users = More(sv.users, job[j].counted, "global", s)
        /\ \A p \in Queues \ {q} : que'[p] = que[p]
        /\ que'[q].jobs = que[q].jobs \cup {j}
        /\ que'[q].uih = More(que[q].uih, job[j].counted, "queue", s)
    BY <2>2, ZenonT(40) DEF Arrived
  <2>5. \A p \in Queues : que[p].jobs \subseteq Jobs /\ que'[p].jobs \subseteq Jobs /\ j \notin que[p].jobs
    BY <2>1, Whereabouts, Zenon DEF QueueRecord, Step
  <2>6. \A x \in Jobs \ {j} : /\ x \in OpenJobs' <=> x \in OpenJobs
                              /\ \A p \in Queues : x \in Open(p)' <=> x \in Open(p)
    BY <2>1, <2>4, InOpen, Zenon
  <2>7. j \notin OpenJobs /\ \A p \in Queues : j \notin Open(p)
    BY <2>1, <2>5, InOpen, Zenon
  <2>8. alljobs' \subseteq Jobs /\ j \in alljobs' /\ \A p \in Queues : j \in que'[p].jobs <=> p = q
    BY <2>1, <2>4, <2>5, Zenon
  <2>9. CASE s # "COMPLETE"
    <3>1. j \in OpenJobs' /\ \A p \in Queues : j \in Open(p)' <=> p = q
      BY <2>4, <2>8, <2>9, InOpen, ZenonT(40)
    <3>2. \A p \in Queues \ {q} : que'[p].uih = que[p].uih
      BY <2>4, Zenon
    <3>3. \A p \in Queues : \A x \in Jobs \ {j} : x \in Open(p)' <=> x \in Open(p)
      BY <2>6, Zenon
    <3>4. \A x \in Jobs \ {j} : x \in OpenJobs' <=> x \in OpenJobs
      BY <2>6, Zenon
    <3>5. \A p \in Queues : j \notin Open(p) /\ (j \in Open(p)' <=> p = q)
      BY <2>7, <3>1, Zenon
    <3>6. \A p \in Queues : que[p].jobs \subseteq Jobs /\ que'[p].jobs \subseteq Jobs
      BY <2>5, Zenon
    <3>7. /\ sv'.users = More(sv.users, job[j].counted, "global", s)
          /\ que'[q].uih = More(que[q].uih, job[j].counted, "queue", s)
      BY <2>4, Zenon
    <3> QED
      BY <2>1, <2>3, <2>7, <2>8, <2>9, <3>1, <3>2, <3>3, <3>4, <3>5, <3>6, <3>7, <1>UsersMore, ZenonT(40)
  <2>10. CASE s = "COMPLETE"
    <3>1. j \notin OpenJobs' /\ \A p \in Queues : j \notin Open(p)'
      BY <2>4, <2>10, InOpen, Zenon
    <3>2. \A x \in Jobs : /\ x \in OpenJobs' <=> x \in OpenJobs
                          /\ \A p \in Queues : x \in Open(p)' <=> x \in Open(p)
      BY <2>6, <2>7, <3>1, Zenon
    <3>3. sv'.users = sv.users /\ \A p \in Queues : que'[p].uih = que[p].uih
      BY <2>4, <2>10, Zenon DEF More
    <3> QED
      BY <2>1, <2>5, <2>8, <3>2, <3>3, <1>UsersSame, Zenon
  <2> QED
    BY <2>9, <2>10, Zenon
<1>LeavingUsers. ASSUME NEW j \in Jobs, NEW life \in {"live", "gone"}, Leaving(t, j, life),
                        "unsettled" \notin blame', MarkedJob(j), UsersExact
      PROVE  UsersExact'
  <2> USE <1>LeavingUsers
  <2> DEFINE q == job[j].qhdr
  <2>1. /\ "moved" \notin blame /\ q \in Queues /\ que \in [Queues -> QueueRecord] /\ None \notin Queues
        /\ que' \in [Queues -> QueueRecord] /\ alljobs \subseteq Jobs /\ j \in alljobs
    BY StepFacts, ZenonT(40) DEF Leaving
  <2>2. PICK jr \in JobRecord, qs \in [Queues -> QueueRecord], why \in SUBSET Causes :
          /\ Left(j, q, jr, qs, life, why) /\ CountsAre(qs)
          /\ jr.state = job[j].state /\ jr.counted = job[j].counted
    BY Zenon DEF Leaving
  <2>3. /\ \A x \in Jobs \ {j} : job'[x] = job[x]
        /\ alljobs' = alljobs \ {j} /\ alljobs' \subseteq Jobs
        /\ sv'.users = IF job[j].state # "COMPLETE" THEN Less(sv.users, job[j].counted, "global")
                       ELSE sv.users
        /\ \A p \in Queues \ {q} : que'[p].jobs = que[p].jobs /\ que'[p].uih = que[p].uih
        /\ que'[q].jobs = que[q].jobs \ {j}
        /\ job[j].state # "COMPLETE" => que'[q].uih = Less(que[q].uih, job[j].counted, "queue")
        /\ job[j].counted = {} => que'[q].uih = que[q].uih
    BY <2>1, <2>2 DEF Left, CountsAre
  <2>4. \A p \in Queues : /\ que[p].jobs \subseteq Jobs /\ que'[p].jobs \subseteq Jobs
                          /\ (j \in que[p].jobs <=> p = q) /\ j \notin que'[p].jobs
    BY <2>1, <2>3 DEF Members, QueueRecord
  <2>5. \A x \in Jobs \ {j} : x \in OpenJobs' <=> x \in OpenJobs
    BY <2>1, <2>3, InOpen, ZenonT(40)
  <2>6. ASSUME NEW p \in Queues, NEW x \in Jobs \ {j} PROVE x \in Open(p)' <=> x \in Open(p)
    <3>1. x \in que'[p].jobs <=> x \in que[p].jobs
      BY <2>1, <2>3, Zenon
    <3> QED
      BY <2>3, <3>1, InOpen, ZenonT(40)
  <2>7. j \notin OpenJobs' /\ \A p \in Queues : j \notin Open(p)'
    BY <2>3, <2>4, InOpen, ZenonT(40)
  <2>8. CASE job[j].state # "COMPLETE"
    <3>1. job[j].counted = {"global", "queue"}
      BY <2>1, <2>8, ZenonT(40) DEF MarkedJob
    <3>2. j \in OpenJobs /\ \A p \in Queues : j \in Open(p) <=> p = q
      BY <2>1, <2>4, <2>8, InOpen, Zenon
    <3>3. /\ "global" \in job[j].counted /\ "queue" \in job[j].counted
          /\ sv'.users = Less(sv.users, job[j].counted, "global")
          /\ \A p \in Queues \ {q} : que'[p].uih = que[p].uih
          /\ que'[q].uih = Less(que[q].uih, job[j].counted, "queue")
      BY <2>3, <2>8, <3>1, ZenonT(40)
    <3> QED
      BY <2>1, <2>3, <2>4, <2>5, <2>6, <2>7, <3>2, <3>3, <1>UsersLess
  <2>9. CASE job[j].state = "COMPLETE"
    <3>1. job[j].counted = {}
      BY <2>9, Zenon DEF MarkedJob
    <3>2. j \notin OpenJobs /\ \A p \in Queues : j \notin Open(p)
      BY <2>9, InOpen, Zenon
    <3>3. /\ \A x \in Jobs : x \in OpenJobs' <=> x \in OpenJobs
          /\ \A p \in Queues : \A x \in Jobs : x \in Open(p)' <=> x \in Open(p)
      BY <2>5, <2>6, <2>7, <3>2, Zenon
    <3>4. sv'.users = sv.users /\ \A p \in Queues : que'[p].uih = que[p].uih
      BY <2>1, <2>3, <2>9, <3>1, Zenon
    <3> QED
      BY <2>1, <2>3, <2>4, <3>3, <3>4, <1>UsersSame, ZenonT(40)
  <2> QED
    BY <2>8, <2>9, Zenon
<1> SUFFICES ASSUME blame' \cap {"moved", "unsettled", "overtaken"} = {} PROVE UsersExact'
  BY ZenonT(40) DEF UserCountsHold, UsersExact, OpenJobs, Open
<1>1. "overtaken" \notin blame' /\ "unsettled" \notin blame'
  BY Zenon
<1>2. UsersExact /\ \A x \in Jobs : MarkedJob(x)
  BY Zenon DEF Marked, MarkedJob, Step, UserCountsHold, UsersExact, OpenJobs, Open
<1>3. /\ alljobs \subseteq Jobs
      /\ \A p \in Queues : que[p].jobs \subseteq Jobs /\ que'[p].jobs \subseteq Jobs
  BY StepFacts, Zenon DEF QueueRecord
<1>4. CASE Quiet(t)
  <2>1. \A x \in Jobs : /\ x \in OpenJobs' <=> x \in OpenJobs
                        /\ \A p \in Queues : x \in Open(p)' <=> x \in Open(p)
    BY <1>4, InOpen, Zenon DEF Quiet, CountsAre, Same
  <2>2. alljobs' = alljobs /\ sv'.users = sv.users /\ \A p \in Queues : que'[p].uih = que[p].uih
    BY <1>4, Zenon DEF Quiet, CountsAre
  <2> QED
    BY <1>2, <1>3, <2>1, <2>2, <1>UsersSame, Zenon
<1>5. ASSUME NEW j \in Jobs, NEW s \in States, Charging(t, j, s) PROVE UsersExact'
  <2>1. \A x \in Jobs : /\ x \in OpenJobs' <=> x \in OpenJobs
                        /\ \A p \in Queues : x \in Open(p)' <=> x \in Open(p)
    BY <1>5, InOpen, Zenon DEF Charging, Same
  <2>2. alljobs' = alljobs /\ sv'.users = sv.users /\ \A p \in Queues : que'[p].uih = que[p].uih
    BY <1>5, Zenon DEF Charging
  <2> QED
    BY <1>2, <1>3, <2>1, <2>2, <1>UsersSame, Zenon
<1>6. ASSUME NEW j \in Jobs, Aside(j) PROVE UsersExact'
  <2>1. job[j].counted = {} /\ j \notin alljobs /\ \A p \in Queues : j \notin que[p].jobs
    BY <1>2, <1>6, StepFacts, Whereabouts, Zenon DEF Aside, MarkedJob, Step
  <2>2. alljobs' = alljobs /\ sv'.users = sv.users /\ que' = que
    BY <1>6, <2>1, Zenon DEF Aside, Less
  <2>3. \A x \in Jobs \ {j} : job'[x].state = job[x].state
    BY <1>6, Zenon DEF Aside, Same
  <2>4. \A x \in Jobs : /\ x \in OpenJobs' <=> x \in OpenJobs
                        /\ \A p \in Queues : x \in Open(p)' <=> x \in Open(p)
    BY <2>1, <2>2, <2>3, InOpen, Zenon
  <2> QED
    BY <1>2, <1>3, <2>2, <2>4, <1>UsersSame, Zenon
<1>7. ASSUME NEW j \in Jobs PROVE ~Dooming(t, j)
  BY <1>1, Zenon DEF Dooming
<1> QED
  BY <1>1, <1>2, <1>4, <1>5, <1>6, <1>7, <1>SettlingUsers, <1>ArrivingUsers,
     <1>LeavingUsers, Zenon DEF Kinds

-----------------------------------------------------------------------------
(* The limit of a queue *)

\* The queue's estimate of its open jobs (count_queued_jobs) has not grown, and is
\* still at least their number.
Shrinks(p) == Cardinality(Open(p)') <= Estimate(p)' /\ Estimate(p)' <= Estimate(p)

\* The numbers the limit is about.
LEMMA EstimateTypes ==
  ASSUME Sizes, NEW t \in Threads, Step(t), NEW p \in Queues
  PROVE  /\ Estimate(p) \in Int /\ Estimate(p)' \in Int
         /\ que[p].num \in Int /\ que'[p].num \in Int /\ que[p].st \in [States -> Int]
         /\ que[p].st["COMPLETE"] \in Int /\ que'[p].st["COMPLETE"] \in Int
         /\ que[p].reserved \in Nat /\ que'[p].reserved \in Nat
         /\ Open(p) \in SUBSET Jobs /\ Open(p)' \in SUBSET Jobs
         /\ Cardinality(Open(p)) \in Nat /\ Cardinality(Open(p)') \in Nat
         /\ que[p].jobs \subseteq Jobs /\ que'[p].jobs \subseteq Jobs
         /\ Estimate(p) = que[p].num - que[p].st["COMPLETE"]
         /\ Estimate(p)' = que'[p].num - que'[p].st["COMPLETE"]
<1>1. que[p] \in QueueRecord /\ que'[p] \in QueueRecord /\ "COMPLETE" \in States
  BY StepFacts, Zenon DEF States
<1>2. Open(p) \in SUBSET Jobs /\ Open(p)' \in SUBSET Jobs
  BY <1>1, Zenon DEF Open, QueueRecord
<1>3. Cardinality(Open(p)) \in Nat /\ Cardinality(Open(p)') \in Nat
  BY <1>2, Countable, Zenon
<1> QED
  BY <1>1, <1>2, <1>3, SMTT(30) DEF Estimate, QueueRecord

\* What the kinds of steps do to the estimate and to the places of a queue.
LEMMA EstimateStep ==
  ASSUME Sizes, NEW t \in Threads, Step(t), Members, Kinds(t), "overtaken" \notin blame', NEW p \in Queues,
         Cardinality(Open(p)) <= Estimate(p)
  PROVE  \/ /\ Shrinks(p)
            /\ \/ que'[p].reserved <= que[p].reserved
               \/ /\ que'[p].reserved = que[p].reserved + 1
                  /\ ~Full(que[p]) \/ blame' \cap {"leaked", "bypassed"} # {}
         \/ /\ Cardinality(Open(p)') <= Estimate(p)' /\ Estimate(p)' + que'[p].reserved <= MaxQueuable
\* Nothing happens to the jobs and the counts of p.
<1>ShrinksSame. ASSUME que'[p].jobs = que[p].jobs, que'[p].num = que[p].num,
                       que'[p].st = que[p].st, \A x \in que[p].jobs : job'[x].state = job[x].state
      PROVE  Shrinks(p)
  <2> USE <1>ShrinksSame
  <2>1. Open(p)' = Open(p)
    BY Zenon DEF Open
  <2>2. Estimate(p)' = Estimate(p) /\ Estimate(p) \in Int
    BY EstimateTypes, Zenon DEF Estimate
  <2> QED
    BY <2>1, <2>2, SMTT(30) DEF Shrinks
<1>DoomingShrinks. ASSUME NEW j \in Jobs, Dooming(t, j)
      PROVE  Shrinks(p)
  <2> USE <1>DoomingShrinks
  <2>1. Estimate(p)' = Estimate(p) /\ Estimate(p) \in Int /\ Open(p) \in SUBSET Jobs
        /\ Open(p)' \in SUBSET Jobs
    BY EstimateTypes, ZenonT(40) DEF Estimate, Dooming
  <2>2. /\ \A x \in Jobs \ {j} : x \in Open(p)' <=> x \in Open(p)
        /\ j \notin Open(p)'
    BY InOpen, ZenonT(40) DEF Dooming, Same
  <2>3. /\ Cardinality(Open(p)) \in Nat /\ Cardinality(Open(p)') \in Nat
        /\ Cardinality(Open(p)') = Cardinality(Open(p)) + One(j \in Open(p)') - One(j \in Open(p))
    BY <2>1, <2>2, JobShift, Zenon
  <2>4. One(j \in Open(p)') = 0 /\ One(j \in Open(p)) \in {0, 1}
    BY <2>2, Zenon DEF One
  <2> QED
    BY <2>1, <2>3, <2>4, SMTT(30) DEF Shrinks
<1>SettlingShrinks. ASSUME NEW j \in Jobs, NEW new \in States, Settling(t, j, new)
      PROVE  Shrinks(p)
  <2> USE <1>SettlingShrinks
  <2> DEFINE q == job[j].qhdr
  <2>1. "moved" \notin blame /\ q \in Queues /\ job[j].state \in States /\ new # job[j].state
    BY StepFacts, Zenon DEF Settling
  <2>2. PICK svc \in ServerRecord : Settled(j, q, new, svc)
    BY StepFacts, Zenon DEF Settling
  <2>3. \A x \in Jobs \ {j} : job'[x].state = job[x].state
    BY <2>2, ZenonT(40) DEF Settled
  <2>4. (j \in que[p].jobs <=> p = q) /\ que[p].jobs \subseteq Jobs
    BY <2>1, EstimateTypes, SMTT(30) DEF Members
  <2>5. CASE p # q
    BY <2>2, <2>3, <2>4, <2>5, <1>ShrinksSame, ZenonT(40) DEF Settled
  <2>6. CASE p = q
    <3>1. /\ que'[p].jobs = que[p].jobs /\ que'[p].num = que[p].num /\ job'[j].state = new
          /\ que'[p].st = Move(que[p].st, job[j].state, new)
      BY <2>2, <2>6, Zenon DEF Settled
    <3>2. job[j].state # "COMPLETE"
      BY SettledOpen, ZenonT(40)
    <3>3. que[p].st \in [States -> Int] /\ "COMPLETE" \in States /\ Estimate(p) \in Int
          /\ que[p].num \in Int /\ Open(p) \in SUBSET Jobs /\ Open(p)' \in SUBSET Jobs
      BY EstimateTypes, ZenonT(40) DEF States
    <3>4. que'[p].st["COMPLETE"] = que[p].st["COMPLETE"] + One(new = "COMPLETE")
      <4>1. /\ que'[p].st["COMPLETE"] = que[p].st["COMPLETE"] + One(new = "COMPLETE")
                                          - One(job[j].state = "COMPLETE")
            /\ que[p].st["COMPLETE"] \in Int
        BY <2>1, <3>1, <3>3, CountsAt
      <4>2. One(job[j].state = "COMPLETE") = 0 /\ One(new = "COMPLETE") \in {0, 1}
        BY <3>2, Zenon DEF One
      <4> QED
        BY <4>1, <4>2, SMTT(30)
    <3>5. Estimate(p)' = Estimate(p) - One(new = "COMPLETE")
      BY <3>1, <3>3, <3>4, OneType, EstimateTypes
    <3>6. /\ \A x \in Jobs \ {j} : x \in Open(p)' <=> x \in Open(p)
          /\ j \in Open(p) /\ (j \in Open(p)' <=> new # "COMPLETE")
      BY <2>3, <2>4, <2>6, <3>1, <3>2, InOpen, ZenonT(40)
    <3>7. /\ Cardinality(Open(p)) \in Nat /\ Cardinality(Open(p)') \in Nat
          /\ Cardinality(Open(p)') = Cardinality(Open(p)) + One(j \in Open(p)') - One(j \in Open(p))
      BY <3>3, <3>6, JobShift
    <3>8. One(j \in Open(p)') - One(j \in Open(p)) = 0 - One(new = "COMPLETE")
          /\ One(j \in Open(p)') \in {0, 1} /\ One(j \in Open(p)) = 1 /\ One(new = "COMPLETE") \in {0, 1}
      BY <3>6 DEF One
    <3>9. Cardinality(Open(p)') = Cardinality(Open(p)) - One(new = "COMPLETE")
      BY <3>7, <3>8
    <3> QED
      BY <3>3, <3>5, <3>7, <3>8, <3>9 DEF Shrinks
  <2> QED
    BY <2>5, <2>6, Zenon
\* After a recount the estimate is the number of open jobs.
<1>RecountEstimate. ASSUME que'[p].num = Cardinality(que'[p].jobs),
            \A s \in States : que'[p].st[s] = Cardinality({x \in que'[p].jobs : job'[x].state = s})
      PROVE  Estimate(p)' = Cardinality(Open(p)')
  <2> USE <1>RecountEstimate
  <2> DEFINE S == que'[p].jobs
             T == {x \in que'[p].jobs : job'[x].state = "COMPLETE"}
  <2>1. S \subseteq Jobs /\ T \subseteq Jobs /\ "COMPLETE" \in States
    BY EstimateTypes, Zenon DEF States
  <2>2. Open(p)' = S \ T /\ T \subseteq S
    BY Zenon DEF Open
  <2>3. que'[p].num = Cardinality(S) /\ que'[p].st["COMPLETE"] = Cardinality(T)
    BY <2>1, Zenon
  <2> HIDE DEF S, T
  <2>4. IsFiniteSet(S) /\ Cardinality(S) \in Nat /\ Cardinality(T) \in Nat
    BY <2>1, Countable, Zenon
  <2>5. Cardinality(S \ T) = Cardinality(S) - Cardinality(T)
    <3>1. \A X, Y : IsFiniteSet(X) /\ Y \subseteq X =>
                       Cardinality(X \ Y) = Cardinality(X) - Cardinality(Y)
      BY Zenon DEF Sizes
    <3> QED
      BY <2>2, <2>4, <3>1, Zenon
  <2> QED
    BY ZenonT(40), <2>2, <2>3, <2>5, EstimateTypes
<1>LeavingShrinks. ASSUME NEW j \in Jobs, NEW life \in {"live", "gone"}, Leaving(t, j, life)
      PROVE  Shrinks(p)
  <2> USE <1>LeavingShrinks
  <2> DEFINE q == job[j].qhdr
  <2>1. "moved" \notin blame /\ q \in Queues /\ job[j].state \in States
    BY StepFacts, ZenonT(40) DEF Leaving
  <2>2. PICK jr \in JobRecord, qs \in [Queues -> QueueRecord], why \in SUBSET Causes :
          /\ Left(j, q, jr, qs, life, why) /\ CountsAre(qs)
          /\ jr.state = job[j].state \/ jr.state = "COMPLETE"
    BY Zenon DEF Leaving
  <2>3. \A x \in Jobs \ {j} : job'[x].state = job[x].state
    BY <2>2, ZenonT(40) DEF Left
  <2>4. (j \in que[p].jobs <=> p = q) /\ que[p].jobs \subseteq Jobs
    BY <2>1, EstimateTypes, ZenonT(40) DEF Members
  <2>5. /\ \A r \in Queues \ {q} : que'[r].jobs = que[r].jobs
        /\ que'[q].jobs = que[q].jobs \ {j}
    BY <2>1, <2>2 DEF Left, CountsAre
  <2>6. /\ Open(p) \in SUBSET Jobs /\ Open(p)' \in SUBSET Jobs /\ Estimate(p) \in Int
        /\ Estimate(p)' \in Int /\ que[p].num \in Int /\ que[p].st \in [States -> Int]
        /\ que[p].st["COMPLETE"] \in Int
    BY EstimateTypes, Zenon
  <2>7. \A x \in Jobs \ {j} : x \in Open(p)' <=> x \in Open(p)
    <3>1. ASSUME NEW x \in Jobs \ {j} PROVE x \in que'[p].jobs <=> x \in que[p].jobs
      BY <2>1, <2>5, Zenon
    <3> QED
      BY <2>3, <3>1, InOpen, ZenonT(40)
  <2>8. j \notin Open(p)' /\ (j \in Open(p) <=> p = q /\ job[j].state # "COMPLETE")
    BY <2>4, <2>5, InOpen, Zenon
  <2>9. /\ Cardinality(Open(p)) \in Nat /\ Cardinality(Open(p)') \in Nat
        /\ Cardinality(Open(p)') = Cardinality(Open(p)) + One(j \in Open(p)') - One(j \in Open(p))
    BY <2>6, <2>7, JobShift, ZenonT(40)
  <2>10. /\ Cardinality(Open(p)') = Cardinality(Open(p)) - One(p = q /\ job[j].state # "COMPLETE")
         /\ One(p = q /\ job[j].state # "COMPLETE") \in {0, 1}
    <3>1. One(j \in Open(p)') = 0 /\ One(j \in Open(p)) = One(p = q /\ job[j].state # "COMPLETE")
          /\ One(j \in Open(p)) \in {0, 1}
      BY <2>8, Zenon DEF One
    <3> QED
      BY <2>9, <3>1, SMTT(30)
  <2>11. CASE /\ que'[p].num = Cardinality(que'[p].jobs)
              /\ \A s \in States : que'[p].st[s] = Cardinality({x \in que'[p].jobs : job'[x].state = s})
    <3>1. Estimate(p)' = Cardinality(Open(p)')
      BY <2>11, <1>RecountEstimate, Zenon
    <3> QED
      BY <2>6, <2>9, <2>10, <3>1, SMTT(30) DEF Shrinks
  <2>12. CASE /\ \A r \in Queues \ {q} : que'[r].num = qs[r].num /\ que'[r].st = qs[r].st
              /\ que'[q].num = qs[q].num - 1 /\ que'[q].st = Lower(qs[q].st, jr.state)
    <3>1. CASE p # q
      <4>1. que'[p].jobs = que[p].jobs /\ que'[p].num = que[p].num /\ que'[p].st = que[p].st
        BY <2>2, <2>5, <2>12, <3>1, ZenonT(40) DEF CountsAre
      <4> QED
        BY <2>3, <2>4, <3>1, <4>1, <1>ShrinksSame, Zenon
    <3>2. CASE p = q
      <4>1. que'[p].num = que[p].num - 1 /\ que'[p].st = Lower(que[p].st, jr.state)
        BY <2>1, <2>2, <2>12, <3>2, ZenonT(40) DEF CountsAre
      <4>2. jr.state \in States /\ "COMPLETE" \in States
        BY Zenon DEF JobRecord, States
      <4>3. que'[p].st["COMPLETE"] = que[p].st["COMPLETE"] - One(jr.state = "COMPLETE")
        BY <2>6, <4>1, <4>2, CountsAt
      <4>4. Estimate(p)' = Estimate(p) - 1 + One(jr.state = "COMPLETE")
        <5>1. /\ Estimate(p) = que[p].num - que[p].st["COMPLETE"]
              /\ Estimate(p)' = que'[p].num - que'[p].st["COMPLETE"]
              /\ que[p].num \in Int /\ que[p].st["COMPLETE"] \in Int
          BY EstimateTypes, Zenon
        <5>2. One(jr.state = "COMPLETE") \in {0, 1}
          BY OneType, Zenon
        <5> QED
          BY <4>1, <4>3, <5>1, <5>2, SMT
      <4>5. /\ One(jr.state = "COMPLETE") \in {0, 1}
            /\ One(p = q /\ job[j].state # "COMPLETE") >= 1 - One(jr.state = "COMPLETE")
        BY <2>2, <3>2 DEF One
      <4> QED
        BY <2>6, <2>9, <2>10, <4>4, <4>5 DEF Shrinks
    <3> QED
      BY <3>1, <3>2, Zenon
  <2> QED
    BY <2>2, <2>11, <2>12, Zenon DEF Left
\* Only a job that arrives makes the estimate grow, and svr_enquejob has seen room.
<1>ArrivingFits. ASSUME NEW j \in Jobs, NEW q \in Queues, NEW s \in States, Arriving(t, j, q, s)
      PROVE  \/ Shrinks(p) /\ que'[p].reserved = que[p].reserved
             \/ /\ Cardinality(Open(p)') <= Estimate(p)'
                /\ Estimate(p)' + que'[p].reserved <= MaxQueuable
  <2> USE <1>ArrivingFits
  <2>1. "moved" \notin blame /\ job[j].qhdr = None /\ MaxQueuable \in Nat
    BY StepFacts, CountsAssumption, ZenonT(40) DEF Arriving
  <2>2. PICK qr \in QueueRecord :
          /\ Arrived(j, q, qr, s) /\ ~Full(qr)
          /\ qr.jobs = que[q].jobs /\ qr.num = que[q].num /\ qr.st = que[q].st
    BY Zenon DEF Arriving
  <2>3. \A x \in Jobs \ {j} : job'[x].state = job[x].state
    BY <2>2, ZenonT(40) DEF Arrived
  <2>4. j \notin que[p].jobs /\ que[p].jobs \subseteq Jobs
    BY <2>1, Whereabouts, EstimateTypes, ZenonT(40) DEF Step
  <2>5. CASE p # q
    <3>1. que'[p] = que[p]
      BY <2>2, <2>5, ZenonT(40) DEF Arrived
    <3> QED
      BY <2>3, <2>4, <3>1, <1>ShrinksSame, ZenonT(40)
  <2>6. CASE p = q
    <3>1. /\ que'[p].jobs = que[p].jobs \cup {j} /\ que'[p].num = que[p].num + 1 /\ job'[j].state = s
          /\ que'[p].st = Raise(que[p].st, s) /\ que'[p].reserved = qr.reserved
      BY <2>2, <2>6, ZenonT(40) DEF Arrived
    <3>2. /\ Open(p) \in SUBSET Jobs /\ Open(p)' \in SUBSET Jobs /\ Estimate(p) \in Int
          /\ Estimate(p)' \in Int /\ que[p].num \in Int /\ que[p].st \in [States -> Int]
          /\ que[p].st["COMPLETE"] \in Int /\ "COMPLETE" \in States /\ qr.reserved \in Nat
      BY EstimateTypes, Zenon DEF States, QueueRecord
    <3>3. que'[p].st["COMPLETE"] = que[p].st["COMPLETE"] + One(s = "COMPLETE")
      BY <3>1, <3>2, CountsAt
    <3>4. Estimate(p)' = Estimate(p) + 1 - One(s = "COMPLETE")
      BY <3>1, <3>2, <3>3, OneType, EstimateTypes
    <3>5. /\ \A x \in Jobs \ {j} : x \in Open(p)' <=> x \in Open(p)
          /\ j \notin Open(p) /\ (j \in Open(p)' <=> s # "COMPLETE")
      BY <2>3, <2>4, <3>1, InOpen, ZenonT(40)
    <3>6. /\ Cardinality(Open(p)) \in Nat /\ Cardinality(Open(p)') \in Nat
          /\ Cardinality(Open(p)') = Cardinality(Open(p)) + One(j \in Open(p)') - One(j \in Open(p))
      BY <3>2, <3>5, JobShift, ZenonT(40)
    <3>7. /\ One(j \in Open(p)') = 1 - One(s = "COMPLETE") /\ One(j \in Open(p)) = 0
          /\ One(s = "COMPLETE") \in {0, 1}
      BY <3>5, SMTT(30) DEF One
    <3>8. Cardinality(Open(p)') <= Estimate(p)'
      BY <3>2, <3>4, <3>6, <3>7, SMTT(30)
    <3>9. Estimate(p) + qr.reserved < MaxQueuable
      <4>1. ~(que[p].num - que[p].st["COMPLETE"] + qr.reserved >= MaxQueuable)
        BY <2>2, <2>6, ZenonT(40) DEF Full
      <4> QED
        BY <2>1, <3>2, <4>1, EstimateTypes
    <3>10. Estimate(p)' + que'[p].reserved <= MaxQueuable
      BY <2>1, <3>1, <3>2, <3>4, <3>7, <3>9
    <3> QED
      BY <3>8, <3>10, Zenon
  <2> QED
    BY <2>5, <2>6, ZenonT(40)
<1> DEFINE Goal ==
         \/ /\ Shrinks(p)
            /\ \/ que'[p].reserved <= que[p].reserved
               \/ /\ que'[p].reserved = que[p].reserved + 1
                  /\ ~Full(que[p]) \/ blame' \cap {"leaked", "bypassed"} # {}
         \/ /\ Cardinality(Open(p)') <= Estimate(p)' /\ Estimate(p)' + que'[p].reserved <= MaxQueuable
<1>1. que[p].jobs \subseteq Jobs /\ que[p].reserved \in Nat /\ "moved" \notin blame
  BY EstimateTypes, StepFacts, Zenon
<1>2. que[p].reserved <= que[p].reserved
  BY <1>1, SMTT(30)
<1>3. CASE Quiet(t)
  <2>1. Shrinks(p)
    BY <1>1, <1>3, <1>ShrinksSame, ZenonT(40) DEF Quiet, CountsAre, Same
  <2> QED
    BY <1>3, <2>1, ZenonT(40) DEF Quiet, RoomStep
<1>4. ASSUME NEW j \in Jobs, NEW s \in States, Charging(t, j, s) PROVE Goal
  <2>1. Shrinks(p)
    BY <1>1, <1>4, <1>ShrinksSame, Zenon DEF Charging, Same
  <2> QED
    BY <1>2, <1>4, <2>1, ZenonT(40) DEF Charging
<1>5. ASSUME NEW j \in Jobs, Aside(j) PROVE Goal
  <2>1. j \notin que[p].jobs
    BY <1>1, <1>5, Whereabouts, Zenon DEF Aside, Step
  <2>2. Shrinks(p)
    BY <1>1, <1>5, <2>1, <1>ShrinksSame, ZenonT(40) DEF Aside, Same
  <2> QED
    BY <1>2, <1>5, <2>2, ZenonT(40) DEF Aside
<1>6. ASSUME NEW j \in Jobs, Dooming(t, j) PROVE Goal
  <2>1. Shrinks(p)
    BY <1>6, <1>DoomingShrinks, Zenon
  <2> QED
    BY <1>2, <1>6, <2>1, ZenonT(40) DEF Dooming
<1>7. ASSUME NEW j \in Jobs, NEW s \in States, Settling(t, j, s) PROVE Goal
  <2>1. Shrinks(p)
    BY <1>7, <1>SettlingShrinks, Zenon
  <2>2. PICK svc \in ServerRecord : Settled(j, job[j].qhdr, s, svc)
    BY <1>7, StepFacts, ZenonT(40) DEF Settling
  <2>3. que'[p].reserved = que[p].reserved
    BY <2>2, ZenonT(40) DEF Settled
  <2> QED
    BY <1>2, <2>1, <2>3, Zenon
<1>8. ASSUME NEW j \in Jobs, NEW q \in Queues, NEW s \in States, Arriving(t, j, q, s) PROVE Goal
  <2>1. \/ Shrinks(p) /\ que'[p].reserved = que[p].reserved
        \/ /\ Cardinality(Open(p)') <= Estimate(p)' /\ Estimate(p)' + que'[p].reserved <= MaxQueuable
    BY <1>8, <1>ArrivingFits, Zenon
  <2> QED
    BY <1>2, <2>1, Zenon
<1>9. ASSUME NEW j \in Jobs, NEW life \in {"live", "gone"}, Leaving(t, j, life) PROVE Goal
  <2>1. Shrinks(p)
    BY <1>9, <1>LeavingShrinks, Zenon
  <2>2. PICK jr \in JobRecord, qs \in [Queues -> QueueRecord], why \in SUBSET Causes :
          Left(j, job[j].qhdr, jr, qs, life, why) /\ RoomStep(qs)
    BY <1>9, Zenon DEF Leaving
  <2>3. que'[p].reserved = qs[p].reserved
    BY <2>2, Zenon DEF Left
  <2> QED
    BY <2>1, <2>2, <2>3, Zenon DEF RoomStep
<1> HIDE DEF Goal
<1>10. Goal
  BY <1>3, <1>4, <1>5, <1>6, <1>7, <1>8, <1>9, Zenon DEF Kinds, Goal
<1> QED
  BY <1>10, Zenon DEF Goal

\* No step lets the estimate fall below the open jobs or rise above the limit.
LEMMA EstimatedNext ==
  ASSUME Sizes, NEW t \in Threads, Step(t), Members, Kinds(t), Estimated
  PROVE  Estimated'
<1> SUFFICES ASSUME "overtaken" \notin blame', NEW p \in Queues
             PROVE  Cardinality(Open(p)') <= Estimate(p)' /\ Estimate(p)' <= MaxQueuable
  BY Zenon DEF Estimated
<1>1. Cardinality(Open(p)) <= Estimate(p) /\ Estimate(p) <= MaxQueuable
  BY StepFacts, ZenonT(40) DEF Estimated, Step
<1>2. Estimate(p) \in Int /\ Estimate(p)' \in Int /\ que'[p].reserved \in Nat /\ MaxQueuable \in Nat
  BY EstimateTypes, CountsAssumption, ZenonT(40)
<1>3. Shrinks(p) \/ (Cardinality(Open(p)') <= Estimate(p)'
                     /\ Estimate(p)' + que'[p].reserved <= MaxQueuable)
  BY <1>1, EstimateStep, ZenonT(40)
<1> QED
  BY <1>1, <1>2, <1>3, SMTT(30) DEF Shrinks

\* No step takes a place that another thread has reserved.
LEMMA RoomKeptNext ==
  ASSUME Sizes, NEW t \in Threads, Step(t), Members, Kinds(t), Estimated, RoomKept
  PROVE  RoomKept'
<1> SUFFICES ASSUME blame' \cap {"moved", "overtaken", "leaked", "bypassed"} = {}, NEW p \in Queues
             PROVE  Estimate(p)' + que'[p].reserved <= MaxQueuable
  BY Zenon DEF RoomKept
<1>1. Cardinality(Open(p)) <= Estimate(p) /\ Estimate(p) + que[p].reserved <= MaxQueuable
  BY StepFacts, Zenon DEF Estimated, RoomKept, Step
<1>2. /\ Estimate(p) \in Int /\ Estimate(p)' \in Int /\ que[p].reserved \in Nat
      /\ que'[p].reserved \in Nat /\ MaxQueuable \in Nat
      /\ Estimate(p) = que[p].num - que[p].st["COMPLETE"]
  BY EstimateTypes, CountsAssumption, Zenon
<1>3. "overtaken" \notin blame' /\ blame' \cap {"leaked", "bypassed"} = {}
  BY Zenon
<1>4. \/ /\ Shrinks(p)
         /\ \/ que'[p].reserved <= que[p].reserved
            \/ que'[p].reserved = que[p].reserved + 1 /\ ~Full(que[p])
      \/ Estimate(p)' + que'[p].reserved <= MaxQueuable
  BY <1>1, <1>3, EstimateStep, Zenon
<1>5. ~Full(que[p]) => Estimate(p) + que[p].reserved < MaxQueuable
  BY <1>2, SMTT(30) DEF Full
<1> QED
  BY <1>1, <1>2, <1>4, <1>5, SMTT(30) DEF Shrinks

-----------------------------------------------------------------------------
(* The counts of the server *)

\* The threads inside svr_setjobstate that have charged the server with the new
\* state s, and with the old state s.
ChargedNew(s) == {t \in Threads : at[t].op = "set" /\ at[t].new = s}

\* ... and those that have taken it off.
ChargedOld(s) == {t \in Threads : at[t].op = "set" /\ at[t].old = s}

\* The server's counts are right for state s, up to what is in flight.
ServerAt(s) == sv.st[s] = CountIn(alljobs, s) + InFlight(s)

\* The sets behind CountIn(alljobs, s).
InState(s) == {j \in alljobs : job[j].state = s}

\* The server's counts move when svr_setjobstate charges the server, the job's state
\* moves when it settles; what is in flight is the difference.
LEMMA ServerCountsNext ==
  ASSUME Sizes, NEW t \in Threads, Step(t), Members, Kinds(t), ServerCountsHold
  PROVE  ServerCountsHold'
<1>FlightShift. ASSUME NEW s
      PROVE  /\ InFlight(s) \in Int
             /\ InFlight(s)' = InFlight(s) + One(at'[t].op = "set" /\ at'[t].new = s)
                                           - One(at[t].op = "set" /\ at[t].new = s)
                                           - One(at'[t].op = "set" /\ at'[t].old = s)
                                           + One(at[t].op = "set" /\ at[t].old = s)
  <2> USE <1>FlightShift
  <2> DEFINE A == ChargedNew(s)
             B == ChargedOld(s)
  <2>1. \A u \in Threads \ {t} : at'[u] = at[u]
    BY StepFacts, Zenon
  <2>2. A \subseteq Threads /\ B \subseteq Threads /\ A' \ {t} = A \ {t} /\ B' \ {t} = B \ {t}
    BY <2>1, Zenon DEF ChargedNew, ChargedOld
  <2>3. /\ One(t \in A') = One(at'[t].op = "set" /\ at'[t].new = s)
        /\ One(t \in A) = One(at[t].op = "set" /\ at[t].new = s)
        /\ One(t \in B') = One(at'[t].op = "set" /\ at'[t].old = s)
        /\ One(t \in B) = One(at[t].op = "set" /\ at[t].old = s)
    BY Zenon DEF ChargedNew, ChargedOld, One
  <2>4. /\ InFlight(s) = Cardinality(A) - Cardinality(B)
        /\ InFlight(s)' = Cardinality(A') - Cardinality(B')
    BY Zenon DEF InFlight, ChargedNew, ChargedOld
  <2>5. /\ Cardinality(A) \in Nat /\ Cardinality(A') \in Nat
        /\ Cardinality(A') = Cardinality(A) + One(t \in A') - One(t \in A)
    BY <2>2, Shift, Zenon
  <2>6. /\ Cardinality(B) \in Nat /\ Cardinality(B') \in Nat
        /\ Cardinality(B') = Cardinality(B) + One(t \in B') - One(t \in B)
    BY <2>2, Shift, Zenon
  <2> HIDE DEF A, B
  <2>7. InFlight(s) \in Int
    BY <2>4, <2>5, <2>6, SMTT(30)
  <2>8. InFlight(s)' = InFlight(s) + One(t \in A') - One(t \in A) - One(t \in B') + One(t \in B)
    BY <2>4, <2>5, <2>6, OneType, SMTT(30)
  <2> QED
    BY <2>3, <2>7, <2>8, Zenon
<1>FlightSame. ASSUME NEW s, at' = at \/ (at[t].op # "set" /\ at'[t].op # "set")
      PROVE  InFlight(s) \in Int /\ InFlight(s)' = InFlight(s)
  <2> USE <1>FlightSame
  <2>1. /\ InFlight(s) \in Int
        /\ InFlight(s)' = InFlight(s) + One(at'[t].op = "set" /\ at'[t].new = s)
                                      - One(at[t].op = "set" /\ at[t].new = s)
                                      - One(at'[t].op = "set" /\ at'[t].old = s)
                                      + One(at[t].op = "set" /\ at[t].old = s)
    BY <1>FlightShift, Zenon
  <2>2. /\ One(at'[t].op = "set" /\ at'[t].new = s) = One(at[t].op = "set" /\ at[t].new = s)
        /\ One(at'[t].op = "set" /\ at'[t].old = s) = One(at[t].op = "set" /\ at[t].old = s)
    BY Zenon DEF One
  <2>3. \A a, b, c \in {0, 1} : \A i \in Int : i + a - a - b + b = i
    BY SMTT(30)
  <2> QED
    BY <2>1, <2>2, <2>3, OneType, Zenon
<1>InStateTypes. ASSUME NEW s \in States
      PROVE  /\ InState(s) \in SUBSET Jobs /\ InState(s)' \in SUBSET Jobs
             /\ Cardinality(InState(s)) \in Nat /\ Cardinality(InState(s)') \in Nat
             /\ ServerAt(s) <=> sv.st[s] = Cardinality(InState(s)) + InFlight(s)
             /\ ServerAt(s)' <=> sv'.st[s] = Cardinality(InState(s)') + InFlight(s)'
             /\ \A x : /\ x \in InState(s) <=> x \in alljobs /\ job[x].state = s
                       /\ x \in InState(s)' <=> x \in alljobs' /\ job'[x].state = s
             /\ sv.st \in [States -> Int] /\ sv.st[s] \in Int /\ sv'.st[s] \in Int
             /\ sv.num \in Nat /\ sv'.num \in Nat
  <2> USE <1>InStateTypes
  <2>1. alljobs \subseteq Jobs /\ alljobs' \subseteq Jobs
    BY Zenon DEF Step, Typed, TypeOK
  <2>2. InState(s) \in SUBSET Jobs /\ InState(s)' \in SUBSET Jobs
    BY <2>1, Zenon DEF InState
  <2>3. Cardinality(InState(s)) \in Nat /\ Cardinality(InState(s)') \in Nat
    BY <2>2, Countable, Zenon
  <2>4. /\ ServerAt(s) <=> sv.st[s] = Cardinality(InState(s)) + InFlight(s)
        /\ ServerAt(s)' <=> sv'.st[s] = Cardinality(InState(s)') + InFlight(s)'
    BY Zenon DEF ServerAt, CountIn, InState
  <2>5. sv \in ServerRecord /\ sv' \in ServerRecord
    BY StepFacts, Zenon
  <2>6. \A x : /\ x \in InState(s) <=> x \in alljobs /\ job[x].state = s
               /\ x \in InState(s)' <=> x \in alljobs' /\ job'[x].state = s
    BY Zenon DEF InState
  <2> QED
    BY <2>2, <2>3, <2>4, <2>5, <2>6, Zenon DEF ServerRecord
\* Nothing happens to the counts, to the jobs in the list or to what is in flight.
<1>ServerSame. ASSUME NEW s \in States, ServerAt(s), sv'.st = sv.st, alljobs' = alljobs,
                      \A x \in alljobs : job'[x].state = job[x].state,
                      at' = at \/ (at[t].op # "set" /\ at'[t].op # "set")
      PROVE  ServerAt(s)'
  <2> USE <1>ServerSame
  <2>1. InState(s)' = InState(s)
    BY Zenon DEF InState
  <2>2. InFlight(s)' = InFlight(s)
    BY <1>FlightSame, Zenon
  <2> QED
    BY <2>1, <2>2, <1>InStateTypes, ZenonT(40)
<1>ChargingServer. ASSUME NEW j \in Jobs, NEW new \in States, Charging(t, j, new),
            NEW s \in States, ServerAt(s)
      PROVE  ServerAt(s)'
  <2> USE <1>ChargingServer
  <2>1. /\ job[j].state \in States /\ sv.st \in [States -> Int] /\ job[j].state # new
        /\ sv'.st = Move(sv.st, job[j].state, new)
    BY StepFacts, <1>InStateTypes, ZenonT(40) DEF Charging
  <2>2. InState(s)' = InState(s)
    <3>1. alljobs \subseteq Jobs
      BY StepFacts, ZenonT(40)
    <3> QED
      BY <3>1, ZenonT(40) DEF InState, Charging, Same
  <2>3. /\ InFlight(s) \in Int
        /\ InFlight(s)' = InFlight(s) + One(at'[t].op = "set" /\ at'[t].new = s)
                                      - One(at[t].op = "set" /\ at[t].new = s)
                                      - One(at'[t].op = "set" /\ at'[t].old = s)
                                      + One(at[t].op = "set" /\ at[t].old = s)
    BY <1>FlightShift, Zenon
  <2>4. /\ One(at'[t].op = "set" /\ at'[t].new = s) = One(new = s)
        /\ One(at[t].op = "set" /\ at[t].new = s) = 0
        /\ One(at'[t].op = "set" /\ at'[t].old = s) = One(job[j].state = s)
        /\ One(at[t].op = "set" /\ at[t].old = s) = 0
    BY Zenon DEF Charging, One
  <2>5. sv'.st[s] = sv.st[s] + One(new = s) - One(job[j].state = s)
    BY <2>1, CountsAt, SMTT(30)
  <2>6. InFlight(s)' = InFlight(s) + One(new = s) - One(job[j].state = s)
    BY <2>3, <2>4, OneType, SMTT(30)
  <2>7. sv.st[s] = Cardinality(InState(s)) + InFlight(s) /\ Cardinality(InState(s)) \in Nat
    BY <1>InStateTypes, ZenonT(40)
  <2>8. sv'.st[s] = Cardinality(InState(s)') + InFlight(s)'
    BY <2>2, <2>3, <2>5, <2>6, <2>7, OneType
  <2> QED
    BY <2>8, <1>InStateTypes, Zenon
<1>SettlingServer. ASSUME NEW j \in Jobs, NEW new \in States, Settling(t, j, new),
            "overtaken" \notin blame', NEW s \in States, ServerAt(s)
      PROVE  ServerAt(s)' /\ sv'.num = sv.num
  <2> USE <1>SettlingServer
  <2>1. /\ job[j].state \in States /\ sv.st \in [States -> Int] /\ job[j].state # new
        /\ j \in alljobs /\ alljobs' = alljobs
    BY StepFacts, <1>InStateTypes, ZenonT(40) DEF Settling
  <2>2. PICK svc \in ServerRecord :
          /\ Settled(j, job[j].qhdr, new, svc) /\ svc.num = sv.num
          /\ \/ at' = at /\ svc.st = Move(sv.st, job[j].state, new)
             \/ /\ at[t].op = "set" /\ at[t].new = new /\ at'[t].op = "idle"
                /\ svc = sv /\ at[t].old = job[j].state
    BY StepFacts, ZenonT(40) DEF Settling
  <2>3. /\ \A x \in Jobs \ {j} : job'[x].state = job[x].state
        /\ job'[j].state = new /\ sv'.st = svc.st /\ sv'.num = svc.num
    BY <2>2, ZenonT(40) DEF Settled
  <2>4. /\ InState(s) \in SUBSET Jobs /\ InState(s)' \in SUBSET Jobs
        /\ \A x \in Jobs \ {j} : x \in InState(s)' <=> x \in InState(s)
        /\ j \in InState(s) <=> job[j].state = s
        /\ j \in InState(s)' <=> new = s
    BY <2>1, <2>3, <1>InStateTypes, ZenonT(40)
  <2>5. /\ Cardinality(InState(s)) \in Nat /\ Cardinality(InState(s)') \in Nat
        /\ Cardinality(InState(s)') = Cardinality(InState(s)) + One(j \in InState(s)')
                                                              - One(j \in InState(s))
    BY <2>4, JobShift, SMTT(30)
  <2>6. One(j \in InState(s)') = One(new = s) /\ One(j \in InState(s)) = One(job[j].state = s)
    BY <2>4, Zenon DEF One
  <2>7. sv.st[s] = Cardinality(InState(s)) + InFlight(s)
    BY <1>InStateTypes, ZenonT(40)
  <2>8. CASE at' = at /\ svc.st = Move(sv.st, job[j].state, new)
    <3>1. sv'.st[s] = sv.st[s] + One(new = s) - One(job[j].state = s)
      BY <2>1, <2>3, <2>8, CountsAt
    <3>2. InFlight(s) \in Int /\ InFlight(s)' = InFlight(s)
      BY <2>8, <1>FlightSame, Zenon
    <3>3. sv'.st[s] = Cardinality(InState(s)') + InFlight(s)'
      BY <2>5, <2>6, <2>7, <3>1, <3>2, OneType, SMTT(30)
    <3> QED
      BY <2>2, <2>3, <3>3, <1>InStateTypes, ZenonT(40)
  <2>9. CASE /\ at[t].op = "set" /\ at[t].new = new /\ at'[t].op = "idle"
             /\ svc = sv /\ at[t].old = job[j].state
    <3>1. /\ InFlight(s) \in Int
          /\ InFlight(s)' = InFlight(s) + One(at'[t].op = "set" /\ at'[t].new = s)
                                        - One(at[t].op = "set" /\ at[t].new = s)
                                        - One(at'[t].op = "set" /\ at'[t].old = s)
                                        + One(at[t].op = "set" /\ at[t].old = s)
      BY <1>FlightShift, ZenonT(40)
    <3>2. /\ One(at'[t].op = "set" /\ at'[t].new = s) = 0
          /\ One(at[t].op = "set" /\ at[t].new = s) = One(new = s)
          /\ One(at'[t].op = "set" /\ at'[t].old = s) = 0
          /\ One(at[t].op = "set" /\ at[t].old = s) = One(job[j].state = s)
      BY <2>9, Zenon DEF One
    <3>3. InFlight(s)' = InFlight(s) - One(new = s) + One(job[j].state = s)
      BY <3>1, <3>2, OneType
    <3>4. sv'.st[s] = Cardinality(InState(s)') + InFlight(s)'
      BY <2>3, <2>5, <2>6, <2>7, <2>9, <3>1, <3>3, OneType, SMTT(30)
    <3> QED
      BY <2>2, <2>3, <3>4, <1>InStateTypes, Zenon
  <2> QED
    BY ZenonT(40), <2>2, <2>8, <2>9
<1>ArrivingServer. ASSUME NEW j \in Jobs, NEW q \in Queues, NEW new \in States,
            Arriving(t, j, q, new), NEW s \in States, ServerAt(s), sv.num = Cardinality(alljobs)
      PROVE  ServerAt(s)' /\ sv'.num = Cardinality(alljobs')
  <2> USE <1>ArrivingServer
  <2>1. /\ sv.st \in [States -> Int] /\ j \notin alljobs /\ alljobs \subseteq Jobs
        /\ at' = at \/ (at[t].op # "set" /\ at'[t].op # "set")
    BY StepFacts, <1>InStateTypes, Zenon DEF Arriving
  <2>2. PICK qr \in QueueRecord : Arrived(j, q, qr, new)
    BY Zenon DEF Arriving
  <2>3. /\ \A x \in Jobs \ {j} : job'[x].state = job[x].state
        /\ job'[j].state = new /\ alljobs' = alljobs \cup {j}
        /\ sv'.num = sv.num + 1 /\ sv'.st = Raise(sv.st, new)
    BY <2>2, Zenon DEF Arrived
  <2>4. /\ InState(s) \in SUBSET Jobs /\ InState(s)' \in SUBSET Jobs
        /\ \A x \in Jobs \ {j} : x \in InState(s)' <=> x \in InState(s)
        /\ j \notin InState(s)
        /\ j \in InState(s)' <=> new = s
    BY <2>1, <2>3, <1>InStateTypes
  <2>5. /\ Cardinality(InState(s)) \in Nat /\ Cardinality(InState(s)') \in Nat
        /\ Cardinality(InState(s)') = Cardinality(InState(s)) + One(j \in InState(s)')
                                                              - One(j \in InState(s))
    BY <2>4, JobShift, Zenon
  <2>6. One(j \in InState(s)') = One(new = s) /\ One(j \in InState(s)) = 0
    BY <2>4, Zenon DEF One
  <2>7. sv.st[s] = Cardinality(InState(s)) + InFlight(s)
    BY <1>InStateTypes, Zenon
  <2>8. sv'.st[s] = sv.st[s] + One(new = s)
    BY <2>1, <2>3, CountsAt, SMTT(30)
  <2>9. InFlight(s) \in Int /\ InFlight(s)' = InFlight(s)
    BY <2>1, <1>FlightSame, Zenon
  <2>10. sv'.st[s] = Cardinality(InState(s)') + InFlight(s)'
    BY <2>5, <2>6, <2>7, <2>8, <2>9, OneType, SMTT(30)
  <2>11. sv'.num = Cardinality(alljobs')
    <3>1. /\ alljobs \in SUBSET Jobs /\ alljobs' \in SUBSET Jobs /\ j \in alljobs'
          /\ \A x \in Jobs \ {j} : x \in alljobs' <=> x \in alljobs
      BY <2>1, <2>3, Zenon
    <3>2. /\ Cardinality(alljobs) \in Nat
          /\ Cardinality(alljobs') = Cardinality(alljobs) + One(j \in alljobs') - One(j \in alljobs)
      BY <3>1, JobShift, Zenon
    <3>3. One(j \in alljobs') = 1 /\ One(j \in alljobs) = 0
      BY <2>1, <3>1, Zenon DEF One
    <3> QED
      BY <2>3, <3>2, <3>3, SMTT(30)
  <2> QED
    BY <2>10, <2>11, <1>InStateTypes, Zenon
<1>LeavingServer. ASSUME NEW j \in Jobs, NEW life \in {"live", "gone"}, Leaving(t, j, life),
                         blame' \cap {"unsettled", "recounted"} = {}, NEW s \in States,
                         ServerAt(s), sv.num = Cardinality(alljobs)
      PROVE  ServerAt(s)' /\ sv'.num = Cardinality(alljobs')
  <2> USE <1>LeavingServer
  <2>1. /\ sv.st \in [States -> Int] /\ j \in alljobs /\ alljobs \subseteq Jobs
        /\ at[t].op # "set" /\ at'[t].op # "set" /\ job[j].state \in States
    BY StepFacts, <1>InStateTypes, Zenon DEF Leaving
  <2>2. PICK jr \in JobRecord, qs \in [Queues -> QueueRecord], why \in SUBSET Causes :
          Left(j, job[j].qhdr, jr, qs, life, why) /\ jr.state = job[j].state
    BY Zenon DEF Leaving
  <2>3. /\ \A x \in Jobs \ {j} : job'[x].state = job[x].state
        /\ alljobs' = alljobs \ {j}
    BY <2>2, Zenon DEF Left
  <2>4. sv'.num = sv.num - 1 /\ sv'.st = Lower(sv.st, job[j].state)
    BY <2>2, Zenon DEF Left
  <2>5. /\ InState(s) \in SUBSET Jobs /\ InState(s)' \in SUBSET Jobs
        /\ \A x \in Jobs \ {j} : x \in InState(s)' <=> x \in InState(s)
        /\ j \notin InState(s)'
        /\ j \in InState(s) <=> job[j].state = s
    BY <2>1, <2>3, <1>InStateTypes
  <2>6. /\ Cardinality(InState(s)) \in Nat /\ Cardinality(InState(s)') \in Nat
        /\ Cardinality(InState(s)') = Cardinality(InState(s)) + One(j \in InState(s)')
                                                              - One(j \in InState(s))
    BY <2>5, JobShift
  <2>7. One(j \in InState(s)') = 0 /\ One(j \in InState(s)) = One(job[j].state = s)
    BY <2>5, Zenon DEF One
  <2>8. sv.st[s] = Cardinality(InState(s)) + InFlight(s)
    BY <1>InStateTypes, Zenon
  <2>9. sv'.st[s] = sv.st[s] - One(job[j].state = s)
    BY <2>1, <2>4, CountsAt, SMTT(30)
  <2>10. InFlight(s) \in Int /\ InFlight(s)' = InFlight(s)
    BY <2>1, <1>FlightSame, Zenon
  <2>11. sv'.st[s] = Cardinality(InState(s)') + InFlight(s)'
    BY <2>6, <2>7, <2>8, <2>9, <2>10, OneType, SMTT(30)
  <2>12. sv'.num = Cardinality(alljobs')
    <3>1. /\ alljobs \in SUBSET Jobs /\ alljobs' \in SUBSET Jobs /\ j \notin alljobs'
          /\ \A x \in Jobs \ {j} : x \in alljobs' <=> x \in alljobs
      BY <2>1, <2>3, Zenon
    <3>2. /\ Cardinality(alljobs) \in Nat
          /\ Cardinality(alljobs') = Cardinality(alljobs) + One(j \in alljobs') - One(j \in alljobs)
      BY <3>1, JobShift, Zenon
    <3>3. One(j \in alljobs') = 0 /\ One(j \in alljobs) = 1
      BY <2>1, <3>1, Zenon DEF One
    <3> QED
      BY <2>4, <3>2, <3>3, SMTT(30)
  <2> QED
    BY <2>11, <2>12, <1>InStateTypes, Zenon
<1> SUFFICES ASSUME blame' \cap {"overtaken", "unqueued", "unsettled", "moved", "recounted"} = {},
                    NEW s \in States
             PROVE  ServerAt(s)' /\ sv'.num = Cardinality(alljobs')
  <2>1. States # {}
    BY Zenon DEF States
  <2> QED
    BY <2>1, Zenon DEF ServerCountsHold, ServerAt
<1> DEFINE Goal == ServerAt(s)' /\ sv'.num = Cardinality(alljobs')
<1>1. /\ "overtaken" \notin blame' /\ blame' \cap {"unsettled", "recounted"} = {}
      /\ "unqueued" \notin blame' /\ "unsettled" \notin blame'
  BY Zenon
<1>2. ServerAt(s) /\ sv.num = Cardinality(alljobs) /\ alljobs \subseteq Jobs /\ "moved" \notin blame
  BY StepFacts, Zenon DEF ServerCountsHold, ServerAt, Step
<1>3. CASE Quiet(t)
  <2>1. sv' = sv /\ alljobs' = alljobs /\ \A x \in alljobs : job'[x].state = job[x].state
    BY <1>2, <1>3, Zenon DEF Quiet, Same
  <2>2. at' = at \/ (at[t].op # "set" /\ at'[t].op # "set")
    BY <1>1, <1>3, Zenon DEF Quiet
  <2> QED
    BY <1>2, <2>1, <2>2, <1>ServerSame, Zenon
<1>4. ASSUME NEW j \in Jobs, NEW n \in States, Charging(t, j, n) PROVE Goal
  <2>1. sv'.num = sv.num /\ alljobs' = alljobs
    BY <1>4, Zenon DEF Charging
  <2> QED
    BY <1>2, <1>4, <2>1, <1>ChargingServer, Zenon
<1>5. ASSUME NEW j \in Jobs, Aside(j) PROVE Goal
  <2>1. j \notin alljobs
    BY <1>2, <1>5, Whereabouts, Zenon DEF Aside, Step
  <2>2. /\ sv'.num = sv.num /\ sv'.st = sv.st /\ alljobs' = alljobs /\ at' = at
        /\ \A x \in alljobs : job'[x].state = job[x].state
    BY <1>1, <1>2, <1>5, <2>1, Zenon DEF Aside, Same
  <2> QED
    BY <1>2, <2>2, <1>ServerSame, Zenon
<1>6. ASSUME NEW j \in Jobs PROVE ~Dooming(t, j)
  BY <1>1, Zenon DEF Dooming
<1>7. ASSUME NEW j \in Jobs, NEW n \in States, Settling(t, j, n) PROVE Goal
  <2>1. alljobs' = alljobs
    BY <1>7, Zenon DEF Settling
  <2> QED
    BY <1>1, <1>2, <1>7, <2>1, <1>SettlingServer, Zenon
<1>8. ASSUME NEW j \in Jobs, NEW q \in Queues, NEW n \in States, Arriving(t, j, q, n) PROVE Goal
  BY <1>2, <1>8, <1>ArrivingServer, Zenon
<1>9. ASSUME NEW j \in Jobs, NEW life \in {"live", "gone"}, Leaving(t, j, life) PROVE Goal
  BY <1>1, <1>2, <1>9, <1>LeavingServer, Zenon
<1> HIDE DEF Goal
<1>10. Goal
  BY <1>3, <1>4, <1>5, <1>6, <1>7, <1>8, <1>9, Zenon DEF Kinds, Goal
<1> QED
  BY <1>10, Zenon DEF Goal

-----------------------------------------------------------------------------
(* No job is stranded *)

\* A live job outside all queues is on its way into one.
Carried == \A j \in Jobs : job[j].life = "live" /\ job[j].qhdr = None =>
             \E t \in Threads : at[t].op = "enque" /\ at[t].job = j

\* A job leaves a queue only on a thread that has a place for it, and the place is
\* still free when svr_enquejob asks for it.
LEMMA NoJobStrandedNext ==
  ASSUME Sizes, NEW t \in Threads, Step(t), PlacesKept, Members, RoomKept, Kinds(t), NoJobStranded
  PROVE  NoJobStranded'
\* Every thread that was on its way with a job still is.
<1>CarriedSame. ASSUME Carried,
                       \A x \in Jobs : job'[x].life = "live" /\ job'[x].qhdr = None =>
                                         job[x].life = "live" /\ job[x].qhdr = None,
                       at' = at \/ at[t].op # "enque"
      PROVE  Carried'
  <2> USE <1>CarriedSame
  <2> SUFFICES ASSUME NEW x \in Jobs, job'[x].life = "live", job'[x].qhdr = None
               PROVE  \E u \in Threads : at'[u].op = "enque" /\ at'[u].job = x
    BY Zenon DEF Carried
  <2>1. PICK u \in Threads : at[u].op = "enque" /\ at[u].job = x
    BY Zenon DEF Carried
  <2>2. at'[u] = at[u]
    BY <2>1, StepFacts, Zenon
  <2> QED
    BY <2>1, <2>2, Zenon
<1>NotTurnedAway. ASSUME Quiet(t), blame' \cap {"moved", "overtaken", "leaked", "bypassed"} = {}
      PROVE  at' = at \/ at[t].op # "enque"
  <2> USE <1>NotTurnedAway
  <2> SUFFICES ASSUME at' # at, at[t].op = "enque" PROVE FALSE
    BY Zenon
  <2>1. /\ "moved" \notin blame /\ TypeOK /\ WaitOK(at[t])
        /\ blame \cap {"moved", "overtaken", "leaked", "bypassed"} = {}
    BY StepFacts, Zenon DEF Step, Typed, WaitsOK
  <2>2. at[t].dest \in Queues
    BY <2>1, Zenon DEF WaitOK
  <2> DEFINE d == at[t].dest
  <2>3. Full(GivenBack(d))
    BY <2>1, Zenon DEF Quiet, Members
  <2>4. /\ que[d].reserved > 0
        /\ GivenBack(d).num = que[d].num /\ GivenBack(d).st = que[d].st
        /\ GivenBack(d).reserved = que[d].reserved - 1
    BY <2>1, <2>2, PlaceToGiveBack, Zenon
  <2>5. que[d].num - que[d].st["COMPLETE"] + (que[d].reserved - 1) >= MaxQueuable
    BY <2>3, <2>4, Zenon DEF Full
  <2>6. que[d].num - que[d].st["COMPLETE"] + que[d].reserved <= MaxQueuable
    BY <2>1, <2>2, Zenon DEF RoomKept, Estimate
  <2>7. que[d].num \in Int /\ que[d].st["COMPLETE"] \in Int /\ que[d].reserved \in Nat
        /\ MaxQueuable \in Nat
    BY <2>2, EstimateTypes, CountsAssumption, Zenon
  <2> QED
    BY <2>5, <2>6, <2>7
<1>CarriedNext. ASSUME Carried, blame' \cap {"moved", "overtaken", "leaked", "bypassed"} = {}
      PROVE  Carried'
  <2> USE <1>CarriedNext
  <2>1. None \notin Queues /\ "moved" \notin blame
    BY StepFacts, Zenon
  <2>2. CASE Quiet(t)
    <3>1. at' = at \/ at[t].op # "enque"
      BY <2>2, <1>NotTurnedAway, Zenon
    <3> QED
      BY <2>2, <3>1, <1>CarriedSame, Zenon DEF Quiet, Same
  <2>3. ASSUME NEW j \in Jobs, NEW n \in States, Charging(t, j, n) PROVE Carried'
    BY <2>3, <1>CarriedSame, Zenon DEF Charging, Same
  <2>4. ASSUME NEW j \in Jobs, Aside(j) PROVE Carried'
    BY <2>4, <1>CarriedSame, Zenon DEF Aside, Same
  <2>5. ASSUME NEW j \in Jobs, Dooming(t, j) PROVE Carried'
    BY <2>5, <1>CarriedSame, Zenon DEF Dooming, Same
  <2>6. ASSUME NEW j \in Jobs, NEW n \in States, Settling(t, j, n) PROVE Carried'
    <3>1. PICK svc \in ServerRecord : Settled(j, job[j].qhdr, n, svc)
      BY <2>6, StepFacts, Zenon DEF Settling
    <3>2. \A x \in Jobs : job'[x].life = job[x].life /\ job'[x].qhdr = job[x].qhdr
      BY <3>1, Zenon DEF Settled
    <3> QED
      BY <2>6, <3>2, <1>CarriedSame, Zenon DEF Settling
  <2>7. ASSUME NEW j \in Jobs, NEW q \in Queues, NEW n \in States, Arriving(t, j, q, n) PROVE Carried'
    <3>1. PICK qr \in QueueRecord : Arrived(j, q, qr, n)
      BY <2>7 DEF Arriving
    <3>2. job'[j].qhdr = q /\ \A x \in Jobs \ {j} : job'[x] = job[x]
      BY <3>1, Zenon DEF Arrived
    <3> SUFFICES ASSUME NEW x \in Jobs, job'[x].life = "live", job'[x].qhdr = None
                 PROVE  \E u \in Threads : at'[u].op = "enque" /\ at'[u].job = x
      BY Zenon DEF Carried
    <3>3. x # j /\ job[x].life = "live" /\ job[x].qhdr = None
      BY <2>1, <3>2, Zenon
    <3>4. PICK u \in Threads : at[u].op = "enque" /\ at[u].job = x
      BY <3>3, Zenon DEF Carried
    <3>5. at'[u] = at[u]
      BY <2>7, <3>3, <3>4, StepFacts, Zenon DEF Arriving
    <3> QED
      BY <3>4, <3>5, Zenon
  <2>8. ASSUME NEW j \in Jobs, NEW life \in {"live", "gone"}, Leaving(t, j, life) PROVE Carried'
    <3>1. PICK jr \in JobRecord, qs \in [Queues -> QueueRecord], why \in SUBSET Causes :
            Left(j, job[j].qhdr, jr, qs, life, why)
      BY <2>8, Zenon DEF Leaving
    <3>2. job'[j].life = life /\ \A x \in Jobs \ {j} : job'[x] = job[x]
      BY <3>1, Zenon DEF Left
    <3> SUFFICES ASSUME NEW x \in Jobs, job'[x].life = "live", job'[x].qhdr = None
                 PROVE  \E u \in Threads : at'[u].op = "enque" /\ at'[u].job = x
      BY Zenon DEF Carried
    <3>3. CASE x = j
      BY <2>8, <3>2, <3>3, Zenon DEF Leaving
    <3>4. CASE x # j
      <4>1. PICK u \in Threads : at[u].op = "enque" /\ at[u].job = x
        BY <3>2, <3>4, Zenon DEF Carried
      <4>2. at'[u] = at[u]
        BY <2>8, <4>1, StepFacts, Zenon DEF Leaving
      <4> QED
        BY <4>1, <4>2, Zenon
    <3> QED
      BY <3>3, <3>4, Zenon
  <2> QED
    BY <2>2, <2>3, <2>4, <2>5, <2>6, <2>7, <2>8, Zenon DEF Kinds
<1> SUFFICES ASSUME blame' \cap {"moved", "overtaken", "leaked", "bypassed"} = {}
             PROVE  Carried' /\ \A q \in Queues : que'[q].reserved = Cardinality(Movers(q)')
  BY Zenon DEF NoJobStranded, Carried, Movers
<1>1. Carried /\ \A q \in Queues : que[q].reserved = Cardinality(Movers(q))
  BY Zenon DEF NoJobStranded, Carried, Movers, Step
<1>2. Carried'
  BY <1>1, <1>CarriedNext, Zenon
<1>3. "leaked" \notin blame'
  BY Zenon
<1> QED
  BY <1>1, <1>2, <1>3, PlacesFromStep, Zenon DEF Step
=============================================================================
