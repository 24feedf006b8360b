-------------------------- MODULE ThreadPoolProofs --------------------------
(***************************************************************************)
(* The pool's safety properties for every number of workers, work items    *)
(* and failing pthread_create calls.  The invariant that carries them is   *)
(* PoolInv; what each conjunct adds to the properties is said at its       *)
(* definition.                                                             *)
(***************************************************************************)
EXTENDS ThreadPool, FiniteSetTheorems, SequenceTheorems, TLAPS

\* A busy worker has an item, which it will report as finished.
BusyHasWork == \A t \in Threads : pc[t] = "busy" => doing[t] \in Work

\* Before the pool starts, its workers nap and none waits on the condition.
NoneWaitsEarly == ~started => \A t \in Threads : pc[t] \in {"none", "starting", "asleep"}

\* Only a pool with an idle time has workers that time out.
OnlyTimedExpires ==
  \A t \in Threads : timedout[t] \/ pc[t] \in {"timedwait", "expired"} => Timed

\* A worker in the untimed wait with a stale ETIMEDOUT cannot leave when it is
\* woken: it chose that wait at or below the minimum, and the pool does not grow
\* while anyone is idle.
StaleTimeoutHarmless ==
  \A t \in Threads : pc[t] = "waiting" /\ timedout[t] => nthreads <= MinThreads

\* Nobody waits for work in a pool that is being destroyed.
DestroyWakesAll == destroy => At(WaitPC) = {}

\* A pool without workers and with work has had a failing pthread_create.
EmptyPoolFailed == queue # <<>> /\ ~destroy /\ nthreads = 0 => failures > 0

PoolInv ==
  /\ TypeOK /\ CountersExact /\ WakeupPerItem
  /\ BusyHasWork /\ NoneWaitsEarly /\ OnlyTimedExpires
  /\ StaleTimeoutHarmless /\ DestroyWakesAll /\ EmptyPoolFailed

-----------------------------------------------------------------------------
(* Counting. *)

\* A set of workers is finite, and larger sets have more members.
LEMMA WorkersFinite ==
  ASSUME NEW A \in SUBSET Threads
  PROVE  IsFiniteSet(A) /\ Cardinality(A) \in Nat
BY PoolAssumption, FS_Subset, FS_CardinalityType

\* How many workers of A are in B, when B holds A, all of A but t, or A and t.
LEMMA CountSubset ==
  ASSUME NEW A \in SUBSET Threads, NEW B \in SUBSET Threads, NEW t \in Threads
  PROVE  /\ A \subseteq B => Cardinality(A) <= Cardinality(B)
         /\ A \ {t} \subseteq B => Cardinality(A) <= Cardinality(B) + 1
         /\ A \cup {t} \subseteq B /\ t \notin A => Cardinality(A) + 1 <= Cardinality(B)
<1>1. /\ IsFiniteSet(A) /\ Cardinality(A) \in Nat
      /\ IsFiniteSet(B) /\ Cardinality(B) \in Nat
  BY WorkersFinite
<1>2. \A S : S \subseteq B => Cardinality(S) <= Cardinality(B)
  BY <1>1, FS_Subset
<1>3. Cardinality(A \ {t}) = IF t \in A THEN Cardinality(A) - 1 ELSE Cardinality(A)
  BY <1>1, FS_RemoveElement
<1>4. Cardinality(A \cup {t}) = IF t \in A THEN Cardinality(A) ELSE Cardinality(A) + 1
  BY <1>1, FS_AddElement
<1> QED
  BY <1>1, <1>2, <1>3, <1>4

\* A set of workers has none exactly if it is empty.
LEMMA CountZero ==
  ASSUME NEW A \in SUBSET Threads
  PROVE  Cardinality(A) = 0 <=> A = {}
BY WorkersFinite, FS_EmptySet

\* Worker t joins or leaves a set of workers.
LEMMA JoinLeave ==
  ASSUME NEW A \in SUBSET Threads, NEW t \in Threads
  PROVE  /\ Cardinality(A) \in Nat
         /\ t \in A => /\ Cardinality(A \cup {t}) = Cardinality(A)
                       /\ Cardinality(A \ {t}) = Cardinality(A) - 1
         /\ t \notin A => /\ Cardinality(A \cup {t}) = Cardinality(A) + 1
                          /\ Cardinality(A \ {t}) = Cardinality(A)
BY WorkersFinite, FS_AddElement, FS_RemoveElement

-----------------------------------------------------------------------------
(* The critical sections of a worker, by how they end. *)

\* tp_idle_threads with worker t counted.
IdleWith(t) == IF pc[t] \in IdlePC THEN idle ELSE idle + 1

\* What they have in common.
OwnStep(t) ==
  /\ pc[t] \in PC \ {"none"}
  /\ UNCHANGED <<started, destroy, fresh, cancelled>>
  /\ finished' = finished \/ (pc[t] = "busy" /\ finished' = finished \cup {doing[t]})

NapStep(t) ==
  /\ OwnStep(t) /\ ~started /\ pc[t] \notin IdlePC /\ idle' = idle + 1
  /\ pc' = [pc EXCEPT ![t] = "asleep"]
  /\ UNCHANGED <<queue, nthreads, timedout, doing, destroyer, failures>>

WaitStep(t) ==
  /\ OwnStep(t) /\ started /\ queue = <<>> /\ ~destroy /\ idle' = IdleWith(t) /\ Wait(t)

TakeStep(t) ==
  /\ OwnStep(t) /\ started /\ queue # <<>> /\ ~destroy /\ idle' = IdleWith(t) - 1 /\ Take(t)

LeaveStep(t) ==
  /\ OwnStep(t) /\ started /\ idle' = IdleWith(t) - 1 /\ UNCHANGED queue
  /\ pc[t] = "busy" \/ destroy \/ (timedout[t] /\ nthreads > MinThreads)
  /\ Exit(t)
  /\ doing' = [doing EXCEPT ![t] = None]

\* Loop, entered with the right count, ends in one of three ways.
LEMMA LoopKinds ==
  ASSUME NEW t \in Threads, OwnStep(t), started, Loop(t, IdleWith(t))
  PROVE  WaitStep(t) \/ TakeStep(t) \/ LeaveStep(t)
BY DEF Loop, Proceed, MayLeave, WaitStep, TakeStep, LeaveStep

\* So does every step of a worker, or it goes to sleep because the pool has not
\* been started.
LEMMA WorkerKinds ==
  ASSUME PoolInv, NEW t \in Threads, WorkerStep(t)
  PROVE  NapStep(t) \/ WaitStep(t) \/ TakeStep(t) \/ LeaveStep(t)
<1>1. idle \in Nat /\ pc[t] \in PC
  BY DEF PoolInv, TypeOK
<1>2. pc[t] \notin {"none", "starting", "asleep"} => started
  BY DEF PoolInv, NoneWaitsEarly
<1>3. CASE Begin(t)
  <2>1. OwnStep(t) /\ pc[t] \notin IdlePC
    BY <1>3 DEF Begin, OwnStep, PC, IdlePC
  <2>2. NapStep(t) \/ (started /\ Loop(t, IdleWith(t)))
    BY <1>3, <2>1 DEF Begin, EnterLoop, NapStep, IdleWith
  <2> QED
    BY <2>1, <2>2, LoopKinds
<1>4. CASE Resume(t)
  <2>1. OwnStep(t) /\ pc[t] \in IdlePC /\ started
    BY <1>2, <1>4 DEF Resume, OwnStep, PC, IdlePC
  <2> QED
    BY <1>4, <2>1, LoopKinds DEF Resume, IdleWith
<1>5. CASE ResumeExpired(t)
  <2>1. OwnStep(t) /\ pc[t] \in IdlePC /\ started
    BY <1>2, <1>5 DEF ResumeExpired, OwnStep, PC, IdlePC
  <2> QED
    BY <1>5, <2>1
    DEF ResumeExpired, Proceed, MayLeave, IdleWith, WaitStep, TakeStep, LeaveStep
<1>6. CASE FinishWork(t)
  <2>1. OwnStep(t) /\ pc[t] \notin IdlePC
    BY <1>6 DEF FinishWork, OwnStep, PC, IdlePC
  <2>2. NapStep(t) \/ (started /\ Loop(t, IdleWith(t)))
    BY <1>6, <2>1 DEF FinishWork, EnterLoop, NapStep, IdleWith
  <2> QED
    BY <2>1, <2>2, LoopKinds
<1>7. CASE Cancel(t)
  <2>1. OwnStep(t) /\ pc[t] \notin IdlePC /\ started /\ pc[t] = "busy"
    BY <1>2, <1>7 DEF Cancel, OwnStep, PC, IdlePC
  <2>2. idle' = IdleWith(t) - 1
    BY <1>1, <1>7, <2>1 DEF Cancel, IdleWith
  <2> QED
    BY <1>7, <2>1, <2>2 DEF Cancel, LeaveStep
<1> QED
  BY <1>3, <1>4, <1>5, <1>6, <1>7 DEF WorkerStep

-----------------------------------------------------------------------------
\* The counters when worker t moves to v.
LEMMA MoveCounts ==
  ASSUME PoolInv, NEW t \in Threads, NEW v \in PC, pc' = [pc EXCEPT ![t] = v]
  PROVE  /\ v \in IdlePC => Cardinality(At(IdlePC)') = IdleWith(t)
         /\ v \notin IdlePC => Cardinality(At(IdlePC)') = IdleWith(t) - 1
         /\ pc[t] # "none" /\ v # "none" => Cardinality(At(PC \ {"none"})') = nthreads
         /\ pc[t] # "none" /\ v = "none" => Cardinality(At(PC \ {"none"})') = nthreads - 1
         /\ pc[t] = "none" /\ v # "none" => Cardinality(At(PC \ {"none"})') = nthreads + 1
<1> DEFINE A == At(IdlePC)
           L == At(PC \ {"none"})
<1>0. /\ pc \in [Threads -> PC] /\ idle \in Nat /\ nthreads \in Nat
      /\ idle = Cardinality(A) /\ nthreads = Cardinality(L)
  BY DEF PoolInv, TypeOK, CountersExact
<1>1. /\ A \in SUBSET Threads /\ L \in SUBSET Threads
      /\ t \in A <=> pc[t] \in IdlePC
      /\ t \in L <=> pc[t] # "none"
  BY <1>0 DEF At
<1>2. /\ v \in IdlePC => A' = A \cup {t}
      /\ v \notin IdlePC => A' = A \ {t}
  BY <1>0 DEF At
<1>3. /\ v # "none" => L' = L \cup {t}
      /\ v = "none" => L' = L \ {t}
  BY <1>0 DEF At
<1> HIDE DEF A, L
<1>4. /\ v \in IdlePC => Cardinality(A') = IdleWith(t)
      /\ v \notin IdlePC => Cardinality(A') = IdleWith(t) - 1
  <2>1. /\ t \in A => Cardinality(A \cup {t}) = idle /\ Cardinality(A \ {t}) = idle - 1
        /\ t \notin A => Cardinality(A \cup {t}) = idle + 1 /\ Cardinality(A \ {t}) = idle
    BY <1>0, <1>1, JoinLeave
  <2>2. /\ t \in A => IdleWith(t) = idle
        /\ t \notin A => IdleWith(t) = idle + 1 /\ IdleWith(t) - 1 = idle
    BY <1>0, <1>1 DEF IdleWith
  <2> QED
    BY <1>2, <2>1, <2>2
<1>5. /\ pc[t] # "none" /\ v # "none" => Cardinality(L') = nthreads
      /\ pc[t] # "none" /\ v = "none" => Cardinality(L') = nthreads - 1
      /\ pc[t] = "none" /\ v # "none" => Cardinality(L') = nthreads + 1
  BY ZenonT(40), <1>0, <1>1, <1>3, JoinLeave
<1> QED
  BY <1>4, <1>5 DEF A, L

(* Every step keeps the invariant.  The workers a queued item can count on:  *)
Reliable == {t \in At({"signalled"}) : ~(timedout[t] /\ nthreads > MinThreads)}

\* A worker goes to sleep: nobody else is concerned.
LEMMA NapKeeps ==
  ASSUME PoolInv, NEW t \in Threads, NapStep(t)
  PROVE  PoolInv'
<1> USE DEF PoolInv, NapStep, OwnStep
<1>1. pc[t] = "starting"
  BY DEF NoneWaitsEarly, IdlePC
<1>2. TypeOK'
  BY <1>1 DEF TypeOK, PC
<1>3. CountersExact'
  <2>1. "asleep" \in IdlePC /\ "asleep" \in PC \ {"none"}
    BY DEF PC, IdlePC
  <2>2. Cardinality(At(IdlePC)') = idle + 1 /\ Cardinality(At(PC \ {"none"})') = nthreads
    BY <2>1, MoveCounts DEF IdleWith
  <2> QED
    BY <2>2 DEF CountersExact, At
<1>4. WakeupPerItem'
  BY DEF WakeupPerItem
<1>5. BusyHasWork' /\ NoneWaitsEarly' /\ OnlyTimedExpires' /\ StaleTimeoutHarmless'
  BY DEF BusyHasWork, NoneWaitsEarly, OnlyTimedExpires, StaleTimeoutHarmless, TypeOK
<1>6. DestroyWakesAll' /\ EmptyPoolFailed'
  BY DEF DestroyWakesAll, EmptyPoolFailed, At, WaitPC, TypeOK
<1> QED
  BY <1>2, <1>3, <1>4, <1>5, <1>6

\* A worker waits: the queue is empty, so that no item lacks a wake-up; the wait
\* is untimed only at or below the minimum, or when nobody ever times out.
LEMMA WaitKeeps ==
  ASSUME PoolInv, NEW t \in Threads, WaitStep(t)
  PROVE  PoolInv'
<1> USE DEF PoolInv, WaitStep, OwnStep, Wait
<1> DEFINE w == IF nthreads <= MinThreads \/ ~Timed THEN "waiting" ELSE "timedwait"
<1>1. pc' = [pc EXCEPT ![t] = w] /\ w \in WaitPC /\ w \in IdlePC /\ w \in PC \ {"none"}
  BY DEF PC, IdlePC, WaitPC
<1>2. TypeOK'
  BY <1>1, PoolAssumption DEF TypeOK, BusyHasWork, IdleWith
<1>3. CountersExact'
  <2>1. Cardinality(At(IdlePC)') = IdleWith(t) /\ Cardinality(At(PC \ {"none"})') = nthreads
    BY <1>1, MoveCounts
  <2> QED
    BY <2>1 DEF CountersExact, At
<1>4. WakeupPerItem'
  <2>1. Reliable' \in SUBSET Threads /\ Len(queue') = 0
    BY EmptySeq DEF Reliable, At
  <2> QED
    BY <2>1, WorkersFinite DEF WakeupPerItem, Reliable
<1>5. BusyHasWork' /\ NoneWaitsEarly'
  BY <1>1 DEF BusyHasWork, NoneWaitsEarly, TypeOK, WaitPC
<1>6. OnlyTimedExpires'
  BY <1>1 DEF OnlyTimedExpires, TypeOK
<1>7. StaleTimeoutHarmless'
  BY <1>1 DEF OnlyTimedExpires, StaleTimeoutHarmless, TypeOK
<1>8. DestroyWakesAll' /\ EmptyPoolFailed'
  BY DEF DestroyWakesAll, EmptyPoolFailed
<1> QED
  BY <1>2, <1>3, <1>4, <1>5, <1>6, <1>7, <1>8

\* A worker takes an item: one item and at most one reliable worker fewer.
LEMMA TakeKeeps ==
  ASSUME PoolInv, NEW t \in Threads, TakeStep(t)
  PROVE  PoolInv'
<1> USE DEF PoolInv, TakeStep, OwnStep, Take
<1>1. /\ Head(queue) \in Work /\ Tail(queue) \in Seq(Work)
      /\ Len(Tail(queue)) = Len(queue) - 1 /\ Len(queue) \in Nat
  BY HeadTailProperties, LenProperties DEF TypeOK
<1>2. /\ Cardinality(At(IdlePC)') = IdleWith(t) - 1 /\ IdleWith(t) - 1 \in Nat
      /\ Cardinality(At(PC \ {"none"})') = nthreads
  <2>1. "busy" \in PC \ {"none"} /\ "busy" \notin IdlePC
    BY DEF PC, IdlePC
  <2>2. /\ Cardinality(At(IdlePC)') = IdleWith(t) - 1
        /\ Cardinality(At(PC \ {"none"})') = nthreads
    BY <2>1, MoveCounts
  <2>3. At(IdlePC)' \in SUBSET Threads
    BY DEF At
  <2> QED
    BY <2>2, <2>3, WorkersFinite
<1>3. TypeOK'
  BY <1>1, <1>2 DEF TypeOK, BusyHasWork, PC
<1>4. CountersExact'
  BY <1>2 DEF CountersExact, At
<1>5. WakeupPerItem'
  <2>1. Reliable \in SUBSET Threads /\ Reliable' \in SUBSET Threads
    BY DEF Reliable, At
  <2>2. Reliable \ {t} \subseteq Reliable'
    BY DEF Reliable, At, TypeOK
  <2>3. Cardinality(Reliable) <= Cardinality(Reliable') + 1
    BY <2>1, <2>2, CountSubset
  <2>4. At(WaitPC)' # {} => At(WaitPC) # {}
    BY DEF At, WaitPC, TypeOK
  <2>5. Cardinality(Reliable) \in Nat /\ Cardinality(Reliable') \in Nat
    BY <2>1, WorkersFinite
  <2> QED
    BY <1>1, <2>3, <2>4, <2>5 DEF WakeupPerItem, Reliable
<1>6. BusyHasWork' /\ NoneWaitsEarly'
  BY <1>1 DEF BusyHasWork, NoneWaitsEarly, TypeOK
<1>7. OnlyTimedExpires' /\ StaleTimeoutHarmless'
  BY DEF OnlyTimedExpires, StaleTimeoutHarmless, TypeOK
<1>8. DestroyWakesAll' /\ EmptyPoolFailed'
  <2>1. nthreads' = nthreads /\ failures' = failures
    OBVIOUS
  <2> QED
    BY <2>1 DEF DestroyWakesAll, EmptyPoolFailed
<1> QED
  BY <1>3, <1>4, <1>5, <1>6, <1>7, <1>8

\* A worker leaves: it is not one a queued item counts on, and if it was the last
\* one then work_thread_cleanup tried to replace it.
LEMMA LeaveKeeps ==
  ASSUME PoolInv, NEW t \in Threads, LeaveStep(t)
  PROVE  PoolInv'
<1> USE DEF PoolInv, LeaveStep, OwnStep
<1> DEFINE n == nthreads - 1
<1>1. PICK v \in {"none", "starting"} :
        /\ pc' = [pc EXCEPT ![t] = v] /\ timedout' = [timedout EXCEPT ![t] = FALSE]
        /\ nthreads' = IF v = "none" THEN n ELSE n + 1
        /\ failures' = failures \/ failures' = failures + 1
        /\ ~destroy /\ n = 0 /\ v = "none" => failures' = failures + 1
        /\ destroyer' = IF destroy /\ n = 0 /\ destroyer = "waiting"
                        THEN "notified" ELSE destroyer
  BY DEF Exit, Respawn
<1>2. /\ v \in PC /\ v \notin IdlePC /\ v \notin WaitPC
      /\ pc \in [Threads -> PC] /\ pc[t] # "none" /\ nthreads \in Nat
  BY DEF PC, IdlePC, WaitPC, TypeOK
<1>3. /\ Cardinality(At(IdlePC)') = idle' /\ idle' \in Nat
      /\ Cardinality(At(PC \ {"none"})') = nthreads' /\ nthreads' \in Nat
  <2>1. /\ Cardinality(At(IdlePC)') = IdleWith(t) - 1
        /\ Cardinality(At(PC \ {"none"})') = nthreads'
    <3>1. Cardinality(At(IdlePC)') = IdleWith(t) - 1
      BY <1>1, <1>2, MoveCounts
    <3>2. CASE v = "none"
      BY <1>1, <1>2, <3>1, <3>2, MoveCounts
    <3>3. CASE v = "starting"
      <4>1. nthreads' = nthreads /\ v # "none"
        BY <1>1, <1>2, <3>3
      <4> QED
        BY <1>1, <1>2, <3>1, <4>1, MoveCounts
    <3> QED
      BY <3>1, <3>2, <3>3
  <2>2. At(IdlePC)' \in SUBSET Threads /\ At(PC \ {"none"})' \in SUBSET Threads
    BY DEF At
  <2> QED
    BY <2>1, <2>2, WorkersFinite
<1>4. TypeOK'
  BY <1>1, <1>2, <1>3 DEF TypeOK, BusyHasWork
<1>5. CountersExact'
  BY <1>3 DEF CountersExact, At
<1>6. nthreads' <= nthreads
  BY <1>1, <1>2
<1>7. At(WaitPC)' \subseteq At(WaitPC)
  BY <1>1, <1>2 DEF At
<1>8. WakeupPerItem'
  <2>1. CASE destroy
    BY <1>7, <2>1 DEF WakeupPerItem, DestroyWakesAll
  <2>2. CASE ~destroy
    <3>1. Reliable \in SUBSET Threads /\ Reliable' \in SUBSET Threads
      BY DEF Reliable, At
    <3>2. t \notin Reliable
      BY <2>2 DEF Reliable, At
    <3>3. Reliable \subseteq Reliable'
      BY <1>1, <1>2, <1>4, <1>6, <3>2, PoolAssumption DEF Reliable, At, TypeOK
    <3>4. Cardinality(Reliable) <= Cardinality(Reliable')
      BY <3>1, <3>3, CountSubset
    <3>5. Len(queue) \in Nat /\ Cardinality(Reliable) \in Nat /\ Cardinality(Reliable') \in Nat
      BY <3>1, WorkersFinite, LenProperties DEF TypeOK
    <3> QED
      BY <1>7, <3>4, <3>5 DEF WakeupPerItem, Reliable
  <2> QED
    BY <2>1, <2>2
<1>9. BusyHasWork' /\ NoneWaitsEarly' /\ OnlyTimedExpires'
  BY <1>1, <1>2 DEF BusyHasWork, NoneWaitsEarly, OnlyTimedExpires, TypeOK
<1>10. StaleTimeoutHarmless'
  BY <1>1, <1>2, <1>3, <1>6, PoolAssumption DEF StaleTimeoutHarmless, TypeOK
<1>11. DestroyWakesAll'
  BY <1>7 DEF DestroyWakesAll
<1>12. EmptyPoolFailed'
  BY <1>1, <1>2 DEF EmptyPoolFailed, TypeOK
<1> QED
  BY <1>4, <1>5, <1>8, <1>9, <1>10, <1>11, <1>12

\* pthread_cond_signal, pthread_cond_broadcast and spurious wake-ups move waiting
\* workers to "signalled": the counters stay, and every reliable worker stays so.
LEMMA WakeUpKeeps ==
  ASSUME PoolInv, NEW S \in SUBSET At(WaitPC),
         pc' = WakeUp(S), timedout' = Woken(S, timedout), nthreads' = nthreads
  PROVE  /\ pc' \in [Threads -> PC] /\ timedout' \in [Threads -> BOOLEAN]
         /\ At(IdlePC)' = At(IdlePC) /\ At(PC \ {"none"})' = At(PC \ {"none"})
         /\ At(WaitPC)' = At(WaitPC) \ S
         /\ Reliable' = Reliable \cup S /\ S \cap Reliable = {}
         /\ \A t \in Threads : pc'[t] = "busy" => pc[t] = "busy"
         /\ OnlyTimedExpires' /\ StaleTimeoutHarmless'
<1> USE DEF PoolInv, TypeOK
<1>1. /\ \A t \in Threads : pc'[t] = IF t \in S THEN "signalled" ELSE pc[t]
      /\ \A t \in S : t \in Threads /\ pc[t] \in {"waiting", "timedwait"}
  BY DEF WakeUp, At, WaitPC
<1>2. \A t \in Threads :
        timedout'[t] = IF t \in S /\ pc[t] = "timedwait" THEN FALSE ELSE timedout[t]
  BY DEF Woken
<1>3. pc' \in [Threads -> PC] /\ timedout' \in [Threads -> BOOLEAN]
  BY DEF WakeUp, Woken, PC
<1>4. At(IdlePC)' = At(IdlePC) /\ At(PC \ {"none"})' = At(PC \ {"none"})
  BY <1>1 DEF At, IdlePC, PC
<1>5. At(WaitPC)' = At(WaitPC) \ S
  BY <1>1 DEF At, WaitPC
<1>6. S \cap Reliable = {}
  BY <1>1 DEF Reliable, At
<1>7. \A t \in S : ~(timedout'[t] /\ nthreads > MinThreads)
  <2>1. SUFFICES ASSUME NEW t \in S, timedout'[t], nthreads > MinThreads
                 PROVE  FALSE
    OBVIOUS
  <2>2. pc[t] = "waiting" /\ timedout[t] /\ t \in Threads
    BY <1>1, <1>2, <2>1
  <2>3. nthreads <= MinThreads
    BY <2>2 DEF StaleTimeoutHarmless
  <2> QED
    BY <2>1, <2>3, PoolAssumption
<1>8. Reliable' = Reliable \cup S
  BY <1>1, <1>2, <1>7 DEF Reliable, At
<1>9. OnlyTimedExpires' /\ StaleTimeoutHarmless'
  BY <1>1, <1>2 DEF OnlyTimedExpires, StaleTimeoutHarmless
<1> QED
  BY <1>1, <1>3, <1>4, <1>5, <1>6, <1>8, <1>9

\* An item is queued: a waiting worker is woken for it, or nobody waits.
LEMMA EnqueueKeeps ==
  ASSUME PoolInv, NEW w \in Work, enqueue_threadpool_request(w)
  PROVE  PoolInv'
<1> USE DEF PoolInv, enqueue_threadpool_request
<1>1. /\ queue' \in Seq(Work) /\ Len(queue') = Len(queue) + 1 /\ Len(queue) \in Nat
      /\ idle \in Nat /\ nthreads \in Nat /\ failures \in Nat
  BY AppendProperties, LenProperties DEF TypeOK
<1>2. /\ idle = Cardinality(At(IdlePC)) /\ nthreads = Cardinality(At(PC \ {"none"}))
      /\ At(IdlePC) \in SUBSET Threads /\ At(PC \ {"none"}) \in SUBSET Threads
      /\ At(IdlePC) \subseteq At(PC \ {"none"}) /\ At(WaitPC) \subseteq At(IdlePC)
  BY DEF CountersExact, At, PC, IdlePC, WaitPC
<1>3. CASE idle > 0 /\ Signal /\ UNCHANGED <<nthreads, failures>>
  <2>0. nthreads > 0
    <3>1. At(IdlePC) # {}
      BY <1>1, <1>2, <1>3, CountZero
    <3>2. At(PC \ {"none"}) # {}
      BY <1>2, <3>1
    <3>3. nthreads # 0
      BY <1>2, <3>2, CountZero
    <3> QED
      BY <1>1, <3>3
  <2>1. CASE At(WaitPC) = {} /\ UNCHANGED <<pc, timedout>>
    <3>1. TypeOK' /\ CountersExact'
      BY <1>1, <1>3, <2>1 DEF TypeOK, CountersExact, At
    <3>2. At(WaitPC)' = {}
      BY <2>1 DEF At
    <3>3. BusyHasWork' /\ NoneWaitsEarly' /\ OnlyTimedExpires' /\ StaleTimeoutHarmless'
      BY <1>3, <2>1 DEF BusyHasWork, NoneWaitsEarly, OnlyTimedExpires, StaleTimeoutHarmless
    <3> QED
      BY <1>1, <1>3, <2>0, <3>1, <3>2, <3>3 DEF WakeupPerItem, DestroyWakesAll, EmptyPoolFailed
  <2>2. ASSUME NEW t \in At(WaitPC), pc' = WakeUp({t}), timedout' = Woken({t}, timedout)
        PROVE  PoolInv'
    <3>1. /\ pc' \in [Threads -> PC] /\ timedout' \in [Threads -> BOOLEAN]
          /\ At(IdlePC)' = At(IdlePC) /\ At(PC \ {"none"})' = At(PC \ {"none"})
          /\ At(WaitPC)' = At(WaitPC) \ {t}
          /\ Reliable' = Reliable \cup {t} /\ t \notin Reliable
          /\ \A u \in Threads : pc'[u] = "busy" => pc[u] = "busy"
          /\ OnlyTimedExpires' /\ StaleTimeoutHarmless'
      BY <1>3, <2>2, WakeUpKeeps
    <3>2. TypeOK' /\ CountersExact'
      BY <1>1, <1>3, <3>1 DEF TypeOK, CountersExact
    <3>3. WakeupPerItem'
      <4>1. Reliable \in SUBSET Threads /\ t \in Threads
        BY DEF Reliable, At
      <4>2. Cardinality(Reliable') = Cardinality(Reliable) + 1 /\ Cardinality(Reliable) \in Nat
        BY <3>1, <4>1, JoinLeave
      <4>3. At(WaitPC) # {}
        BY <2>2
      <4> QED
        BY <1>1, <4>2, <4>3 DEF WakeupPerItem, Reliable
    <3>4. BusyHasWork' /\ EmptyPoolFailed'
      BY <1>1, <1>3, <2>0, <3>1 DEF BusyHasWork, EmptyPoolFailed
    <3>5. started /\ ~destroy
      BY <2>2 DEF NoneWaitsEarly, DestroyWakesAll, At, WaitPC
    <3> QED
      BY <3>1, <3>2, <3>3, <3>4, <3>5 DEF NoneWaitsEarly, DestroyWakesAll
  <2> QED
    BY <1>3, <2>1, <2>2 DEF Signal
<1>4. CASE idle = 0
  <2>1. At(WaitPC) = {}
    BY <1>2, <1>4, CountZero
  <2>2. ASSUME NEW t \in At({"none"}), pc' = [pc EXCEPT ![t] = "starting"],
               timedout' = [timedout EXCEPT ![t] = FALSE],
               nthreads' = nthreads + 1, failures' = failures
        PROVE  PoolInv'
    <3>1. /\ t \in Threads /\ pc[t] = "none" /\ "starting" \in PC /\ "starting" # "none"
          /\ "starting" \notin IdlePC /\ pc[t] \notin IdlePC /\ "starting" \notin WaitPC
          /\ pc \in [Threads -> PC]
      BY <2>2 DEF At, PC, IdlePC, WaitPC, TypeOK
    <3>2. /\ Cardinality(At(IdlePC)') = IdleWith(t) - 1
          /\ Cardinality(At(PC \ {"none"})') = nthreads + 1
      BY <2>2, <3>1, MoveCounts
    <3>3. TypeOK'
      BY <1>1, <2>2, <3>1 DEF TypeOK
    <3>4. CountersExact'
      BY <1>1, <2>2, <3>1, <3>2 DEF CountersExact, IdleWith
    <3>5. At(WaitPC)' = {}
      BY <2>1, <2>2, <3>1 DEF At
    <3>6. BusyHasWork' /\ NoneWaitsEarly' /\ OnlyTimedExpires'
      BY <2>2, <3>1 DEF BusyHasWork, NoneWaitsEarly, OnlyTimedExpires, TypeOK
    <3>7. StaleTimeoutHarmless'
      BY <3>3, <3>5 DEF StaleTimeoutHarmless, At, WaitPC
    <3> QED
      BY <1>1, <2>2, <3>3, <3>4, <3>5, <3>6, <3>7
      DEF WakeupPerItem, DestroyWakesAll, EmptyPoolFailed
  <2>3. ASSUME UNCHANGED <<pc, timedout, nthreads>>,
               failures' = failures + 1 \/ (failures' = failures /\ nthreads >= MaxThreads)
        PROVE  PoolInv'
    <3>1. TypeOK' /\ CountersExact'
      BY <1>1, <2>3 DEF TypeOK, CountersExact, At
    <3>2. At(WaitPC)' = {}
      BY SMTT(30), <2>1, <2>3 DEF At
    <3>3. BusyHasWork' /\ NoneWaitsEarly' /\ OnlyTimedExpires' /\ StaleTimeoutHarmless'
      BY <2>3 DEF BusyHasWork, NoneWaitsEarly, OnlyTimedExpires, StaleTimeoutHarmless
    <3> QED
      BY <1>1, <2>3, <3>1, <3>2, <3>3, PoolAssumption
      DEF WakeupPerItem, DestroyWakesAll, EmptyPoolFailed
  <2> QED
    BY <1>1, <1>4, <2>2, <2>3 DEF CreateWorker
<1> QED
  BY <1>1, <1>3, <1>4

\* A timed wait gives up: the worker was not one a queued item counts on.
LEMMA ExpireKeeps ==
  ASSUME PoolInv, NEW t \in Threads, Expire(t)
  PROVE  PoolInv'
<1> USE DEF PoolInv, Expire
<1>1. TypeOK'
  BY DEF TypeOK, PC
<1>2. At(IdlePC)' = At(IdlePC) /\ At(PC \ {"none"})' = At(PC \ {"none"})
  BY DEF TypeOK, At, IdlePC, PC
<1>3. Reliable' = Reliable /\ At(WaitPC)' \subseteq At(WaitPC)
  BY DEF TypeOK, Reliable, At, WaitPC
<1>4. CountersExact' /\ WakeupPerItem' /\ DestroyWakesAll'
  BY <1>2, <1>3 DEF CountersExact, WakeupPerItem, Reliable, DestroyWakesAll
<1>5. BusyHasWork' /\ NoneWaitsEarly' /\ OnlyTimedExpires' /\ StaleTimeoutHarmless'
  BY DEF TypeOK, BusyHasWork, NoneWaitsEarly, OnlyTimedExpires, StaleTimeoutHarmless
<1> QED
  BY <1>1, <1>4, <1>5 DEF EmptyPoolFailed

\* A spurious wake-up takes a worker out of the wait, and gives none away.
LEMMA SpuriousKeeps ==
  ASSUME PoolInv, NEW t \in Threads, SpuriousWakeup(t)
  PROVE  PoolInv'
<1> USE DEF PoolInv, SpuriousWakeup
<1>1. t \in At(WaitPC)
  BY DEF At
<1>2. /\ pc' \in [Threads -> PC] /\ timedout' \in [Threads -> BOOLEAN]
      /\ At(IdlePC)' = At(IdlePC) /\ At(PC \ {"none"})' = At(PC \ {"none"})
      /\ At(WaitPC)' = At(WaitPC) \ {t}
      /\ Reliable' = Reliable \cup {t}
      /\ \A u \in Threads : pc'[u] = "busy" => pc[u] = "busy"
      /\ OnlyTimedExpires' /\ StaleTimeoutHarmless'
  BY <1>1, WakeUpKeeps
<1>3. TypeOK' /\ CountersExact'
  BY <1>2 DEF TypeOK, CountersExact
<1>4. WakeupPerItem'
  <2>1. Reliable \in SUBSET Threads /\ Reliable' \in SUBSET Threads
    BY DEF Reliable, At
  <2>2. Cardinality(Reliable) <= Cardinality(Reliable')
    BY <1>2, <2>1, CountSubset
  <2>3. Cardinality(Reliable) \in Nat /\ Cardinality(Reliable') \in Nat /\ Len(queue) \in Nat
    BY <2>1, WorkersFinite, LenProperties DEF TypeOK
  <2> QED
    BY <1>2, <2>2, <2>3 DEF WakeupPerItem, Reliable
<1>5. started /\ ~destroy
  BY <1>1 DEF NoneWaitsEarly, DestroyWakesAll, WaitPC
<1> QED
  BY <1>2, <1>3, <1>4, <1>5 DEF BusyHasWork, NoneWaitsEarly, DestroyWakesAll, EmptyPoolFailed

\* The steps of the server's own threads on the pool: start, destroy, free.
LEMMA OwnerKeeps ==
  ASSUME PoolInv,
         start_request_pool \/ destroy_request_pool \/ DestroyerWakes \/ FreePending
  PROVE  PoolInv'
<1> USE DEF PoolInv
<1>1. CASE start_request_pool
  <2>1. At(WaitPC)' = {}
    BY <1>1 DEF start_request_pool, NoneWaitsEarly, At, WaitPC
  <2>2. TypeOK' /\ CountersExact'
    BY SMTT(30), <1>1 DEF start_request_pool, TypeOK, CountersExact, At
  <2> QED
    BY <1>1, <2>1, <2>2
    DEF start_request_pool, WakeupPerItem, BusyHasWork, NoneWaitsEarly, OnlyTimedExpires,
        StaleTimeoutHarmless, DestroyWakesAll, EmptyPoolFailed
<1>2. CASE destroy_request_pool
  <2>1. /\ pc' \in [Threads -> PC] /\ timedout' \in [Threads -> BOOLEAN]
        /\ At(IdlePC)' = At(IdlePC) /\ At(PC \ {"none"})' = At(PC \ {"none"})
        /\ At(WaitPC)' = {}
        /\ \A u \in Threads : pc'[u] = "busy" => pc[u] = "busy"
        /\ OnlyTimedExpires' /\ StaleTimeoutHarmless'
    BY SMTT(30), <1>2, WakeUpKeeps DEF destroy_request_pool
  <2>2. TypeOK' /\ CountersExact'
    BY <1>2, <2>1 DEF destroy_request_pool, TypeOK, CountersExact, Active, At
  <2> QED
    BY SMTT(30), <1>2, <2>1, <2>2
    DEF destroy_request_pool, WakeupPerItem, BusyHasWork, NoneWaitsEarly, DestroyWakesAll,
        EmptyPoolFailed
<1>3. CASE DestroyerWakes
  <2>1. TypeOK' /\ CountersExact' /\ WakeupPerItem' /\ DestroyWakesAll'
    BY SMTT(30), <1>3 DEF DestroyerWakes, TypeOK, CountersExact, WakeupPerItem, DestroyWakesAll, At
  <2> QED
    BY <1>3, <2>1
    DEF DestroyerWakes, BusyHasWork, NoneWaitsEarly, OnlyTimedExpires, StaleTimeoutHarmless,
        EmptyPoolFailed
<1>4. CASE FreePending
  <2>1. TypeOK' /\ CountersExact' /\ DestroyWakesAll'
    BY <1>4 DEF FreePending, TypeOK, CountersExact, DestroyWakesAll, At
  <2>2. WakeupPerItem'
    <3>1. Reliable' \in SUBSET Threads /\ Len(queue') = 0
      BY <1>4, EmptySeq DEF FreePending, Reliable, At
    <3> QED
      BY <3>1, WorkersFinite DEF WakeupPerItem, Reliable
  <2> QED
    BY <1>4, <2>1, <2>2
    DEF FreePending, BusyHasWork, NoneWaitsEarly, OnlyTimedExpires, StaleTimeoutHarmless,
        EmptyPoolFailed
<1> QED
  BY <1>1, <1>2, <1>3, <1>4

\* initialize_threadpool establishes the invariant.
LEMMA InitHolds == Init => PoolInv
<1>1. SUFFICES ASSUME Init PROVE PoolInv
  OBVIOUS
<1>2. PICK S \in SUBSET Threads :
        /\ pc = [t \in Threads |-> IF t \in S THEN "starting" ELSE "none"]
        /\ nthreads = Cardinality(S)
  BY <1>1 DEF Init
<1>3. /\ At(IdlePC) = {} /\ At(WaitPC) = {} /\ At(PC \ {"none"}) = S
      /\ \A t \in Threads : pc[t] \in {"none", "starting"} /\ timedout[t] = FALSE
  BY <1>1, <1>2 DEF Init, At, IdlePC, WaitPC, PC
<1>4. Cardinality({}) = 0 /\ Cardinality(S) \in Nat
  BY <1>2, FS_EmptySet, WorkersFinite
<1>5. TypeOK /\ CountersExact
  BY <1>1, <1>2, <1>3, <1>4, EmptySeq DEF Init, TypeOK, CountersExact, PC
<1>6. WakeupPerItem /\ BusyHasWork /\ NoneWaitsEarly /\ OnlyTimedExpires
  BY <1>1, <1>3 DEF Init, WakeupPerItem, BusyHasWork, NoneWaitsEarly, OnlyTimedExpires
<1>7. StaleTimeoutHarmless /\ DestroyWakesAll /\ EmptyPoolFailed
  BY <1>1, <1>3 DEF Init, StaleTimeoutHarmless, DestroyWakesAll, EmptyPoolFailed
<1> QED
  BY <1>5, <1>6, <1>7 DEF PoolInv

-----------------------------------------------------------------------------
\* PoolInv is inductive: it holds of u_threadpool.c's pool whatever the order in
\* which its threads get tp_mutex.
THEOREM PoolInvariant == Spec => []PoolInv
<1>1. PoolInv /\ [Next]_vars => PoolInv'
  <2> SUFFICES ASSUME PoolInv, [Next]_vars PROVE PoolInv'
    OBVIOUS
  <2>1. CASE UNCHANGED vars
    BY <2>1
    DEF vars, PoolInv, TypeOK, CountersExact, WakeupPerItem, BusyHasWork, NoneWaitsEarly,
        OnlyTimedExpires, StaleTimeoutHarmless, DestroyWakesAll, EmptyPoolFailed, At
  <2>2. ASSUME NEW t \in Threads, WorkerStep(t) PROVE PoolInv'
    BY <2>2, WorkerKinds, NapKeeps, WaitKeeps, TakeKeeps, LeaveKeeps
  <2> QED
    BY <2>1, <2>2, EnqueueKeeps, ExpireKeeps, SpuriousKeeps, OwnerKeeps DEF Next
<1> QED
  BY <1>1, InitHolds, PTL DEF Spec

\* The pool's fields keep their types, and the counters of u_threadpool.c never go
\* below zero, for any number of workers and work items.
THEOREM TypesHold == Spec => []TypeOK
<1>1. PoolInv => TypeOK
  BY DEF PoolInv
<1> QED
  BY <1>1, PoolInvariant, PTL

\* tp_idle_threads and tp_nthreads are exact for any number of workers: every path
\* through work_thread, work_cleanup and work_thread_cleanup settles both.
THEOREM CountersAreExact == Spec => []CountersExact
<1>1. PoolInv => CountersExact
  BY DEF PoolInv
<1> QED
  BY <1>1, PoolInvariant, PTL

\* No wake-up of enqueue_threadpool_request is lost on a worker that may leave.
THEOREM NoLostWakeup == Spec => []WakeupPerItem
<1>1. PoolInv => WakeupPerItem
  BY DEF PoolInv
<1> QED
  BY <1>1, PoolInvariant, PTL

\* While a started pool has work and is not being destroyed, a worker will look at
\* its queue, or every worker is gone and pthread_create has failed.
THEOREM WorkIsServed == Spec => []QueuedWorkIsServed
<1>1. PoolInv => QueuedWorkIsServed
  <2> SUFFICES ASSUME PoolInv, started, queue # <<>>, ~destroy,
                      At(PC \ (WaitPC \cup {"none"})) = {}
               PROVE  failures > 0 /\ nthreads = 0
    BY DEF QueuedWorkIsServed
  <2>1. Len(queue) \in Nat /\ Len(queue) # 0
    BY LenProperties, EmptySeq DEF PoolInv, TypeOK
  <2>2. Reliable = {}
    BY DEF Reliable, At, PC, WaitPC
  <2>3. At(WaitPC) = {}
    <3>1. Cardinality(Reliable) = 0
      BY <2>2, FS_EmptySet
    <3>2. At(WaitPC) # {} => Len(queue) <= Cardinality(Reliable)
      BY DEF PoolInv, WakeupPerItem, Reliable
    <3> QED
      BY <2>1, <3>1, <3>2
  <2>4. At(PC \ {"none"}) = {}
    BY <2>3 DEF At
  <2>5. nthreads = 0
    BY <2>4, FS_EmptySet DEF PoolInv, CountersExact
  <2> QED
    BY <2>5 DEF PoolInv, EmptyPoolFailed
<1> QED
  BY <1>1, PoolInvariant, PTL
=============================================================================
