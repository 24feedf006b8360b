-------------------------- MODULE JobCountsProofs --------------------------
(***************************************************************************)
(* The theorems about the job counts: the invariant CountsInv is          *)
(* inductive, and the properties that are checked on small instances hold *)
(* for every finite set of jobs, queues and threads and every limit.      *)
(***************************************************************************)
EXTENDS JobCountsKinds, JobCountsSteps, FiniteSetTheorems

-----------------------------------------------------------------------------
(* The theorems *)

\* When two sets differ at most in x, so do their sizes.
LEMMA Differ ==
  ASSUME NEW A, NEW B, IsFiniteSet(A), NEW x, B \ {x} = A \ {x}
  PROVE  /\ IsFiniteSet(B) /\ Cardinality(A) \in Nat /\ Cardinality(B) \in Nat
         /\ x \in A /\ x \in B => Cardinality(B) = Cardinality(A)
         /\ x \notin A /\ x \notin B => Cardinality(B) = Cardinality(A)
         /\ x \notin A /\ x \in B => Cardinality(B) = Cardinality(A) + 1
         /\ x \in A /\ x \notin B => Cardinality(B) = Cardinality(A) - 1
<1> DEFINE C == A \ {x}
<1>1. IsFiniteSet(C) /\ Cardinality(A) \in Nat /\ Cardinality(C) \in Nat
  BY FS_RemoveElement, FS_CardinalityType, Zenon
<1>2. IsFiniteSet(C \cup {x}) /\ Cardinality(C \cup {x}) = Cardinality(C) + 1
  BY <1>1, FS_AddElement, Zenon
<1>3. (x \in A => A = C \cup {x}) /\ (x \notin A => A = C)
  BY Zenon
<1>4. (x \in B => B = C \cup {x}) /\ (x \notin B => B = C)
  BY Zenon
<1> HIDE DEF C
<1>5. Cardinality(A) = IF x \in A THEN Cardinality(C) + 1 ELSE Cardinality(C)
  BY <1>2, <1>3, Zenon
<1>6. Cardinality(B) = IF x \in B THEN Cardinality(C) + 1 ELSE Cardinality(C)
  BY <1>2, <1>4, Zenon
<1>7. IsFiniteSet(B)
  BY <1>1, <1>2, <1>4, Zenon
<1> QED
  BY <1>1, <1>5, <1>6, <1>7

\* The facts on finite sets that the lemmas of JobCountsKinds and JobCountsSteps assume.
LEMMA SizesHold == Sizes
<1>1. \A T, S : IsFiniteSet(T) /\ S \subseteq T => IsFiniteSet(S) /\ Cardinality(S) \in Nat
  BY FS_Subset, FS_CardinalityType, Zenon
<1>2. ASSUME NEW T, NEW S, IsFiniteSet(T), S \subseteq T
      PROVE  Cardinality(T \ S) = Cardinality(T) - Cardinality(S)
  <2>1. T \cap S = S
    BY <1>2, Zenon
  <2>2. Cardinality(T \ S) = Cardinality(T) - Cardinality(T \cap S)
    BY <1>2, FS_Difference, Zenon
  <2> QED
    BY <2>1, <2>2, Zenon
<1>3. \A S, T : IsFiniteSet(S) /\ IsFiniteSet(T) =>
         IsFiniteSet(S \X T) /\ Cardinality(S \X T) = Cardinality(S) * Cardinality(T)
  BY FS_Product, Zenon
<1>4. \A A, B, x : IsFiniteSet(A) /\ B \ {x} = A \ {x} =>
        /\ IsFiniteSet(B) /\ Cardinality(A) \in Nat /\ Cardinality(B) \in Nat
        /\ x \in A /\ x \in B => Cardinality(B) = Cardinality(A)
        /\ x \notin A /\ x \notin B => Cardinality(B) = Cardinality(A)
        /\ x \notin A /\ x \in B => Cardinality(B) = Cardinality(A) + 1
        /\ x \in A /\ x \notin B => Cardinality(B) = Cardinality(A) - 1
  BY Differ, Zenon
<1>5. /\ Cardinality({}) = 0
      /\ \A S : IsFiniteSet(S) /\ Cardinality(S) = 0 => S = {}
      /\ \A x : IsFiniteSet({x}) /\ Cardinality({x}) = 1
  BY FS_EmptySet, FS_Singleton, Zenon
<1>6. \A T, S : IsFiniteSet(T) /\ S \subseteq T =>
         Cardinality(T \ S) = Cardinality(T) - Cardinality(S)
  BY <1>2, Zenon
<1> QED
  BY <1>1, <1>3, <1>4, <1>5, <1>6, Zenon DEF Sizes

\* The server starts without jobs and with all counts zero.
LEMMA InitInv == Init => CountsInv
<1> SUFFICES ASSUME Init PROVE CountsInv
  BY Zenon
<1> USE SizesHold
<1>1. Cardinality({}) = 0 /\ MaxQueuable \in Nat /\ None \notin Queues
  BY CountsAssumption, Zenon DEF Sizes
<1>2. /\ \A j \in Jobs : /\ job[j].state = "QUEUED" /\ job[j].qhdr = None
                         /\ job[j].counted = {} /\ job[j].life = "new"
      /\ alljobs = {} /\ sv.num = 0 /\ sv.users = 0
      /\ \A s \in States : sv.st[s] = 0
      /\ \A t \in Threads : at[t].op = "idle"
  BY Zenon DEF Init, Idle, NoCounts
<1>3. \A q \in Queues : /\ que[q].jobs = {} /\ que[q].num = 0 /\ que[q].uih = 0
                        /\ que[q].reserved = 0 /\ \A s \in States : que[q].st[s] = 0
  BY Zenon DEF Init, NoCounts
<1>4. TypeOK
  <2>1. NoCounts \in [States -> Int]
    BY SMTT(30) DEF NoCounts
  <2>2. /\ sv \in [num : Nat, st : [States -> Int], users : Nat]
        /\ que \in [Queues -> [jobs : SUBSET Jobs, num : Nat, st : [States -> Int], uih : Nat,
                               reserved : Nat]]
    BY <2>1, Zenon DEF Init
  <2>3. job \in [Jobs -> [state : States, sub : Substates, qhdr : Queues \cup {None},
                          counted : SUBSET {"global", "queue"}, life : {"new", "live", "gone"}]]
    BY Zenon DEF Init, States, Substates
  <2> QED
    BY <2>2, <2>3, Zenon DEF Init, TypeOK
<1>5. WaitsOK
  BY <1>2, Zenon DEF WaitsOK, WaitOK
<1>6. \A q \in Queues : Movers(q) = {}
  BY <1>2, Zenon DEF Movers
<1>7. PlacesKept
  <2>1. \A q \in Queues : Cardinality(Movers(q)) = 0
    BY <1>1, <1>6, Zenon
  <2> QED
    BY <2>1, <1>3 DEF PlacesKept
<1>8. Members
  BY <1>1, <1>2, <1>3, Zenon DEF Members
<1>9. Marked
  BY <1>2, Zenon DEF Marked
<1>10. \A q \in Queues : Open(q) = {} /\ Estimate(q) = 0
  <2>1. "COMPLETE" \in States
    BY Zenon DEF States
  <2> QED
    BY <2>1, <1>3 DEF Open, Estimate
<1>11. Estimated /\ RoomKept
  <2>1. \A q \in Queues : Cardinality(Open(q)) = 0
    BY <1>1, <1>10, Zenon
  <2>2. \A q \in Queues : /\ Cardinality(Open(q)) <= Estimate(q) /\ Estimate(q) <= MaxQueuable
                          /\ Estimate(q) + que[q].reserved <= MaxQueuable
    BY <1>1, <1>3, <1>10, <2>1
  <2> QED
    BY <2>2, Zenon DEF Estimated, RoomKept
<1>12. ServerCountsHold
  <2>1. \A s \in States : CountIn(alljobs, s) = 0 /\ InFlight(s) = 0
    <3> TAKE s \in States
    <3>1. /\ {j \in alljobs : job[j].state = s} = {}
          /\ {t \in Threads : at[t].op = "set" /\ at[t].new = s} = {}
          /\ {t \in Threads : at[t].op = "set" /\ at[t].old = s} = {}
      BY <1>2, Zenon
    <3>2. CountIn(alljobs, s) = 0
      BY <1>1, <3>1, Zenon DEF CountIn
    <3>3. InFlight(s) = 0 - 0
      BY <1>1, <3>1, Zenon DEF InFlight
    <3> QED
      BY <3>2, <3>3
  <2> QED
    BY <1>1, <1>2, <2>1 DEF ServerCountsHold
<1>13. QueueCountsHold
  <2> SUFFICES ASSUME NEW q \in Queues
               PROVE  /\ que[q].jobs = {j \in Jobs : job[j].qhdr = q}
                      /\ que[q].num = Cardinality(que[q].jobs)
                      /\ \A s \in States : que[q].st[s] = CountIn(que[q].jobs, s)
    BY Zenon DEF QueueCountsHold
  <2>1. {j \in Jobs : job[j].qhdr = q} = {}
    BY <1>1, <1>2, Zenon
  <2>2. \A s \in States : CountIn(que[q].jobs, s) = 0
    <3> TAKE s \in States
    <3>1. {j \in que[q].jobs : job[j].state = s} = {}
      BY <1>3, Zenon
    <3> QED
      BY <1>1, <3>1, Zenon DEF CountIn
  <2> QED
    BY <1>1, <1>3, <2>1, <2>2, Zenon
<1>14. UserCountsHold
  <2>1. {j \in alljobs : job[j].state # "COMPLETE"} = {}
    BY <1>2, Zenon
  <2>2. \A q \in Queues : {j \in que[q].jobs : job[j].state # "COMPLETE"} = {}
    BY <1>3, Zenon
  <2> QED
    BY <1>1, <1>2, <1>3, <2>1, <2>2, Zenon DEF UserCountsHold
<1>15. NoJobStranded
  <2>1. \A q \in Queues : que[q].reserved = Cardinality(Movers(q))
    BY <1>1, <1>3, <1>6, Zenon
  <2>2. \A j \in Jobs : job[j].life # "live"
    BY <1>2, Zenon
  <2> QED
    BY <2>1, <2>2 DEF NoJobStranded, Movers
<1> QED
  BY <1>4, <1>5, <1>7, <1>8, <1>9, <1>11, <1>12, <1>13, <1>14, <1>15, SMTT(30) DEF CountsInv

\* Every step keeps the invariant.
LEMMA NextInv == CountsInv /\ [Next]_vars => CountsInv'
<1> SUFFICES ASSUME CountsInv, [Next]_vars PROVE CountsInv'
  BY Zenon
<1> USE SizesHold
<1>1. Typed /\ PlacesKept /\ Members /\ Marked
  BY Zenon DEF CountsInv, Typed
<1>2. CASE UNCHANGED vars
  <2>1. /\ job' = job /\ alljobs' = alljobs /\ summary' = summary /\ sv' = sv /\ que' = que
        /\ at' = at /\ blame' = blame
    BY <1>2, Zenon DEF vars
  <2>2. /\ Typed' /\ (PlacesKept <=> PlacesKept') /\ (Members <=> Members')
        /\ (Marked <=> Marked')
    BY <1>1, <2>1, TypesNext, Zenon DEF PlacesKept, Members, Marked, Movers
  <2>3. (Estimated <=> Estimated') /\ (RoomKept <=> RoomKept')
    BY <2>1, Zenon DEF Estimated, RoomKept, Estimate, Open
  <2>4. /\ ServerCountsHold <=> ServerCountsHold'
        /\ QueueCountsHold <=> QueueCountsHold'
    BY <2>1, SMTT(30) DEF ServerCountsHold, QueueCountsHold, CountIn, InFlight
  <2>5. /\ UserCountsHold <=> UserCountsHold'
        /\ NoJobStranded <=> NoJobStranded'
    BY <2>1 DEF UserCountsHold, NoJobStranded
  <2> QED
    BY <2>2, <2>3, <2>4, <2>5, Zenon DEF CountsInv, Typed
<1>3. CASE Next
  <2>1. PICK t \in Threads : ThreadNext(t)
    BY <1>3, Zenon DEF Next, ThreadNext
  <2>2. Typed'
    BY <1>1, TypesNext, Zenon
  <2>3. PlacesStep(t)
    BY <1>1, <2>1, PlacesNext, Zenon
  <2>4. PlacesKept'
    BY <1>1, <2>2, <2>3, PlacesFromStep, Zenon DEF PlacesKept
  <2>5. CASE "moved" \in blame'
    <3>1. Members' /\ Marked' /\ Estimated' /\ RoomKept'
      BY <2>5, Zenon DEF Members, Marked, Estimated, RoomKept
    <3>2. ServerCountsHold' /\ QueueCountsHold' /\ UserCountsHold' /\ NoJobStranded'
      BY <2>5, Zenon DEF ServerCountsHold, QueueCountsHold, UserCountsHold, NoJobStranded
    <3> QED
      BY <2>2, <2>4, <3>1, <3>2, Zenon DEF CountsInv, Typed
  <2>6. CASE "moved" \notin blame'
    <3>1. Step(t)
      BY <1>1, <2>1, <2>2, <2>3, <2>6, BlameGrows, SMTT(30) DEF Step
    <3>2. Kinds(t)
      BY <1>1, <2>1, <2>6, KindsNext, Zenon
    <3>3. Members'
      BY <1>1, <3>1, <3>2, MembersNext
    <3>4. Marked'
      BY <1>1, <3>1, <3>2, MarkedNext, Zenon
    <3>5. Estimated' /\ RoomKept'
      BY <1>1, <3>1, <3>2, EstimatedNext, RoomKeptNext, SMTT(30) DEF CountsInv
    <3>6. ServerCountsHold'
      BY <1>1, <3>1, <3>2, ServerCountsNext, Zenon DEF CountsInv
    <3>7. QueueCountsHold'
      BY <1>1, <3>1, <3>2, <3>3, QueueCountsNext, SMTT(30) DEF CountsInv
    <3>8. UserCountsHold'
      BY <1>1, <3>1, <3>2, UserCountsNext, Zenon DEF CountsInv
    <3>9. NoJobStranded'
      BY <1>1, <3>1, <3>2, NoJobStrandedNext, Zenon DEF CountsInv
    <3> QED
      BY <2>2, <2>4, <3>3, <3>4, <3>5, <3>6, <3>7, <3>8, <3>9, Zenon DEF CountsInv, Typed
  <2> QED
    BY <2>5, <2>6, Zenon
<1> QED
  BY <1>2, <1>3, Zenon

\* The limit follows from what svr_enquejob tests: the estimate is never below the
\* number of open jobs, and never above the limit.
LEMMA LimitFromEstimate == CountsInv => LimitHolds
<1> SUFFICES ASSUME CountsInv, blame \cap {"overtaken", "moved"} = {}, NEW q \in Queues
             PROVE  Cardinality(Open(q)) <= MaxQueuable
  BY Zenon DEF LimitHolds
<1> USE SizesHold
<1>1. Cardinality(Open(q)) <= Estimate(q) /\ Estimate(q) <= MaxQueuable
  BY Zenon DEF CountsInv, Estimated
<1>2. TypeOK
  BY Zenon DEF CountsInv
<1>3. Open(q) \subseteq Jobs /\ que[q].num \in Int /\ que[q].st["COMPLETE"] \in Int
  BY <1>2, SMTT(30) DEF TypeOK, Open, States
<1>4. Cardinality(Open(q)) \in Nat /\ Estimate(q) \in Int /\ MaxQueuable \in Nat
  BY <1>3, Countable, CountsAssumption DEF Estimate
<1> QED
  BY <1>1, <1>4

\* The invariant of every behaviour of the job counts.
THEOREM CountsInvariant == Spec => []CountsInv
BY InitInv, NextInv, PTL DEF Spec

\* The counts per state are natural numbers: a queue's unless a job left it under a
\* waiting thread or was purged before it was complete, and the server's, when no
\* thread is between the two halves of svr_setjobstate, unless one of the causes that
\* ServerCountsHold names has come about.
StateCountsNatural ==
  /\ blame \cap {"moved", "unsettled"} = {} =>
       \A q \in Queues, s \in States : que[q].st[s] \in Nat
  /\ /\ blame \cap {"overtaken", "unqueued", "unsettled", "moved", "recounted"} = {}
     /\ \A t \in Threads : at[t].op # "set"
     => \A s \in States : sv.st[s] \in Nat

\* They are, because they are the sizes of sets of jobs.
LEMMA SizesAreNatural == CountsInv => StateCountsNatural
<1> SUFFICES ASSUME CountsInv PROVE StateCountsNatural
  OBVIOUS
<1> USE SizesHold
<1>1. alljobs \subseteq Jobs /\ \A q \in Queues : que[q].jobs \subseteq Jobs
  BY DEF CountsInv, TypeOK
<1>2. ASSUME NEW S, S \subseteq Jobs, NEW s PROVE CountIn(S, s) \in Nat
  BY <1>2, Countable DEF CountIn
<1>3. ASSUME blame \cap {"moved", "unsettled"} = {}, NEW q \in Queues, NEW s \in States
      PROVE  que[q].st[s] \in Nat
  <2>1. que[q].st[s] = CountIn(que[q].jobs, s)
    BY <1>3, Zenon DEF CountsInv, QueueCountsHold
  <2>2. CountIn(que[q].jobs, s) \in Nat
    BY <1>1, <1>2, <1>3, Zenon
  <2> QED
    BY <2>1, <2>2, Zenon
<1>4. ASSUME blame \cap {"overtaken", "unqueued", "unsettled", "moved", "recounted"} = {},
             \A t \in Threads : at[t].op # "set", NEW s \in States
      PROVE  sv.st[s] \in Nat
  <2>1. /\ {t \in Threads : at[t].op = "set" /\ at[t].new = s} = {}
        /\ {t \in Threads : at[t].op = "set" /\ at[t].old = s} = {}
    BY <1>4, Zenon
  <2>2. InFlight(s) = Cardinality({}) - Cardinality({}) /\ Cardinality({}) = 0
    BY <2>1, Zenon DEF InFlight, Sizes
  <2>3. sv.st[s] = CountIn(alljobs, s) + InFlight(s)
    BY <1>4, Zenon DEF CountsInv, ServerCountsHold
  <2>4. CountIn(alljobs, s) \in Nat
    BY <1>1, <1>2, Zenon
  <2> QED
    BY <2>2, <2>3, <2>4
<1> QED
  BY <1>3, <1>4, Zenon DEF StateCountsNatural

\* No count goes negative.  svr_dequejob with its correct_ct and decrement_queued_jobs
\* keep the numbers of jobs, the users' counts and the reserved places natural numbers
\* whatever the threads do (TypeOK); the counts per state are natural numbers unless
\* one of the causes of wrong counts has come about.
THEOREM Types == Spec => [](TypeOK /\ StateCountsNatural)
<1>1. CountsInv => TypeOK
  BY Zenon DEF CountsInv
<1> QED
  BY <1>1, SizesAreNatural, CountsInvariant, PTL

\* sv_numjobs and sv_jobstates are right, up to what svr_setjobstate has in flight,
\* for any number of jobs, queues and threads.
THEOREM ServerCounts == Spec => []ServerCountsHold
<1>1. CountsInv => ServerCountsHold
  BY Zenon DEF CountsInv
<1> QED
  BY <1>1, CountsInvariant, PTL

\* qu_numjobs and qu_njstate of every queue are right, although svr_setjobstate may
\* be overtaken while it waits for the queue.
THEOREM QueueCounts == Spec => []QueueCountsHold
<1>1. CountsInv => QueueCountsHold
  BY Zenon DEF CountsInv
<1> QED
  BY <1>1, CountsInvariant, PTL

\* A user is charged for exactly their open jobs (ji_queue_counted).
THEOREM UserCounts == Spec => []UserCountsHold
<1>1. CountsInv => UserCountsHold
  BY Zenon DEF CountsInv
<1> QED
  BY <1>1, CountsInvariant, PTL

\* No queue ever holds more open jobs than max_queuable.
THEOREM QueueLimit == Spec => []LimitHolds
BY LimitFromEstimate, CountsInvariant, PTL

\* A place that local_move reserves is there when svr_enquejob needs it, so that no
\* job taken out of one queue is turned away by the other.
THEOREM NobodyStranded == Spec => []NoJobStranded
<1>1. CountsInv => NoJobStranded
  BY Zenon DEF CountsInv
<1> QED
  BY <1>1, CountsInvariant, PTL
=============================================================================
