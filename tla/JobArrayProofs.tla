--------------------------- MODULE JobArrayProofs ---------------------------
(***************************************************************************)
(* The theorems about job arrays, for every number of members, slot limit, *)
(* idle slot limit and set of threads: ArrayInv is inductive, and with it  *)
(* hold the properties that are checked on small instances.               *)
(***************************************************************************)
EXTENDS JobArraySteps, FiniteSetTheorems

-----------------------------------------------------------------------------
(* What JobArraySteps uses of finite sets *)

\* A nonempty set of natural numbers has a least element.
LEMMA LeastNatural ==
  ASSUME NEW T \in SUBSET Nat, T # {}
  PROVE  \E x \in T : \A y \in T : x <= y
<1>1. \E x \in T : \A y \in T : ~(<<y, x>> \in OpToRel(<, Nat))
  BY NatLessThanWellFounded, WFMin, Zenon
<1>2. PICK x \in T : \A y \in T : ~(<<y, x>> \in OpToRel(<, Nat))
  BY <1>1, Zenon
<1>3. ASSUME NEW y \in T, y < x PROVE FALSE
  <2>1. <<y, x>> \in {ss \in Nat \X Nat : ss[1] < ss[2]}
    BY <1>3, SMT
  <2> QED
    BY <1>2, <2>1, Zenon DEF OpToRel
<1> QED
  BY <1>3, SMT

\* A nonempty set of indices has a smallest and a largest element.
LEMMA ExtremesHold == Extremes
<1>1. Ids \subseteq Nat /\ NumJobs \in Nat /\ \A n \in Ids : NumJobs - n \in Nat
  BY JobArrayAssumption, SMT DEF Ids
<1>2. \A T \in SUBSET Nat : T # {} => \E x \in T : \A y \in T : x <= y
  BY LeastNatural, Zenon
<1>3. ASSUME NEW S \in SUBSET Ids, S # {}
      PROVE  (\E x \in S : \A y \in S : x <= y) /\ (\E x \in S : \A y \in S : x >= y)
  <2> DEFINE T == {NumJobs - n : n \in S}
  <2>1. S \in SUBSET Nat /\ T \in SUBSET Nat /\ T # {}
    BY <1>1, <1>3, Zenon
  <2>2. \E x \in S : \A y \in S : x <= y
    BY <1>2, <1>3, <2>1, Zenon
  <2>3. PICK z \in T : \A y \in T : z <= y
    BY <1>2, <2>1, Zenon
  <2>4. PICK x \in S : z = NumJobs - x
    BY <2>3, Zenon
  <2>5. \A y \in S : NumJobs - x <= NumJobs - y
    BY <2>3, <2>4, Zenon
  <2>6. \A y \in S : x >= y
    BY <1>1, <2>1, <2>5, SMT
  <2> QED
    BY <2>2, <2>6, Zenon
<1> QED
  BY <1>3, Zenon DEF Extremes

\* Sets of members can be counted, one member at a time, up to num_jobs.
LEMMA CountingHolds == Counting
<1>1. NumJobs \in Nat \ {0} /\ 0 \in Int /\ NumJobs - 1 \in Int /\ ~(0 > NumJobs - 1)
      /\ NumJobs - 1 - 0 + 1 = NumJobs
  BY JobArrayAssumption, SMT
<1>2. IsFiniteSet(Ids) /\ Cardinality(Ids) = NumJobs
  BY <1>1, FS_Interval, Zenon DEF Ids
<1>3. \A A \in SUBSET Ids : /\ IsFiniteSet(A) /\ Cardinality(A) \in Nat /\ Cardinality(A) <= NumJobs
                            /\ Cardinality(A) = NumJobs => A = Ids
  BY <1>2, FS_Subset, FS_CardinalityType, Zenon
<1>4. \A A, B \in SUBSET Ids : A \subseteq B => Cardinality(A) <= Cardinality(B)
  BY <1>3, FS_Subset, Zenon
<1>5. \A A \in SUBSET Ids : \A i \in Ids \ A : Cardinality(A \cup {i}) = Cardinality(A) + 1
  BY <1>3, FS_AddElement, Zenon
<1>6. Cardinality({}) = 0
  BY FS_EmptySet, Zenon
<1> QED
  BY <1>3, <1>4, <1>5, <1>6, Zenon DEF Counting

-----------------------------------------------------------------------------
(* The first state *)

\* The array as array_save leaves it, with nothing cloned, has its types.
LEMMA InitTyped ==
  ASSUME Init
  PROVE  Typed
<1> DEFINE first == CallOf("clone", "clone", None)
<1>7. NoCall \in CallType /\ NoCall.deleted = 0
  BY IdleHand, Zenon DEF NoCall
<1>8. first.op = "clone" /\ first.pc = "clone" /\ first.i = None /\ first.deleted = 0
  BY <1>7, Zenon DEF CallOf, CallType, NoCall
<1>9. first \in CallType
  BY <1>7, Zenon DEF CallOf, CallType
<1> HIDE DEF first
<1>10. first.deleted <= (IF first.i = None THEN 0 ELSE first.i + 1)
  BY <1>8, Numbers, Zenon
<1>1. first \in CallType /\ Hand(first) /\ first.op = "clone"
  BY <1>8, <1>9, <1>10, Zenon DEF Hand, Tail, Creating
<1>2. thr = [t \in Everyone |-> IF t = Cloner THEN first ELSE NoCall]
  BY Zenon DEF Init, Everyone, first
<1>3. thr \in [Everyone -> CallType]
  BY <1>1, <1>2, IdleHand, Zenon
<1>4. InitArr \in ArrType
  BY Numbers, SMT DEF InitArr, ArrType
<1>5. TypeOK
  BY <1>3, <1>4, Zenon DEF Init, TypeOK, ArrType, Everyone, MemberStates
<1>6. \A t \in Everyone : Hand(thr[t]) /\ (thr[t].op = "clone" => t = Cloner)
  BY <1>1, <1>2, IdleHand, Zenon
<1> QED
  BY <1>5, <1>6, Zenon DEF Typed

\* Nothing is counted, created or purged at first.
LEMMA InitSound ==
  ASSUME Init, Counting
  PROVE  Sound
<1> DEFINE first == CallOf("clone", "clone", None)
<1>1. /\ first.op = "clone" /\ first.pc = "clone" /\ first.i = None /\ ~first.last
  BY Zenon DEF CallOf, NoCall
<1>2. \A t \in Everyone : /\ thr[t] = IF t = Cloner THEN first ELSE NoCall
                          /\ thr[t].pc \in {"clone", "idle"} /\ thr[t].i = None /\ ~thr[t].last
                          /\ ~Charges(thr[t])
  BY <1>1, IdleHand, Zenon DEF Init, Everyone, Charges, Tail, Creating
<1>3. /\ Cloner \in Everyone /\ Threads \subseteq Everyone /\ \A t \in Threads : thr[t] = NoCall
  BY <1>2, JobArrayAssumption, Zenon DEF Everyone
<1>4. /\ \A i \in Ids : st[i] = "NONE"
      /\ arr = InitArr /\ here = TRUE /\ dep = FALSE /\ exec = {} /\ asked = {}
  BY Zenon DEF Init
<1>5. arr.num_purged = 0 /\ arr.jobs_done = 0 /\ arr.jobs_running = 0 /\ ~arr.being_deleted
  BY <1>4, Zenon DEF InitArr
<1>6. Calls
  <2>1. CallOK(NoCall)
    BY IdleHand, Zenon DEF CallOK, Tail, Creating
  <2>2. CloneCall
    BY <1>1, <1>2, <1>3, Zenon DEF CloneCall, Creating
  <2> QED
    BY <1>3, <2>1, <2>2, Zenon DEF Calls
<1>7. Solo
  BY <1>2, <1>3, Zenon DEF Solo
<1>8. Clones
  BY <1>2, <1>4, Zenon DEF Clones, At, Listed, IdleStates, InitArr
<1>9. Purged \in SUBSET Ids /\ Ended \in SUBSET Ids /\ Charged = {}
  BY <1>2, <1>3, <1>4, Zenon DEF Purged, Ended, Charged
<1>10. Cardinality(Purged) \in Nat /\ Cardinality(Ended) \in Nat /\ Cardinality(Charged) = 0
  BY <1>9, Zenon DEF Counting
<1>11. 0 <= Cardinality(Purged) /\ 0 <= Cardinality(Ended) /\ Cardinality(Charged) <= 0
  BY <1>10, SMT
<1>12. Purges
  BY <1>2, <1>3, <1>4, <1>5, <1>11, Zenon DEF Purges
<1>13. Slots
  <2>1. SlotLimit >= 0 => 0 <= SlotLimit
    BY JobArrayAssumption, SMT
  <2> QED
    BY <1>5, <1>11, <2>1, Zenon DEF Slots
<1>14. Endings
  BY <1>2, <1>3, <1>4, <1>5, <1>11, Zenon DEF Endings, At
<1> QED
  BY <1>6, <1>7, <1>8, <1>12, <1>13, <1>14, Zenon DEF Sound

-----------------------------------------------------------------------------
(* The theorems *)

\* ArrayInv is an invariant: the types, and at a site that keeps complete jobs, makes no call
\* for a member another call deals with, purges nothing by force and deletes no array as such,
\* that every call is where its member says, each member has one creator, num_purged and
\* jobs_done count no member that is not purged or ended, and every slot in use is counted.
THEOREM ArrayInvariant == Spec => []ArrayInv
<1>1. Init => ArrayInv
  BY InitTyped, InitSound, CountingHolds, Zenon DEF ArrayInv
<1>2. ArrayInv /\ [Next]_vars => ArrayInv'
  BY InvNext, ExtremesHold, CountingHolds, Zenon
<1> QED
  BY <1>1, <1>2, PTL DEF Spec

\* The array struct and the members keep their types; jobs_running, which the slot limit is
\* compared with, stays in 0 .. num_jobs whatever is asked of the server.
THEOREM Types == Spec => []TypeOK
<1>1. ArrayInv => TypeOK
  BY Zenon DEF ArrayInv, Typed
<1> QED
  BY <1>1, ArrayInvariant, PTL

\* What is at most the slots in use is at most the slot limit.
LEMMA AtMost ==
  ASSUME NEW m \in Nat, NEW n \in Nat, NEW r \in 0 .. NumJobs, m <= n, n <= r, r <= SlotLimit
  PROVE  m <= SlotLimit
BY JobArrayAssumption, SMT

\* No more members execute than the slot limit allows: check_and_run_job_work counts the
\* start under the hold of the array in which it tests the limit.  Without qdel all, which
\* removes the array while members run, so that later starts go uncounted.
THEOREM SlotLimitKept == Spec => [](KeepCompleted /\ "qdel all" \notin asked => SlotLimitHolds)
<1>1. ASSUME ArrayInv, KeepCompleted, "qdel all" \notin asked PROVE SlotLimitHolds
  <2> SUFFICES ASSUME SlotLimit >= 0, asked \subseteq {"qdel", "qdel all", "rerun", "start fails", "qrun held"}
               PROVE  Cardinality(exec) <= SlotLimit
    BY Zenon DEF SlotLimitHolds, Only
  <2>1. Calm
    BY Zenon DEF Calm
  <2>2. Cardinality(Charged) <= arr.jobs_running /\ arr.jobs_running <= SlotLimit
    BY <1>1, <2>1, Zenon DEF ArrayInv, Sound, Slots
  <2>3. exec \in SUBSET Ids /\ Charged \in SUBSET Ids /\ exec \subseteq Charged
    BY <1>1, TypeParts, Zenon DEF ArrayInv, Typed, Charged
  <2>4. /\ Cardinality(exec) <= Cardinality(Charged) /\ Cardinality(exec) \in Nat
        /\ Cardinality(Charged) \in Nat
    BY <2>3, CountingHolds, Zenon DEF Counting
  <2>5. arr.jobs_running \in 0 .. NumJobs
    BY <1>1, TypeParts, ArrParts, Zenon DEF ArrayInv, Typed
  <2> QED
    BY <2>2, <2>4, <2>5, AtMost, Zenon
<1>2. ArrayInv => (KeepCompleted /\ "qdel all" \notin asked => SlotLimitHolds)
  BY <1>1, Zenon
<1> QED
  BY <1>2, ArrayInvariant, PTL

\* The array struct and its template are removed only after the last member: svr_job_purge
\* counts every purge once, also while update_array_values creates members.  Without qdel -p,
\* which purges a member at once.
THEOREM ArrayOutlives == Spec => [](KeepCompleted /\ "qdel -p" \notin asked => ArrayOutlivesMembers)
<1>1. ASSUME ArrayInv, KeepCompleted, "qdel -p" \notin asked PROVE ArrayOutlivesMembers
  <2> SUFFICES ASSUME ~here, asked \subseteq {"qdel", "qdel -p", "rerun", "start fails", "qrun held"}
               PROVE  \A i \in Ids : st[i] = "GONE" \/ \E t \in Threads : At(t, "free") /\ thr[t].i = i
    BY Zenon DEF ArrayOutlivesMembers, Only
  <2>1. Calm /\ "qdel all" \notin asked
    BY <1>1, Zenon DEF Calm
  <2>2. Purged = Ids
    BY <1>1, <2>1, Zenon DEF ArrayInv, Sound, Purges
  <2> QED
    BY <2>2, Zenon DEF Purged, Freeing
<1>2. ArrayInv => (KeepCompleted /\ "qdel -p" \notin asked => ArrayOutlivesMembers)
  BY <1>1, Zenon
<1> QED
  BY <1>2, ArrayInvariant, PTL

\* A job that depends on the whole array is released only when every member has ended or is
\* in the call that ends it, although jobs_done is also written without the lock.
THEOREM DependencyReleased == Spec => [](KeepCompleted => DependencyHonest)
<1>1. ASSUME ArrayInv, KeepCompleted PROVE DependencyHonest
  <2> SUFFICES ASSUME dep, asked \subseteq {"qdel", "qdel all", "rerun", "start fails", "qrun held"}
               PROVE  \A i \in Ids : st[i] \in Finished \/ Busy(i)
    BY Zenon DEF DependencyHonest, Only
  <2>1. Calm
    BY Zenon DEF Calm
  <2>2. Ended = Ids
    BY <1>1, <2>1, Zenon DEF ArrayInv, Sound, Endings
  <2> QED
    BY <2>2, Zenon DEF Ended
<1>2. ArrayInv => (KeepCompleted => DependencyHonest)
  BY <1>1, Zenon
<1> QED
  BY <1>2, ArrayInvariant, PTL
=============================================================================
