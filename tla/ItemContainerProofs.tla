------------------------- MODULE ItemContainerProofs -------------------------
(***************************************************************************)
(* What the operations of item_container keep, for every number of items   *)
(* and of slots: a container that is well formed, accounted for and        *)
(* chained in the order o is so again, in the order with one slot put in,  *)
(* taken out, or unchanged.                                                *)
(***************************************************************************)
EXTENDS ItemContainer, FiniteSetTheorems, WellFoundedInduction, TLAPS

\* Each field of a container has its type.
Shaped(c) ==
  /\ c.max \in Nat /\ c.max > 1 /\ c.num \in Nat
  /\ c.next_slot \in 1 .. c.max /\ c.last \in 0 .. (c.max - 1)
  /\ c.pItem \in [0 .. (c.max - 1) -> Ids \cup {Null}]
  /\ c.next \in [0 .. (c.max - 1) -> 0 .. (c.max - 1)]
  /\ c.prev \in [0 .. (c.max - 1) -> 0 .. (c.max - 1)]
  /\ c.map \in [Ids -> 0 .. (c.max - 1)]

\* The container c holds the list o.
Holds(c, o, use) ==
  Shaped(c) /\ Accounted(c) /\ Chained(c, o, use) /\ o \in Seq(Nat) /\ use \in {"append", "rank"}

-----------------------------------------------------------------------------
\* A nonempty set of natural numbers has a least element.
LEMMA LeastNatural ==
  ASSUME NEW T \in SUBSET Nat, T # {}
  PROVE  \E x \in T : \A y \in T : x <= y
<1>1. \E x \in T : \A y \in T : ~ (<<y, x>> \in OpToRel(<, Nat))
  BY NatLessThanWellFounded, WFMin
<1>2. PICK x \in T : \A y \in T : ~ (<<y, x>> \in OpToRel(<, Nat))
  BY <1>1
<1>3. ASSUME NEW y \in T, y < x PROVE FALSE
  <2>1. <<y, x>> \in {ss \in Nat \X Nat : ss[1] < ss[2]}
    BY <1>3
  <2> QED
    BY <2>1, <1>2 DEF OpToRel
<1>4. \A y \in T : x <= y
  BY <1>3
<1> QED
  BY <1>4

\* The used slots are finitely many numbers below max.
LEMMA UsedFinite ==
  ASSUME NEW c, Shaped(c)
  PROVE  /\ IsFiniteSet(Used(c)) /\ Cardinality(Used(c)) \in Nat
         /\ Used(c) \subseteq 0 .. (c.max - 1)
<1>0. 0 \in Int /\ c.max - 1 \in Int
  BY DEF Shaped
<1>1. IsFiniteSet(0 .. (c.max - 1))
  BY <1>0, FS_Interval
<1>2. Used(c) \subseteq 0 .. (c.max - 1)
  BY DEF Used
<1> QED
  BY <1>1, <1>2, FS_Subset, FS_CardinalityType

\* Unless the container must grow, next_slot is one of its slots.
LEMMA RoomLeft ==
  ASSUME NEW c, Shaped(c), Accounted(c), c.num + 1 < c.max
  PROVE  c.next_slot < c.max
<1> SUFFICES ASSUME c.next_slot = c.max PROVE FALSE
  BY DEF Shaped
<1>1. 1 .. (c.max - 1) \subseteq Used(c) /\ 0 \notin Used(c)
  BY DEF Accounted
<1>2. Used(c) = 1 .. (c.max - 1)
  BY <1>1 DEF Used, Shaped
<1>3. Cardinality(Used(c)) = c.max - 1
  <2>1. c.max - 1 \in Int /\ ~(1 > c.max - 1) /\ (c.max - 1) - 1 + 1 = c.max - 1
    BY DEF Shaped
  <2> QED
    BY <1>2, <2>1, FS_Interval
<1> QED
  BY <1>3 DEF Accounted, Shaped

-----------------------------------------------------------------------------
(* check_and_resize *)

\* Growing the array keeps the list and leaves a slot for the next insertion.
LEMMA ResizeHolds ==
  ASSUME NEW c, NEW o, NEW use, Holds(c, o, use)
  PROVE  LET d == CheckAndResize(c)
         IN /\ Holds(d, o, use)
            /\ d.next_slot < d.max /\ d.max >= c.max
            /\ d.next_slot = c.next_slot /\ d.num = c.num /\ d.last = c.last /\ d.map = c.map
            /\ \A s \in 0 .. (c.max - 1) :
                  d.pItem[s] = c.pItem[s] /\ d.next[s] = c.next[s] /\ d.prev[s] = c.prev[s]
            /\ Used(d) = Used(c)
<1> DEFINE d == CheckAndResize(c)
           m == IF NeedsRoom(c) THEN 2 * c.max ELSE c.max
           Grown(f, z) == [s \in 0 .. (m - 1) |-> IF s < c.max THEN f[s] ELSE z]
<1>1. Shaped(c) /\ Accounted(c) /\ Chained(c, o, use) /\ o \in Seq(Nat) /\ use \in {"append", "rank"}
  BY DEF Holds
<1>3. /\ d.pItem = Grown(c.pItem, Null) /\ d.next = Grown(c.next, 0) /\ d.prev = Grown(c.prev, 0)
      /\ d.max = m /\ d.num = c.num /\ d.next_slot = c.next_slot /\ d.last = c.last /\ d.map = c.map
  BY DEF CheckAndResize
<1>4. m \in Nat /\ m >= c.max /\ m > 1 /\ c.max \in Nat /\ c.max > 1
  BY <1>1 DEF Shaped
<1>5. \A s \in 0 .. (c.max - 1) :
         d.pItem[s] = c.pItem[s] /\ d.next[s] = c.next[s] /\ d.prev[s] = c.prev[s]
  BY <1>3, <1>4
<1>6. Used(d) = Used(c)
  BY <1>3, <1>4, <1>5 DEF Used
<1>7. Shaped(d)
  <2>2. /\ c.next_slot \in 1 .. c.max /\ c.last \in 0 .. (c.max - 1) /\ c.num \in Nat
        /\ c.pItem \in [0 .. (c.max - 1) -> Ids \cup {Null}]
        /\ c.next \in [0 .. (c.max - 1) -> 0 .. (c.max - 1)]
        /\ c.prev \in [0 .. (c.max - 1) -> 0 .. (c.max - 1)]
        /\ c.map \in [Ids -> 0 .. (c.max - 1)]
    BY <1>1 DEF Shaped
  <2>3. /\ Grown(c.pItem, Null) \in [0 .. (m - 1) -> Ids \cup {Null}]
        /\ Grown(c.next, 0) \in [0 .. (m - 1) -> 0 .. (m - 1)]
        /\ Grown(c.prev, 0) \in [0 .. (m - 1) -> 0 .. (m - 1)]
        /\ c.map \in [Ids -> 0 .. (m - 1)]
        /\ c.next_slot \in 1 .. m /\ c.last \in 0 .. (m - 1)
    <3>1. m \in Nat /\ c.max \in Nat /\ c.max <= m
      BY <1>4, <1>1 DEF Shaped
    <3> HIDE DEF m
    <3>2. 0 .. (c.max - 1) \subseteq 0 .. (m - 1) /\ 0 \in 0 .. (m - 1)
      BY <3>1, <2>2
    <3>3. ASSUME NEW s \in 0 .. (m - 1), s < c.max
          PROVE  s \in 0 .. (c.max - 1)
      BY <3>1, <3>3
    <3>4. Grown(c.pItem, Null) \in [0 .. (m - 1) -> Ids \cup {Null}]
      BY <2>2, <3>3
    <3>5. Grown(c.next, 0) \in [0 .. (m - 1) -> 0 .. (m - 1)]
      BY <2>2, <3>2, <3>3
    <3>6. Grown(c.prev, 0) \in [0 .. (m - 1) -> 0 .. (m - 1)]
      BY <2>2, <3>2, <3>3
    <3>7. c.map \in [Ids -> 0 .. (m - 1)]
      BY <2>2, <3>2
    <3>8. c.next_slot \in 1 .. m /\ c.last \in 0 .. (m - 1)
      BY <2>2, <3>1, <3>2
    <3> QED
      BY <3>4, <3>5, <3>6, <3>7, <3>8
  <2> HIDE DEF m, Grown, d
  <2> QED
    BY <2>2, <2>3, <1>3, <1>4 DEF Shaped
<1>8. Accounted(d)
  <2> HIDE DEF d
  <2>1. \A s \in Used(c) : d.pItem[s] = c.pItem[s]
    BY <1>5 DEF Used
  <2>2. \A i \in Ids : c.map[i] \in 0 .. (c.max - 1)
    BY <1>1 DEF Shaped
  <2>3. c.num < m
    BY <1>1, <1>4 DEF Accounted, Shaped
  <2> HIDE DEF m, Grown
  <2> QED
    BY <1>1, <1>3, <1>5, <1>6, <2>1, <2>2, <2>3 DEF Accounted
<1>9. Chained(d, o, use)
  <2> HIDE DEF d, m, Grown
  <2> DEFINE r == Ring(o)
  <2>1. /\ Len(o) \in Nat /\ 0 \in 0 .. (c.max - 1)
        /\ \A k \in 0 .. (Len(o) + 1) : r[k] \in 0 .. (c.max - 1)
    BY <1>1, <1>4 DEF Chained, Ring, Used
  <2>2. /\ \A k \in 0 .. Len(o) : c.next[r[k]] = r[k + 1]
        /\ \A k \in 1 .. Len(o) : c.prev[r[k]] = r[k - 1]
    BY <1>1 DEF Chained
  <2> HIDE DEF r
  <2>3. \A s \in 0 .. (c.max - 1) : d.next[s] = c.next[s] /\ d.prev[s] = c.prev[s]
    BY <1>5
  <2>4. ASSUME NEW k \in 0 .. Len(o) PROVE d.next[r[k]] = r[k + 1]
    <3>1. k \in 0 .. (Len(o) + 1)
      BY <2>1
    <3> QED
      BY <3>1, <2>1, <2>2, <2>3
  <2>5. ASSUME NEW k \in 1 .. Len(o) PROVE d.prev[r[k]] = r[k - 1]
    <3>1. k \in 0 .. (Len(o) + 1)
      BY <2>1
    <3> QED
      BY <3>1, <2>1, <2>2, <2>3
  <2> QED
    BY <1>1, <1>3, <1>6, <2>1, <2>3, <2>4, <2>5 DEF Chained, r
<1>10. d.next_slot < d.max
  <2>1. CASE NeedsRoom(c)
    BY <2>1, <1>1, <1>3, <1>4 DEF Shaped
  <2>2. CASE ~NeedsRoom(c)
    <3>1. c.num + 1 < c.max
      BY <1>1, <2>2 DEF Accounted, NeedsRoom, Shaped
    <3> QED
      BY <3>1, <1>1, <1>3, <2>2, RoomLeft
  <2> QED
    BY <2>1, <2>2
<1> HIDE DEF d, m, Grown
<1>11. Holds(d, o, use)
  BY <1>1, <1>7, <1>8, <1>9 DEF Holds
<1> QED
  BY <1>3, <1>4, <1>5, <1>6, <1>10, <1>11 DEF d

-----------------------------------------------------------------------------
(* Insertion *)

\* The places of a list: the sentinel at both ends, different used slots between.
LEMMA Places ==
  ASSUME NEW c, NEW o, NEW use, Holds(c, o, use)
  PROVE  /\ Len(o) \in Nat
         /\ Ring(o) \in [0 .. (Len(o) + 1) -> 0 .. (c.max - 1)]
         /\ \A j \in 1 .. Len(o) : Ring(o)[j] = o[j] /\ o[j] \in Used(c) /\ o[j] # 0
         /\ Ring(o)[0] = 0 /\ Ring(o)[Len(o) + 1] = 0
         /\ \A i, j \in 0 .. Len(o) : Ring(o)[i] = Ring(o)[j] => i = j
         /\ \A i, j \in 1 .. (Len(o) + 1) : Ring(o)[i] = Ring(o)[j] => i = j
<1> DEFINE n == Len(o)
           r == Ring(o)
<1>1. Shaped(c) /\ Accounted(c) /\ Chained(c, o, use) /\ o \in Seq(Nat)
  BY DEF Holds
<1>2. n \in Nat /\ c.max \in Nat /\ c.max > 1
  BY <1>1 DEF Shaped
<1>3. r = [k \in 0 .. (n + 1) |-> IF k \in 1 .. n THEN o[k] ELSE 0]
  BY DEF Ring
<1>4. \A j \in 1 .. n : o[j] \in Used(c) /\ o[j] # 0
  BY <1>1 DEF Chained, Accounted
<1>5. \A s \in Used(c) : s \in 0 .. (c.max - 1)
  BY DEF Used
<1>6. \A i, j \in 1 .. n : o[i] = o[j] => i = j
  BY <1>1 DEF Chained
<1> HIDE DEF n, r
<1>7. r \in [0 .. (n + 1) -> 0 .. (c.max - 1)] /\ r[0] = 0 /\ r[n + 1] = 0
  BY <1>2, <1>3, <1>4, <1>5
<1>8. \A j \in 1 .. n : r[j] = o[j]
  BY <1>2, <1>3
<1>9. \A i, j \in 0 .. n : r[i] = r[j] => i = j
  BY <1>2, <1>4, <1>6, <1>7, <1>8
<1>10. \A i, j \in 1 .. (n + 1) : r[i] = r[j] => i = j
  BY <1>2, <1>4, <1>6, <1>7, <1>8
<1> QED
  BY <1>2, <1>4, <1>7, <1>8, <1>9, <1>10 DEF n, r

\* One slot more is used and counted, and a slot is left beyond them.
LEMMA CountMore ==
  ASSUME NEW max \in Nat, max > 1, NEW U, IsFiniteSet(U), U \subseteq 1 .. (max - 1),
         NEW rc \in 1 .. (max - 1), rc \notin U
  PROVE  /\ Cardinality(U \cup {rc}) = Cardinality(U) + 1
         /\ Cardinality(U \cup {rc}) < max
<1>1. Cardinality(U \cup {rc}) = Cardinality(U) + 1
  BY FS_AddElement
<1>2. max - 1 \in Int /\ 1 \in Int /\ ~(1 > max - 1) /\ (max - 1) - 1 + 1 = max - 1
  OBVIOUS
<1>3. IsFiniteSet(1 .. (max - 1)) /\ Cardinality(1 .. (max - 1)) = max - 1
  BY <1>2, FS_Interval
<1>4. U \cup {rc} \subseteq 1 .. (max - 1)
  OBVIOUS
<1>5. /\ Cardinality(U \cup {rc}) \in Nat
      /\ Cardinality(U \cup {rc}) <= Cardinality(1 .. (max - 1))
  <2>1. IsFiniteSet(U \cup {rc}) /\ Cardinality(U \cup {rc}) <= Cardinality(1 .. (max - 1))
    BY <1>3, <1>4, FS_Subset
  <2> QED
    BY <2>1, FS_CardinalityType
<1>6. Cardinality(U \cup {rc}) < max
  BY <1>3, <1>5
<1> QED
  BY <1>1, <1>6

\* The bookkeeping of an insertion, whatever its pointers.
LEMMA FillAccounted ==
  ASSUME NEW c, Shaped(c), Accounted(c), NEW id \in Ids, c.map[id] = 0, c.next_slot < c.max,
         NEW nx \in [0 .. (c.max - 1) -> 0 .. (c.max - 1)],
         NEW pv \in [0 .. (c.max - 1) -> 0 .. (c.max - 1)], NEW lst \in 0 .. (c.max - 1),
         NEW e, e = FillSlot(c, id, nx, pv, lst)
  PROVE  Shaped(e) /\ Accounted(e) /\ Used(e) = Used(c) \cup {c.next_slot}
<1> DEFINE max == c.max
           N == 0 .. (max - 1)
           rc == c.next_slot
           it == c.pItem
           it2 == [it EXCEPT ![rc] = id]
           map == c.map
           map2 == [map EXCEPT ![id] = rc]
           ns2 == FreeFrom(it2, max, rc)
           U == Used(c)
<1>1. /\ e.pItem = it2 /\ e.next = nx /\ e.prev = pv /\ e.max = max /\ e.num = c.num + 1
      /\ e.last = lst /\ e.map = map2 /\ e.next_slot = ns2
  BY DEF FillSlot
<1>2. /\ max \in Nat /\ max > 1 /\ rc \in 1 .. max /\ rc < max /\ c.num \in Nat
      /\ it \in [N -> Ids \cup {Null}] /\ map \in [Ids -> N]
  BY DEF Shaped
<1>3. U = {s \in N : it[s] # Null}
  BY DEF Used
<1>4. /\ \A s \in 1 .. (rc - 1) : s \in U
      /\ rc \notin U /\ 0 \notin U /\ c.num = Cardinality(U)
      /\ \A i \in Ids : map[i] # 0 => it[map[i]] = i
      /\ \A s \in U : map[it[s]] = s
  BY DEF Accounted
<1>5. IsFiniteSet(U)
  BY UsedFinite
<1>6. map[id] = 0 /\ nx \in [N -> N] /\ pv \in [N -> N] /\ lst \in N
  OBVIOUS
<1>7. Used(e) = {s \in N : it2[s] # Null}
  BY <1>1 DEF Used
<1> HIDE DEF max, N, rc, it, map, U
<1>8. N = 0 .. (max - 1) /\ rc \in N /\ rc # 0 /\ it[rc] = Null /\ it[0] = Null /\ rc \in 1 .. (max - 1)
  BY <1>2, <1>3, <1>4 DEF N
<1>9. \A s \in N : it[s] # Null => map[it[s]] = s
  BY <1>3, <1>4
<1>20. it2 = [it EXCEPT ![rc] = id] /\ map2 = [map EXCEPT ![id] = rc]
  OBVIOUS
<1> HIDE DEF it2, map2
<1>10. /\ it2 \in [N -> Ids \cup {Null}] /\ map2 \in [Ids -> N] /\ it2[0] = Null
       /\ \A s \in N : it2[s] # Null <=> it[s] # Null \/ s = rc
       /\ \A i \in Ids : map2[i] # 0 => it2[map2[i]] = i
       /\ \A s \in N : it2[s] # Null => map2[it2[s]] = s
  <2>1. id # Null
    BY ContainerAssumption
  <2>2. it2 \in [N -> Ids \cup {Null}] /\ map2 \in [Ids -> N] /\ it2[0] = Null
    BY <1>2, <1>8, <1>20
  <2>3. \A s \in N : it2[s] # Null <=> it[s] # Null \/ s = rc
    BY <1>2, <1>8, <1>20, <2>1
  <2>4. ASSUME NEW i \in Ids, map2[i] # 0 PROVE it2[map2[i]] = i
    <3>1. CASE i = id
      BY <3>1, <1>2, <1>8, <1>20
    <3>2. CASE i # id
      <4>1. map2[i] = map[i] /\ it[map[i]] = i /\ map[i] \in N
        BY <3>2, <2>4, <1>2, <1>4, <1>20
      <4>2. map[i] # rc
        BY <4>1, <1>8, ContainerAssumption
      <4> QED
        BY <4>1, <4>2, <1>2, <1>20
    <3> QED
      BY <3>1, <3>2
  <2>5. ASSUME NEW s \in N, it2[s] # Null PROVE map2[it2[s]] = s
    <3>1. CASE s = rc
      BY <3>1, <1>2, <1>20
    <3>2. CASE s # rc
      <4>1. it2[s] = it[s] /\ it[s] \in Ids /\ map[it[s]] = s /\ s # 0
        BY <3>2, <2>5, <1>2, <1>8, <1>9, <1>20
      <4>2. it[s] # id
        BY <4>1, <1>6
      <4> QED
        BY <4>1, <4>2, <1>2, <1>20
    <3> QED
      BY <3>1, <3>2
  <2> QED
    BY <2>2, <2>3, <2>4, <2>5
<1>11. /\ ns2 \in rc .. max
       /\ ns2 < max => it2[ns2] = Null
       /\ \A t \in rc .. (ns2 - 1) : it2[t] # Null
  <2>1. rc \in 0 .. max
    BY <1>2
  <2>2. \E s \in rc .. max : /\ s < max => it2[s] = Null
                             /\ \A t \in rc .. (s - 1) : it2[t] # Null
    <3> DEFINE T == {s \in rc .. max : s < max => it2[s] = Null}
    <3>1. max \in T /\ T \subseteq Nat
      BY <2>1, <1>2
    <3>2. PICK x \in T : \A y \in T : x <= y
      BY <3>1, LeastNatural
    <3>3. x \in rc .. max /\ (x < max => it2[x] = Null)
      BY <3>2
    <3>4. ASSUME NEW t \in rc .. (x - 1) PROVE it2[t] # Null
      <4>1. t \in rc .. max /\ ~(x <= t)
        BY <3>3, <2>1, <1>2
      <4> QED
        BY <4>1, <3>2
    <3> QED
      BY <3>3, <3>4
  <2> QED
    BY <2>2 DEF FreeFrom
<1> HIDE DEF ns2
<1>12. Used(e) = U \cup {rc}
  BY <1>3, <1>7, <1>8, <1>10
<1>13. U \subseteq 1 .. (max - 1)
  BY <1>2, <1>3, <1>4 DEF N
<1>14. Cardinality(U \cup {rc}) = c.num + 1 /\ c.num + 1 < max
  <2>1. Cardinality(U \cup {rc}) = Cardinality(U) + 1 /\ Cardinality(U \cup {rc}) < max
    BY <1>2, <1>4, <1>5, <1>8, <1>13, CountMore
  <2> QED
    BY <2>1, <1>4
<1>15. ns2 \notin Used(e) /\ 0 \notin Used(e)
  BY <1>2, <1>7, <1>8, <1>10, <1>11
<1>16. ASSUME NEW s \in 1 .. (ns2 - 1) PROVE s \in Used(e)
  <2>1. CASE s < rc
    BY <2>1, <1>2, <1>4, <1>12
  <2>2. CASE s >= rc
    <3>1. s \in rc .. (ns2 - 1) /\ s \in N
      BY <2>2, <1>2, <1>8, <1>11
    <3> QED
      BY <3>1, <1>7, <1>11
  <2> QED
    BY <2>1, <2>2, <1>2, <1>11
<1>17. Accounted(e)
  BY <1>1, <1>7, <1>10, <1>12, <1>14, <1>15, <1>16 DEF Accounted
<1>18. Shaped(e)
  <2>1. e.max \in Nat /\ e.max > 1 /\ e.num \in Nat
    BY <1>1, <1>2
  <2>2. e.next_slot \in 1 .. e.max
    BY <1>1, <1>2, <1>11
  <2>3. e.last \in N /\ e.pItem \in [N -> Ids \cup {Null}] /\ e.next \in [N -> N] /\ e.prev \in [N -> N]
        /\ e.map \in [Ids -> N] /\ N = 0 .. (e.max - 1)
    BY <1>1, <1>6, <1>8, <1>10
  <2> QED
    BY SMTT(30), <2>1, <2>2, <2>3 DEF Shaped
<1> QED
  BY <1>12, <1>17, <1>18 DEF U, rc

\* The pointers nx and pv and the last slot lst link next_slot in between the places
\* k - 1 and k of the list o.
Linked(d, o, use, k, nx, pv, lst) ==
  /\ nx \in [0 .. (d.max - 1) -> 0 .. (d.max - 1)]
  /\ pv \in [0 .. (d.max - 1) -> 0 .. (d.max - 1)]
  /\ lst \in 0 .. (d.max - 1)
  /\ \A s \in 0 .. (d.max - 1) :
        nx[s] = IF s = d.next_slot THEN Ring(o)[k]
                ELSE IF s = Ring(o)[k - 1] THEN d.next_slot ELSE d.next[s]
  /\ \A s \in 0 .. (d.max - 1) :
        pv[s] = IF s = d.next_slot THEN Ring(o)[k - 1]
                ELSE IF s = Ring(o)[k] THEN d.next_slot ELSE d.prev[s]
  /\ use = "append" => lst = IF k = Len(o) + 1 THEN d.next_slot ELSE d.last
  /\ use = "rank" => lst = 0

\* The container e is d with next_slot filled by id and put at place k.
Filled(d, o, use, k, id, e) ==
  /\ Holds(e, PutAt(o, k, d.next_slot), use)
  /\ e.num = d.num + 1
  /\ e.map = [d.map EXCEPT ![id] = d.next_slot]
  /\ e.pItem = [d.pItem EXCEPT ![d.next_slot] = id]

\* FillSlot with such pointers puts the new slot there.
LEMMA FillHolds ==
  ASSUME NEW d, NEW o, NEW use, Holds(d, o, use), d.next_slot < d.max,
         NEW id \in Ids, d.map[id] = 0, NEW k, k \in 1 .. (Len(o) + 1),
         NEW nx, NEW pv, NEW lst, Linked(d, o, use, k, nx, pv, lst),
         NEW e, e = FillSlot(d, id, nx, pv, lst)
  PROVE  Filled(d, o, use, k, id, e)
<1> DEFINE N == 0 .. (d.max - 1)
           n == Len(o)
           r == Ring(o)
           rc == d.next_slot
           p == PutAt(o, k, rc)
           q == Ring(p)
           U == Used(d)
           next == d.next
           prev == d.prev
<1>1. Shaped(d) /\ Accounted(d) /\ Chained(d, o, use) /\ o \in Seq(Nat) /\ use \in {"append", "rank"}
  BY DEF Holds
<1>2. /\ e.pItem = [d.pItem EXCEPT ![d.next_slot] = id] /\ e.next = nx /\ e.prev = pv
      /\ e.num = d.num + 1 /\ e.last = lst /\ e.map = [d.map EXCEPT ![id] = d.next_slot]
  BY DEF FillSlot
<1>3. Shaped(e) /\ Accounted(e) /\ Used(e) = U \cup {rc}
  <2>1. nx \in [N -> N] /\ pv \in [N -> N] /\ lst \in N
    BY DEF Linked
  <2> QED
    BY SMTT(30), <1>1, <2>1, FillAccounted
<1>4. /\ n \in Nat /\ r \in [0 .. (n + 1) -> N]
      /\ \A j \in 1 .. n : r[j] = o[j] /\ o[j] \in U /\ o[j] # 0
      /\ r[0] = 0 /\ r[n + 1] = 0
      /\ \A i, j \in 0 .. n : r[i] = r[j] => i = j
      /\ \A i, j \in 1 .. (n + 1) : r[i] = r[j] => i = j
  BY Places
<1>5. rc \in N /\ rc # 0 /\ rc \notin U /\ rc \in Nat /\ 0 \in N
  BY <1>1 DEF Shaped, Accounted
<1>6. /\ p \in Seq(Nat) /\ Len(p) = n + 1
      /\ \A j \in 1 .. (n + 1) :
            p[j] = IF j < k THEN o[j] ELSE IF j = k THEN rc ELSE o[j - 1]
      /\ \A j \in 0 .. (n + 2) :
            q[j] = IF j < k THEN r[j] ELSE IF j = k THEN rc ELSE r[j - 1]
  <2>1. p = [j \in 1 .. (Len(o) + 1) |-> IF j < k THEN o[j] ELSE IF j = k THEN rc ELSE o[j - 1]]
    BY DEF PutAt
  <2>2. q = [j \in 0 .. (Len(p) + 1) |-> IF j \in 1 .. Len(p) THEN p[j] ELSE 0]
    BY DEF Ring
  <2> HIDE DEF p, q, r, rc
  <2>3. n \in Nat /\ (\A j \in 1 .. n : o[j] \in Nat) /\ k \in 1 .. (n + 1)
    BY <1>1
  <2> HIDE DEF n
  <2>4. p = [j \in 1 .. (n + 1) |-> IF j < k THEN o[j] ELSE IF j = k THEN rc ELSE o[j - 1]]
    BY <2>1 DEF n
  <2>5. p \in [1 .. (n + 1) -> Nat]
    BY <2>3, <2>4, <1>5
  <2>6. p \in Seq(Nat) /\ Len(p) = n + 1
    BY <2>3, <2>5
  <2>7. ASSUME NEW j \in 0 .. (n + 2)
        PROVE  q[j] = IF j < k THEN r[j] ELSE IF j = k THEN rc ELSE r[j - 1]
    <3>1. q[j] = IF j \in 1 .. (n + 1) THEN p[j] ELSE 0
      BY <2>2, <2>3, <2>6
    <3>2. CASE j = 0 \/ j = n + 2
      BY <3>1, <3>2, <2>3, <1>4
    <3>3. CASE j \in 1 .. (n + 1)
      <4>1. j < k => j \in 1 .. n /\ p[j] = o[j]
        BY <2>3, <2>4, <3>3
      <4>2. j > k => j - 1 \in 1 .. n /\ p[j] = o[j - 1]
        BY <2>3, <2>4, <3>3
      <4>3. j = k => p[j] = rc
        BY <2>4, <3>3
      <4> QED
        BY <3>1, <3>3, <4>1, <4>2, <4>3, <2>3, <1>4
    <3> QED
      BY <3>2, <3>3, <2>3
  <2> QED
    BY <2>4, <2>6, <2>7
<1>7. /\ \A j \in 0 .. n : next[r[j]] = r[j + 1]
      /\ \A j \in 1 .. n : prev[r[j]] = r[j - 1]
      /\ use = "append" => d.last = r[n]
      /\ use = "rank" => d.last = 0 /\ prev[0] = r[n]
      /\ n = d.num
      /\ \A s \in U : \E j \in 1 .. n : o[j] = s
  BY <1>1 DEF Chained
<1>8. /\ \A s \in N : nx[s] = IF s = rc THEN r[k] ELSE IF s = r[k - 1] THEN rc ELSE next[s]
      /\ \A s \in N : pv[s] = IF s = rc THEN r[k - 1] ELSE IF s = r[k] THEN rc ELSE prev[s]
      /\ use = "append" => lst = IF k = n + 1 THEN rc ELSE d.last
      /\ use = "rank" => lst = 0
      /\ k \in 1 .. (n + 1)
  BY DEF Linked
<1> HIDE DEF N, n, r, rc, p, q, U, next, prev
<1>9. \A j \in 0 .. (n + 1) : r[j] # rc
  BY <1>4, <1>5
<1>10. /\ \A j \in 0 .. (n + 1) : nx[q[j]] = q[j + 1]
       /\ \A j \in 1 .. (n + 1) : pv[q[j]] = q[j - 1]
  <2>1. ASSUME NEW j \in 0 .. (n + 1) PROVE nx[q[j]] = q[j + 1]
    <3>1. CASE j < k - 1
      <4>1. q[j] = r[j] /\ q[j + 1] = r[j + 1] /\ r[j] # r[k - 1] /\ j \in 0 .. n
        BY SMTT(30), <3>1, <1>4, <1>6, <1>8
      <4>2. next[r[j]] = r[j + 1] /\ r[j] \in N /\ r[j] # rc
        BY <4>1, <1>4, <1>7, <1>9
      <4> QED
        BY <4>1, <4>2, <1>8
    <3>2. CASE j = k - 1
      <4>1. q[j] = r[k - 1] /\ q[j + 1] = rc /\ r[k - 1] \in N /\ r[k - 1] # rc
        <5>1. k - 1 \in 0 .. (n + 1) /\ j \in 0 .. (n + 2) /\ j + 1 \in 0 .. (n + 2) /\ j + 1 = k /\ j < k
          BY <3>2, <1>4, <1>8
        <5> QED
          BY <5>1, <3>2, <1>4, <1>6, <1>9
      <4> QED
        BY <4>1, <1>8
    <3>3. CASE j = k
      <4>1. q[j] = rc /\ q[j + 1] = r[k]
        <5>1. j \in 0 .. (n + 2) /\ j + 1 \in 0 .. (n + 2) /\ ~(j + 1 < k) /\ j + 1 # k /\ (j + 1) - 1 = k
          BY <3>3, <1>4, <1>8
        <5> QED
          BY <5>1, <3>3, <1>6
      <4> QED
        BY <4>1, <1>5, <1>8
    <3>4. CASE j > k
      <4>1. q[j] = r[j - 1] /\ q[j + 1] = r[j] /\ j - 1 \in 0 .. n /\ r[j - 1] # r[k - 1]
        BY <3>4, <1>4, <1>6, <1>8
      <4>2. next[r[j - 1]] = r[j] /\ r[j - 1] \in N /\ r[j - 1] # rc
        BY SMTT(30), <4>1, <1>4, <1>7, <1>9
      <4> QED
        BY <4>1, <4>2, <1>8
    <3> QED
      BY <3>1, <3>2, <3>3, <3>4, <1>4, <1>8
  <2>2. ASSUME NEW j \in 1 .. (n + 1) PROVE pv[q[j]] = q[j - 1]
    <3>1. CASE j < k
      <4>1. q[j] = r[j] /\ q[j - 1] = r[j - 1] /\ r[j] # r[k] /\ j \in 1 .. n
        BY SMTT(30), <3>1, <1>4, <1>6, <1>8
      <4>2. prev[r[j]] = r[j - 1]
        BY <4>1, <1>7
      <4>3. r[j] \in N /\ r[j] # rc
        BY <1>4, <1>9
      <4> QED
        BY <4>1, <4>2, <4>3, <1>8
    <3>2. CASE j = k
      <4>1. q[j] = rc /\ q[j - 1] = r[k - 1]
        BY <3>2, <1>4, <1>6, <1>8
      <4> QED
        BY <4>1, <1>5, <1>8
    <3>3. CASE j = k + 1
      <4>1. q[j] = r[k] /\ q[j - 1] = rc /\ r[k] \in N /\ r[k] # rc
        BY <3>3, <1>4, <1>6, <1>8, <1>9
      <4> QED
        BY <4>1, <1>8
    <3>4. CASE j > k + 1
      <4>1. q[j] = r[j - 1] /\ q[j - 1] = r[j - 2] /\ j - 1 \in 1 .. n /\ r[j - 1] # r[k]
        BY <3>4, <1>4, <1>6, <1>8
      <4>2. prev[r[j - 1]] = r[j - 2] /\ r[j - 1] \in N /\ r[j - 1] # rc
        BY <4>1, <1>4, <1>7, <1>9
      <4> QED
        BY <4>1, <4>2, <1>8
    <3> QED
      BY <3>1, <3>2, <3>3, <3>4, <1>4, <1>8
  <2> QED
    BY <2>1, <2>2
<1>11. use = "append" => lst = q[n + 1]
  <2>1. q[n + 1] = IF k = n + 1 THEN rc ELSE r[n]
    BY <1>4, <1>6, <1>8
  <2> QED
    BY <2>1, <1>7, <1>8
<1>12. use = "rank" => lst = 0 /\ pv[0] = q[n + 1]
  <2>1. CASE k = n + 1
    BY <2>1, <1>4, <1>5, <1>6, <1>8
  <2>2. CASE k # n + 1
    <3>1. r[k] # 0 /\ q[n + 1] = r[n]
      BY <2>2, <1>4, <1>6, <1>8
    <3> QED
      BY <3>1, <1>5, <1>7, <1>8
  <2> QED
    BY <2>1, <2>2
<1>13. ASSUME NEW j \in 1 .. (n + 1) PROVE p[j] \in Used(e)
  <2>1. j < k => j \in 1 .. n /\ p[j] = o[j]
    BY <1>4, <1>6, <1>8
  <2>2. j > k => j - 1 \in 1 .. n /\ p[j] = o[j - 1]
    BY <1>4, <1>6, <1>8
  <2>3. j = k => p[j] = rc
    BY <1>6
  <2> QED
    BY <2>1, <2>2, <2>3, <1>3, <1>4, <1>8
<1>14. \A s \in Used(e) : \E j \in 1 .. (n + 1) : p[j] = s
  <2>1. p[k] = rc
    BY <1>6, <1>8
  <2>2. ASSUME NEW s \in U PROVE \E j \in 1 .. (n + 1) : p[j] = s
    <3>1. PICK i \in 1 .. n : o[i] = s
      BY <1>7
    <3>2. CASE i < k
      BY <3>1, <3>2, <1>4, <1>6
    <3>3. CASE i >= k
      <4>1. i + 1 \in 1 .. (n + 1) /\ p[i + 1] = s
        BY <3>1, <3>3, <1>4, <1>6, <1>8
      <4> QED
        BY <4>1
    <3> QED
      BY <3>2, <3>3, <1>4, <1>8
  <2> QED
    BY <2>1, <2>2, <1>3, <1>8
<1>15. \A i, j \in 1 .. (n + 1) : p[i] = p[j] => i = j
  <2>1. ASSUME NEW j \in 1 .. (n + 1)
        PROVE  p[j] = IF j < k THEN r[j] ELSE IF j = k THEN rc ELSE r[j - 1]
    <3>1. j < k => j \in 1 .. n /\ p[j] = o[j]
      BY <1>4, <1>6, <1>8
    <3>2. j > k => j - 1 \in 1 .. n /\ p[j] = o[j - 1]
      BY <1>4, <1>6, <1>8
    <3> QED
      BY <3>1, <3>2, <1>4, <1>6, <1>8
  <2> QED
    BY <2>1, <1>4, <1>8, <1>9
<1>16. Chained(e, p, use)
  BY <1>2, <1>6, <1>7, <1>10, <1>11, <1>12, <1>13, <1>14, <1>15 DEF Chained, q
<1> QED
  BY <1>1, <1>2, <1>3, <1>6, <1>16 DEF Filled, Holds, p, rc

\* The container e is c, holding o, with the item id put in at place k of the list.
Inserted(c, o, use, k, id, e) ==
  /\ Holds(e, PutAt(o, k, c.next_slot), use)
  /\ e.num = c.num + 1 /\ e.max >= c.max
  /\ e.map = [c.map EXCEPT ![id] = c.next_slot]
  /\ e.pItem[c.next_slot] = id
  /\ \A s \in 0 .. (c.max - 1) : s # c.next_slot => e.pItem[s] = c.pItem[s]

\* An insertion first makes room and then fills next_slot.
LEMMA GrowAndFill ==
  ASSUME NEW c, NEW o, NEW use, Holds(c, o, use), NEW id \in Ids, c.map[id] = 0,
         NEW k, k \in 1 .. (Len(o) + 1), NEW nx, NEW pv, NEW lst,
         NEW d, d = CheckAndResize(c), Linked(d, o, use, k, nx, pv, lst),
         NEW e, e = FillSlot(d, id, nx, pv, lst)
  PROVE  Inserted(c, o, use, k, id, e)
<1>1. /\ Holds(d, o, use) /\ d.next_slot < d.max /\ d.max >= c.max
      /\ d.next_slot = c.next_slot /\ d.num = c.num /\ d.map = c.map
      /\ \A s \in 0 .. (c.max - 1) : d.pItem[s] = c.pItem[s]
  BY ResizeHolds
<1>2. /\ Holds(e, PutAt(o, k, d.next_slot), use)
      /\ e.num = d.num + 1
      /\ e.map = [d.map EXCEPT ![id] = d.next_slot]
      /\ e.pItem = [d.pItem EXCEPT ![d.next_slot] = id]
  <2>1. d.map[id] = 0
    BY <1>1
  <2>2. Filled(d, o, use, k, id, e)
    BY <1>1, <2>1, FillHolds
  <2> QED
    BY <2>2 DEF Filled
<1>3. e.max = d.max
  BY DEF FillSlot
<1>4. /\ d.max \in Nat /\ d.next_slot \in 0 .. (d.max - 1) /\ c.max \in Nat
      /\ DOMAIN d.pItem = 0 .. (d.max - 1)
  <2>1. Shaped(d) /\ Shaped(c)
    BY <1>1 DEF Holds
  <2> QED
    BY <1>1, <2>1 DEF Shaped
<1>5. /\ e.pItem[c.next_slot] = id
      /\ \A s \in 0 .. (c.max - 1) : s # c.next_slot => e.pItem[s] = c.pItem[s]
  BY <1>1, <1>2, <1>4
<1> QED
  BY <1>1, <1>2, <1>3, <1>5 DEF Inserted

\* insert_thing puts the item at the end of an append list.
LEMMA InsertThingHolds ==
  ASSUME NEW c, NEW o, Holds(c, o, "append"), NEW id \in Ids, c.map[id] = 0
  PROVE  Inserted(c, o, "append", Len(o) + 1, id, InsertThing(c, id))
<1> DEFINE d == CheckAndResize(c)
           rc == d.next_slot
           N == 0 .. (d.max - 1)
           nx == [d.next EXCEPT ![d.last] = rc, ![rc] = 0]
           pv == [d.prev EXCEPT ![rc] = d.last, ![0] = rc]
<1>1. Holds(d, o, "append") /\ rc < d.max
  BY ResizeHolds
<1>2. InsertThing(c, id) = FillSlot(d, id, nx, pv, rc)
  BY DEF InsertThing
<1>3. /\ Len(o) \in Nat /\ Ring(o)[Len(o) + 1] = 0
  BY <1>1, Places
<1> HIDE DEF d
<1>4. /\ d.max \in Nat /\ d.max > 1 /\ d.next \in [N -> N] /\ d.prev \in [N -> N]
      /\ rc \in N /\ d.last \in N /\ rc # 0 /\ d.last = Ring(o)[Len(o)]
  BY SMTT(30), <1>1 DEF Holds, Shaped, Chained
<1>5. d.last # rc
  <2>1. /\ \A j \in 1 .. Len(o) : Ring(o)[j] = o[j] /\ o[j] \in Used(d)
        /\ Ring(o)[0] = 0
    BY <1>1, Places
  <2>2. rc \notin Used(d)
    BY <1>1 DEF Holds, Accounted
  <2> QED
    BY <1>3, <1>4, <2>1, <2>2
<1>6. Linked(d, o, "append", Len(o) + 1, nx, pv, rc)
  <2>1. nx \in [N -> N] /\ pv \in [N -> N]
    <3>1. 0 \in N
      BY <1>4
    <3> QED
      BY <1>4, <3>1
  <2>2. ASSUME NEW s \in N
        PROVE  /\ nx[s] = IF s = rc THEN 0 ELSE IF s = d.last THEN rc ELSE d.next[s]
               /\ pv[s] = IF s = rc THEN d.last ELSE IF s = 0 THEN rc ELSE d.prev[s]
    BY <1>4, <1>5
  <2> HIDE DEF nx, pv, rc
  <2>3. (Len(o) + 1) - 1 = Len(o)
    BY <1>3
  <2>4. \A s \in 0 .. (d.max - 1) :
           nx[s] = IF s = d.next_slot THEN Ring(o)[Len(o) + 1]
                   ELSE IF s = Ring(o)[(Len(o) + 1) - 1] THEN d.next_slot ELSE d.next[s]
    BY <1>3, <1>4, <2>2, <2>3 DEF rc
  <2>5. \A s \in 0 .. (d.max - 1) :
           pv[s] = IF s = d.next_slot THEN Ring(o)[(Len(o) + 1) - 1]
                   ELSE IF s = Ring(o)[Len(o) + 1] THEN d.next_slot ELSE d.prev[s]
    BY <1>3, <1>4, <2>2, <2>3 DEF rc
  <2>6. /\ nx \in [0 .. (d.max - 1) -> 0 .. (d.max - 1)]
        /\ pv \in [0 .. (d.max - 1) -> 0 .. (d.max - 1)]
        /\ rc \in 0 .. (d.max - 1) /\ rc = d.next_slot
    BY SMTT(30), <1>4, <2>1 DEF rc
  <2> QED
    BY <2>4, <2>5, <2>6 DEF Linked
<1>7. Len(o) + 1 \in 1 .. (Len(o) + 1)
  BY <1>3
<1> HIDE DEF nx, pv, rc
<1>8. Inserted(c, o, "append", Len(o) + 1, id, FillSlot(d, id, nx, pv, rc))
  BY <1>6, <1>7, GrowAndFill DEF d
<1> QED
  BY <1>2, <1>8

\* insert_thing_after puts the item behind the one at place j.
LEMMA InsertThingAfterHolds ==
  ASSUME NEW c, NEW o, NEW use, Holds(c, o, use), NEW id \in Ids, c.map[id] = 0,
         NEW j, j \in 1 .. Len(o), NEW index, index = o[j]
  PROVE  Inserted(c, o, use, j + 1, id, InsertThingAfter(c, id, index))
<1> DEFINE d == CheckAndResize(c)
           rc == d.next_slot
           N == 0 .. (d.max - 1)
           r == Ring(o)
           n == Len(o)
           after == d.next[index]
           nx == [d.next EXCEPT ![rc] = after, ![index] = rc]
           pv == [d.prev EXCEPT ![rc] = index, ![after] = rc]
           lst == IF d.last = index THEN rc ELSE d.last
<1>1. Holds(d, o, use) /\ rc < d.max
  BY ResizeHolds
<1>2. InsertThingAfter(c, id, index) = FillSlot(d, id, nx, pv, lst)
  BY DEF InsertThingAfter
<1> HIDE DEF d
<1>3. /\ n \in Nat /\ r \in [0 .. (n + 1) -> N]
      /\ \A i \in 1 .. n : r[i] = o[i] /\ o[i] \in Used(d) /\ o[i] # 0
      /\ r[0] = 0 /\ r[n + 1] = 0
      /\ \A i, k \in 0 .. n : r[i] = r[k] => i = k
  BY <1>1, Places
<1>4. /\ d.max \in Nat /\ d.max > 1 /\ d.next \in [N -> N] /\ d.prev \in [N -> N]
      /\ rc \in N /\ d.last \in N /\ rc # 0 /\ rc \notin Used(d)
  <2>1. Shaped(d) /\ rc \notin Used(d)
    BY <1>1 DEF Holds, Accounted
  <2> QED
    BY <1>1, <2>1 DEF Shaped
<1>5. /\ \A k \in 0 .. n : d.next[r[k]] = r[k + 1]
      /\ use = "append" => d.last = r[n]
      /\ use = "rank" => d.last = 0
      /\ use \in {"append", "rank"}
  BY <1>1 DEF Holds, Chained
<1> HIDE DEF N, rc, r, n, after
<1>6. /\ index = r[j] /\ index \in N /\ index # 0 /\ index # rc
      /\ after = r[j + 1] /\ after \in N /\ after # rc
  <2>1. j \in 1 .. n /\ j \in 0 .. n /\ j + 1 \in 0 .. (n + 1)
    BY <1>3 DEF n
  <2>2. index = r[j] /\ index \in Used(d) /\ index # 0 /\ index \in N
    BY <2>1, <1>3
  <2>3. after = r[j + 1]
    BY <2>1, <2>2, <1>5 DEF after
  <2>4. r[j + 1] \in N /\ r[j + 1] # rc
    BY <2>1, <1>3, <1>4
  <2> QED
    BY <2>2, <2>3, <2>4, <1>4
<1>7. nx \in [N -> N] /\ pv \in [N -> N] /\ lst \in N
  BY <1>4, <1>6
<1>8. ASSUME NEW s \in N
      PROVE  /\ nx[s] = IF s = rc THEN after ELSE IF s = index THEN rc ELSE d.next[s]
             /\ pv[s] = IF s = rc THEN index ELSE IF s = after THEN rc ELSE d.prev[s]
  BY <1>4, <1>6
<1>9. /\ use = "append" => lst = IF j + 1 = n + 1 THEN rc ELSE d.last
      /\ use = "rank" => lst = 0
  <2>1. j \in 0 .. n /\ n \in 0 .. n /\ (j + 1 = n + 1 <=> j = n)
    BY <1>3 DEF n
  <2>2. r[n] = r[j] <=> j = n
    BY <2>1, <1>3
  <2> QED
    BY <2>1, <2>2, <1>5, <1>6
<1> HIDE DEF nx, pv, lst
<1>10. Linked(d, o, use, j + 1, nx, pv, lst)
  <2>1. (j + 1) - 1 = j
    BY <1>3 DEF n
  <2>2. /\ \A s \in N : nx[s] = IF s = rc THEN r[j + 1] ELSE IF s = r[(j + 1) - 1] THEN rc ELSE d.next[s]
        /\ \A s \in N : pv[s] = IF s = rc THEN r[(j + 1) - 1] ELSE IF s = r[j + 1] THEN rc ELSE d.prev[s]
    BY <2>1, <1>6, <1>8
  <2> QED
    BY <2>2, <1>7, <1>9 DEF Linked, N, rc, r, n
<1>11. j + 1 \in 1 .. (Len(o) + 1)
  BY <1>3 DEF n
<1>12. Inserted(c, o, use, j + 1, id, FillSlot(d, id, nx, pv, lst))
  BY <1>10, <1>11, GrowAndFill DEF d
<1> QED
  BY <1>2, <1>12

\* insert_thing_before the first item puts the new one first in a rank list.
LEMMA InsertThingBeforeHolds ==
  ASSUME NEW c, NEW o, Holds(c, o, "rank"), NEW id \in Ids, c.map[id] = 0,
         NEW index, index = c.next[0]
  PROVE  Inserted(c, o, "rank", 1, id, InsertThingBefore(c, id, index))
<1> DEFINE d == CheckAndResize(c)
           rc == d.next_slot
           N == 0 .. (d.max - 1)
           r == Ring(o)
           n == Len(o)
           before == d.prev[index]
           nx == [d.next EXCEPT ![rc] = index, ![before] = rc]
           pv == [d.prev EXCEPT ![rc] = before, ![index] = rc]
<1>1. /\ Holds(d, o, "rank") /\ rc < d.max /\ d.last = c.last
      /\ \A s \in 0 .. (c.max - 1) : d.next[s] = c.next[s]
  BY ResizeHolds
<1>2. InsertThingBefore(c, id, index) = FillSlot(d, id, nx, pv, d.last)
  BY DEF InsertThingBefore
<1>0. index = d.next[0]
  <2>1. 0 \in 0 .. (c.max - 1)
    BY DEF Holds, Shaped
  <2> QED
    BY <2>1, <1>1
<1> HIDE DEF d
<1>3. /\ n \in Nat /\ r \in [0 .. (n + 1) -> N]
      /\ \A i \in 1 .. n : r[i] = o[i] /\ o[i] \in Used(d) /\ o[i] # 0
      /\ r[0] = 0 /\ r[n + 1] = 0
  BY <1>1, Places
<1>4. /\ d.max \in Nat /\ d.max > 1 /\ d.next \in [N -> N] /\ d.prev \in [N -> N]
      /\ rc \in N /\ rc # 0 /\ rc \notin Used(d) /\ 0 \in N
  <2>1. Shaped(d) /\ rc \notin Used(d)
    BY <1>1 DEF Holds, Accounted
  <2> QED
    BY <1>1, <2>1 DEF Shaped
<1>5. /\ \A k \in 0 .. n : d.next[r[k]] = r[k + 1]
      /\ \A k \in 1 .. n : d.prev[r[k]] = r[k - 1]
      /\ d.prev[0] = r[n] /\ d.last = 0
  BY <1>1 DEF Holds, Chained
<1> HIDE DEF N, rc, r, n, before
<1>6. /\ index = r[1] /\ index \in N /\ index # rc /\ before = 0
  <2>1. index = r[1]
    <3>1. 0 \in 0 .. n /\ 0 + 1 = 1
      BY <1>3
    <3> QED
      BY <3>1, <1>0, <1>3, <1>5
  <2>2. CASE n = 0
    BY <2>1, <2>2, <1>3, <1>4, <1>5 DEF before
  <2>3. CASE n # 0
    <3>1. 1 \in 1 .. n /\ 1 - 1 = 0
      BY <2>3, <1>3
    <3>2. d.prev[r[1]] = r[0] /\ r[1] \in Used(d) /\ r[1] \in N
      BY <3>1, <1>3, <1>5
    <3> QED
      BY <2>1, <3>2, <1>3, <1>4 DEF before
  <2> QED
    BY <2>2, <2>3
<1>7. nx \in [N -> N] /\ pv \in [N -> N]
  BY <1>4, <1>6
<1>8. ASSUME NEW s \in N
      PROVE  /\ nx[s] = IF s = rc THEN index ELSE IF s = 0 THEN rc ELSE d.next[s]
             /\ pv[s] = IF s = rc THEN 0 ELSE IF s = index THEN rc ELSE d.prev[s]
  BY <1>4, <1>6
<1> HIDE DEF nx, pv
<1>9. Linked(d, o, "rank", 1, nx, pv, d.last)
  <2>1. 1 - 1 = 0
    OBVIOUS
  <2>2. Ring(o)[1] = index /\ Ring(o)[1 - 1] = 0
    BY <2>1, <1>3, <1>6 DEF r
  <2>3. \A s \in 0 .. (d.max - 1) :
           nx[s] = IF s = d.next_slot THEN Ring(o)[1]
                   ELSE IF s = Ring(o)[1 - 1] THEN d.next_slot ELSE d.next[s]
    BY <2>2, <1>8 DEF N, rc
  <2>4. \A s \in 0 .. (d.max - 1) :
           pv[s] = IF s = d.next_slot THEN Ring(o)[1 - 1]
                   ELSE IF s = Ring(o)[1] THEN d.next_slot ELSE d.prev[s]
    BY <2>2, <1>8 DEF N, rc
  <2>5. d.last = 0 /\ d.last \in N
    BY <1>4, <1>5
  <2> QED
    BY <2>3, <2>4, <2>5, <1>7 DEF Linked, N
<1>10. 1 \in 1 .. (Len(o) + 1)
  BY <1>3 DEF n
<1>11. Inserted(c, o, "rank", 1, id, FillSlot(d, id, nx, pv, d.last))
  BY <1>9, <1>10, GrowAndFill DEF d
<1> QED
  BY <1>2, <1>11

-----------------------------------------------------------------------------
(* Removal *)

\* The container e is c, holding o, without the slot at place k of the list.
Removed(c, o, use, k, e) ==
  /\ Holds(e, DropAt(o, k), use)
  /\ e.num = c.num - 1 /\ e.max = c.max
  /\ e.map = [c.map EXCEPT ![c.pItem[o[k]]] = 0]
  /\ e.pItem = [c.pItem EXCEPT ![o[k]] = Null]

\* The container e is c with the slot index emptied.
Freed(c, index, e) ==
  /\ e.pItem = [c.pItem EXCEPT ![index] = Null] /\ e.max = c.max /\ e.num = c.num - 1
  /\ e.next_slot = IF index < c.next_slot THEN index ELSE c.next_slot
  /\ e.map = [c.map EXCEPT ![c.pItem[index]] = 0]

\* The bookkeeping of a removal, whatever its pointers.
LEMMA FreeAccounted ==
  ASSUME NEW c, Shaped(c), Accounted(c), NEW index \in Used(c), NEW e, Shaped(e),
         Freed(c, index, e)
  PROVE  Accounted(e) /\ Used(e) = Used(c) \ {index}
<1> DEFINE N == 0 .. (c.max - 1)
           it == c.pItem
           it2 == e.pItem
           map == c.map
           map2 == e.map
           U == Used(c)
           ns == c.next_slot
<1>0. /\ e.max = c.max /\ e.num = c.num - 1
      /\ e.next_slot = IF index < ns THEN index ELSE ns
  BY DEF Freed
<1>1. /\ c.max \in Nat /\ c.max > 1 /\ ns \in 1 .. c.max /\ c.num \in Nat
      /\ it \in [N -> Ids \cup {Null}] /\ map \in [Ids -> N]
  BY DEF Shaped
<1>2. U = {s \in N : it[s] # Null} /\ Used(e) = {s \in N : it2[s] # Null}
  BY <1>0 DEF Used
<1>3. /\ \A s \in 1 .. (ns - 1) : s \in U
      /\ ns \notin U /\ 0 \notin U /\ c.num = Cardinality(U) /\ c.num < c.max
      /\ \A i \in Ids : map[i] # 0 => it[map[i]] = i
      /\ \A s \in U : map[it[s]] = s
  BY DEF Accounted
<1>4. it2 = [it EXCEPT ![index] = Null] /\ map2 = [map EXCEPT ![it[index]] = 0] /\ index \in U
  BY DEF Freed
<1>5. IsFiniteSet(U)
  BY UsedFinite
<1> HIDE DEF N, it, it2, map, map2, U
<1>6. Used(e) = U \ {index}
  BY <1>1, <1>2, <1>4
<1>7. e.num = Cardinality(Used(e)) /\ e.num < e.max
  <2>1. Cardinality(U \ {index}) = Cardinality(U) - 1
    BY <1>4, <1>5, FS_RemoveElement
  <2> QED
    BY <2>1, <1>0, <1>1, <1>3, <1>6
<1>8. index \in N /\ it[index] \in Ids /\ index # 0 /\ index # ns /\ index \in Nat
  BY <1>1, <1>2, <1>3, <1>4 DEF N
<1>9. e.next_slot \notin Used(e) /\ 0 \notin Used(e)
  BY <1>0, <1>3, <1>6, <1>8
<1>10. ASSUME NEW s \in 1 .. (e.next_slot - 1) PROVE s \in Used(e)
  <2>1. CASE index < ns
    <3>1. s \in 1 .. (ns - 1) /\ s # index
      BY <2>1, <1>0, <1>1, <1>8
    <3> QED
      BY <3>1, <1>3, <1>6
  <2>2. CASE ~(index < ns)
    <3>1. s \in 1 .. (ns - 1) /\ s # index
      BY <2>2, <1>0, <1>1, <1>8
    <3> QED
      BY <3>1, <1>3, <1>6
  <2> QED
    BY <2>1, <2>2
<1>11. ASSUME NEW i \in Ids, map2[i] # 0 PROVE it2[map2[i]] = i
  <2>1. i # it[index] /\ map2[i] = map[i] /\ it[map[i]] = i /\ map[i] \in N
    BY <1>1, <1>3, <1>4, <1>8, <1>11
  <2>2. map[i] # index
    BY <2>1
  <2> QED
    BY <2>1, <2>2, <1>1, <1>4
<1>12. ASSUME NEW s \in Used(e) PROVE map2[it2[s]] = s
  <2>1. s \in U /\ s # index /\ s \in N /\ it[s] # Null
    BY <1>2, <1>6
  <2>2. it2[s] = it[s] /\ map[it[s]] = s /\ it[s] \in Ids
    BY <2>1, <1>1, <1>3, <1>4
  <2>3. it[s] # it[index]
    BY <2>1, <2>2, <1>3, <1>4
  <2> QED
    BY <2>2, <2>3, <1>1, <1>4
<1>13. Accounted(e)
  BY <1>7, <1>9, <1>10, <1>11, <1>12 DEF Accounted, it2, map2
<1> QED
  BY <1>6, <1>13 DEF U

\* unlink_slot and its caller take the slot at place k out of the list.
LEMMA RemoveHolds ==
  ASSUME NEW c, NEW o, NEW use, Holds(c, o, use), NEW k, k \in 1 .. Len(o),
         NEW index, index = o[k], NEW e, e = RemoveThingFromIndex(c, index)
  PROVE  Removed(c, o, use, k, e)
<1> DEFINE N == 0 .. (c.max - 1)
           n == Len(o)
           r == Ring(o)
           p == DropAt(o, k)
           q == Ring(p)
           U == Used(c)
           next == c.next
           prev == c.prev
           pv == c.prev[index]
           nx == c.next[index]
           next2 == [c.next EXCEPT ![index] = 0, ![pv] = nx]
           cleared == [c.prev EXCEPT ![index] = 0]
           prev2 == IF c.last = index THEN cleared ELSE [cleared EXCEPT ![nx] = pv]
<1>1. Shaped(c) /\ Accounted(c) /\ Chained(c, o, use) /\ o \in Seq(Nat) /\ use \in {"append", "rank"}
  BY SMTT(30) DEF Holds
<1>2. /\ e.pItem = [c.pItem EXCEPT ![index] = Null] /\ e.next = next2 /\ e.prev = prev2
      /\ e.max = c.max /\ e.num = c.num - 1
      /\ e.next_slot = IF index < c.next_slot THEN index ELSE c.next_slot
      /\ e.last = IF c.last = index THEN pv ELSE c.last
      /\ e.map = [c.map EXCEPT ![c.pItem[index]] = 0]
  BY DEF RemoveThingFromIndex, UnlinkSlot
<1>3. /\ n \in Nat /\ r \in [0 .. (n + 1) -> N]
      /\ \A j \in 1 .. n : r[j] = o[j] /\ o[j] \in U /\ o[j] # 0
      /\ r[0] = 0 /\ r[n + 1] = 0
      /\ \A i, j \in 0 .. n : r[i] = r[j] => i = j
      /\ \A i, j \in 1 .. (n + 1) : r[i] = r[j] => i = j
  BY Places
<1>4. /\ \A j \in 0 .. n : next[r[j]] = r[j + 1]
      /\ \A j \in 1 .. n : prev[r[j]] = r[j - 1]
      /\ use = "append" => c.last = r[n]
      /\ use = "rank" => c.last = 0 /\ prev[0] = r[n]
      /\ n = c.num
      /\ \A s \in U : \E j \in 1 .. n : o[j] = s
      /\ \A i, j \in 1 .. n : o[i] = o[j] => i = j
  BY SMTT(30), <1>1 DEF Chained
<1>5. /\ c.max \in Nat /\ c.max > 1 /\ c.next \in [N -> N] /\ c.prev \in [N -> N] /\ 0 \in N
      /\ c.last \in N /\ c.num \in Nat /\ c.next_slot \in 1 .. c.max
      /\ c.pItem \in [N -> Ids \cup {Null}] /\ c.map \in [Ids -> N]
  BY <1>1 DEF Shaped
<1>6. U \subseteq N /\ \A s \in U : c.pItem[s] # Null
  BY DEF Used
<1>7. p = [j \in 1 .. (n - 1) |-> IF j < k THEN o[j] ELSE o[j + 1]]
  BY DEF DropAt
<1>8. q = [j \in 0 .. (Len(p) + 1) |-> IF j \in 1 .. Len(p) THEN p[j] ELSE 0]
  BY DEF Ring
<1> HIDE DEF N, r, p, q, U, next, prev
<1>9. k \in 1 .. n /\ k \in 0 .. n /\ k - 1 \in 0 .. n /\ k + 1 \in 1 .. (n + 1)
  BY <1>3
<1>10. /\ index = r[k] /\ index \in U /\ index \in N /\ index # 0
       /\ pv = r[k - 1] /\ nx = r[k + 1]
       /\ pv \in N /\ nx \in N /\ pv # index /\ nx # index
  <2>1. index = r[k] /\ index \in U /\ index # 0
    BY <1>3, <1>9
  <2>2. pv = r[k - 1] /\ nx = r[k + 1]
    BY <2>1, <1>4, <1>9 DEF next, prev
  <2>3. r[k - 1] \in N /\ r[k + 1] \in N /\ r[k - 1] # r[k] /\ r[k + 1] # r[k]
    <3>1. k - 1 \in 0 .. (n + 1) /\ k + 1 \in 0 .. (n + 1) /\ k \in 1 .. (n + 1) /\ k - 1 # k /\ k + 1 # k
      BY <1>3, <1>9
    <3> QED
      BY SMTT(30), <3>1, <1>3, <1>9
  <2> QED
    BY <2>1, <2>2, <2>3, <1>6
<1>0. \A j \in 0 .. n : r[j] \in N
  BY <1>3
<1> HIDE DEF n, pv, nx
<1>11. next2 \in [N -> N] /\ prev2 \in [N -> N]
  BY <1>5, <1>10
<1>12. \A s \in N : next2[s] = IF s = r[k - 1] THEN r[k + 1] ELSE IF s = r[k] THEN 0 ELSE next[s]
  BY <1>5, <1>10 DEF next
<1>13. \A s \in N :
          prev2[s] = IF c.last # index /\ s = r[k + 1] THEN r[k - 1]
                     ELSE IF s = r[k] THEN 0 ELSE prev[s]
  BY SMTT(30), <1>5, <1>10 DEF prev
<1> HIDE DEF next2, prev2
<1>14. Shaped(e)
  <2>1. e.last \in N /\ e.next_slot \in 1 .. c.max /\ e.num \in Nat
    <3>1. e.last \in N
      BY <1>2, <1>5, <1>10
    <3>2. index \in 1 .. c.max
      BY <1>5, <1>10 DEF N
    <3>3. e.num \in Nat
      BY <1>2, <1>3, <1>4, <1>9
    <3> QED
      BY <3>1, <3>2, <3>3, <1>2, <1>5
  <2>2. e.pItem \in [N -> Ids \cup {Null}]
    BY <1>2, <1>5
  <2>3. e.map \in [Ids -> N]
    BY <1>2, <1>5
  <2> QED
    BY SMTT(30), <2>1, <2>2, <2>3, <1>2, <1>5, <1>11 DEF Shaped, N
<1>15. Accounted(e) /\ Used(e) = U \ {index}
  <2>1. Freed(c, index, e)
    BY <1>2 DEF Freed
  <2> QED
    BY <2>1, <1>1, <1>10, <1>14, FreeAccounted DEF U
<1>16. p \in Seq(Nat) /\ Len(p) = n - 1 /\ n - 1 \in Nat
  <2>1. \A j \in 1 .. n : o[j] \in Nat
    BY <1>1 DEF n
  <2>2. p \in [1 .. (n - 1) -> Nat] /\ n - 1 \in Nat
    BY <2>1, <1>3, <1>7, <1>9
  <2> QED
    BY <2>2
<1>17. ASSUME NEW j \in 0 .. n PROVE q[j] = IF j < k THEN r[j] ELSE r[j + 1]
  <2>1. q[j] = IF j \in 1 .. (n - 1) THEN p[j] ELSE 0
    BY <1>3, <1>8, <1>16
  <2>2. CASE j = 0 \/ j = n
    BY <2>1, <2>2, <1>3, <1>9
  <2>3. CASE j \in 1 .. (n - 1)
    <3>1. p[j] = IF j < k THEN o[j] ELSE o[j + 1]
      BY <2>3, <1>7
    <3>2. j \in 1 .. n /\ j + 1 \in 1 .. n
      BY <2>3, <1>3
    <3> QED
      BY <2>1, <2>3, <3>1, <3>2, <1>3
  <2> QED
    BY <2>2, <2>3, <1>3
<1>18. ASSUME NEW j \in 0 .. (n - 1) PROVE next2[q[j]] = q[j + 1]
  <2>0. j \in 0 .. n /\ j + 1 \in 0 .. n
    BY <1>3
  <2>1. CASE j < k - 1
    <3>1. q[j] = r[j] /\ q[j + 1] = r[j + 1] /\ r[j] # r[k - 1] /\ r[j] # r[k]
      BY <2>0, <2>1, <1>3, <1>9, <1>17
    <3>2. next[r[j]] = r[j + 1] /\ r[j] \in N
      BY <2>0, <1>0, <1>4
    <3> QED
      BY <3>1, <3>2, <1>12
  <2>2. CASE j = k - 1
    <3>1. q[j] = r[k - 1] /\ q[j + 1] = r[k + 1]
      BY <2>0, <2>2, <1>3, <1>9, <1>17
    <3> QED
      BY <3>1, <1>10, <1>12
  <2>3. CASE j >= k
    <3>0. j + 1 \in 0 .. n /\ j + 1 # k - 1 /\ j + 1 # k
      BY <2>0, <2>3, <1>9
    <3>1. q[j] = r[j + 1] /\ q[j + 1] = r[(j + 1) + 1]
      BY <2>0, <2>3, <1>3, <1>9, <1>17
    <3>2. r[j + 1] # r[k - 1] /\ r[j + 1] # r[k]
      BY <3>0, <1>3, <1>9
    <3>3. next[r[j + 1]] = r[(j + 1) + 1] /\ r[j + 1] \in N
      BY <3>0, <1>0, <1>4
    <3> QED
      BY <3>1, <3>2, <3>3, <1>12
  <2> QED
    BY <2>1, <2>2, <2>3, <1>3, <1>9
<1>19. c.last = index => k = n
  <2>1. n \in 0 .. n
    BY <1>3
  <2> QED
    BY <2>1, <1>1, <1>3, <1>4, <1>9, <1>10
<1>20. ASSUME NEW j \in 1 .. (n - 1) PROVE prev2[q[j]] = q[j - 1]
  <2>0. j \in 0 .. n /\ j - 1 \in 0 .. n /\ j \in 1 .. n /\ j \in 1 .. (n + 1)
    BY <1>3
  <2>1. CASE j < k
    <3>1. q[j] = r[j] /\ q[j - 1] = r[j - 1] /\ r[j] # r[k + 1] /\ r[j] # r[k]
      BY <2>0, <2>1, <1>3, <1>9, <1>17
    <3>2. prev[r[j]] = r[j - 1] /\ r[j] \in N
      BY <2>0, <1>0, <1>4
    <3> QED
      BY <3>1, <3>2, <1>13
  <2>2. CASE j = k
    <3>1. q[j] = r[k + 1] /\ q[j - 1] = r[k - 1] /\ c.last # index
      BY SMTT(30), <2>0, <2>2, <1>3, <1>9, <1>17, <1>19
    <3> QED
      BY <3>1, <1>10, <1>13
  <2>3. CASE j > k
    <3>0. j + 1 \in 1 .. n /\ j + 1 \in 1 .. (n + 1) /\ j + 1 # k + 1 /\ j + 1 # k /\ (j + 1) - 1 = j
          /\ j + 1 \in 0 .. n /\ j + 1 \in 0 .. (n + 1)
      BY <2>0, <2>3, <1>3, <1>9
    <3>1. q[j] = r[j + 1] /\ q[j - 1] = r[j]
      BY <2>0, <2>3, <1>3, <1>9, <1>17
    <3>2. r[j + 1] # r[k + 1] /\ r[j + 1] # r[k]
      BY <3>0, <1>3, <1>9
    <3>3. prev[r[j + 1]] = r[j] /\ r[j + 1] \in N
      BY <3>0, <1>0, <1>4
    <3> QED
      BY <3>1, <3>2, <3>3, <1>13
  <2> QED
    BY <2>1, <2>2, <2>3, <1>3, <1>9
<1>21. q[n - 1] = IF k = n THEN r[n - 1] ELSE r[n]
  BY <1>3, <1>9, <1>16, <1>17
<1>22. use = "append" => e.last = q[n - 1]
  BY <1>2, <1>4, <1>9, <1>10, <1>19, <1>21
<1>23. use = "rank" => e.last = 0 /\ e.prev[0] = q[n - 1]
  <2>1. ASSUME use = "rank" PROVE e.last = 0 /\ c.last # index
    BY <2>1, <1>2, <1>4, <1>10
  <2>2. CASE k = n
    BY SMTT(30), <2>1, <2>2, <1>2, <1>3, <1>5, <1>13, <1>21
  <2>3. CASE k # n
    <3>1. k + 1 \in 1 .. n /\ r[k + 1] # 0 /\ r[k] # 0
      BY <2>3, <1>3, <1>9
    <3> QED
      BY <2>1, <2>3, <3>1, <1>2, <1>4, <1>5, <1>13, <1>21
  <2> QED
    BY SMTT(30), <2>2, <2>3
<1>24. ASSUME NEW j \in 1 .. (n - 1) PROVE p[j] \in Used(e)
  <2>1. p[j] = IF j < k THEN o[j] ELSE o[j + 1]
    BY <1>7
  <2>2. j \in 1 .. n /\ j + 1 \in 1 .. n /\ (j < k \/ j + 1 > k)
    BY <1>3, <1>9
  <2>3. o[j] \in U /\ o[j + 1] \in U
    BY <2>2, <1>3
  <2>4. (j < k => o[j] # index) /\ (j + 1 > k => o[j + 1] # index)
    BY <2>2, <1>4, <1>9
  <2> QED
    BY <2>1, <2>2, <2>3, <2>4, <1>15
<1>25. ASSUME NEW s \in Used(e) PROVE \E j \in 1 .. (n - 1) : p[j] = s
  <2>1. PICK i \in 1 .. n : o[i] = s /\ i # k
    BY <1>4, <1>9, <1>15
  <2>2. CASE i < k
    <3>1. i \in 1 .. (n - 1) /\ p[i] = o[i]
      BY <2>2, <1>3, <1>7, <1>9
    <3> QED
      BY <3>1, <2>1
  <2>3. CASE i > k
    <3>1. i - 1 \in 1 .. (n - 1) /\ ~(i - 1 < k) /\ (i - 1) + 1 = i
      BY <2>3, <1>3, <1>9
    <3>2. p[i - 1] = o[i]
      BY <3>1, <1>7
    <3> QED
      BY <3>1, <3>2, <2>1
  <2> QED
    BY <2>1, <2>2, <2>3, <1>3, <1>9
<1>26. ASSUME NEW i \in 1 .. (n - 1), NEW j \in 1 .. (n - 1), p[i] = p[j] PROVE i = j
  <2>1. /\ p[i] = IF i < k THEN o[i] ELSE o[i + 1]
        /\ p[j] = IF j < k THEN o[j] ELSE o[j + 1]
    BY <1>7
  <2>2. i \in 1 .. n /\ i + 1 \in 1 .. n /\ j \in 1 .. n /\ j + 1 \in 1 .. n
    BY <1>3
  <2>3. /\ i < k /\ j < k => i = j
        /\ i < k /\ ~(j < k) => i = j + 1
        /\ ~(i < k) /\ j < k => i + 1 = j
        /\ ~(i < k) /\ ~(j < k) => i + 1 = j + 1
    BY SMTT(30), <2>1, <2>2, <1>4, <1>26
  <2> QED
    BY <2>2, <2>3, <1>3, <1>9
<1>27. Chained(e, p, use)
  <2>1. /\ \A j \in 0 .. Len(p) : e.next[q[j]] = q[j + 1]
        /\ \A j \in 1 .. Len(p) : e.prev[q[j]] = q[j - 1]
    BY <1>2, <1>16, <1>18, <1>20
  <2>2. /\ use = "append" => e.last = q[Len(p)]
        /\ use = "rank" => e.last = 0 /\ e.prev[0] = q[Len(p)]
        /\ Len(p) = e.num
    BY <1>2, <1>4, <1>16, <1>22, <1>23
  <2>3. /\ \A j \in 1 .. Len(p) : p[j] \in Used(e)
        /\ \A s \in Used(e) : \E j \in 1 .. Len(p) : p[j] = s
        /\ \A i, j \in 1 .. Len(p) : p[i] = p[j] => i = j
    BY <1>16, <1>24, <1>25, <1>26
  <2> QED
    BY <2>1, <2>2, <2>3 DEF Chained, q
<1> QED
  BY <1>1, <1>2, <1>14, <1>15, <1>16, <1>27 DEF Removed, Holds, p

-----------------------------------------------------------------------------
(* Exchange, and the new container *)

\* swap exchanges two items and leaves the list of slots alone.
LEMMA SwapHolds ==
  ASSUME NEW c, NEW o, NEW use, Holds(c, o, use), NEW i \in Ids, NEW j \in Ids, i # j,
         c.map[i] # 0, c.map[j] # 0, NEW e, e = SwapItems(c, i, j)
  PROVE  Holds(e, o, use)
<1> DEFINE N == 0 .. (c.max - 1)
           it == c.pItem
           map == c.map
           a == map[i]
           b == map[j]
           it2 == [it EXCEPT ![a] = j, ![b] = i]
           map2 == [map EXCEPT ![i] = b, ![j] = a]
<1>1. Shaped(c) /\ Accounted(c) /\ Chained(c, o, use)
  BY DEF Holds
<1>2. /\ e.pItem = it2 /\ e.next = c.next /\ e.prev = c.prev /\ e.max = c.max /\ e.num = c.num
      /\ e.next_slot = c.next_slot /\ e.last = c.last /\ e.map = map2
  BY DEF SwapItems
<1>3. it \in [N -> Ids \cup {Null}] /\ map \in [Ids -> N] /\ c.max \in Nat
  BY <1>1 DEF Shaped
<1>4. /\ \A k \in Ids : map[k] # 0 => it[map[k]] = k
      /\ \A s \in N : it[s] # Null => map[it[s]] = s
  BY <1>1 DEF Accounted, Used
<1>5. a # 0 /\ b # 0 /\ a \in N /\ b \in N /\ i # Null /\ j # Null
  BY <1>3, ContainerAssumption
<1> HIDE DEF N, it, map
<1>6. a # b /\ it[a] = i /\ it[b] = j
  BY <1>4, <1>5
<1>7. it2 \in [N -> Ids \cup {Null}] /\ map2 \in [Ids -> N]
  BY <1>3, <1>5
<1>8. \A s \in N : it2[s] = IF s = a THEN j ELSE IF s = b THEN i ELSE it[s]
  BY <1>3, <1>5, <1>6
<1>9. \A k \in Ids : map2[k] = IF k = i THEN b ELSE IF k = j THEN a ELSE map[k]
  BY <1>3
<1>10. Used(e) = Used(c)
  <2>1. \A s \in N : it2[s] # Null <=> it[s] # Null
    BY <1>5, <1>6, <1>8
  <2> QED
    BY <2>1, <1>2 DEF Used, N, it
<1> HIDE DEF a, b, it2, map2
<1>11. ASSUME NEW k \in Ids, map2[k] # 0 PROVE it2[map2[k]] = k
  <2>1. CASE k = i
    BY <2>1, <1>5, <1>6, <1>8, <1>9
  <2>2. CASE k = j
    BY <2>2, <1>5, <1>6, <1>8, <1>9
  <2>3. CASE k # i /\ k # j
    <3>1. map2[k] = map[k] /\ it[map[k]] = k /\ map[k] \in N
      BY <2>3, <1>3, <1>4, <1>9, <1>11
    <3>2. map[k] # a /\ map[k] # b
      BY <2>3, <3>1, <1>6
    <3> QED
      BY <3>1, <3>2, <1>8
  <2> QED
    BY <2>1, <2>2, <2>3
<1>12. ASSUME NEW s \in N, it2[s] # Null PROVE map2[it2[s]] = s
  <2>1. CASE s = a
    BY <2>1, <1>5, <1>6, <1>8, <1>9
  <2>2. CASE s = b
    BY <2>2, <1>5, <1>6, <1>8, <1>9
  <2>3. CASE s # a /\ s # b
    <3>1. it2[s] = it[s] /\ map[it[s]] = s /\ it[s] \in Ids
      BY <2>3, <1>3, <1>4, <1>8, <1>12
    <3>2. it[s] # i /\ it[s] # j
      BY SMTT(30), <2>3, <3>1 DEF a, b
    <3> QED
      BY <3>1, <3>2, <1>9
  <2> QED
    BY <2>1, <2>2, <2>3
<1>13. Accounted(e)
  <2>1. \A s \in Used(e) : s \in N /\ it2[s] # Null
    BY <1>2 DEF Used, N
  <2>2. \A s \in Used(e) : e.map[e.pItem[s]] = s
    BY <2>1, <1>2, <1>12
  <2>3. \A k \in Ids : e.map[k] # 0 => e.pItem[e.map[k]] = k
    BY SMTT(30), <1>2, <1>11
  <2> QED
    BY <1>1, <1>2, <1>10, <2>2, <2>3 DEF Accounted
<1>14. Shaped(e)
  BY SMTT(30), <1>1, <1>2, <1>7 DEF Shaped, N
<1>15. Chained(e, o, use)
  BY <1>1, <1>2, <1>10 DEF Chained
<1> QED
  BY <1>13, <1>14, <1>15 DEF Holds

\* A new container holds the empty list.
LEMMA NewHolds ==
  ASSUME NEW use \in {"append", "rank"}
  PROVE  Holds(NewContainer, <<>>, use)
<1> DEFINE c == NewContainer
           N == 0 .. (InitMax - 1)
<1>1. /\ c.pItem = [s \in N |-> Null] /\ c.next = [s \in N |-> 0] /\ c.prev = [s \in N |-> 0]
      /\ c.max = InitMax /\ c.num = 0 /\ c.next_slot = 1 /\ c.last = 0 /\ c.map = [i \in Ids |-> 0]
  BY DEF NewContainer
<1> HIDE DEF c
<1>2. InitMax \in Nat /\ InitMax > 1 /\ 0 \in N
  BY ContainerAssumption
<1>3. Shaped(c)
  BY <1>1, <1>2 DEF Shaped
<1>4. Used(c) = {}
  BY <1>1 DEF Used
<1>5. Accounted(c)
  <2>1. Cardinality({}) = 0
    BY FS_EmptySet
  <2> QED
    BY <2>1, <1>1, <1>2, <1>4 DEF Accounted
<1>6. Len(<<>>) = 0 /\ <<>> \in Seq(Nat)
  OBVIOUS
<1>7. Ring(<<>>) = [k \in 0 .. 1 |-> 0]
  BY <1>6 DEF Ring
<1>8. Chained(c, <<>>, use)
  BY SMTT(30), <1>1, <1>2, <1>4, <1>6, <1>7 DEF Chained
<1> QED
  BY <1>3, <1>5, <1>6, <1>8 DEF Holds, c

-----------------------------------------------------------------------------
(* The items in list order *)

\* The items of a list are different, and they are the ones the index knows.
LEMMA ItemsHold ==
  ASSUME NEW c, NEW o, NEW use, Holds(c, o, use)
  PROVE  /\ Len(o) \in Nat /\ Len(o) = c.num
         /\ Items(c, o) \in Seq(Ids) /\ Len(Items(c, o)) = Len(o)
         /\ \A k \in 1 .. Len(o) : /\ Items(c, o)[k] \in Ids /\ Items(c, o)[k] = c.pItem[o[k]]
                                   /\ c.map[Items(c, o)[k]] = o[k]
                                   /\ c.map[Items(c, o)[k]] # 0
         /\ \A i \in Ids : c.map[i] # 0 => \E k \in 1 .. Len(o) : o[k] = c.map[i] /\ Items(c, o)[k] = i
         /\ \A j, k \in 1 .. Len(o) : Items(c, o)[j] = Items(c, o)[k] => j = k
<1> DEFINE n == Len(o)
           t == Items(c, o)
           it == c.pItem
           U == Used(c)
<1>1. Shaped(c) /\ Accounted(c) /\ Chained(c, o, use) /\ o \in Seq(Nat)
  BY DEF Holds
<1>2. n \in Nat /\ t = [k \in 1 .. n |-> it[o[k]]] /\ n = c.num
  BY <1>1 DEF Items, Chained
<1>3. /\ \A k \in 1 .. n : o[k] \in U
      /\ \A s \in U : \E k \in 1 .. n : o[k] = s
  BY <1>1 DEF Chained
<1>4. U = {s \in 0 .. (c.max - 1) : it[s] # Null} /\ it \in [0 .. (c.max - 1) -> Ids \cup {Null}]
  BY <1>1 DEF Used, Shaped
<1>5. /\ \A s \in U : c.map[it[s]] = s /\ s # 0
      /\ \A i \in Ids : c.map[i] # 0 => it[c.map[i]] = i
      /\ c.map \in [Ids -> 0 .. (c.max - 1)]
  BY <1>1 DEF Accounted, Shaped
<1>0. \A i, k \in 1 .. n : o[i] = o[k] => i = k
  BY <1>1 DEF Chained
<1> HIDE DEF n, t, it, U
<1>6. \A s \in U : it[s] \in Ids
  BY <1>4
<1>7. \A k \in 1 .. n : t[k] \in Ids /\ t[k] = it[o[k]] /\ c.map[t[k]] = o[k] /\ c.map[t[k]] # 0
  BY <1>2, <1>3, <1>5, <1>6
<1>8. t \in Seq(Ids) /\ Len(t) = n
  <2>1. t \in [1 .. n -> Ids]
    BY <1>2, <1>7
  <2> QED
    BY <1>2, <2>1
<1>9. ASSUME NEW i \in Ids, c.map[i] # 0 PROVE \E k \in 1 .. n : o[k] = c.map[i] /\ t[k] = i
  <2>1. it[c.map[i]] = i /\ c.map[i] \in U
    BY <1>4, <1>5, <1>9, ContainerAssumption
  <2>2. PICK k \in 1 .. n : o[k] = c.map[i]
    BY <2>1, <1>3
  <2> QED
    BY <2>1, <2>2, <1>7
<1>10. \A j, k \in 1 .. n : t[j] = t[k] => j = k
  BY <1>0, <1>7
<1> QED
  BY <1>2, <1>7, <1>8, <1>9, <1>10 DEF n, t, it

\* The items after an insertion.
LEMMA ItemsPut ==
  ASSUME NEW c, NEW o, NEW use, Holds(c, o, use), NEW id \in Ids, NEW k, k \in 1 .. (Len(o) + 1),
         NEW e, Inserted(c, o, use, k, id, e)
  PROVE  /\ Items(e, PutAt(o, k, c.next_slot)) = PutAt(Items(c, o), k, id)
         /\ Len(PutAt(o, k, c.next_slot)) = Len(o) + 1
<1> DEFINE n == Len(o)
           t == Items(c, o)
           p == PutAt(o, k, c.next_slot)
           ns == c.next_slot
<1>1. n \in Nat /\ Len(t) = n /\ \A j \in 1 .. n : t[j] = c.pItem[o[j]]
  BY ItemsHold
<1>2. /\ e.pItem[ns] = id
      /\ \A s \in 0 .. (c.max - 1) : s # ns => e.pItem[s] = c.pItem[s]
  BY SMTT(30) DEF Inserted
<1>3. \A j \in 1 .. n : o[j] \in 0 .. (c.max - 1) /\ o[j] # ns
  BY DEF Holds, Accounted, Chained, Used
<1>4. p = [j \in 1 .. (n + 1) |-> IF j < k THEN o[j] ELSE IF j = k THEN ns ELSE o[j - 1]]
  BY DEF PutAt
<1>5. Len(p) = n + 1
  <2>1. Holds(e, p, use)
    BY SMTT(30) DEF Inserted
  <2>2. e.num = c.num + 1 /\ n = c.num
    BY SMTT(30) DEF Inserted, Holds, Chained
  <2>3. Len(p) = e.num
    BY <2>1 DEF Holds, Chained
  <2> QED
    BY <2>2, <2>3
<1>6. Items(e, p) = [j \in 1 .. Len(p) |-> e.pItem[p[j]]]
  BY DEF Items
<1>7. PutAt(t, k, id) = [j \in 1 .. (Len(t) + 1) |-> IF j < k THEN t[j] ELSE IF j = k THEN id ELSE t[j - 1]]
  BY DEF PutAt
<1> HIDE DEF n, t, p, ns
<1>8. ASSUME NEW j \in 1 .. (n + 1)
      PROVE  e.pItem[p[j]] = IF j < k THEN t[j] ELSE IF j = k THEN id ELSE t[j - 1]
  <2>1. p[j] = IF j < k THEN o[j] ELSE IF j = k THEN ns ELSE o[j - 1]
    BY <1>4
  <2>2. /\ j < k => j \in 1 .. n
        /\ ~(j < k) /\ j # k => j - 1 \in 1 .. n
    BY <1>1 DEF n
  <2> QED
    BY <2>1, <2>2, <1>1, <1>2, <1>3
<1> QED
  BY SMTT(30), <1>1, <1>5, <1>6, <1>7, <1>8 DEF n, t, p, ns

\* The items after a removal.
LEMMA ItemsDrop ==
  ASSUME NEW c, NEW o, NEW use, Holds(c, o, use), NEW k, k \in 1 .. Len(o),
         NEW e, Removed(c, o, use, k, e)
  PROVE  /\ Items(e, DropAt(o, k)) = DropAt(Items(c, o), k)
         /\ Len(DropAt(o, k)) = Len(o) - 1
<1> DEFINE n == Len(o)
           t == Items(c, o)
           p == DropAt(o, k)
<1>1. n \in Nat /\ Len(t) = n /\ \A j \in 1 .. n : t[j] = c.pItem[o[j]]
  BY ItemsHold
<1>2. e.pItem = [c.pItem EXCEPT ![o[k]] = Null]
  BY DEF Removed
<1>3. /\ \A j \in 1 .. n : o[j] \in 0 .. (c.max - 1)
      /\ \A i, j \in 1 .. n : o[i] = o[j] => i = j
      /\ DOMAIN c.pItem = 0 .. (c.max - 1)
  BY ZenonT(40) DEF Holds, Chained, Used, Shaped
<1>4. p = [j \in 1 .. (n - 1) |-> IF j < k THEN o[j] ELSE o[j + 1]]
  BY DEF DropAt
<1>5. Len(p) = n - 1
  <2>1. e.num = c.num - 1 /\ n = c.num /\ Len(p) = e.num
    BY DEF Removed, Holds, Chained
  <2> QED
    BY <2>1
<1>6. Items(e, p) = [j \in 1 .. Len(p) |-> e.pItem[p[j]]]
  BY SMTT(30) DEF Items
<1>7. DropAt(t, k) = [j \in 1 .. (Len(t) - 1) |-> IF j < k THEN t[j] ELSE t[j + 1]]
  BY DEF DropAt
<1> HIDE DEF n, t, p
<1>8. ASSUME NEW j \in 1 .. (n - 1) PROVE e.pItem[p[j]] = IF j < k THEN t[j] ELSE t[j + 1]
  <2>1. p[j] = IF j < k THEN o[j] ELSE o[j + 1]
    BY <1>4
  <2>2. j \in 1 .. n /\ j + 1 \in 1 .. n /\ k \in 1 .. n /\ (j < k \/ j + 1 > k)
    BY <1>1 DEF n
  <2>3. (j < k => o[j] # o[k]) /\ (~(j < k) => o[j + 1] # o[k])
    BY <2>2, <1>3
  <2>4. e.pItem[p[j]] = c.pItem[p[j]]
    BY <2>1, <2>2, <2>3, <1>2, <1>3
  <2> QED
    BY <2>1, <2>2, <2>4, <1>1
<1> QED
  BY SMTT(30), <1>1, <1>5, <1>6, <1>7, <1>8 DEF n, t, p

\* The items after an exchange.
LEMMA ItemsSwap ==
  ASSUME NEW c, NEW o, NEW use, Holds(c, o, use), NEW a, a \in 1 .. Len(o), NEW b, b \in 1 .. Len(o),
         a # b, NEW i, i = Items(c, o)[a], NEW j, j = Items(c, o)[b], NEW e, e = SwapItems(c, i, j)
  PROVE  Items(e, o) = Exchange(Items(c, o), a, b) /\ e.num = c.num
<1> DEFINE n == Len(o)
           t == Items(c, o)
<1>1. n \in Nat /\ t \in [1 .. n -> Ids] /\ \A k \in 1 .. n : t[k] = c.pItem[o[k]] /\ c.map[t[k]] = o[k]
  <2>1. t \in Seq(Ids) /\ Len(t) = n
    BY ItemsHold
  <2> QED
    BY <2>1, ItemsHold
<1>2. e.pItem = [c.pItem EXCEPT ![c.map[i]] = j, ![c.map[j]] = i] /\ e.num = c.num
  BY ZenonT(40) DEF SwapItems
<1>3. /\ \A k \in 1 .. n : o[k] \in 0 .. (c.max - 1)
      /\ \A k, l \in 1 .. n : o[k] = o[l] => k = l
      /\ DOMAIN c.pItem = 0 .. (c.max - 1)
  BY DEF Holds, Chained, Used, Shaped
<1>4. Items(e, o) = [k \in 1 .. n |-> e.pItem[o[k]]]
  BY DEF Items
<1>5. Exchange(t, a, b) = [t EXCEPT ![a] = t[b], ![b] = t[a]]
  BY DEF Exchange
<1> HIDE DEF n, t
<1>6. a \in 1 .. n /\ b \in 1 .. n /\ c.map[i] = o[a] /\ c.map[j] = o[b] /\ i = t[a] /\ j = t[b]
  BY <1>1 DEF n, t
<1>7. ASSUME NEW k \in 1 .. n
      PROVE  e.pItem[o[k]] = IF k = b THEN t[a] ELSE IF k = a THEN t[b] ELSE t[k]
  <2>1. (o[k] = o[a] <=> k = a) /\ (o[k] = o[b] <=> k = b) /\ o[k] \in DOMAIN c.pItem
    BY <1>3, <1>6
  <2> QED
    BY SMTT(30), <2>1, <1>1, <1>2, <1>6
<1> QED
  BY ZenonT(40), <1>1, <1>2, <1>4, <1>5, <1>6, <1>7 DEF n, t
=============================================================================
