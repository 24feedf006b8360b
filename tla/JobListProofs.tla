---------------------------- MODULE JobListProofs ----------------------------
(***************************************************************************)
(* What the server's job lists keep, for every set of jobs and every size  *)
(* of the array: the container holds the list its callers asked for, and   *)
(* so implements OrderedList; a walk is complete; a queue stays sorted.    *)
(***************************************************************************)
EXTENDS JobList, ItemContainerProofs

-----------------------------------------------------------------------------
(* The steps of the list *)

\* The inductive invariant: the container holds the list order; the job that is being
\* enqueued is not in it; the two jobs of a qorder differ.
ListInv ==
  /\ Holds(con, order, kind)
  /\ enq = [pc |-> enq.pc, job |-> enq.job, at |-> enq.at, after |-> enq.after]
  /\ enq.pc # "idle" => kind = "rank" /\ enq.job \in Ids /\ con.map[enq.job] = 0
  /\ qord # NoOrd => qord.job1 # qord.job2

Same == con' = con /\ order' = order

Puts(k, id) ==
  /\ k \in 1 .. (Len(order) + 1) /\ id \in Ids /\ con.map[id] = 0
  /\ Inserted(con, order, kind, k, id, con')
  /\ order' = PutAt(order, k, con.next_slot)

Drops(k) ==
  /\ k \in 1 .. Len(order)
  /\ Removed(con, order, kind, k, con')
  /\ order' = DropAt(order, k)

\* The item at k is taken out, giving c, and put in again at the end.
Moves(k, c) ==
  /\ k \in 1 .. Len(order)
  /\ Removed(con, order, kind, k, c)
  /\ Inserted(c, DropAt(order, k), kind, Len(order), Listed[k], con')
  /\ order' = PutAt(DropAt(order, k), Len(order), c.next_slot)

Swaps(a, b) ==
  /\ a \in 1 .. Len(order) /\ b \in 1 .. Len(order) /\ a # b
  /\ con' = SwapItems(con, Listed[a], Listed[b])
  /\ order' = order

\* The slot of a job that is present has its place.
LEMMA PlaceFound ==
  ASSUME ListInv, NEW i \in Ids, con.map[i] # 0
  PROVE  /\ PlaceOf(con.map[i]) \in 1 .. Len(order)
         /\ order[PlaceOf(con.map[i])] = con.map[i]
         /\ Listed[PlaceOf(con.map[i])] = i
<1>1. Holds(con, order, kind)
  BY Zenon DEF ListInv
<1>2. \E k \in 1 .. Len(order) : order[k] = con.map[i]
  BY <1>1, ItemsHold
<1>3. DOMAIN order = 1 .. Len(order)
  BY <1>1 DEF Holds
<1>4. PlaceOf(con.map[i]) \in 1 .. Len(order) /\ order[PlaceOf(con.map[i])] = con.map[i]
  BY <1>2, <1>3, Zenon DEF PlaceOf
<1>5. con.pItem[con.map[i]] = i
  BY <1>1, Zenon DEF Holds, Accounted
<1>6. Listed[PlaceOf(con.map[i])] = con.pItem[order[PlaceOf(con.map[i])]]
  BY <1>1, <1>4, ItemsHold DEF Listed
<1> QED
  BY <1>4, <1>5, <1>6, Zenon

\* Taking a job out drops its place.
LEMMA TakeDrops ==
  ASSUME ListInv, NEW i \in Ids, con.map[i] # 0, Take(i)
  PROVE  \E k \in 1 .. Len(order) :
            Drops(k) /\ Listed[k] = i /\ Forget({Listed[k]}, {order[k]})
<1> DEFINE k == PlaceOf(con.map[i])
<1>1. k \in 1 .. Len(order) /\ order[k] = con.map[i] /\ Listed[k] = i
  BY PlaceFound, Zenon
<1>2. /\ con' = RemoveThingFromIndex(con, con.map[i]) /\ order' = DropAt(order, k)
      /\ Forget({i}, {con.map[i]})
  BY Zenon DEF Take
<1> HIDE DEF k
<1>3. Holds(con, order, kind)
  BY Zenon DEF ListInv
<1>4. Removed(con, order, kind, k, con')
  BY <1>1, <1>2, <1>3, RemoveHolds, Zenon
<1>5. Drops(k) /\ Forget({Listed[k]}, {order[k]})
  BY <1>1, <1>2, <1>4, Zenon DEF Drops
<1> QED
  BY <1>1, <1>5, Zenon

\* What a step does to the list, and with it to a walk.
ListStep ==
  \/ Same /\ (walk' = walk \/ Forget({}, {}) \/ get_iterator \/ next_job \/ EndWalk)
  \/ \E k, id : Puts(k, id) /\ (walk' = walk \/ Forget({}, {}))
  \/ \E k \in 1 .. Len(order) : (Drops(k) \/ \E c : Moves(k, c)) /\ Forget({Listed[k]}, {order[k]})
  \/ \E a, b \in 1 .. Len(order) : Swaps(a, b) /\ Forget({Listed[a], Listed[b]}, {})

\* insert puts a new job at the end or moves one there.
LEMMA InsertStep ==
  ASSUME ListInv, NEW i \in Ids, NEW replace \in BOOLEAN, insert(i, replace)
  PROVE  ListStep
<1>1. Holds(con, order, "append") /\ kind = "append" /\ Len(order) \in Nat
  <2>1. kind = "append" /\ Holds(con, order, kind)
    BY Zenon DEF ListInv, insert
  <2> QED
    BY <2>1, ItemsHold, Zenon
<1>2. CASE con.map[i] = 0
  <2>1. /\ \/ con' = InsertThing(con, i) /\ order' = PutAt(order, Len(order) + 1, con.next_slot)
           \/ con' = con /\ order' = order
        /\ Forget({}, {})
    BY <1>2, Zenon DEF insert
  <2>2. CASE con' = InsertThing(con, i) /\ order' = PutAt(order, Len(order) + 1, con.next_slot)
    <3>1. Inserted(con, order, "append", Len(order) + 1, i, InsertThing(con, i))
      BY <1>1, <1>2, InsertThingHolds, Zenon
    <3>2. Len(order) + 1 \in 1 .. (Len(order) + 1)
      BY <1>1
    <3>3. Puts(Len(order) + 1, i)
      BY <3>1, <3>2, <2>2, <1>1, <1>2, Zenon DEF Puts
    <3> QED
      BY <3>3, <2>1, Zenon DEF ListStep
  <2>3. CASE con' = con /\ order' = order
    BY <2>1, <2>3, Zenon DEF ListStep, Same
  <2> QED
    BY <2>1, <2>2, <2>3, Zenon
<1>3. CASE con.map[i] # 0
  <2> DEFINE k == PlaceOf(con.map[i])
             c == RemoveThingFromIndex(con, con.map[i])
             o == DropAt(order, k)
  <2>1. k \in 1 .. Len(order) /\ order[k] = con.map[i] /\ Listed[k] = i
    BY <1>3, PlaceFound, Zenon
  <2>2. /\ \/ con' = InsertThing(c, i) /\ order' = PutAt(o, Len(o) + 1, c.next_slot)
           \/ con' = c /\ order' = o
        /\ Forget({i}, {con.map[i]})
    BY <1>3, Zenon DEF insert
  <2> HIDE DEF k, c
  <2>3. Removed(con, order, kind, k, c)
    BY <2>1, <1>1, RemoveHolds, Zenon DEF c
  <2>4. CASE con' = c /\ order' = o
    <3>1. Drops(k) /\ Forget({Listed[k]}, {order[k]})
      BY <2>1, <2>2, <2>3, <2>4, Zenon DEF Drops
    <3> QED
      BY <3>1, <2>1, Zenon DEF ListStep
  <2>5. CASE con' = InsertThing(c, i) /\ order' = PutAt(o, Len(o) + 1, c.next_slot)
    <3>1. Holds(c, o, "append") /\ c.map = [con.map EXCEPT ![con.pItem[order[k]]] = 0]
      BY <2>3, <1>1, Zenon DEF Removed
    <3>2. con.pItem[order[k]] = i
      BY <2>1, <1>1, <1>3, Zenon DEF Holds, Accounted
    <3>3. c.map[i] = 0
      BY <3>1, <3>2, <1>1, Zenon DEF Holds, Shaped
    <3>4. Inserted(c, o, "append", Len(o) + 1, i, InsertThing(c, i))
      BY <3>1, <3>3, InsertThingHolds, Zenon
    <3>5. Len(o) + 1 = Len(order)
      <4>1. Len(o) = Len(order) - 1
        BY <2>1, <2>3, <1>1, ItemsDrop
      <4> QED
        BY <4>1, <1>1
    <3>6. Moves(k, c)
      BY <2>1, <2>3, <2>5, <3>4, <3>5, <1>1, Zenon DEF Moves
    <3>7. Forget({Listed[k]}, {order[k]})
      BY <2>1, <2>2, Zenon
    <3> QED
      BY <3>6, <3>7, <2>1, Zenon DEF ListStep
  <2> QED
    BY <2>2, <2>4, <2>5, Zenon
<1> QED
  BY <1>2, <1>3, Zenon

\* Every step is one of them.
LEMMA EveryStep ==
  ASSUME ListInv, [Next]_vars
  PROVE  ListStep /\ kind' = kind
<1> USE DEF Present
<1>0. Holds(con, order, kind)
  BY Zenon DEF ListInv
<1>1. CASE UNCHANGED vars
  BY <1>1, Zenon DEF vars, ListStep, Same
<1>2. CASE get_iterator \/ next_job \/ EndWalk
  BY <1>2, Zenon DEF get_iterator, next_job, EndWalk, ListStep, Same
<1>3. ASSUME NEW i \in Ids, NEW replace \in BOOLEAN, insert(i, replace)
      PROVE  ListStep /\ kind' = kind
  BY <1>3, InsertStep, Zenon DEF insert
<1>4. ASSUME NEW prev \in Ids, NEW i \in Ids, insert_after(prev, i)
      PROVE  ListStep /\ kind' = kind
  <2> DEFINE k == PlaceOf(con.map[prev])
  <2>1. /\ con.map[i] = 0 /\ con.map[prev] # 0
        /\ con' = InsertThingAfter(con, i, con.map[prev])
        /\ order' = PutAt(order, k + 1, con.next_slot) /\ walk' = walk /\ kind' = kind
    BY <1>4, Zenon DEF insert_after
  <2>2. k \in 1 .. Len(order) /\ order[k] = con.map[prev]
    BY <2>1, PlaceFound, Zenon
  <2> HIDE DEF k
  <2>3. Inserted(con, order, kind, k + 1, i, con')
    BY <2>1, <2>2, <1>0, InsertThingAfterHolds, Zenon
  <2>4. k + 1 \in 1 .. (Len(order) + 1)
    BY <2>2, <1>0, ItemsHold
  <2>5. Puts(k + 1, i)
    BY <2>1, <2>3, <2>4, Zenon DEF Puts
  <2> QED
    BY <2>1, <2>5, Zenon DEF ListStep
<1>5. ASSUME NEW i \in Ids, NEW j \in Ids, swap_jobs(i, j) \/ (SwapPlaces /\ qord.job1 = i /\ qord.job2 = j),
             con.map[i] # 0, con.map[j] # 0
      PROVE  ListStep /\ kind' = kind
  <2>1. i # j
    BY <1>5, Zenon DEF swap_jobs, SwapPlaces, ListInv
  <2>2. con' = SwapItems(con, i, j) /\ order' = order /\ Forget({i, j}, {}) /\ kind' = kind
    BY <1>5, Zenon DEF swap_jobs, SwapPlaces
  <2>3. PICK a \in 1 .. Len(order) : Listed[a] = i
    BY <1>5, PlaceFound, Zenon
  <2>4. PICK b \in 1 .. Len(order) : Listed[b] = j
    BY <1>5, PlaceFound, Zenon
  <2>5. Swaps(a, b) /\ Forget({Listed[a], Listed[b]}, {})
    BY <2>1, <2>2, <2>3, <2>4, Zenon DEF Swaps
  <2> QED
    BY <2>2, <2>5, Zenon DEF ListStep
<1>6. CASE pop
  <2> DEFINE i == con.pItem[con.next[0]]
  <2>1. Take(i) /\ con.next[0] # 0 /\ kind' = kind
    BY <1>6, Zenon DEF pop
  <2>2. i \in Ids /\ con.map[i] # 0
    <3> DEFINE n == Len(order)
               r == Ring(order)
    <3>1. n \in Nat /\ r[0] = 0 /\ r[n + 1] = 0 /\ \A j \in 1 .. n : r[j] = order[j]
      BY <1>0, Places, Zenon
    <3>2. \A k \in 0 .. n : con.next[r[k]] = r[k + 1]
      BY <1>0, Zenon DEF Holds, Chained
    <3>3. con.next[0] = r[1]
      <4>1. 0 \in 0 .. n /\ 0 + 1 = 1
        BY <3>1
      <4> QED
        BY <3>1, <3>2, <4>1, Zenon
    <3> HIDE DEF n, r
    <3>4. 1 \in 1 .. n
      BY <3>1, <3>3, <2>1
    <3>5. con.next[0] = order[1]
      BY <3>1, <3>3, <3>4, Zenon
    <3> QED
      BY <3>4, <3>5, <1>0, ItemsHold DEF n
  <2> HIDE DEF i
  <2>3. \E k \in 1 .. Len(order) : Drops(k) /\ Forget({Listed[k]}, {order[k]})
    BY <2>1, <2>2, TakeDrops, Zenon
  <2> QED
    BY <2>1, <2>3, Zenon DEF ListStep
<1>7. ASSUME NEW i \in Ids, remove_job(i)
      PROVE  ListStep /\ kind' = kind
  <2>1. con.map[i] # 0 /\ Take(i) /\ kind' = kind
    BY <1>7, Zenon DEF remove_job
  <2>2. \E k \in 1 .. Len(order) : Drops(k) /\ Forget({Listed[k]}, {order[k]})
    BY <2>1, TakeDrops, Zenon
  <2> QED
    BY <2>1, <2>2, Zenon DEF ListStep
<1>8. CASE PlaceByRank
  <2>0. kind' = kind /\ walk' = walk /\ kind = "rank" /\ enq.job \in Ids /\ con.map[enq.job] = 0
    BY <1>8, Zenon DEF PlaceByRank, ListInv
  <2>1. CASE con' = con /\ order' = order
    BY <2>0, <2>1, Zenon DEF ListStep, Same
  <2>2. CASE /\ con' = InsertThingBefore(con, enq.job, con.next[0])
             /\ order' = PutAt(order, 1, con.next_slot)
    <3>1. Inserted(con, order, "rank", 1, enq.job, con')
      BY <2>0, <2>2, <1>0, InsertThingBeforeHolds, Zenon
    <3>2. 1 \in 1 .. (Len(order) + 1)
      BY <1>0, ItemsHold
    <3>3. Puts(1, enq.job)
      BY <2>0, <2>2, <3>1, <3>2, Zenon DEF Puts
    <3> QED
      BY <2>0, <3>3, Zenon DEF ListStep
  <2>3. CASE /\ enq.after \in Ids /\ con.map[enq.after] # 0
             /\ con' = InsertThingAfter(con, enq.job, con.map[enq.after])
             /\ order' = PutAt(order, PlaceOf(con.map[enq.after]) + 1, con.next_slot)
    <3> DEFINE k == PlaceOf(con.map[enq.after])
    <3>1. k \in 1 .. Len(order) /\ order[k] = con.map[enq.after]
      BY <2>3, PlaceFound, Zenon
    <3>2. order' = PutAt(order, k + 1, con.next_slot)
      BY <2>3, Zenon
    <3> HIDE DEF k
    <3>3. Inserted(con, order, kind, k + 1, enq.job, con')
      BY <2>0, <2>3, <3>1, <1>0, InsertThingAfterHolds, Zenon
    <3>4. k + 1 \in 1 .. (Len(order) + 1)
      BY <3>1, <1>0, ItemsHold
    <3>5. Puts(k + 1, enq.job)
      BY <2>0, <3>2, <3>3, <3>4, Zenon DEF Puts
    <3> QED
      BY <2>0, <3>5, Zenon DEF ListStep
  <2> QED
    BY <1>8, <2>1, <2>2, <2>3, Zenon DEF PlaceByRank
<1>9. CASE SearchPlace
  BY <1>9, Zenon DEF SearchPlace, ListStep, Same
<1>10. ASSUME NEW i \in Ids, insert_into_alljobs_by_rank(i)
       PROVE  ListStep /\ kind' = kind
  BY <1>10, Zenon DEF insert_into_alljobs_by_rank, ListStep, Same
<1>11. ASSUME NEW i \in Ids, NEW j \in Ids, req_orderjob(i, j)
       PROVE  ListStep /\ kind' = kind
  BY <1>11, Zenon DEF req_orderjob, ListStep, Same
<1>12. CASE SwapPlaces
  <2>1. CASE {qord.job1, qord.job2} \subseteq Present
    BY <1>12, <2>1, <1>5, Zenon
  <2>2. CASE ~({qord.job1, qord.job2} \subseteq Present)
    BY <1>12, <2>2, Zenon DEF SwapPlaces, ListStep, Same
  <2> QED
    BY <2>1, <2>2, Zenon
<1>13. ASSUME NEW i \in Ids, NEW j \in Ids, swap_jobs(i, j)
       PROVE  ListStep /\ kind' = kind
  <2>1. con.map[i] # 0 /\ con.map[j] # 0
    BY <1>13, Zenon DEF swap_jobs
  <2> QED
    BY <1>5, <1>13, <2>1, Zenon
<1> QED
  BY <1>1, <1>2, <1>3, <1>4, <1>6, <1>7, <1>8, <1>9, <1>10, <1>11, <1>12, <1>13, Zenon DEF Next

\* A step of the list leaves a container that holds the new list.
LEMMA StepHolds ==
  ASSUME ListInv, ListStep, kind' = kind
  PROVE  Holds(con', order', kind')
<1>0. Holds(con, order, kind)
  BY Zenon DEF ListInv
<1>1. CASE Same
  BY <1>0, <1>1, Zenon DEF Same
<1>2. CASE \E k, id : Puts(k, id)
  BY <1>2, Zenon DEF Puts, Inserted
<1>3. CASE \E k \in 1 .. Len(order) : Drops(k)
  BY <1>3, Zenon DEF Drops, Removed
<1>4. CASE \E k \in 1 .. Len(order) : \E c : Moves(k, c)
  BY <1>4, Zenon DEF Moves, Inserted
<1>5. CASE \E x, y \in 1 .. Len(order) : Swaps(x, y)
  <2>1. PICK x \in 1 .. Len(order), y \in 1 .. Len(order) : Swaps(x, y)
    BY <1>5, Zenon
  <2>2. /\ Listed[x] \in Ids /\ con.map[Listed[x]] # 0
        /\ Listed[y] \in Ids /\ con.map[Listed[y]] # 0 /\ Listed[x] # Listed[y]
    BY <2>1, <1>0, ItemsHold DEF Swaps, Listed
  <2> QED
    BY <2>1, <2>2, <1>0, SwapHolds, Zenon DEF Swaps
<1> QED
  BY <1>1, <1>2, <1>3, <1>4, <1>5, Zenon DEF ListStep

\* The inductive invariant holds initially and after every step.
LEMMA ListInvInit == Init => ListInv
<1> SUFFICES ASSUME Init PROVE ListInv
  BY Zenon
<1>1. Holds(con, order, kind)
  BY NewHolds, Zenon DEF Init
<1> QED
  BY <1>1, Zenon DEF Init, ListInv, NoEnq

\* Every step of a list, a walk, an enqueue or a qorder keeps the inductive invariant.
LEMMA ListInvNext == ListInv /\ [Next]_vars => ListInv'
<1> SUFFICES ASSUME ListInv, [Next]_vars PROVE ListInv'
  BY Zenon
<1>1. Holds(con, order, kind)' /\ kind' = kind
  BY EveryStep, StepHolds, Zenon
<1>2. /\ enq = [pc |-> enq.pc, job |-> enq.job, at |-> enq.at, after |-> enq.after]
      /\ enq.pc # "idle" => kind = "rank" /\ enq.job \in Ids /\ con.map[enq.job] = 0
      /\ qord # NoOrd => qord.job1 # qord.job2
  BY Zenon DEF ListInv
<1>3. CASE con' = con /\ enq' = enq /\ qord' = qord
  BY <1>1, <1>2, <1>3, Zenon DEF ListInv
<1>4. CASE enq.pc = "idle" /\ enq' = enq /\ qord' = qord
  BY <1>1, <1>2, <1>4, Zenon DEF ListInv
<1>5. ASSUME NEW i \in Ids, insert_into_alljobs_by_rank(i) PROVE ListInv'
  <2>1. /\ enq' = [pc |-> "search", job |-> i, at |-> con.prev[0], after |-> Null]
        /\ kind = "rank" /\ con.map[i] = 0 /\ con' = con /\ qord' = qord
    BY <1>5, Zenon DEF insert_into_alljobs_by_rank, Present
  <2> QED
    BY <2>1, <1>1, <1>2, Zenon DEF ListInv
<1>6. CASE SearchPlace
  <2>1. con' = con /\ qord' = qord /\ enq.pc = "search"
    BY <1>6, Zenon DEF SearchPlace
  <2>2. \/ enq' = [enq EXCEPT !.pc = "place"]
        \/ enq' = [enq EXCEPT !.pc = "place", !.after = con.pItem[enq.at]]
        \/ enq' = NoEnq
        \/ enq' = [enq EXCEPT !.at = con.prev[enq.at]]
    BY <1>6, Zenon DEF SearchPlace
  <2>3. /\ enq' = [pc |-> enq'.pc, job |-> enq'.job, at |-> enq'.at, after |-> enq'.after]
        /\ enq'.job = enq.job \/ enq'.pc = "idle"
    <3>1. CASE enq' = [enq EXCEPT !.pc = "place"]
      <4>1. enq' = [pc |-> "place", job |-> enq.job, at |-> enq.at, after |-> enq.after]
        BY <3>1, <1>2, Zenon
      <4> QED
        BY <4>1, Zenon
    <3>2. CASE enq' = [enq EXCEPT !.pc = "place", !.after = con.pItem[enq.at]]
      <4>1. enq' = [pc |-> "place", job |-> enq.job, at |-> enq.at, after |-> con.pItem[enq.at]]
        BY <3>2, <1>2, Zenon
      <4> QED
        BY <4>1, Zenon
    <3>3. CASE enq' = NoEnq
      BY <3>3, Zenon DEF NoEnq
    <3>4. CASE enq' = [enq EXCEPT !.at = con.prev[enq.at]]
      <4>1. enq' = [pc |-> enq.pc, job |-> enq.job, at |-> con.prev[enq.at], after |-> enq.after]
        BY <3>4, <1>2, Zenon
      <4> QED
        BY <4>1, Zenon
    <3> QED
      BY <2>2, <3>1, <3>2, <3>3, <3>4, Zenon
  <2> QED
    BY <2>1, <2>3, <1>1, <1>2, Zenon DEF ListInv
<1>7. CASE PlaceByRank
  <2>1. enq' = NoEnq /\ qord' = qord
    BY <1>7, Zenon DEF PlaceByRank
  <2> QED
    BY <2>1, <1>1, <1>2, Zenon DEF ListInv, NoEnq
<1>8. ASSUME NEW i \in Ids, NEW j \in Ids, req_orderjob(i, j) PROVE ListInv'
  <2>1. i # j /\ con' = con /\ enq' = enq /\ qord' = [job1 |-> i, job2 |-> j]
    BY <1>8, Zenon DEF req_orderjob
  <2> QED
    BY <2>1, <1>1, <1>2, Zenon DEF ListInv
<1>9. CASE SwapPlaces
  <2>1. enq.pc = "idle" /\ enq' = enq /\ qord' = NoOrd
    BY <1>9, Zenon DEF SwapPlaces
  <2> QED
    BY <2>1, <1>1, <1>2, Zenon DEF ListInv
<1>10. CASE \/ UNCHANGED vars \/ get_iterator \/ next_job \/ EndWalk
  BY <1>3, <1>10, Zenon DEF vars, get_iterator, next_job, EndWalk
<1>11. ASSUME NEW i \in Ids, NEW replace \in BOOLEAN, insert(i, replace) PROVE ListInv'
  <2>1. kind = "append" /\ enq' = enq /\ qord' = qord
    BY <1>11, Zenon DEF insert
  <2> QED
    BY <2>1, <1>2, <1>4, Zenon
<1>12. ASSUME NEW i \in Ids, NEW j \in Ids, insert_after(i, j) \/ swap_jobs(i, j) PROVE ListInv'
  <2>1. kind = "append" /\ enq' = enq /\ qord' = qord
    BY <1>12, Zenon DEF insert_after, swap_jobs
  <2> QED
    BY <2>1, <1>2, <1>4, Zenon
<1>13. ASSUME NEW i \in Ids, pop \/ remove_job(i) PROVE ListInv'
  <2>1. enq.pc = "idle" /\ enq' = enq /\ qord' = qord
    BY <1>2, <1>13, Zenon DEF pop, remove_job
  <2> QED
    BY <2>1, <1>4, Zenon
<1>14. CASE pop
  <2>1. kind = "append" /\ enq' = enq /\ qord' = qord
    BY <1>14, Zenon DEF pop
  <2> QED
    BY <2>1, <1>2, <1>4, Zenon
<1> QED
  BY <1>5, <1>6, <1>7, <1>8, <1>9, <1>10, <1>11, <1>12, <1>13, <1>14, Zenon DEF Next

\* Every slot of the array is accounted for, for every set of jobs and every size of
\* the array: the next insertion writes to a free slot, and the index and the slots agree.
THEOREM SlotsAreAccounted == Spec => []SlotsAccounted
<1>1. ListInv => SlotsAccounted
  BY Zenon DEF ListInv, Holds, SlotsAccounted
<1> QED
  BY <1>1, ListInvInit, ListInvNext, PTL DEF Spec

\* The next and prev pointers are the list the callers asked for, whatever the operations
\* of container.hpp and their order, with walks and searches between them.
THEOREM ListsAreChained == Spec => []ListIsChained
<1>1. ListInv => ListIsChained
  BY Zenon DEF ListInv, Holds, ListIsChained
<1> QED
  BY <1>1, ListInvInit, ListInvNext, PTL DEF Spec

-----------------------------------------------------------------------------
(* The lists implement OrderedList *)

\* What each kind of step does to the abstract list.
LEMMA PutsInserts ==
  ASSUME ListInv, NEW k, NEW id, Puts(k, id)
  PROVE  /\ id \in Ids /\ id \notin Present /\ k \in 1 .. (con.num + 1)
         /\ Listed' = PutAt(Listed, k, id)
         /\ con'.num = con.num + 1 /\ Present' = Present \cup {id}
<1>0. Holds(con, order, kind) /\ Len(order) = con.num
  BY ItemsHold, Zenon DEF ListInv
<1>1. /\ k \in 1 .. (Len(order) + 1) /\ id \in Ids /\ con.map[id] = 0
      /\ Inserted(con, order, kind, k, id, con') /\ order' = PutAt(order, k, con.next_slot)
  BY Zenon DEF Puts
<1>2. Listed' = PutAt(Listed, k, id)
  BY <1>0, <1>1, ItemsPut DEF Listed
<1>3. /\ con'.num = con.num + 1 /\ con'.map = [con.map EXCEPT ![id] = con.next_slot]
  BY <1>1, Zenon DEF Inserted
<1>4. con.next_slot # 0 /\ DOMAIN con.map = Ids
  BY <1>0 DEF Holds, Shaped
<1>5. Present' = Present \cup {id}
  BY <1>1, <1>3, <1>4, Zenon DEF Present
<1> QED
  BY <1>0, <1>1, <1>2, <1>3, <1>5, Zenon DEF Present

\* Unlinking a slot removes its job from the abstract list.
LEMMA DropsRemoves ==
  ASSUME ListInv, NEW k, Drops(k)
  PROVE  /\ k \in 1 .. con.num
         /\ Listed' = DropAt(Listed, k)
         /\ con'.num = con.num - 1 /\ Present' = Present \ {Listed[k]}
<1>0. Holds(con, order, kind) /\ Len(order) = con.num
  BY ItemsHold, Zenon DEF ListInv
<1>1. /\ k \in 1 .. Len(order)
      /\ Removed(con, order, kind, k, con') /\ order' = DropAt(order, k)
  BY Zenon DEF Drops
<1>2. Listed' = DropAt(Listed, k)
  BY <1>0, <1>1, ItemsDrop, SMTT(30) DEF Listed
<1>3. con'.num = con.num - 1 /\ con'.map = [con.map EXCEPT ![Listed[k]] = 0]
  BY <1>0, <1>1, ItemsHold, SMTT(30) DEF Removed, Listed
<1>4. Listed[k] \in Ids /\ DOMAIN con.map = Ids
  <2>1. DOMAIN con.map = Ids
    BY <1>0, Zenon DEF Holds, Shaped
  <2> QED
    BY <2>1, <1>0, <1>1, ItemsHold, Zenon DEF Listed
<1>5. Present' = Present \ {Listed[k]}
  BY <1>3, <1>4, Zenon DEF Present
<1> QED
  BY <1>0, <1>1, <1>2, <1>3, <1>5, Zenon

\* Inserting a job that is there already moves it to the end of the abstract list.
LEMMA MovesToEnd ==
  ASSUME ListInv, NEW k, NEW c, Moves(k, c)
  PROVE  /\ k \in 1 .. con.num
         /\ Listed' = PutAt(DropAt(Listed, k), con.num, Listed[k])
         /\ con'.num = con.num /\ Present' = Present
<1> DEFINE o == DropAt(order, k)
           id == Listed[k]
<1>0. Holds(con, order, kind) /\ Len(order) = con.num /\ con.num \in Nat
  BY ItemsHold DEF ListInv
<1>1. /\ k \in 1 .. Len(order) /\ Removed(con, order, kind, k, c)
      /\ Inserted(c, o, kind, Len(order), id, con') /\ order' = PutAt(o, Len(order), c.next_slot)
  BY Zenon DEF Moves
<1>2. Items(c, o) = DropAt(Listed, k) /\ Len(o) = Len(order) - 1
  BY SMTT(30), <1>0, <1>1, ItemsDrop DEF Listed
<1>3. /\ Holds(c, o, kind) /\ c.num = con.num - 1
      /\ c.map = [con.map EXCEPT ![con.pItem[order[k]]] = 0]
  BY <1>1, Zenon DEF Removed
<1>4. id \in Ids /\ con.pItem[order[k]] = id /\ con.map[id] # 0
  BY <1>0, <1>1, ItemsHold DEF Listed
<1>5. con'.num = c.num + 1 /\ con'.map = [c.map EXCEPT ![id] = c.next_slot]
  BY <1>1, Zenon DEF Inserted
<1> HIDE DEF o, id
<1>6. Listed' = PutAt(Items(c, o), Len(order), id)
  <2>1. Len(order) \in 1 .. (Len(o) + 1)
    BY <1>0, <1>1, <1>2, SMTT(30)
  <2> QED
    BY <2>1, <1>1, <1>3, <1>4, ItemsPut, SMTT(30) DEF Listed
<1>7. c.next_slot # 0 /\ DOMAIN c.map = Ids
  BY <1>3 DEF Holds, Shaped
<1>8. DOMAIN con.map = Ids
  BY <1>0, Zenon DEF Holds, Shaped
<1>9. Present' = Present
  BY <1>3, <1>4, <1>5, <1>7, <1>8, Zenon DEF Present
<1> QED
  BY SMTT(30), <1>0, <1>1, <1>2, <1>3, <1>5, <1>6, <1>9 DEF id

\* swap exchanges two jobs of the abstract list.
LEMMA SwapsExchange ==
  ASSUME ListInv, NEW x, NEW y, Swaps(x, y)
  PROVE  /\ x \in 1 .. con.num /\ y \in 1 .. con.num /\ x # y
         /\ Listed' = Exchange(Listed, x, y)
         /\ con'.num = con.num /\ Present' = Present
<1>0. Holds(con, order, kind) /\ Len(order) = con.num
  BY ItemsHold DEF ListInv
<1>1. /\ x \in 1 .. Len(order) /\ y \in 1 .. Len(order) /\ x # y
      /\ con' = SwapItems(con, Listed[x], Listed[y]) /\ order' = order
  BY Zenon DEF Swaps
<1>2. Listed' = Exchange(Listed, x, y) /\ con'.num = con.num
  BY <1>0, <1>1, ItemsSwap DEF Listed
<1>3. /\ Listed[x] \in Ids /\ con.map[Listed[x]] # 0
      /\ Listed[y] \in Ids /\ con.map[Listed[y]] # 0
  BY <1>0, <1>1, ItemsHold DEF Listed
<1>4. con'.map = [con.map EXCEPT ![Listed[x]] = con.map[Listed[y]], ![Listed[y]] = con.map[Listed[x]]]
  BY <1>1, Zenon DEF SwapItems
<1>5. DOMAIN con.map = Ids
  BY <1>0, Zenon DEF Holds, Shaped
<1>6. Present' = Present
  BY <1>3, <1>4, <1>5, Zenon DEF Present
<1> QED
  BY <1>0, <1>1, <1>2, <1>6, Zenon

\* A step of the list is a step of OrderedList or leaves its variables alone.
LEMMA StepImplements ==
  ASSUME ListInv, ListStep
  PROVE  [Abstract!Next]_Abstract!vars
<1>1. CASE Same
  BY <1>1, Zenon DEF Same, Abstract!vars, Listed, Present
<1>2. ASSUME NEW k, NEW id, Puts(k, id) PROVE Abstract!Next
  <2>1. /\ id \in Ids /\ id \notin Present /\ k \in 1 .. (con.num + 1)
        /\ Listed' = PutAt(Listed, k, id)
        /\ con'.num = con.num + 1 /\ Present' = Present \cup {id}
    BY <1>2, PutsInserts, Zenon
  <2>2. Abstract!Insert(id, k)
    BY <2>1, Zenon DEF Abstract!Insert, PutAt, Abstract!PutAt
  <2> QED
    BY <2>1, <2>2, Zenon DEF Abstract!Next
<1>3. ASSUME NEW k, Drops(k) PROVE Abstract!Next
  <2>1. /\ k \in 1 .. con.num /\ Listed' = DropAt(Listed, k)
        /\ con'.num = con.num - 1 /\ Present' = Present \ {Listed[k]}
    BY <1>3, DropsRemoves, Zenon
  <2>2. Abstract!Remove(k)
    BY <2>1, Zenon DEF Abstract!Remove, DropAt, Abstract!DropAt
  <2> QED
    BY <2>1, <2>2, Zenon DEF Abstract!Next
<1>4. ASSUME NEW k, NEW c, Moves(k, c) PROVE Abstract!Next
  <2>1. /\ k \in 1 .. con.num /\ Listed' = PutAt(DropAt(Listed, k), con.num, Listed[k])
        /\ con'.num = con.num /\ Present' = Present
    BY <1>4, MovesToEnd, Zenon
  <2>2. Abstract!ToEnd(k)
    BY <2>1, Zenon DEF Abstract!ToEnd, DropAt, Abstract!DropAt, PutAt, Abstract!PutAt
  <2> QED
    BY <2>1, <2>2, Zenon DEF Abstract!Next
<1>5. ASSUME NEW x, NEW y, Swaps(x, y) PROVE Abstract!Next
  <2>1. /\ x \in 1 .. con.num /\ y \in 1 .. con.num /\ x # y
        /\ Listed' = Exchange(Listed, x, y)
        /\ con'.num = con.num /\ Present' = Present
    BY <1>5, SwapsExchange, Zenon
  <2>2. Abstract!Swap(x, y)
    BY <2>1, Zenon DEF Abstract!Swap, Exchange, Abstract!Exchange
  <2> QED
    BY <2>1, <2>2, Zenon DEF Abstract!Next
<1> QED
  BY <1>1, <1>2, <1>3, <1>4, <1>5, Zenon DEF ListStep

\* The container with its callers implements the abstract list: insert, insert_after,
\* pop, remove, swap and the placement by rank each put in, take out, move or exchange
\* what they should and nothing else, whatever the slots they reuse.
THEOREM ListsImplementOrderedList == Spec => IsOrderedList
<1>1. Init => Abstract!Init
  <2> SUFFICES ASSUME Init PROVE Abstract!Init
    OBVIOUS
  <2>1. order = <<>> /\ con = NewContainer
    BY Zenon DEF Init
  <2>2. Len(order) = 0
    BY <2>1, Zenon
  <2>3. Listed = <<>>
    <3>1. Listed = [k \in 1 .. 0 |-> con.pItem[order[k]]]
      BY <2>2, Zenon DEF Listed, Items
    <3> QED
      BY <3>1
  <2>4. con.num = 0 /\ con.map = [i \in Ids |-> 0]
    BY <2>1, Zenon DEF NewContainer
  <2>5. Present = {}
    BY <2>4, Zenon DEF Present
  <2> QED
    BY <2>3, <2>4, <2>5, Zenon DEF Abstract!Init
<1>2. ListInv /\ [Next]_vars => [Abstract!Next]_Abstract!vars
  <2> SUFFICES ASSUME ListInv, [Next]_vars PROVE [Abstract!Next]_Abstract!vars
    BY Zenon
  <2>1. ListStep
    BY EveryStep, Zenon
  <2> QED
    BY <2>1, StepImplements, Zenon
<1> QED
  BY <1>1, <1>2, ListInvInit, ListInvNext, PTL DEF Spec, IsOrderedList, Abstract!Spec

-----------------------------------------------------------------------------
(* Walks *)

\* A walk that was not cut short stands at a place p of the list, and every job it owes
\* is there or behind.
Stands(p) ==
  /\ p \in 1 .. (Len(order) + 1)
  /\ walk.cur = Ring(order)[p]
  /\ \A i \in walk.owed : \E j \in p .. Len(order) : Listed[j] = i

WalkInv ==
  /\ walk = [on |-> walk.on, cur |-> walk.cur, end |-> walk.end, owed |-> walk.owed, hit |-> walk.hit]
  /\ walk.end /\ ~walk.hit => walk.owed = {}
  /\ walk.on /\ ~walk.end /\ ~walk.hit => \E p : Stands(p)

\* The fields of a walk after Forget.
LEMMA Forgotten ==
  ASSUME WalkInv, NEW ids, NEW gone, Forget(ids, gone)
  PROVE  /\ walk' = [on |-> walk'.on, cur |-> walk'.cur, end |-> walk'.end, owed |-> walk'.owed,
                     hit |-> walk'.hit]
         /\ walk'.on = walk.on /\ walk'.cur = walk.cur /\ walk'.end = walk.end
         /\ walk'.owed = walk.owed \ ids
         /\ walk'.hit = (walk.hit \/ (walk.on /\ walk.cur \in gone))
<1>1. walk' = [on |-> walk.on, cur |-> walk.cur, end |-> walk.end, owed |-> walk.owed \ ids,
               hit |-> walk.hit \/ (walk.on /\ walk.cur \in gone)]
  BY Zenon DEF WalkInv, Forget
<1> QED
  BY <1>1, Zenon

\* A place p of the list o, with the items t, has become the place q of o2, with the
\* items t2: the slot is the same and every item from p on, but the ones lost, is from q on.
Shifted(o, t, p, o2, t2, q, lost) ==
  /\ q \in 1 .. (Len(o2) + 1)
  /\ Ring(o2)[q] = Ring(o)[p]
  /\ \A j \in p .. Len(o) : t[j] \notin lost => \E i \in q .. Len(o2) : t2[i] = t[j]

\* An insertion shifts the places from k on.
LEMMA PutShifts ==
  ASSUME NEW o, Len(o) \in Nat, NEW t, Len(t) = Len(o), NEW k, k \in 1 .. (Len(o) + 1), NEW x, NEW id,
         NEW o2, o2 = PutAt(o, k, x), Len(o2) = Len(o) + 1, NEW t2, t2 = PutAt(t, k, id),
         NEW p, p \in 1 .. (Len(o) + 1)
  PROVE  \E q : Shifted(o, t, p, o2, t2, q, {})
<1> DEFINE n == Len(o)
           q == IF k <= p THEN p + 1 ELSE p
<1>1. n \in Nat /\ k \in 1 .. (n + 1) /\ p \in 1 .. (n + 1) /\ Len(o2) = n + 1
  BY Zenon
<1>2. o2 = [j \in 1 .. (n + 1) |-> IF j < k THEN o[j] ELSE IF j = k THEN x ELSE o[j - 1]]
  BY Zenon DEF PutAt
<1>3. t2 = [j \in 1 .. (n + 1) |-> IF j < k THEN t[j] ELSE IF j = k THEN id ELSE t[j - 1]]
  BY Zenon DEF PutAt
<1>4. /\ Ring(o) = [j \in 0 .. (n + 1) |-> IF j \in 1 .. n THEN o[j] ELSE 0]
      /\ Ring(o2) = [j \in 0 .. (n + 2) |-> IF j \in 1 .. (n + 1) THEN o2[j] ELSE 0]
  BY <1>1 DEF Ring
<1> HIDE DEF n
<1>5. q \in 1 .. (n + 2)
  BY <1>1
<1>6. Ring(o2)[q] = Ring(o)[p]
  <2>1. CASE p = n + 1
    BY <2>1, <1>1, <1>4
  <2>2. CASE p # n + 1
    <3>1. p \in 1 .. n /\ q \in 1 .. (n + 1)
      BY <2>2, <1>1
    <3>2. o2[q] = o[p]
      BY <3>1, <1>1, <1>2
    <3>3. p \in 0 .. (n + 1) /\ q \in 0 .. (n + 2)
      BY <3>1, <1>1
    <3> HIDE DEF q
    <3> QED
      BY <3>1, <3>2, <3>3, <1>4, Zenon
  <2> QED
    BY <2>1, <2>2
<1>7. ASSUME NEW j \in p .. n PROVE \E i \in q .. (n + 1) : t2[i] = t[j]
  <2>1. CASE j < k
    <3>1. j \in q .. (n + 1) /\ t2[j] = t[j]
      BY <2>1, <1>1, <1>3
    <3> QED
      BY <3>1, Zenon
  <2>2. CASE j >= k
    <3>1. j + 1 \in q .. (n + 1) /\ t2[j + 1] = t[j]
      BY <2>2, <1>1, <1>3
    <3> QED
      BY <3>1, Zenon
  <2> QED
    BY <2>1, <2>2, <1>1
<1> HIDE DEF q
<1>8. Shifted(o, t, p, o2, t2, q, {})
  BY <1>1, <1>5, <1>6, <1>7 DEF Shifted, n
<1> QED
  BY <1>8, Zenon

\* A removal at another place shifts the places behind it.
LEMMA DropShifts ==
  ASSUME NEW o, Len(o) \in Nat, NEW t, Len(t) = Len(o), NEW k, k \in 1 .. Len(o),
         NEW o2, o2 = DropAt(o, k), Len(o2) = Len(o) - 1, NEW t2, t2 = DropAt(t, k),
         NEW p, p \in 1 .. (Len(o) + 1), p # k
  PROVE  \E q : Shifted(o, t, p, o2, t2, q, {t[k]})
<1> DEFINE n == Len(o)
           q == IF k < p THEN p - 1 ELSE p
<1>1. n \in Nat /\ k \in 1 .. n /\ p \in 1 .. (n + 1) /\ Len(o2) = n - 1
  BY Zenon
<1>2. o2 = [j \in 1 .. (n - 1) |-> IF j < k THEN o[j] ELSE o[j + 1]]
  BY Zenon DEF DropAt
<1>3. t2 = [j \in 1 .. (n - 1) |-> IF j < k THEN t[j] ELSE t[j + 1]]
  BY Zenon DEF DropAt
<1>4. /\ Ring(o) = [j \in 0 .. (n + 1) |-> IF j \in 1 .. n THEN o[j] ELSE 0]
      /\ Ring(o2) = [j \in 0 .. n |-> IF j \in 1 .. (n - 1) THEN o2[j] ELSE 0]
  <2>1. (n - 1) + 1 = n
    BY <1>1
  <2> QED
    BY <1>1, <2>1, Zenon DEF Ring
<1> HIDE DEF n
<1>5. q \in 1 .. n
  BY <1>1
<1>6. Ring(o2)[q] = Ring(o)[p]
  <2>1. CASE p = n + 1
    BY <2>1, <1>1, <1>4
  <2>2. CASE p # n + 1
    <3>1. p \in 1 .. n /\ q \in 1 .. (n - 1)
      BY <2>2, <1>1
    <3>2. o2[q] = o[p]
      BY <3>1, <1>1, <1>2
    <3>3. p \in 0 .. (n + 1) /\ q \in 0 .. n
      BY <3>1, <1>1
    <3> HIDE DEF q
    <3> QED
      BY <3>1, <3>2, <3>3, <1>4, Zenon
  <2> QED
    BY <2>1, <2>2, Zenon
<1>7. ASSUME NEW j \in p .. n, t[j] # t[k] PROVE \E i \in q .. (n - 1) : t2[i] = t[j]
  <2>0. j # k
    BY <1>7, Zenon
  <2>1. CASE j < k
    <3>1. j \in q .. (n - 1) /\ t2[j] = t[j]
      BY <2>1, <1>1, <1>3
    <3> QED
      BY <3>1, Zenon
  <2>2. CASE j > k
    <3>1. j - 1 \in q .. (n - 1) /\ t2[j - 1] = t[j]
      BY <2>2, <1>1, <1>3, SMTT(30)
    <3> QED
      BY <3>1, Zenon
  <2> QED
    BY <2>0, <2>1, <2>2, <1>1
<1> HIDE DEF q
<1>8. Shifted(o, t, p, o2, t2, q, {t[k]})
  <2>1. q \in 1 .. (Len(o2) + 1)
    BY <1>1, <1>5
  <2> QED
    BY <1>1, <2>1, <1>6, <1>7, Zenon DEF Shifted, n
<1> QED
  BY <1>8, Zenon

\* A walk that forgets what a step may have lost goes on from the shifted place.
LEMMA ForgetKeeps ==
  ASSUME WalkInv, NEW ids, NEW gone, Forget(ids, gone),
         \A p : Stands(p) /\ Ring(order)[p] \notin gone =>
                   \E q : Shifted(order, Listed, p, order', Listed', q, ids)
  PROVE  WalkInv'
<1>1. /\ walk' = [on |-> walk'.on, cur |-> walk'.cur, end |-> walk'.end, owed |-> walk'.owed,
                  hit |-> walk'.hit]
      /\ walk'.on = walk.on /\ walk'.cur = walk.cur /\ walk'.end = walk.end
      /\ walk'.owed = walk.owed \ ids
      /\ walk'.hit = (walk.hit \/ (walk.on /\ walk.cur \in gone))
  BY Forgotten, Zenon
<1>2. walk'.end /\ ~walk'.hit => walk'.owed = {}
  BY <1>1, Zenon DEF WalkInv
<1>3. ASSUME walk'.on, ~walk'.end, ~walk'.hit PROVE \E p : Stands(p)'
  <2>1. PICK p : Stands(p)
    BY <1>1, <1>3, Zenon DEF WalkInv
  <2>2. walk.cur = Ring(order)[p] /\ walk.cur \notin gone
    BY <2>1, <1>1, <1>3, Zenon DEF Stands
  <2>3. PICK q : Shifted(order, Listed, p, order', Listed', q, ids)
    BY <2>1, <2>2, Zenon
  <2>4. ASSUME NEW i \in walk'.owed PROVE \E j \in q .. Len(order') : Listed'[j] = i
    <3>1. PICK j \in p .. Len(order) : Listed[j] = i
      BY <1>1, <2>1, Zenon DEF Stands
    <3>2. Listed[j] \notin ids
      BY <3>1, <1>1
    <3> QED
      BY <3>1, <3>2, <2>3, Zenon DEF Shifted
  <2>5. Stands(q)'
    BY <1>1, <2>2, <2>3, <2>4, Zenon DEF Stands, Shifted
  <2> QED
    BY <2>5, Zenon
<1> QED
  BY <1>1, <1>2, <1>3, Zenon DEF WalkInv

\* Every step keeps what a walk still owes ahead of the place it stands on.
LEMMA WalkInvNext == ListInv /\ WalkInv /\ [Next]_vars => WalkInv'
<1> SUFFICES ASSUME ListInv, WalkInv, [Next]_vars PROVE WalkInv'
  BY Zenon
<1> DEFINE n == Len(order)
<1>0. Holds(con, order, kind) /\ n \in Nat /\ Len(Listed) = n
  BY ItemsHold, Zenon DEF ListInv, Listed
<1>1. ListStep
  BY EveryStep, Zenon
<1>2. CASE Same /\ walk' = walk
  BY <1>2, Zenon DEF Same, WalkInv, Stands, Listed
<1>3. CASE Same /\ Forget({}, {})
  <2>1. ASSUME NEW p, Stands(p) PROVE Shifted(order, Listed, p, order', Listed', p, {})
    BY <1>3, <2>1, Zenon DEF Same, Stands, Shifted, Listed
  <2> QED
    BY <1>3, <2>1, ForgetKeeps, Zenon
<1>4. CASE get_iterator
  <2>1. /\ walk' = [on |-> TRUE, cur |-> con.next[0], end |-> FALSE, owed |-> Present, hit |-> FALSE]
        /\ order' = order /\ con' = con
    BY <1>4, Zenon DEF get_iterator, NoWalk
  <2>2. Ring(order)[1] = con.next[0]
    <3>1. \A k \in 0 .. n : con.next[Ring(order)[k]] = Ring(order)[k + 1]
      BY <1>0, Zenon DEF Holds, Chained
    <3>2. 0 \in 0 .. n /\ 0 + 1 = 1 /\ Ring(order)[0] = 0
      BY <1>0, Places
    <3> QED
      BY <3>1, <3>2, Zenon
  <2>3. \A i \in Present : \E j \in 1 .. n : Listed[j] = i
    BY <1>0, ItemsHold DEF Present, Listed
  <2>4. Listed' = Listed /\ 1 \in 1 .. (n + 1)
    BY <2>1, <1>0 DEF Listed
  <2>5. Stands(1)'
    BY <2>1, <2>2, <2>3, <2>4, Zenon DEF Stands
  <2> QED
    BY <2>1, <2>5, Zenon DEF WalkInv
<1>5. CASE next_job
  <2> DEFINE item == con.pItem[walk.cur]
             done == walk.cur = 0 \/ item = Null
  <2>1. /\ walk.on /\ ~walk.end /\ order' = order /\ con' = con
        /\ walk' = IF done THEN [walk EXCEPT !.end = TRUE, !.cur = 0]
                   ELSE [walk EXCEPT !.owed = @ \ {item}, !.cur = con.next[walk.cur]]
    BY <1>5, Zenon DEF next_job
  <2>2. walk = [on |-> walk.on, cur |-> walk.cur, end |-> walk.end, owed |-> walk.owed, hit |-> walk.hit]
    BY Zenon DEF WalkInv
  <2>3. /\ \A k \in 0 .. n : con.next[Ring(order)[k]] = Ring(order)[k + 1]
        /\ \A k \in 1 .. n : /\ Ring(order)[k] = order[k] /\ order[k] # 0
                             /\ Listed[k] = con.pItem[order[k]] /\ Listed[k] # Null
        /\ Ring(order)[n + 1] = 0
    <3>1. \A k \in 0 .. n : con.next[Ring(order)[k]] = Ring(order)[k + 1]
      BY <1>0 DEF Holds, Chained
    <3>2. \A k \in 1 .. n : Ring(order)[k] = order[k] /\ order[k] # 0
      BY <1>0, Places, Zenon
    <3>3. \A k \in 1 .. n : Listed[k] = con.pItem[order[k]] /\ Listed[k] \in Ids
      BY <1>0, ItemsHold DEF Listed
    <3> QED
      BY <3>1, <3>2, <3>3, <1>0, Places, ContainerAssumption, Zenon
  <2>4. Listed' = Listed
    BY <2>1, Zenon DEF Listed
  <2>5. CASE done
    <3>1. walk' = [on |-> walk.on, cur |-> 0, end |-> TRUE, owed |-> walk.owed, hit |-> walk.hit]
      BY <2>1, <2>2, <2>5, Zenon
    <3>2. ASSUME ~walk.hit PROVE walk.owed = {}
      <4>1. PICK p : Stands(p)
        BY <2>1, <3>2, Zenon DEF WalkInv
      <4>2. p \in 1 .. (n + 1) /\ walk.cur = Ring(order)[p]
        BY <4>1, Zenon DEF Stands
      <4>3. p = n + 1
        <5>1. ASSUME p \in 1 .. n PROVE FALSE
          <6>1. walk.cur = order[p] /\ order[p] # 0 /\ con.pItem[order[p]] # Null
            BY <5>1, <4>2, <2>3, Zenon
          <6> QED
            BY <6>1, <2>5, Zenon
        <5> QED
          BY <5>1, <4>2, <1>0
      <4>4. \A i \in walk.owed : \E j \in (n + 1) .. n : Listed[j] = i
        BY <4>1, <4>3, Zenon DEF Stands
      <4>5. (n + 1) .. n = {}
        BY <1>0
      <4> QED
        BY <4>4, <4>5, Zenon
    <3> QED
      BY <3>1, <3>2, Zenon DEF WalkInv
  <2>6. CASE ~done
    <3>1. walk' = [on |-> walk.on, cur |-> con.next[walk.cur], end |-> walk.end,
                   owed |-> walk.owed \ {item}, hit |-> walk.hit]
      BY <2>1, <2>2, <2>6, Zenon
    <3> HIDE DEF item, done
    <3>0. /\ walk'.cur = con.next[walk.cur] /\ walk'.owed = walk.owed \ {item}
          /\ walk'.end = walk.end /\ walk'.hit = walk.hit
          /\ walk' = [on |-> walk'.on, cur |-> walk'.cur, end |-> walk'.end, owed |-> walk'.owed,
                      hit |-> walk'.hit]
      BY <3>1, Zenon
    <3>2. ASSUME ~walk.hit PROVE \E p : Stands(p)'
      <4>1. PICK p : Stands(p)
        BY <2>1, <3>2, Zenon DEF WalkInv
      <4>2. p \in 1 .. (n + 1) /\ walk.cur = Ring(order)[p]
        BY <4>1 DEF Stands
      <4>3. p \in 1 .. n
        BY SMTT(30), <4>2, <2>3, <2>6, <1>0 DEF done
      <4>4. item = Listed[p] /\ con.next[walk.cur] = Ring(order)[p + 1] /\ p + 1 \in 1 .. (n + 1)
        BY <4>2, <4>3, <2>3, <1>0, SMTT(30) DEF item
      <4>5. ASSUME NEW i \in walk.owed \ {item} PROVE \E j \in (p + 1) .. n : Listed[j] = i
        <5>1. PICK j \in p .. n : Listed[j] = i
          BY <4>1, Zenon DEF Stands
        <5>2. j # p
          BY <5>1, <4>4, Zenon
        <5>3. j \in (p + 1) .. n
          BY <5>1, <5>2, <4>3, <1>0
        <5> QED
          BY <5>1, <5>3, Zenon
      <4>6. Stands(p + 1)'
        BY <2>1, <2>4, <3>0, <4>4, <4>5, Zenon DEF Stands
      <4> QED
        BY <4>6, Zenon
    <3> QED
      BY <2>1, <3>0, <3>2, Zenon DEF WalkInv
  <2> QED
    BY <2>5, <2>6, Zenon
<1>6. CASE EndWalk
  BY <1>6, Zenon DEF EndWalk, NoWalk, WalkInv
<1>7. ASSUME NEW k, NEW id, Puts(k, id)
      PROVE  \A p : Stands(p) => \E q : Shifted(order, Listed, p, order', Listed', q, {})
  <2>1. Listed' = PutAt(Listed, k, id)
    BY <1>7, PutsInserts, Zenon
  <2>2. k \in 1 .. (n + 1) /\ id \in Ids /\ Inserted(con, order, kind, k, id, con')
        /\ order' = PutAt(order, k, con.next_slot)
    BY <1>7, Zenon DEF Puts
  <2>3. Len(order') = n + 1
    <3>1. Holds(con', order', kind) /\ con'.num = con.num + 1
      BY <2>2, Zenon DEF Inserted
    <3>2. Len(order') = con'.num /\ n = con.num
      BY <3>1, <1>0, ItemsHold, Zenon
    <3> QED
      BY <3>1, <3>2, Zenon
  <2> QED
    BY <2>1, <2>2, <2>3, <1>0, PutShifts, Zenon DEF Stands
<1>8. CASE \E k, id : Puts(k, id) /\ walk' = walk
  <2>1. PICK k, id : Puts(k, id) /\ walk' = walk
    BY <1>8, Zenon
  <2>2. walk'.on /\ ~walk'.end /\ ~walk'.hit => \E p : Stands(p)'
    <3> SUFFICES ASSUME walk.on, ~walk.end, ~walk.hit PROVE \E p : Stands(p)'
      BY <2>1, Zenon
    <3>1. PICK p : Stands(p)
      BY Zenon DEF WalkInv
    <3>2. PICK q : Shifted(order, Listed, p, order', Listed', q, {})
      BY <3>1, <2>1, <1>7, Zenon
    <3>3. ASSUME NEW i \in walk.owed PROVE \E j \in q .. Len(order') : Listed'[j] = i
      <4>1. PICK j \in p .. Len(order) : Listed[j] = i
        BY <3>1, Zenon DEF Stands
      <4> QED
        BY <4>1, <3>2, Zenon DEF Shifted
    <3>4. Stands(q)'
      BY <2>1, <3>1, <3>2, <3>3 DEF Stands, Shifted
    <3> QED
      BY <3>4, Zenon
  <2> QED
    BY <2>1, <2>2, Zenon DEF WalkInv
<1>9. CASE \E k, id : Puts(k, id) /\ Forget({}, {})
  BY <1>7, <1>9, ForgetKeeps, Zenon
<1>10. ASSUME NEW k \in 1 .. n, NEW p, Stands(p),
              Ring(order)[p] \notin {order[k]}
       PROVE  p # k /\ p \in 1 .. (n + 1)
  <2>1. Ring(order)[k] = order[k]
    BY <1>0, Places, Zenon
  <2> QED
    BY <1>10, <2>1, Zenon DEF Stands
<1>11. CASE \E k \in 1 .. n : Drops(k) /\ Forget({Listed[k]}, {order[k]})
  <2>1. PICK k \in 1 .. n : Drops(k) /\ Forget({Listed[k]}, {order[k]})
    BY <1>11, Zenon
  <2>2. Listed' = DropAt(Listed, k) /\ order' = DropAt(order, k)
    BY <2>1, DropsRemoves, Zenon DEF Drops
  <2>3. Len(order') = n - 1
    BY <2>1, <1>0, ItemsDrop DEF Drops
  <2>4. ASSUME NEW p, Stands(p), Ring(order)[p] \notin {order[k]}
        PROVE  \E q : Shifted(order, Listed, p, order', Listed', q, {Listed[k]})
    <3>1. p # k /\ p \in 1 .. (n + 1)
      BY <2>4, <1>10, Zenon
    <3> QED
      BY <3>1, <2>2, <2>3, <1>0, DropShifts, Zenon
  <2> QED
    BY <2>1, <2>4, ForgetKeeps, Zenon
<1>12. CASE \E k \in 1 .. n : (\E c : Moves(k, c)) /\ Forget({Listed[k]}, {order[k]})
  <2>0. PICK k \in 1 .. n : (\E c : Moves(k, c)) /\ Forget({Listed[k]}, {order[k]})
    BY <1>12, Zenon
  <2>1. PICK c : Moves(k, c) /\ Forget({Listed[k]}, {order[k]})
    BY <2>0, Zenon
  <2> DEFINE o == DropAt(order, k)
             t == DropAt(Listed, k)
             id == Listed[k]
  <2>2. /\ Removed(con, order, kind, k, c) /\ Inserted(c, o, kind, n, id, con')
        /\ order' = PutAt(o, n, c.next_slot)
    BY <2>1, Zenon DEF Moves
  <2>3. Len(o) = n - 1 /\ Items(c, o) = t
    BY SMTT(30), <2>2, <1>0, ItemsDrop DEF Listed
  <2>4. Listed' = PutAt(t, n, id) /\ id \in Ids
    <3>1. con.num = n
      BY <1>0, ItemsHold, Zenon
    <3> QED
      BY <2>1, <3>1, <1>0, MovesToEnd, ItemsHold, Zenon DEF Listed
  <2>5. Holds(c, o, kind)
    BY <2>2, Zenon DEF Removed
  <2>6. Len(t) = Len(o) /\ Len(o) \in Nat
    BY <2>3, <2>5, ItemsHold
  <2> HIDE DEF o, t, id
  <2>7. n \in 1 .. (Len(o) + 1)
    BY <2>1, <2>3, <1>0
  <2>8. Len(order') = Len(o) + 1
    BY SMTT(30), <2>2, <2>4, <2>5, <2>7, ItemsPut
  <2>9. ASSUME NEW p, Stands(p), Ring(order)[p] \notin {order[k]}
        PROVE  \E q : Shifted(order, Listed, p, order', Listed', q, {Listed[k]})
    <3>1. p # k /\ p \in 1 .. (n + 1)
      BY <2>9, <1>10
    <3>2. PICK q1 : Shifted(order, Listed, p, o, t, q1, {Listed[k]})
      BY <3>1, <2>3, <1>0, DropShifts, Zenon DEF o, t
    <3>3. q1 \in 1 .. (Len(o) + 1)
      BY <3>2, Zenon DEF Shifted
    <3>4. PICK q : Shifted(o, t, q1, order', Listed', q, {})
      BY <3>3, <2>2, <2>4, <2>6, <2>7, <2>8, PutShifts, Zenon
    <3>5. ASSUME NEW j \in p .. Len(order), Listed[j] \notin {Listed[k]}
          PROVE  \E i \in q .. Len(order') : Listed'[i] = Listed[j]
      <4>1. PICK i \in q1 .. Len(o) : t[i] = Listed[j]
        BY <3>2, <3>5, Zenon DEF Shifted
      <4> QED
        BY <4>1, <3>4, Zenon DEF Shifted
    <3>6. Shifted(order, Listed, p, order', Listed', q, {Listed[k]})
      BY <3>2, <3>4, <3>5, Zenon DEF Shifted
    <3> QED
      BY <3>6, Zenon
  <2> QED
    BY <2>1, <2>9, ForgetKeeps, Zenon
<1>13. CASE \E x, y \in 1 .. n : Swaps(x, y) /\ Forget({Listed[x], Listed[y]}, {})
  <2>1. PICK x \in 1 .. n, y \in 1 .. n : Swaps(x, y) /\ Forget({Listed[x], Listed[y]}, {})
    BY <1>13, Zenon
  <2>2. Listed' = Exchange(Listed, x, y) /\ order' = order
    BY <2>1, SwapsExchange, Zenon DEF Swaps
  <2>3. Listed' = [Listed EXCEPT ![x] = Listed[y], ![y] = Listed[x]] /\ DOMAIN Listed = 1 .. n
    <3>1. Listed \in Seq(Ids)
      BY <1>0, ItemsHold, Zenon DEF Listed
    <3> QED
      BY SMTT(30), <3>1, <2>2, <1>0 DEF Exchange
  <2>4. ASSUME NEW p, Stands(p)
        PROVE  Shifted(order, Listed, p, order', Listed', p, {Listed[x], Listed[y]})
    <3>1. ASSUME NEW j \in p .. n, Listed[j] \notin {Listed[x], Listed[y]}
          PROVE  Listed'[j] = Listed[j]
      <4>1. j \in 1 .. n /\ j # x /\ j # y
        BY <3>1, <2>4, <1>0 DEF Stands
      <4> QED
        BY <4>1, <2>3, Zenon
    <3> QED
      BY <3>1, <2>2, <2>4, Zenon DEF Stands, Shifted
  <2> QED
    BY <2>1, <2>4, ForgetKeeps, Zenon
<1> QED
  BY <1>1, <1>2, <1>3, <1>4, <1>5, <1>6, <1>8, <1>9, <1>11, <1>12, <1>13, Zenon DEF ListStep

\* A walk of next_job that comes to its end has returned every job that kept its place,
\* although any step of the list may come between any two of its own.
THEOREM WalksAreComplete == Spec => []WalkIsComplete
<1>1. Init => WalkInv
  BY DEF Init, WalkInv, NoWalk
<1>2. WalkInv => WalkIsComplete
  BY Zenon DEF WalkInv, WalkIsComplete
<1> QED
  BY <1>1, <1>2, ListInvInit, ListInvNext, WalkInvNext, PTL DEF Spec

-----------------------------------------------------------------------------
(* Order of rank *)

\* The items t, n of them, stand in the order of v.
Ascending(v, t, n) == \A j, k \in 1 .. n : j < k => v[t[j]] < v[t[k]]

\* The rank the list is sorted by: between the two halves of a qorder, the one before it.
Eff == [i \in Ids |-> IF i = qord.job1 THEN rank[qord.job2]
                      ELSE IF i = qord.job2 THEN rank[qord.job1] ELSE rank[i]]

\* The jobs from place p on are above the one being enqueued.
Above(p) == \A j \in p .. Len(order) : rank[enq.job] < Eff[Listed[j]]

Searched(p) == p \in 0 .. Len(order) /\ enq.at = Ring(order)[p] /\ Above(p + 1)

Found(p) ==
  /\ p \in 1 .. Len(order) /\ Listed[p] = enq.after
  /\ Eff[enq.after] < rank[enq.job] /\ Above(p + 1)

\* The inductive invariant: the list is sorted by Eff, the search has passed only jobs
\* above the new one, and the place it found is the last one below it.
SortInv ==
  /\ rank \in [Ids -> Nat]
  /\ \A i, j \in Ids : rank[i] = rank[j] => i = j
  /\ qord # NoOrd => qord.job1 \in Ids /\ qord.job2 \in Ids
  /\ kind = "rank" /\ ~torn =>
        /\ Ascending(Eff, Listed, Len(order))
        /\ qord # NoOrd => qord.job1 \in Present /\ qord.job2 \in Present
        /\ enq.pc = "search" => enq.after = Null /\ \E p : Searched(p)
        /\ enq.pc = "place" => IF enq.after = Null THEN Above(1) ELSE \E p : Found(p)

\* A list without one of its entries stays sorted.
LEMMA DropAscends ==
  ASSUME NEW v, NEW n \in Nat, NEW t, Len(t) = n, Ascending(v, t, n), NEW k, k \in 1 .. n,
         NEW t2, t2 = DropAt(t, k)
  PROVE  Ascending(v, t2, n - 1)
<1>1. t2 = [j \in 1 .. (n - 1) |-> IF j < k THEN t[j] ELSE t[j + 1]]
  BY Zenon DEF DropAt
<1>2. ASSUME NEW i \in 1 .. (n - 1), NEW j \in 1 .. (n - 1), i < j PROVE v[t2[i]] < v[t2[j]]
  <2> DEFINE x == IF i < k THEN i ELSE i + 1
             y == IF j < k THEN j ELSE j + 1
  <2>1. t2[i] = t[x] /\ t2[j] = t[y]
    BY <1>1, Zenon
  <2>2. x \in 1 .. n /\ y \in 1 .. n /\ x < y
    BY <1>2
  <2> HIDE DEF x, y
  <2> QED
    BY <2>1, <2>2, Zenon DEF Ascending
<1> QED
  BY <1>2, Zenon DEF Ascending

\* An entry put between the ones below it and the ones above it keeps the list sorted.
LEMMA PutAscends ==
  ASSUME NEW v, NEW n \in Nat, NEW t, Len(t) = n, Ascending(v, t, n), NEW k, k \in 1 .. (n + 1),
         NEW id, \A j \in 1 .. (k - 1) : v[t[j]] < v[id], \A j \in k .. n : v[id] < v[t[j]],
         NEW t2, t2 = PutAt(t, k, id)
  PROVE  Ascending(v, t2, n + 1)
<1>1. t2 = [j \in 1 .. (n + 1) |-> IF j < k THEN t[j] ELSE IF j = k THEN id ELSE t[j - 1]]
  BY Zenon DEF PutAt
<1>2. ASSUME NEW i \in 1 .. (n + 1), NEW j \in 1 .. (n + 1), i < j PROVE v[t2[i]] < v[t2[j]]
  <2>1. CASE i = k
    <3>1. t2[i] = id /\ t2[j] = t[j - 1] /\ j - 1 \in k .. n
      BY <2>1, <1>1, <1>2
    <3> QED
      BY <3>1, Zenon
  <2>2. CASE j = k
    <3>1. t2[j] = id /\ t2[i] = t[i] /\ i \in 1 .. (k - 1)
      BY SMTT(30), <2>2, <1>1, <1>2
    <3> QED
      BY <3>1, Zenon
  <2>3. CASE i # k /\ j # k
    <3> DEFINE x == IF i < k THEN i ELSE i - 1
               y == IF j < k THEN j ELSE j - 1
    <3>1. t2[i] = t[x] /\ t2[j] = t[y]
      BY <2>3, <1>1, Zenon
    <3>2. x \in 1 .. n /\ y \in 1 .. n /\ x < y
      BY <2>3, <1>2
    <3> HIDE DEF x, y
    <3> QED
      BY <3>1, <3>2, Zenon DEF Ascending
  <2> QED
    BY <2>1, <2>2, <2>3, Zenon
<1> QED
  BY <1>2, Zenon DEF Ascending

\* Every step keeps the queue sorted by the ranks as they were before an unfinished qorder.
LEMMA SortInvNext == ListInv /\ SortInv /\ [Next]_vars => SortInv'
<1> SUFFICES ASSUME ListInv, SortInv, [Next]_vars PROVE SortInv'
  OBVIOUS
<1> DEFINE n == Len(order)
           r == Ring(order)
<1>0. /\ Holds(con, order, kind) /\ n \in Nat /\ n = con.num /\ Len(Listed) = n
      /\ \A k \in 1 .. n : Listed[k] \in Ids /\ Listed[k] = con.pItem[order[k]] /\ con.map[Listed[k]] # 0
      /\ \A j, k \in 1 .. n : Listed[j] = Listed[k] => j = k
      /\ \A i \in Present : \E k \in 1 .. n : Listed[k] = i
  BY ItemsHold DEF ListInv, Listed, Present
<1>1. /\ enq = [pc |-> enq.pc, job |-> enq.job, at |-> enq.at, after |-> enq.after]
      /\ enq.pc # "idle" => kind = "rank" /\ enq.job \in Ids /\ con.map[enq.job] = 0
      /\ qord # NoOrd => qord.job1 # qord.job2
  BY Zenon DEF ListInv
<1>2. /\ rank \in [Ids -> Nat]
      /\ \A i, j \in Ids : rank[i] = rank[j] => i = j
      /\ qord # NoOrd => qord.job1 \in Ids /\ qord.job2 \in Ids
  BY Zenon DEF SortInv
<1>3. kind = "rank" /\ ~torn =>
        /\ Ascending(Eff, Listed, n)
        /\ qord # NoOrd => qord.job1 \in Present /\ qord.job2 \in Present
        /\ enq.pc = "search" => enq.after = Null /\ \E p : Searched(p)
        /\ enq.pc = "place" => IF enq.after = Null THEN Above(1) ELSE \E p : Found(p)
  BY Zenon DEF SortInv
<1>4. CASE UNCHANGED <<kind, con, order, rank, enq, qord, torn>>
  <2>1. /\ Eff' = Eff /\ Listed' = Listed /\ Present' = Present
    BY <1>4, Zenon DEF Eff, Listed, Present
  <2>2. \A p : (Searched(p)' <=> Searched(p)) /\ (Found(p)' <=> Found(p)) /\ (Above(p)' <=> Above(p))
    BY <1>4, <2>1, Zenon DEF Searched, Found, Above
  <2> QED
    BY <1>2, <1>3, <1>4, <2>1, <2>2, Zenon DEF SortInv
<1>5. CASE kind = "append" /\ UNCHANGED <<kind, rank, qord>>
  BY <1>2, <1>5, Zenon DEF SortInv
<1>6. ASSUME NEW i \in Ids, insert_into_alljobs_by_rank(i) PROVE SortInv'
  <2>1. /\ enq' = [pc |-> "search", job |-> i, at |-> con.prev[0], after |-> Null]
        /\ kind = "rank" /\ UNCHANGED <<kind, con, order, rank, qord, torn>>
    BY <1>6, Zenon DEF insert_into_alljobs_by_rank
  <2>2. Eff' = Eff /\ Listed' = Listed /\ Present' = Present
    BY <2>1, Zenon DEF Eff, Listed, Present
  <2>3. con.prev[0] = r[n]
    BY <2>1, <1>0, Zenon DEF Holds, Chained
  <2>4. enq'.at = r[n] /\ enq'.after = Null /\ enq'.pc = "search"
    BY <2>1, <2>3, Zenon
  <2>5. Searched(n)'
    <3>1. (n + 1) .. n = {} /\ n \in 0 .. n
      BY SMTT(30), <1>0
    <3>2. Above(n + 1)'
      BY <2>1, <3>1, Zenon DEF Above
    <3> QED
      BY <2>1, <2>4, <3>1, <3>2, Zenon DEF Searched
  <2> QED
    BY <2>1, <2>2, <2>4, <2>5, <1>2, <1>3, Zenon DEF SortInv
<1>7. CASE SearchPlace
  <2> DEFINE cur == con.pItem[enq.at]
             atEnd == enq.at = 0 \/ cur = Null
  <2>1. /\ enq.pc = "search" /\ UNCHANGED <<kind, con, order, rank, qord>>
        /\ atEnd \/ cur # qord.job2
        /\ enq' = IF atEnd THEN [enq EXCEPT !.pc = "place"]
                  ELSE IF rank[enq.job] > rank[cur] THEN [enq EXCEPT !.pc = "place", !.after = cur]
                  ELSE IF cur = enq.job THEN NoEnq
                  ELSE [enq EXCEPT !.at = con.prev[enq.at]]
        /\ torn' = (torn \/ (~atEnd /\ cur = qord.job1))
    BY <1>7, Zenon DEF SearchPlace
  <2>2. Eff' = Eff /\ Listed' = Listed /\ Present' = Present
    BY <2>1, Zenon DEF Eff, Listed, Present
  <2> SUFFICES ASSUME ~torn'
               PROVE  /\ enq'.pc = "search" => enq'.after = Null /\ \E p : Searched(p)'
                      /\ enq'.pc = "place" => IF enq'.after = Null THEN Above(1)' ELSE \E p : Found(p)'
    BY <2>1, <2>2, <1>2, <1>3, Zenon DEF SortInv
  <2>3. ~torn /\ (~atEnd => cur # qord.job1) /\ kind = "rank" /\ enq.job \in Ids /\ con.map[enq.job] = 0
    BY <2>1, <1>1, Zenon
  <2>4. PICK p : Searched(p)
    BY <2>1, <2>3, <1>3, Zenon
  <2>5. p \in 0 .. n /\ enq.at = r[p] /\ Above(p + 1) /\ enq.after = Null
    BY <2>1, <2>3, <2>4, <1>3, Zenon DEF Searched
  <2>6. /\ r[0] = 0 /\ \A k \in 1 .. n : r[k] = order[k] /\ order[k] # 0
    BY <1>0, Places
  <2>7. CASE atEnd
    <3>1. p = 0
      <4>1. ASSUME p \in 1 .. n PROVE FALSE
        <5>1. enq.at = order[p] /\ enq.at # 0 /\ cur = Listed[p] /\ cur # Null
          BY SMTT(30), <4>1, <2>5, <2>6, <1>0, ContainerAssumption
        <5> QED
          BY <5>1, <2>7, Zenon
      <4> QED
        BY <4>1, <2>5, <1>0
    <3>2. enq' = [pc |-> "place", job |-> enq.job, at |-> enq.at, after |-> enq.after]
      BY <2>1, <2>7, <1>1, Zenon
    <3>3. enq'.pc = "place" /\ enq'.job = enq.job /\ enq'.after = Null
      BY <3>2, <2>5, Zenon
    <3>4. Above(1)'
      BY SMTT(30), <3>1, <3>3, <2>1, <2>2, <2>5 DEF Above
    <3> QED
      BY <3>3, <3>4, Zenon
  <2>8. CASE ~atEnd
    <3>1. p \in 1 .. n /\ cur = Listed[p] /\ cur \in Ids /\ con.map[cur] # 0
      <4>1. p # 0
        BY <2>5, <2>6, <2>8, Zenon
      <4> QED
        BY SMTT(30), <4>1, <2>5, <2>6, <1>0
    <3>2. Eff[cur] = rank[cur] /\ cur # enq.job
      BY <3>1, <2>1, <2>3, <2>8, Zenon DEF Eff
    <3> HIDE DEF cur, atEnd
    <3>3. CASE rank[enq.job] > rank[cur]
      <4>1. enq' = [pc |-> "place", job |-> enq.job, at |-> enq.at, after |-> cur]
        BY <2>1, <2>8, <3>3, <1>1, Zenon
      <4>2. enq'.pc = "place" /\ enq'.job = enq.job /\ enq'.after = cur /\ cur # Null
        BY <4>1, <3>1, ContainerAssumption, Zenon
      <4>3. Above(p + 1)'
        BY <4>2, <2>1, <2>2, <2>5, Zenon DEF Above
      <4>4. rank[cur] < rank[enq.job]
        BY <3>1, <3>3, <2>3, <1>2, Zenon
      <4>5. Found(p)'
        BY SMTT(30), <4>2, <4>3, <4>4, <3>1, <3>2, <2>1, <2>2 DEF Found
      <4> QED
        BY <4>2, <4>5, Zenon
    <3>4. CASE ~(rank[enq.job] > rank[cur])
      <4>1. enq' = [pc |-> "search", job |-> enq.job, at |-> con.prev[enq.at], after |-> enq.after]
        BY SMTT(30), <2>1, <2>8, <3>2, <3>4, <1>1
      <4>2. enq'.pc = "search" /\ enq'.job = enq.job /\ enq'.after = Null /\ enq'.at = con.prev[enq.at]
        BY <4>1, <2>5, Zenon
      <4>3. con.prev[enq.at] = r[p - 1]
        <5>1. \A k \in 1 .. n : con.prev[r[k]] = r[k - 1]
          BY <1>0, Zenon DEF Holds, Chained
        <5> QED
          BY SMTT(30), <5>1, <3>1, <2>5
      <4>4. rank[enq.job] < Eff[cur]
        <5>1. rank[enq.job] \in Nat /\ rank[cur] \in Nat /\ rank[enq.job] # rank[cur]
          BY <3>1, <3>2, <2>3, <1>2, Zenon
        <5> QED
          BY SMTT(30), <5>1, <3>2, <3>4
      <4>5. p - 1 \in 0 .. n /\ (p - 1) + 1 = p
        BY <3>1, <1>0
      <4>6. Above(p)
        <5>1. ASSUME NEW j \in p .. n PROVE rank[enq.job] < Eff[Listed[j]]
          <6>1. j = p \/ j \in (p + 1) .. n
            BY <3>1, <1>0
          <6> QED
            BY <6>1, <4>4, <3>1, <2>5, Zenon DEF Above
        <5> QED
          BY <5>1, Zenon DEF Above
      <4>7. Searched(p - 1)'
        <5>1. Above(p)'
          BY <4>2, <4>6, <2>1, <2>2, Zenon DEF Above
        <5> QED
          BY <5>1, <4>2, <4>3, <4>5, <2>1, Zenon DEF Searched
      <4> QED
        BY <4>2, <4>7, Zenon
    <3> QED
      BY <3>3, <3>4, Zenon
  <2> QED
    BY <2>7, <2>8, Zenon
<1>8. ASSUME NEW i \in Ids, NEW j \in Ids, req_orderjob(i, j) PROVE SortInv'
  <2>1. /\ kind = "rank" /\ qord = NoOrd /\ i # j /\ i \in Present /\ j \in Present
        /\ rank' = [rank EXCEPT ![i] = rank[j], ![j] = rank[i]]
        /\ qord' = [job1 |-> i, job2 |-> j]
        /\ torn' = (torn \/ enq.pc # "idle")
        /\ UNCHANGED <<kind, con, order, enq>>
    BY <1>8, Zenon DEF req_orderjob
  <2>2. rank' \in [Ids -> Nat] /\ \A x, y \in Ids : rank'[x] = rank'[y] => x = y
    BY <2>1, <1>2
  <2>3. Eff' = Eff
    <3>1. qord.job1 = Null /\ qord.job2 = Null /\ Null \notin Ids
      BY <2>1, ContainerAssumption, Zenon DEF NoOrd
    <3>2. Eff = [x \in Ids |-> rank[x]]
      BY <3>1, Zenon DEF Eff
    <3>3. \A x \in Ids : Eff'[x] = rank[x]
      BY <2>1, <1>2, Zenon DEF Eff
    <3>4. Eff' = [x \in Ids |-> Eff'[x]]
      BY Zenon DEF Eff
    <3> QED
      BY <3>2, <3>3, <3>4, Zenon
  <2>4. Listed' = Listed /\ Present' = Present
    BY <2>1, Zenon DEF Listed, Present
  <2> QED
    BY <2>1, <2>2, <2>3, <2>4, <1>2, <1>3, Zenon DEF SortInv
<1>9. CASE SwapPlaces
  <2>1. /\ qord # NoOrd /\ enq.pc = "idle" /\ qord' = NoOrd
        /\ UNCHANGED <<kind, order, rank, enq, torn>>
    BY <1>9, Zenon DEF SwapPlaces
  <2>0. /\ kind' = kind /\ torn' = torn /\ rank' = rank /\ Len(order') = n
        /\ enq'.pc # "search" /\ enq'.pc # "place" /\ ~(qord' # NoOrd)
    BY <2>1, Zenon
  <2> SUFFICES ASSUME kind = "rank", ~torn
               PROVE  Ascending(Eff', Listed', n)
    BY <2>0, <1>2, ZenonT(40) DEF SortInv
  <2>2. qord.job1 \in Present /\ qord.job2 \in Present /\ qord.job1 # qord.job2
    BY <2>1, <1>1, <1>3, Zenon
  <2>3. con' = SwapItems(con, qord.job1, qord.job2)
    BY <2>2, <1>9, Zenon DEF SwapPlaces
  <2>4. PICK a \in 1 .. n, b \in 1 .. n : Listed[a] = qord.job1 /\ Listed[b] = qord.job2
    BY <2>2, <1>0
  <2>5. a # b
    BY <2>2, <2>4, Zenon
  <2>6. Swaps(a, b)
    BY <2>1, <2>3, <2>4, <2>5, Zenon DEF Swaps
  <2>7. Listed' = [Listed EXCEPT ![a] = Listed[b], ![b] = Listed[a]] /\ DOMAIN Listed = 1 .. n
    <3>1. Listed \in Seq(Ids)
      BY <1>0, ItemsHold, Zenon DEF Listed
    <3> QED
      BY SMTT(30), <3>1, <2>6, <1>0, SwapsExchange DEF Exchange
  <2>8. Eff' = [x \in Ids |-> rank[x]]
    <3>1. qord'.job1 = Null /\ qord'.job2 = Null /\ Null \notin Ids
      BY <2>1, ContainerAssumption, Zenon DEF NoOrd
    <3> QED
      BY <3>1, <2>1, Zenon DEF Eff
  <2>9. ASSUME NEW x \in 1 .. n PROVE Eff'[Listed'[x]] = Eff[Listed[x]]
    <3>1. Listed'[x] = IF x = b THEN Listed[a] ELSE IF x = a THEN Listed[b] ELSE Listed[x]
      BY <2>7, Zenon
    <3>2. Listed[x] \in Ids /\ Listed[a] \in Ids /\ Listed[b] \in Ids
      BY <1>0, Zenon
    <3>3. CASE x = a
      BY SMTT(30), <3>1, <3>2, <3>3, <2>4, <2>5, <2>8 DEF Eff
    <3>4. CASE x = b
      BY SMTT(30), <3>1, <3>2, <3>4, <2>2, <2>4, <2>8 DEF Eff
    <3>5. CASE x # a /\ x # b
      <4>1. Listed[x] # qord.job1 /\ Listed[x] # qord.job2
        BY SMTT(30), <3>5, <2>4, <1>0
      <4> QED
        BY SMTT(30), <3>1, <3>2, <3>5, <4>1, <2>8 DEF Eff
    <3> QED
      BY <3>3, <3>4, <3>5, Zenon
  <2> QED
    BY <2>9, <1>3, Zenon DEF Ascending
<1>10. ASSUME NEW i \in Ids, remove_job(i), kind = "rank" PROVE SortInv'
  <2>1. /\ i \in Present /\ i # qord.job2 /\ enq.pc = "idle" /\ Take(i)
        /\ torn' = (torn \/ i = qord.job1) /\ UNCHANGED <<kind, rank, enq, qord>>
    BY <1>10, Zenon DEF remove_job
  <2>2. Eff' = Eff
    BY <2>1, Zenon DEF Eff
  <2>3. PICK k \in 1 .. n : Drops(k) /\ Listed[k] = i
    BY <2>1, TakeDrops, ZenonT(40) DEF Present
  <2>4. Listed' = DropAt(Listed, k) /\ con'.num = con.num - 1 /\ Present' = Present \ {i}
    BY <2>3, DropsRemoves, Zenon
  <2>5. Len(order') = n - 1
    BY SMTT(30), <2>3, <1>0, ItemsDrop DEF Drops
  <2>6. kind = "rank" /\ ~torn => Ascending(Eff, Listed', n - 1)
    BY <2>3, <2>4, <1>0, <1>3, DropAscends, Zenon
  <2> QED
    BY <2>1, <2>2, <2>4, <2>5, <2>6, <1>2, <1>3, Zenon DEF SortInv
<1>11. CASE PlaceByRank
  <2>1. /\ enq.pc = "place" /\ enq' = NoEnq /\ UNCHANGED <<kind, rank, qord, torn>>
        /\ kind = "rank" /\ enq.job \in Ids /\ con.map[enq.job] = 0
    BY <1>1, <1>11, Zenon DEF PlaceByRank
  <2>2. Eff' = Eff /\ enq'.pc = "idle"
    BY <2>1, Zenon DEF Eff, NoEnq
  <2> SUFFICES ASSUME ~torn
               PROVE  /\ Ascending(Eff, Listed', Len(order'))
                      /\ Present \subseteq Present'
    BY <2>1, <2>2, <1>2, <1>3, Zenon DEF SortInv
  <2>3. Eff[enq.job] = rank[enq.job]
    <3>1. enq.job # qord.job1 /\ enq.job # qord.job2
      <4>1. CASE qord = NoOrd
        BY <4>1, <2>1, ContainerAssumption, Zenon DEF NoOrd
      <4>2. CASE qord # NoOrd
        BY <4>2, <2>1, <1>3, Zenon DEF Present
      <4> QED
        BY <4>1, <4>2, Zenon
    <3> QED
      BY <3>1, <2>1, Zenon DEF Eff
  <2>4. ASSUME NEW k, Puts(k, enq.job),
               \A j \in 1 .. (k - 1) : Eff[Listed[j]] < Eff[enq.job], Above(k)
        PROVE  Ascending(Eff, Listed', Len(order')) /\ Present \subseteq Present'
    <3>1. Listed' = PutAt(Listed, k, enq.job) /\ Present' = Present \cup {enq.job} /\ k \in 1 .. (n + 1)
      BY <2>4, <1>0, PutsInserts, Zenon
    <3>2. Len(order') = n + 1
      <4>1. Holds(con', order', kind) /\ con'.num = con.num + 1
        BY <2>4, Zenon DEF Puts, Inserted
      <4>2. Len(order') = con'.num
        BY <4>1, ItemsHold, Zenon
      <4> QED
        BY <4>1, <4>2, <1>0, Zenon
    <3>3. \A j \in k .. n : Eff[enq.job] < Eff[Listed[j]]
      BY <2>3, <2>4, Zenon DEF Above
    <3>4. Ascending(Eff, Listed, n)
      BY SMTT(30), <2>1, <1>3
    <3>5. Ascending(Eff, Listed', n + 1)
      BY ZenonT(40), <3>1, <3>3, <3>4, <2>4, <1>0, PutAscends
    <3> QED
      BY SMTT(30), <3>1, <3>2, <3>5
  <2>5. CASE con' = con /\ order' = order
    BY <2>1, <2>5, <1>3, SMTT(30) DEF Listed, Present
  <2>6. CASE /\ enq.after = Null
             /\ con' = InsertThingBefore(con, enq.job, con.next[0])
             /\ order' = PutAt(order, 1, con.next_slot)
    <3>1. Inserted(con, order, "rank", 1, enq.job, con')
      BY <2>1, <2>6, <1>0, InsertThingBeforeHolds, Zenon
    <3>2. 1 \in 1 .. (n + 1) /\ 1 .. (1 - 1) = {}
      BY SMTT(30), <1>0
    <3>3. Puts(1, enq.job)
      BY <2>1, <2>6, <3>1, <3>2, Zenon DEF Puts
    <3>4. Above(1)
      BY <2>1, <2>6, <1>3, Zenon
    <3> QED
      BY <3>2, <3>3, <3>4, <2>4, Zenon
  <2>7. CASE /\ enq.after \in Present
             /\ con' = InsertThingAfter(con, enq.job, con.map[enq.after])
             /\ order' = PutAt(order, PlaceOf(con.map[enq.after]) + 1, con.next_slot)
    <3> DEFINE k == PlaceOf(con.map[enq.after])
    <3>1. k \in 1 .. n /\ order[k] = con.map[enq.after] /\ Listed[k] = enq.after
      BY <2>7, PlaceFound, Zenon DEF Present
    <3>2. order' = PutAt(order, k + 1, con.next_slot)
      BY <2>7, Zenon
    <3> HIDE DEF k
    <3>3. Inserted(con, order, kind, k + 1, enq.job, con')
      BY <2>1, <2>7, <3>1, <1>0, InsertThingAfterHolds, Zenon
    <3>4. k + 1 \in 1 .. (n + 1) /\ (k + 1) - 1 = k
      BY SMTT(30), <3>1, <1>0
    <3>5. Puts(k + 1, enq.job)
      BY <2>1, <3>2, <3>3, <3>4, Zenon DEF Puts
    <3>6. PICK p : Found(p)
      <4>1. enq.after # Null
        BY <2>7, ContainerAssumption, Zenon DEF Present
      <4> QED
        BY <4>1, <2>1, <1>3, Zenon
    <3>7. p = k
      BY SMTT(30), <3>1, <3>6, <1>0 DEF Found
    <3>8. Above(k + 1) /\ Eff[Listed[k]] < Eff[enq.job]
      BY <3>1, <3>6, <3>7, <2>3, Zenon DEF Found
    <3>9. ASSUME NEW j \in 1 .. k PROVE Eff[Listed[j]] < Eff[enq.job]
      <4>1. j \in 1 .. n /\ (j = k \/ j < k)
        BY <3>1, <1>0
      <4>2. CASE j = k
        BY <4>2, <3>8, Zenon
      <4>3. CASE j < k
        <5>1. Eff[Listed[j]] < Eff[Listed[k]]
          BY <4>1, <4>3, <3>1, <2>1, <1>3, Zenon DEF Ascending
        <5>2. Eff[Listed[j]] \in Nat /\ Eff[Listed[k]] \in Nat /\ Eff[enq.job] \in Nat
          <6>1. Eff \in [Ids -> Nat]
            <7>1. CASE qord = NoOrd
              <8>1. qord.job1 = Null /\ qord.job2 = Null /\ Null \notin Ids
                BY <7>1, ContainerAssumption, Zenon DEF NoOrd
              <8> QED
                BY <8>1, <1>2, Zenon DEF Eff
            <7>2. CASE qord # NoOrd
              BY <7>2, <1>2, Zenon DEF Eff
            <7> QED
              BY <7>1, <7>2, Zenon
          <6> QED
            BY <6>1, <4>1, <3>1, <2>1, <1>0, Zenon
        <5> QED
          BY SMTT(30), <5>1, <5>2, <3>8
      <4> QED
        BY <4>1, <4>2, <4>3, Zenon
    <3> QED
      BY <3>4, <3>5, <3>8, <3>9, <2>4, Zenon
  <2> QED
    BY <1>11, <2>5, <2>6, <2>7, Zenon DEF PlaceByRank
<1>12. CASE UNCHANGED vars \/ get_iterator \/ next_job \/ EndWalk
  BY <1>4, <1>12, Zenon DEF vars, get_iterator, next_job, EndWalk
<1>13. ASSUME NEW i \in Ids, NEW j \in Ids, NEW replace \in BOOLEAN,
              insert(i, replace) \/ insert_after(i, j) \/ swap_jobs(i, j)
       PROVE  SortInv'
  <2>1. kind = "append" /\ UNCHANGED <<kind, rank, qord>>
    BY <1>13, Zenon DEF insert, insert_after, swap_jobs
  <2> QED
    BY <2>1, <1>5, Zenon
<1>14. CASE pop
  BY <1>5, <1>14, Zenon DEF pop
<1>15. ASSUME NEW i \in Ids, remove_job(i), kind # "rank" PROVE SortInv'
  <2>1. UNCHANGED <<kind, rank, qord>>
    BY <1>15, Zenon DEF remove_job
  <2>2. kind \in {"append", "rank"}
    BY <1>0, Zenon DEF Holds
  <2>3. kind = "append"
    BY <2>2, <1>15, Zenon
  <2> QED
    BY SMTT(30), <2>1, <2>3, <1>5
<1> QED
  BY <1>6, <1>7, <1>8, <1>9, <1>10, <1>11, <1>12, <1>13, <1>14, <1>15, Zenon DEF Next

\* A queue's jobs stand in order of their rank, for any number of jobs and however
\* enqueues, dequeues and qorders interleave, unless a qorder was seen or abandoned
\* between its two halves.
THEOREM QueuesAreSorted == Spec => []SortedByRank
<1>1. Init => SortInv
  <2> SUFFICES ASSUME Init PROVE SortInv
    OBVIOUS
  <2>1. /\ rank = [i \in Ids |-> i] /\ qord = NoOrd /\ enq = NoEnq /\ Len(order) = 0
    BY Zenon DEF Init
  <2>2. Ascending(Eff, Listed, Len(order))
    BY <2>1 DEF Ascending
  <2> QED
    BY <2>1, <2>2, JobsNumbered, Zenon DEF SortInv, NoEnq
<1>2. ListInv /\ SortInv => SortedByRank
  <2> SUFFICES ASSUME ListInv, SortInv, kind = "rank", qord = NoOrd, ~torn
               PROVE  \A j, k \in 1 .. Len(order) : j < k => rank[Listed[j]] < rank[Listed[k]]
    BY Zenon DEF SortedByRank
  <2>1. Eff = [i \in Ids |-> rank[i]]
    BY ContainerAssumption, Zenon DEF Eff, NoOrd
  <2>2. \A k \in 1 .. Len(order) : Listed[k] \in Ids
    BY ItemsHold, Zenon DEF ListInv, Listed
  <2>3. Ascending(Eff, Listed, Len(order))
    BY Zenon DEF SortInv
  <2> QED
    BY <2>1, <2>2, <2>3, Zenon DEF Ascending
<1> QED
  BY <1>1, <1>2, ListInvInit, ListInvNext, SortInvNext, PTL DEF Spec
=============================================================================
