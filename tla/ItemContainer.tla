---------------------------- MODULE ItemContainer ----------------------------
(***************************************************************************)
(* container::item_container: a doubly linked list kept in an array of     *)
(* slots with a hash index.  Slot 0 (ALWAYS_EMPTY_INDEX) holds no item: its *)
(* next is the first slot of the list and its prev the last one.  The      *)
(* operators below map a container to the container after the call; they   *)
(* hold the container's lock throughout.                                   *)
(***************************************************************************)
EXTENDS Integers, FiniteSets, ListOps

CONSTANTS Ids,       \* what items are stored under: job ids
          Null,      \* a slot's pItem without an item
          InitMax    \* the slots a new container has (10 in the code)

ASSUME ContainerAssumption == InitMax \in Nat /\ InitMax > 1 /\ Null \notin Ids

\* A new container (calloc: every field is zero).
NewContainer ==
  LET S == 0 .. (InitMax - 1)
  IN [pItem |-> [s \in S |-> Null], next |-> [s \in S |-> 0], prev |-> [s \in S |-> 0],
      max |-> InitMax, num |-> 0, next_slot |-> 1, last |-> 0,
      map |-> [i \in Ids |-> 0]]

\* Mutant: the array is doubled one item too late.
NeedsRoomLate(c) == c.max = c.num

\* An insertion needs more slots, which realloc may refuse.
NeedsRoom(c) == c.max = c.num + 1

\* The array doubles when only the sentinel's slot would be left over.
CheckAndResize(c) ==
  LET m == IF NeedsRoom(c) THEN 2 * c.max ELSE c.max
      Grown(f, z) == [s \in 0 .. (m - 1) |-> IF s < c.max THEN f[s] ELSE z]
  IN [pItem |-> Grown(c.pItem, Null), next |-> Grown(c.next, 0), prev |-> Grown(c.prev, 0),
      max |-> m, num |-> c.num, next_slot |-> c.next_slot, last |-> c.last, map |-> c.map]

\* Mutant: next_slot moves on by one and does not look whether that slot is free.
FreeFromNext(pItem, max, n) == n + 1

\* The first free slot at or above n, or max.
FreeFrom(pItem, max, n) ==
  CHOOSE s \in n .. max :
     /\ s < max => pItem[s] = Null
     /\ \A t \in n .. (s - 1) : pItem[t] # Null

\* The item goes into next_slot, between the slots the pointers nx and pv say.
FillSlot(c, id, nx, pv, lst) ==
  LET items == [c.pItem EXCEPT ![c.next_slot] = id]
  IN [pItem |-> items, next |-> nx, prev |-> pv, max |-> c.max, num |-> c.num + 1,
      next_slot |-> FreeFrom(items, c.max, c.next_slot), last |-> lst,
      map |-> [c.map EXCEPT ![id] = c.next_slot]]

InsertThing(c0, id) ==
  LET c == CheckAndResize(c0)
      rc == c.next_slot
  IN FillSlot(c, id, [c.next EXCEPT ![c.last] = rc, ![rc] = 0],
                     [c.prev EXCEPT ![rc] = c.last, ![0] = rc], rc)

\* Mutant: the new item's next pointer is left at zero, as if it were the last.
InsertThingAfterCut(c0, id, index) ==
  LET c == CheckAndResize(c0)
      rc == c.next_slot
  IN FillSlot(c, id, [c.next EXCEPT ![rc] = 0, ![index] = rc],
                     [c.prev EXCEPT ![rc] = index, ![c.next[index]] = rc],
                     IF c.last = index THEN rc ELSE c.last)

InsertThingAfter(c0, id, index) ==
  LET c == CheckAndResize(c0)
      rc == c.next_slot
      nx == c.next[index]
  IN FillSlot(c, id, [c.next EXCEPT ![rc] = nx, ![index] = rc],
                     [c.prev EXCEPT ![rc] = index, ![nx] = rc],
                     IF c.last = index THEN rc ELSE c.last)

\* last is left alone: a list filled through here never has one.
InsertThingBefore(c0, id, index) ==
  LET c == CheckAndResize(c0)
      rc == c.next_slot
      pv == c.prev[index]
  IN FillSlot(c, id, [c.next EXCEPT ![rc] = index, ![pv] = rc],
                     [c.prev EXCEPT ![rc] = pv, ![index] = rc], c.last)

\* Mutant: last is not moved back when the last slot goes.
UnlinkSlotKeepLast(c, index) ==
  LET pv == c.prev[index]
      nx == c.next[index]
  IN [pItem |-> [c.pItem EXCEPT ![index] = Null],
      next |-> [c.next EXCEPT ![index] = 0, ![pv] = nx],
      prev |-> [c.prev EXCEPT ![index] = 0, ![nx] = pv],
      last |-> c.last, map |-> [c.map EXCEPT ![c.pItem[index]] = 0]]

\* Mutant: the id of the item is not erased from the index.
UnlinkSlotKeepId(c, index) ==
  LET pv == c.prev[index]
      nx == c.next[index]
      cleared == [c.prev EXCEPT ![index] = 0]
  IN [pItem |-> [c.pItem EXCEPT ![index] = Null],
      next |-> [c.next EXCEPT ![index] = 0, ![pv] = nx],
      prev |-> IF c.last = index THEN cleared ELSE [cleared EXCEPT ![nx] = pv],
      last |-> IF c.last = index THEN pv ELSE c.last, map |-> c.map]

\* unlink_slot (max, num and next_slot are its caller's): when the last slot goes,
\* the sentinel's prev keeps pointing to it.
UnlinkSlot(c, index) ==
  LET pv == c.prev[index]
      nx == c.next[index]
      cleared == [c.prev EXCEPT ![index] = 0]
  IN [pItem |-> [c.pItem EXCEPT ![index] = Null],
      next |-> [c.next EXCEPT ![index] = 0, ![pv] = nx],
      prev |-> IF c.last = index THEN cleared ELSE [cleared EXCEPT ![nx] = pv],
      last |-> IF c.last = index THEN pv ELSE c.last,
      map |-> [c.map EXCEPT ![c.pItem[index]] = 0]]

RemoveThingFromIndex(c, index) ==
  LET u == UnlinkSlot(c, index)
  IN [pItem |-> u.pItem, next |-> u.next, prev |-> u.prev, max |-> c.max, num |-> c.num - 1,
      next_slot |-> IF index < c.next_slot THEN index ELSE c.next_slot,
      last |-> u.last, map |-> u.map]

SwapItems(c, i, j) ==
  [pItem |-> [c.pItem EXCEPT ![c.map[i]] = j, ![c.map[j]] = i],
   next |-> c.next, prev |-> c.prev, max |-> c.max, num |-> c.num,
   next_slot |-> c.next_slot, last |-> c.last,
   map |-> [c.map EXCEPT ![i] = c.map[j], ![j] = c.map[i]]]

-----------------------------------------------------------------------------
(* What a container is after any of these: o are its slots in list order, use says *)
(* which of the two disciplines its owner follows.                                 *)

Used(c) == {s \in 0 .. (c.max - 1) : c.pItem[s] # Null}

\* next_slot is free and all below it are used, num counts the used slots, the index
\* finds exactly the items.
Accounted(c) ==
  /\ \A s \in 1 .. (c.next_slot - 1) : s \in Used(c)
  /\ c.next_slot \notin Used(c) /\ 0 \notin Used(c)
  /\ c.num = Cardinality(Used(c)) /\ c.num < c.max
  /\ \A i \in Ids : c.map[i] # 0 => c.pItem[c.map[i]] = i
  /\ \A s \in Used(c) : c.map[c.pItem[s]] = s

\* The slots of the list between the sentinel before the first and after the last.
Ring(o) == [k \in 0 .. (Len(o) + 1) |-> IF k \in 1 .. Len(o) THEN o[k] ELSE 0]

\* next leads through the slots of o and back to the sentinel, prev leads backwards.
Chained(c, o, use) ==
  /\ \A k \in 0 .. Len(o) : c.next[Ring(o)[k]] = Ring(o)[k + 1]
  /\ \A k \in 1 .. Len(o) : c.prev[Ring(o)[k]] = Ring(o)[k - 1]
  /\ use = "append" => c.last = Ring(o)[Len(o)]
  /\ use = "rank" => c.last = 0 /\ c.prev[0] = Ring(o)[Len(o)]
  /\ Len(o) = c.num
  /\ \A k \in 1 .. Len(o) : o[k] \in Used(c)
  /\ \A s \in Used(c) : \E k \in 1 .. Len(o) : o[k] = s
  /\ \A j, k \in 1 .. Len(o) : o[j] = o[k] => j = k

\* The items in list order.
Items(c, o) == [k \in 1 .. Len(o) |-> c.pItem[o[k]]]
=============================================================================
