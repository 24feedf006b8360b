----------------------------- MODULE OrderedList -----------------------------
(***************************************************************************)
(* What the server's lists promise their users: a sequence of distinct     *)
(* identifiers, its length, and the set of the identifiers find() knows.   *)
(* A step puts one new identifier somewhere, takes one out, exchanges two, *)
(* or moves one to the end; everything else keeps its place.               *)
(***************************************************************************)
EXTENDS ListOps

CONSTANT Ids

VARIABLES list, size, members

vars == <<list, size, members>>

Init == list = <<>> /\ size = 0 /\ members = {}

Insert(i, k) ==
  /\ i \notin members /\ k \in 1 .. (size + 1)
  /\ list' = PutAt(list, k, i)
  /\ size' = size + 1 /\ members' = members \cup {i}

Remove(k) ==
  /\ k \in 1 .. size
  /\ list' = DropAt(list, k)
  /\ size' = size - 1 /\ members' = members \ {list[k]}

\* Insertion with replace: the old entry goes, the new one is the last.
ToEnd(k) ==
  /\ k \in 1 .. size
  /\ list' = PutAt(DropAt(list, k), size, list[k])
  /\ UNCHANGED <<size, members>>

Swap(j, k) ==
  /\ j \in 1 .. size /\ k \in 1 .. size /\ j # k
  /\ list' = Exchange(list, j, k)
  /\ UNCHANGED <<size, members>>

Next ==
  \/ \E i \in Ids, k \in 1 .. (size + 1) : Insert(i, k)
  \/ \E k \in 1 .. size : Remove(k) \/ ToEnd(k)
  \/ \E j, k \in 1 .. size : Swap(j, k)

Spec == Init /\ [][Next]_vars
=============================================================================
