------------------------------- MODULE ListOps -------------------------------
(***************************************************************************)
(* A sequence with one entry more or one less, written position by         *)
(* position: what the list models and the proofs about them share.         *)
(***************************************************************************)
EXTENDS Naturals, Sequences

\* s with x at position k; the entries from k on move one place up.
PutAt(s, k, x) ==
  [j \in 1 .. (Len(s) + 1) |-> IF j < k THEN s[j] ELSE IF j = k THEN x ELSE s[j - 1]]

\* s without its entry at k; the entries above k move one place down.
DropAt(s, k) ==
  [j \in 1 .. (Len(s) - 1) |-> IF j < k THEN s[j] ELSE s[j + 1]]

\* s with the entries at j and k exchanged.
Exchange(s, j, k) == [s EXCEPT ![j] = s[k], ![k] = s[j]]
=============================================================================
