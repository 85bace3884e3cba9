------------------------------ MODULE Listing ------------------------------
(***************************************************************************)
(* What list.c promises: a list whose newest item is first, from which the *)
(* first item that passes for another is found or removed, and an          *)
(* enumeration that gives every item once, in order.                       *)
(***************************************************************************)
EXTENDS Naturals, Sequences, FiniteSetsExt
Seqs == INSTANCE SequencesExt

CONSTANTS Item, NoItem

VARIABLES
  items,
  left,    \* what the enumeration has still to give
  result   \* what the last call returned

vars == <<items, left, result>>

Init == items = <<>> /\ left = <<>> /\ result = NoItem

Insert(i) ==
  /\ items' = <<i>> \o items
  /\ left' = <<>>
  /\ UNCHANGED result

(* Where the first item of the set S is. *)
Places(S) == {k \in DOMAIN items : items[k] \in S}

Find(S) ==
  /\ result' = IF Places(S) = {} THEN NoItem ELSE items[Min(Places(S))]
  /\ UNCHANGED <<items, left>>

Remove(S) ==
  /\ result' = IF Places(S) = {} THEN NoItem ELSE items[Min(Places(S))]
  /\ items' = IF Places(S) = {} THEN items ELSE Seqs!RemoveAt(items, Min(Places(S)))
  /\ left' = <<>>

Enumerate == left' = items /\ UNCHANGED <<items, result>>

Give ==
  /\ IF left = <<>>
     THEN result' = NoItem /\ UNCHANGED left
     ELSE result' = Head(left) /\ left' = Tail(left)
  /\ UNCHANGED items

Free == items' = <<>> /\ left' = <<>> /\ result' = NoItem

Next ==
  \/ \E i \in Item : Insert(i)
  \/ \E S \in SUBSET Item : Find(S) \/ Remove(S)
  \/ Enumerate \/ Give \/ Free

Spec == Init /\ [][Next]_vars
=============================================================================
