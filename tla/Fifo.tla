-------------------------------- MODULE Fifo --------------------------------
(***************************************************************************)
(* What queue.c promises: items come out in the order in which they were   *)
(* put in, an item that is put back comes out next, and nothing is lost.   *)
(***************************************************************************)
EXTENDS Sequences

CONSTANTS Item, NoItem

VARIABLES
  items,   \* what is in the queue, the next item first
  result   \* what the last call returned

vars == <<items, result>>

Init == items = <<>> /\ result = NoItem

Insert(i) == items' = Append(items, i) /\ UNCHANGED result
PutBack(i) == items' = <<i>> \o items /\ UNCHANGED result

Remove ==
  IF items = <<>>
  THEN result' = NoItem /\ UNCHANGED items
  ELSE result' = Head(items) /\ items' = Tail(items)

Free == items' = <<>> /\ result' = NoItem

Next == (\E i \in Item : Insert(i) \/ PutBack(i)) \/ Remove \/ Free

Spec == Init /\ [][Next]_vars
=============================================================================
