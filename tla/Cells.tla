------------------------------- MODULE Cells -------------------------------
(***************************************************************************)
(* The heap of linked cells that queue.c, list.c and hashtable.c build on: *)
(* a function from the addresses in use to what is there.  malloc returns  *)
(* any address that is not in use, one that was freed before as well, so a *)
(* pointer that dangles may come to point to something else.               *)
(***************************************************************************)
EXTENDS Pointers, Integers, Sequences, FiniteSets

CONSTANT Address  \* the addresses malloc can return

ASSUME CellsAssumption == IsFiniteSet(Address) /\ NULL \notin Address

(* What malloc may return, and the heap with cell c there. *)
Fresh(heap) == Address \ DOMAIN heap
Stored(heap, a, c) ==
  [b \in DOMAIN heap \cup {a} |-> IF b = a THEN c ELSE heap[b]]

Freed(heap, a) == [b \in DOMAIN heap \ {a} |-> heap[b]]

(* The addresses from a on, in order: next leads from one to the next.  A  *)
(* chain ends at NULL; one that dangles, before the address not in use.    *)
Chain(next, a) ==
  LET Walk[n \in 0 .. Cardinality(DOMAIN next)] ==
        [b \in Address \cup {NULL} |->
           IF n = 0 \/ b \notin DOMAIN next THEN <<>> ELSE <<b>> \o Walk[n - 1][next[b]]]
  IN  Walk[Cardinality(DOMAIN next)][a]

(* The items of a list of cells with head and tail, as List and ObjList.   *)
Items(heap, a) ==
  LET chain == Chain([b \in DOMAIN heap |-> heap[b].tail], a)
  IN  [k \in DOMAIN chain |-> heap[chain[k]].head]
=============================================================================
