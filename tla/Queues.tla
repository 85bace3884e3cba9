------------------------------- MODULE Queues -------------------------------
(***************************************************************************)
(* queue.c: the queues of numbers (Queue) and of objects (ObjQueue), as    *)
(* linked cells with a pointer to the first and to the last of them.       *)
(*                                                                         *)
(* The pointer to the last cell is not reset when a queue runs empty, and  *)
(* objqueue_putback looks at it: after a queue has run empty and something *)
(* was put back, "end" dangles.  No caller inserts after it put something  *)
(* back (icecc.c puts back the token it has read too far, and the path of  *)
(* an Iscript before the files to compile), and this is the protocol here. *)
(***************************************************************************)
EXTENDS Cells

CONSTANT Item  \* what is put in: numbers, or objects that are numbered

ASSUME QueuesAssumption == Item \subseteq Nat

VARIABLES
  kind,        \* "numbers" for a Queue, "objects" for an ObjQueue
  heap,
  front, end,
  putback,     \* whether the client has put something back
  result

queue_vars == <<kind, heap, front, end, putback, result>>

(* queue_remove returns a long, but by way of a uint16. *)
Narrow(i) == IF kind = "numbers" THEN i % 65536 ELSE i

New ==
  /\ kind' \in {"numbers", "objects"}
  /\ heap' = <<>> /\ front' = NULL /\ end' = NULL
  /\ putback' = FALSE /\ result' = NULL_UINT16

QueueInit ==
  /\ kind \in {"numbers", "objects"}
  /\ heap = <<>> /\ front = NULL /\ end = NULL
  /\ putback = FALSE /\ result = NULL_UINT16

(* Mutant: a queue whose front is its end is taken for empty. *)
IsEmpty_Last == front = end

IsEmpty == front = NULL

Insert(i) ==
  /\ ~ putback
  /\ \E l \in Fresh(heap) :
       LET larger == Stored(heap, l, [head |-> i, tail |-> NULL]) IN
       /\ IF IsEmpty
          THEN heap' = larger /\ front' = l
          ELSE heap' = [larger EXCEPT ![end].tail = l] /\ UNCHANGED front
       /\ end' = l
  /\ UNCHANGED <<kind, putback, result>>

PutBack(i) ==
  /\ kind = "objects"
  /\ \E l \in Fresh(heap) :
       /\ heap' = Stored(heap, l, [head |-> i, tail |-> front])
       /\ front' = l
       /\ end' = IF end = NULL THEN l ELSE end
  /\ putback' = TRUE
  /\ UNCHANGED <<kind, result>>

Remove ==
  /\ IF IsEmpty
     THEN result' = NULL_UINT16 /\ UNCHANGED <<heap, front>>
     ELSE /\ result' = Narrow(heap[front].head)
          /\ heap' = Freed(heap, front)
          /\ front' = heap[front].tail
  /\ UNCHANGED <<kind, end, putback>>

(* queue_free, objqueue_free: all that is left is removed; the next queue. *)
Free == New

QueueNext == (\E i \in Item : Insert(i) \/ PutBack(i)) \/ Remove \/ Free

QueueSpec == QueueInit /\ [][QueueNext]_queue_vars
-----------------------------------------------------------------------------
(* What is in the queue. *)
Contents ==
  LET items == Items(heap, front) IN [k \in DOMAIN items |-> Narrow(items[k])]

Queue == INSTANCE Fifo WITH
           Item <- Item \cup {i % 65536 : i \in Item}, NoItem <- NULL_UINT16,
           items <- Contents

(* Whatever is inserted, put back and removed in the order the clients     *)
(* keep to, and whatever addresses malloc hands out again, the cells are a *)
(* queue: nothing is lost or given out twice (queue_insert, queue_remove,  *)
(* objqueue_insert, objqueue_putback, objqueue_remove).                    *)
ImplementsFifo == Queue!Spec
=============================================================================
