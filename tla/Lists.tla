------------------------------- MODULE Lists -------------------------------
(***************************************************************************)
(* list.c: the lists of numbers (List) and of objects (ObjList), as linked *)
(* cells.  An empty List is NULL; an empty ObjList is a cell without a     *)
(* head, so that the pointer to an ObjList stays the same while items come *)
(* and go: the callers keep it and never look at what objlist_insert       *)
(* returns.  An item goes into the first cell, and what was there moves to *)
(* a new second one; an item that leaves the first cell is replaced by the *)
(* second, whose cell is freed.                                            *)
(*                                                                         *)
(* An enumeration is a pointer to the next cell.  No caller uses one again *)
(* after it has changed the list.  list_remove and objlist_swap have no    *)
(* caller, and are left out.                                               *)
(***************************************************************************)
EXTENDS Cells, FiniteSetsExt

CONSTANT Item

ListsAssumption == NULL \notin Item

VARIABLES
  kind,   \* "numbers" for a List, "objects" for an ObjList
  heap,
  list,   \* the caller's pointer
  next,   \* ObjListEnum.next
  result

vars == <<kind, heap, list, next, result>>

(* list_new, objlist_new: the heap, and the pointer the caller gets. *)
New(k) ==
  IF k = "numbers"
  THEN {[heap |-> <<>>, list |-> NULL]}
  ELSE {[heap |-> Stored(<<>>, a, [head |-> NULL, tail |-> NULL]), list |-> a] : a \in Address}

Init ==
  /\ kind \in {"numbers", "objects"}
  /\ \E new \in New(kind) : heap = new.heap /\ list = new.list
  /\ next = NULL /\ result = NULL

Insert(i) ==
  /\ IF list = NULL
     THEN \E a \in Fresh(heap) :
            /\ heap' = Stored(heap, a, [head |-> i, tail |-> NULL])
            /\ list' = a
     ELSE /\ IF heap[list].head = NULL
             THEN heap' = [heap EXCEPT ![list].head = i]
             ELSE \E a \in Fresh(heap) :
                    heap' = [Stored(heap, a, heap[list]) EXCEPT
                               ![list] = [head |-> i, tail |-> a]]
          /\ UNCHANGED list
  /\ next' = NULL
  /\ UNCHANGED <<kind, result>>

(* The cells of the list, and where the first item that eq_fn takes for    *)
(* the item looked for is: S are those it takes for it.                    *)
Cell == Chain([a \in DOMAIN heap |-> heap[a].tail], list)
Places(S) == {k \in DOMAIN Cell : heap[Cell[k]].head \in S}

Find(S) ==
  /\ kind = "numbers" => Cardinality(S) = 1
  /\ result' = IF Places(S) = {} THEN NULL ELSE heap[Cell[Min(Places(S))]].head
  /\ UNCHANGED <<kind, heap, list, next>>

(* Mutant: the next cell is freed, but not taken out of the list. *)
Behead_KeepTail ==
  IF heap[list].tail = NULL
  THEN [heap EXCEPT ![list].head = NULL]
  ELSE [Freed(heap, heap[list].tail) EXCEPT ![list].head = heap[heap[list].tail].head]

(* The heap without the item of the first cell. *)
Behead ==
  IF heap[list].tail = NULL
  THEN [heap EXCEPT ![list].head = NULL]
  ELSE [Freed(heap, heap[list].tail) EXCEPT ![list] = heap[heap[list].tail]]

Remove(S) ==
  /\ kind = "objects"
  /\ IF Places(S) = {}
     THEN result' = NULL /\ UNCHANGED heap
     ELSE LET k == Min(Places(S)) IN
          /\ result' = heap[Cell[k]].head
          /\ heap' = IF k = 1 THEN Behead
                     ELSE Freed([heap EXCEPT ![Cell[k - 1]].tail = heap[Cell[k]].tail],
                                Cell[k])
  /\ next' = NULL
  /\ UNCHANGED <<kind, list>>

Enumerate ==
  /\ kind = "objects"
  /\ next' = list
  /\ UNCHANGED <<kind, heap, list, result>>

Give ==
  /\ kind = "objects"
  /\ IF next = NULL \/ heap[next].head = NULL
     THEN result' = NULL /\ UNCHANGED next
     ELSE result' = heap[next].head /\ next' = heap[next].tail
  /\ UNCHANGED <<kind, heap, list>>

(* list_free, objlist_free, and the next list. *)
Free ==
  /\ \E new \in New(kind) : heap' = new.heap /\ list' = new.list
  /\ next' = NULL /\ result' = NULL
  /\ UNCHANGED kind

Next ==
  \/ \E i \in Item : Insert(i)
  \/ \E S \in SUBSET Item : Find(S) \/ Remove(S)
  \/ Enumerate \/ Give \/ Free

Spec == Init /\ [][Next]_vars
-----------------------------------------------------------------------------
(* What is in the list from a cell on: nothing in one without a head. *)
From(a) ==
  IF a # NULL /\ heap[a].head = NULL THEN <<>> ELSE Items(heap, a)

List == INSTANCE Listing WITH
          NoItem <- NULL, items <- From(list), left <- From(next)

(* Through the pointer the caller keeps, whatever is inserted, removed and *)
(* found and whatever addresses malloc hands out again, the cells are a    *)
(* list, and an enumeration gives every item of it once (list_insert,      *)
(* list_find, objlist_insert, objlist_remove, objlistenum_next).           *)
ImplementsListing == List!Spec
=============================================================================
