----------------------------- MODULE Containers -----------------------------
(***************************************************************************)
(* A queue, a list and a hash table, as the programs hold them next to     *)
(* each other, and what each promises.  queue.c, list.c and hashtable.c    *)
(* share no state: each container has a heap of its own.                   *)
(***************************************************************************)
EXTENDS Queues

CONSTANTS
  Object,                       \* the items of the list
  Key, Datum, Name, Hash, Size  \* of the hash table

VARIABLES
  listkind, cells, list, following, found,    \* Lists
  buckets, table, location, bucket, answer    \* HashTables

L == INSTANCE Lists WITH
       Item <- Object, kind <- listkind, heap <- cells, next <- following, result <- found

T == INSTANCE HashTables WITH
       Data <- Datum, heap <- buckets, data <- table, index <- location,
       next_bucket <- bucket, result <- answer

ASSUME ContainersAssumption == L!ListsAssumption /\ T!HashTablesAssumption

list_vars == <<listkind, cells, list, following, found>>
table_vars == <<buckets, table, location, bucket, answer>>

(* ListsImplementListing: through the pointer the caller keeps, whatever   *)
(* is inserted, removed and found and whatever addresses malloc hands out  *)
(* again, the cells are a list, and an enumeration gives every item once.  *)
ListsImplementListing == L!ImplementsListing

(* TablesImplementDictionary: however keys collide, hide each other and    *)
(* are removed, and whatever addresses malloc hands out again, the buckets *)
(* are a dictionary, and an enumeration gives every pair once and then no  *)
(* more.                                                                   *)
TablesImplementDictionary == T!ImplementsDictionary
=============================================================================
