----------------------------- MODULE HashTables -----------------------------
(***************************************************************************)
(* hashtable.c: an array of chains of buckets.  An ObjHashTable has a hash *)
(* function and an equality of its own; a HashTable is the same code with  *)
(* numbers for keys, which are their own hash and equal only to            *)
(* themselves.  Keys that are equal have one name here, and one hash.      *)
(*                                                                         *)
(* An enumeration is the next bucket and the index of its chain.  No       *)
(* caller changes a table that it is enumerating: the loops that insert or *)
(* remove run over another table.  The functions that free what is in a    *)
(* table as well have no caller, and are left out.                         *)
(***************************************************************************)
EXTENDS Cells, FiniteSetsExt
Seqs == INSTANCE SequencesExt

CONSTANTS
  Key, Data,
  Name,     \* the name of each key: eq_fn(k, l) is Name[k] = Name[l]
  Hash,     \* hash_fn, of each name
  Size      \* the number of chains

HashTablesAssumption ==
  /\ Size \in Nat \ {0}
  /\ \A k \in Key : Hash[Name[k]] \in Nat

VARIABLES
  heap,         \* the buckets
  data,         \* ObjHashTable.data
  index, next_bucket,  \* ObjHashEnum
  result

vars == <<heap, data, index, next_bucket, result>>

Locations == 0 .. Size - 1
Location(k) == Hash[Name[k]] % Size

Init ==
  /\ heap = <<>> /\ data = [i \in Locations |-> NULL]
  /\ index = -1 /\ next_bucket = NULL
  /\ result = NULL

(* The caller has no use for an enumeration once the table has changed.    *)
EndEnumeration == index' = -1 /\ next_bucket' = NULL

Insert(k, d) ==
  /\ \E b \in Fresh(heap) :
       /\ heap' = Stored(heap, b, [key |-> k, data |-> d, next |-> data[Location(k)]])
       /\ data' = [data EXCEPT ![Location(k)] = b]
  /\ EndEnumeration
  /\ UNCHANGED result

(* The buckets from one on, and the first in its chain that is key k's.    *)
Buckets(b) == Chain([a \in DOMAIN heap |-> heap[a].next], b)

Places(k) ==
  LET chain == Buckets(data[Location(k)])
  IN  {j \in DOMAIN chain : Name[heap[chain[j]].key] = Name[k]}

Pair(b) == <<heap[b].key, heap[b].data>>

(* objhashtable_find returns the data of the pair, objhashtable_findkey    *)
(* the key that was inserted.                                              *)
Find(k) ==
  /\ result' = IF Places(k) = {} THEN NULL
               ELSE Pair(Buckets(data[Location(k)])[Min(Places(k))])
  /\ UNCHANGED <<heap, data, index, next_bucket>>

Remove(k) ==
  /\ IF Places(k) = {}
     THEN result' = NULL /\ UNCHANGED <<heap, data>>
     ELSE LET chain == Buckets(data[Location(k)])
              j == Min(Places(k))
              rest == heap[chain[j]].next IN
          /\ result' = Pair(chain[j])
          /\ IF j = 1
             THEN data' = [data EXCEPT ![Location(k)] = rest] /\ heap' = Freed(heap, chain[1])
             ELSE /\ heap' = Freed([heap EXCEPT ![chain[j - 1]].next = rest], chain[j])
                  /\ UNCHANGED data
  /\ EndEnumeration

(* The chains after index i that are not empty. *)
Later(i) == {l \in Locations : l > i /\ data[l] # NULL}

Enumerate ==
  /\ IF Later(-1) = {}
     THEN EndEnumeration
     ELSE index' = Min(Later(-1)) /\ next_bucket' = data[Min(Later(-1))]
  /\ UNCHANGED <<heap, data, result>>

(* Mutant: the enumeration is over when the next chain is empty. *)
Advance_NextChain ==
  IF heap[next_bucket].next # NULL
  THEN next_bucket' = heap[next_bucket].next /\ UNCHANGED index
  ELSE IF index + 1 = Size \/ data[index + 1] = NULL
       THEN EndEnumeration
       ELSE index' = index + 1 /\ next_bucket' = data[index + 1]

(* objhashenum_next_hashbucket: where the enumeration goes from a bucket. *)
Advance ==
  IF heap[next_bucket].next # NULL
  THEN next_bucket' = heap[next_bucket].next /\ UNCHANGED index
  ELSE IF Later(index) = {}
       THEN EndEnumeration
       ELSE index' = Min(Later(index)) /\ next_bucket' = data[Min(Later(index))]

Give ==
  /\ IF next_bucket = NULL
     THEN result' = NULL /\ UNCHANGED <<index, next_bucket>>
     ELSE result' = Pair(next_bucket) /\ Advance
  /\ UNCHANGED <<heap, data>>

(* objhashtable_free, and the next table. *)
Free ==
  /\ heap' = <<>> /\ data' = [i \in Locations |-> NULL]
  /\ EndEnumeration
  /\ result' = NULL

Next ==
  \/ \E k \in Key : (\E d \in Data : Insert(k, d)) \/ Find(k) \/ Remove(k)
  \/ Enumerate \/ Give \/ Free

Spec == Init /\ [][Next]_vars
-----------------------------------------------------------------------------
Names == {Name[k] : k \in Key}

(* The buckets of a name, the newest first, and their pairs.               *)
BucketsOf(n) ==
  LET chain == Buckets(data[Hash[n] % Size])
      Own[j \in 0 .. Len(chain)] ==
        IF j = 0 THEN <<>>
        ELSE IF Name[heap[chain[j]].key] = n THEN Append(Own[j - 1], chain[j])
        ELSE Own[j - 1]
  IN  Own[Len(chain)]

PairsOf(n) == LET own == BucketsOf(n) IN [j \in DOMAIN own |-> Pair(own[j])]

(* The buckets that the enumeration has still to give. *)
Left ==
  IF next_bucket = NULL THEN {}
  ELSE Seqs!ToSet(Buckets(next_bucket)) \cup
       UNION {Seqs!ToSet(Buckets(data[l])) : l \in Later(index)}

LeftOf(n) ==
  LET own == BucketsOf(n)
      left == Left
  IN  {<<n, j>> : j \in {i \in DOMAIN own : own[i] \in left}}

Table == INSTANCE Dictionary WITH
  Nothing <- NULL,
  pairs <- [n \in Names |-> PairsOf(n)],
  left <- UNION {LeftOf(n) : n \in Names}

(* However keys collide, hide each other and are removed, and whatever     *)
(* addresses malloc hands out again, the buckets are a dictionary, and an  *)
(* enumeration gives every pair once and then no more (hashtable_insert,   *)
(* hashtable_find, hashtable_remove, hashenum_next and their objhash       *)
(* twins).                                                                 *)
ImplementsDictionary == Table!Spec
=============================================================================
