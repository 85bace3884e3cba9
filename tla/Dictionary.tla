----------------------------- MODULE Dictionary -----------------------------
(***************************************************************************)
(* What hashtable.c promises: under every name what was inserted there,    *)
(* the newest first, so that one insertion hides another and a removal     *)
(* brings it back; and an enumeration that gives every pair once, in any   *)
(* order.  Keys that are equal have the same name.                         *)
(***************************************************************************)
EXTENDS Naturals, Sequences

CONSTANTS Key, Name, Data, Nothing

VARIABLES
  pairs,   \* for each name, the pairs of a key and its data, newest first
  left,    \* the places, each a name and a number, still to be enumerated
  result   \* what the last call returned

vars == <<pairs, left, result>>

Names == {Name[k] : k \in Key}

Init == pairs = [n \in Names |-> <<>>] /\ left = {} /\ result = Nothing

Insert(k, d) ==
  /\ pairs' = [pairs EXCEPT ![Name[k]] = <<<<k, d>>>> \o @]
  /\ left' = {}
  /\ UNCHANGED result

Newest(k) == IF pairs[Name[k]] = <<>> THEN Nothing ELSE Head(pairs[Name[k]])

Find(k) == result' = Newest(k) /\ UNCHANGED <<pairs, left>>

Remove(k) ==
  /\ result' = Newest(k)
  /\ pairs' = [pairs EXCEPT ![Name[k]] = IF @ = <<>> THEN @ ELSE Tail(@)]
  /\ left' = {}

Places == UNION {{n} \X DOMAIN pairs[n] : n \in Names}

Enumerate == left' = Places /\ UNCHANGED <<pairs, result>>

Give ==
  /\ IF left = {}
     THEN result' = Nothing /\ UNCHANGED left
     ELSE \E p \in left : result' = pairs[p[1]][p[2]] /\ left' = left \ {p}
  /\ UNCHANGED pairs

Free == pairs' = [n \in Names |-> <<>>] /\ left' = {} /\ result' = Nothing

Next ==
  \/ \E k \in Key : (\E d \in Data : Insert(k, d)) \/ Find(k) \/ Remove(k)
  \/ Enumerate \/ Give \/ Free

Spec == Init /\ [][Next]_vars
=============================================================================
