------------------------------ MODULE Archive ------------------------------
(***************************************************************************)
(* What icecc promises of an iscript.bin: an archive of header ids, each   *)
(* with its script, that is, what an image with that id executes.  The     *)
(* scripts of an input are put into the archive header by header; one of   *)
(* an id that is there already is discarded first.  No step changes the    *)
(* script of any other header, however much code they have in common.      *)
(***************************************************************************)
EXTENDS Naturals, Sequences

VARIABLES
  inputs,    \* for each input, in order: header id -> script
  read,      \* how many of them have been read
  todo,      \* the headers of the last one that are still to be put
  archive    \* header id -> script

vars == <<inputs, read, todo, archive>>

Init ==
  /\ DOMAIN inputs = 1 .. Len(inputs)
  /\ read = 0 /\ todo = {}
  /\ archive = <<>>

Read ==
  /\ todo = {} /\ read < Len(inputs)
  /\ read' = read + 1
  /\ todo' = DOMAIN inputs[read + 1]
  /\ UNCHANGED <<inputs, archive>>

Discard(h) ==
  /\ h \in todo \cap DOMAIN archive
  /\ archive' = [g \in DOMAIN archive \ {h} |-> archive[g]]
  /\ UNCHANGED <<inputs, read, todo>>

Define(h) ==
  /\ h \in todo \ DOMAIN archive
  /\ archive' = [g \in DOMAIN archive \cup {h} |->
                   IF g = h THEN inputs[read][h] ELSE archive[g]]
  /\ todo' = todo \ {h}
  /\ UNCHANGED <<inputs, read>>

(* The program is done with the archive. *)
Free ==
  /\ todo = {} /\ read = Len(inputs)
  /\ archive' = <<>>
  /\ UNCHANGED <<inputs, read, todo>>

Next == Read \/ (\E h \in todo : Discard(h) \/ Define(h)) \/ Free

Spec == Init /\ [][Next]_vars
=============================================================================
