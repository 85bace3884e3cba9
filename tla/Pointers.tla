------------------------------ MODULE Pointers ------------------------------
(***************************************************************************)
(* What stands for nothing (scdef.h): the pointer to no object, in the     *)
(* graphs and in the lists of cells, and the number in files and queues.   *)
(***************************************************************************)
CONSTANT NULL

NULL_UINT16 == 0
=============================================================================
