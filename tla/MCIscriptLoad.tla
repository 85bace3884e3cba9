--------------------------- MODULE MCIscriptLoad ---------------------------
(***************************************************************************)
(* Small files for IscriptLoad: every way to fill the offsets 1 .. 4 of a  *)
(* file of Size bytes with one of the instructions given, under one of the *)
(* header tables given.  Offset 0 holds the table pointer and no code.     *)
(***************************************************************************)
EXTENDS IscriptLoad

CONSTANT Size

N(len)         == [kind |-> "normal", len |-> len, numargs |-> 0, target |-> 0]
J(to)          == [kind |-> "jmp", len |-> 1, numargs |-> 1, target |-> to]
C(nargs, to)   == [kind |-> "cond", len |-> 1, numargs |-> nargs, target |-> to]
T              == [kind |-> "term", len |-> 1, numargs |-> 0, target |-> 0]
Bad            == [kind |-> "bad", len |-> 1, numargs |-> 0, target |-> 0]

(* A header with the given offsets, and one that cannot be read. *)
H(offs) == [at |-> "ok", anims |-> Len(offs),
            offsets |-> [i \in 0 .. Len(offs) - 1 |-> offs[i + 1]]]
Unreadable == [at |-> "bad", anims |-> 0, offsets |-> [i \in {} |-> 0]]

FilesOf(choices, tables, ends) ==
  {[size |-> Size, table |-> t, tableEnd |-> e,
    instr |-> [a \in 0 .. Size - 1 |-> IF a = 0 THEN Bad ELSE body[a]]] :
     t \in tables, e \in ends, body \in [1 .. Size - 1 -> choices]}

(* Two animations that share code, two headers, an empty animation, and an *)
(* animation beyond the end of the file.                                   *)
MCTables == {<<H(<<1, 3>>)>>, <<H(<<2, 0, 1>>), H(<<3>>)>>}
MCChoices == {N(1), N(2), T, J(1), J(4), C(1, 2), C(2, 4)}

(* One of everything that can be wrong with a file. *)
MCBadTables == {<<H(<<1>>), H(<<2, 9>>)>>, <<H(<<1, 2>>), Unreadable>>, <<H(<<4, 0>>)>>}
MCBadChoices == {N(1), T, J(9), C(1, 9), Bad}

MCGoodFiles == FilesOf(MCChoices, MCTables, {"eof"})
MCBadFiles == FilesOf(MCBadChoices, MCBadTables, {"eof", "short"})
MCFiles == MCGoodFiles \cup MCBadFiles
=============================================================================
