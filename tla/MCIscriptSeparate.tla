-------------------------- MODULE MCIscriptSeparate --------------------------
(***************************************************************************)
(* Every program of Size instructions under the headers of Tables: headers *)
(* that share code, start in the middle of each other's code, or have no   *)
(* animation for a number.                                                 *)
(***************************************************************************)
EXTENDS IscriptSeparate

CONSTANTS Size, Choices, Tables

I(kind, target) == [kind |-> kind, target |-> target]

MCPrograms == {p \in [instr : [1 .. Size -> Choices], headers : Tables] : IsProgram(p)}

MCChoices == {I("normal", 0), I("term", 0), I("jmp", 1), I("jmp", 3), I("cond", 1),
              I("cond", 2), I("cond", 4)}
MCTables == {<<<<2, 0, 1>>, <<3>>>>, <<<<4>>, <<1, 1>>>>}
=============================================================================
