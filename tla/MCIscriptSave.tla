--------------------------- MODULE MCIscriptSave ---------------------------
(***************************************************************************)
(* Every program of Size instructions under the headers of Tables.  The    *)
(* room for the old table is small; instructions have odd and even         *)
(* lengths, so that headers need padding; some programs do not fit.        *)
(***************************************************************************)
EXTENDS IscriptSave

CONSTANTS Size, Instrs, Tables

I(kind, target) == [kind |-> kind, target |-> target]

MCPrograms == {p \in [instr : [1 .. Size -> Instrs], headers : Tables] : IsProgram(p)}

MCInstrs == {I("normal", 0), I("term", 0), I("jmp", 1), I("jmp", 4), I("cond", 2),
              I("cond", 3)}
MCTables == {<<<<2, 0, 1>>, <<3>>>>, <<<<4, 4>>, <<3>>>>, <<<<1>>>>}
MCLength == [normal |-> 2, term |-> 1, jmp |-> 3, cond |-> 4]
=============================================================================
