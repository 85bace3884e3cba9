-------------------------- MODULE MCIscriptPrint --------------------------
(***************************************************************************)
(* Every program of Size instructions under the headers of Tables, with    *)
(* a gap in the middle or none.  Headers 1 and 2 have the same name.       *)
(***************************************************************************)
EXTENDS IscriptPrint

CONSTANTS Size, Choices, Tables

I(kind, target) == [kind |-> kind, target |-> target]

MCPrograms ==
  {p \in [instr : [1 .. Size -> Choices], headers : Tables, gaps : {{}, {2}}] :
     IsProgram(p)}

MCChoices == {I("normal", 0), I("term", 0), I("jmp", 1), I("jmp", 3), I("cond", 2),
              I("cond", 4)}
MCTables == {<<<<2, 0, 1>>, <<3>>>>, <<<<1>>>>}
MCScriptName(h) == "Unused"
=============================================================================
