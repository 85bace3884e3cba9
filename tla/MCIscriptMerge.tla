--------------------------- MODULE MCIscriptMerge ---------------------------
(***************************************************************************)
(* Small inputs for IscriptMerge: every program of Size instructions with  *)
(* the headers of Tables, followed by inputs of Later that replace one of  *)
(* its headers, or both.                                                   *)
(***************************************************************************)
EXTENDS IscriptMerge

CONSTANTS Size, Choices, Tables, Later

I(kind, target) == [kind |-> kind, target |-> target]
T == I("term", 0)

MCPrograms == {p \in [instr : [1 .. Size -> Choices], headers : Tables] : IsProgram(p)}
MCInputs == {<<p>> \o in : p \in MCPrograms, in \in Later}

MCChoices == {I("normal", 0), T, I("jmp", 1), I("jmp", 3), I("cond", 1), I("cond", 2)}
MCTables == {<<<<1>>, <<2>>>>, <<<<2, 0, 1>>, <<1>>>>, <<<<3, 2>>, <<1>>>>}

(* A header that replaces header 1 or 2 by a loop of its own, and two      *)
(* headers that share code and replace both.                               *)
Loop(h) == [instr |-> <<I("cond", 1), T>>, headers |-> [k \in {h} |-> <<2, 1>>]]
Both == [instr |-> <<I("normal", 0), I("jmp", 1)>>, headers |-> <<<<1>>, <<2>>>>]

MCLater == {<<Loop(1)>>, <<Loop(2)>>, <<Both>>, <<Both, Loop(1)>>, <<Loop(1), Loop(1)>>}
=============================================================================
