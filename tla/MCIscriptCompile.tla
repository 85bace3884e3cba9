-------------------------- MODULE MCIscriptCompile --------------------------
(***************************************************************************)
(* Every sequence of Size lines of code of MCChoices after one header or   *)
(* two, or around one; and each kind of error in a header and in a line.   *)
(* The chains jump and fall into each other, also in circles, wherever     *)
(* headers lead.                                                           *)
(***************************************************************************)
EXTENDS IscriptCompileSteps

CONSTANT Size

L(ns, k, x) == [is |-> "code", names |-> ns, op |-> k, label |-> x]
V(v, x) == [is |-> "var", var |-> v, val |-> x]
Start == [is |-> "start"]
End == [is |-> "end"]

H(id, x, y) == <<Start, V(Id, id), V(Type, 1), V(Anim(0), x), V(Anim(1), y), End>>
MCNumAnims == [t \in {1} |-> 2]

Before1(code, top) == top \o code
Inside(code, top) == SubSeq(code, 1, 2) \o top \o SubSeq(code, 3, Len(code))

MCChoices == {L(<<"a">>, "normal", ""), L(<<"a">>, "none", ""), L(<<"b">>, "cond", "a"),
              L(<<"b", "c">>, "jmp", "b"), L(<<>>, "jmp", "b"), L(<<>>, "term", ""),
              L(<<"a">>, "cond", "c"), L(<<"c">>, "normal", ""),
              L(<<"c">>, "jmp", "a")}

Codes == [1 .. Size -> MCChoices]
OneHeader == H(1, "a", NoLabel)
TwoHeaders == H(1, "b", "a") \o H(2, "a", "c")

(* A header twice, an unknown type, no id and no end, a variable without a *)
(* header, a line in error, a name no label may have, and a label that the *)
(* header's type does not have but that is looked at.                      *)
BadTops ==
  {OneHeader \o OneHeader,
   <<Start, V(Id, 1), V(Type, 9), End>>,
   <<Start, V(Type, 1), V(Anim(2), "x")>>,
   <<V(Id, 1)>>,
   <<Start, V(Id, 1), V(Type, 1), V(Bad, 0), End>>,
   <<Start, V(Id, 1), V(Type, 1), V(Anim(0), ".headerend"), End>>,
   <<Start, V(Id, 1), V(Type, 1), V(Anim(2), ".headerend"), End>>}
BadCodes == {<<L(<<"a">>, "bad", "")>>, <<L(<<NoLabel>>, "term", "")>>,
             <<L(<<"a">>, "jmp", ".headerend")>>, <<L(<<"a", "b">>, "term", "")>>}

MCSources ==
  {top \o code : top \in {OneHeader, TwoHeaders}, code \in Codes}
    \cup {SubSeq(code, 1, 2) \o OneHeader \o SubSeq(code, 3, Len(code)) : code \in Codes}
    \cup {top \o code : top \in BadTops \cup {TwoHeaders, OneHeader}, code \in BadCodes}
=============================================================================
