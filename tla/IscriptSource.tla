--------------------------- MODULE IscriptSource ---------------------------
(***************************************************************************)
(* The sources that icecc reads and icedc prints, and what they mean, read *)
(* off the lines without a parser.                                         *)
(*                                                                         *)
(* A source is a sequence of lines that are not blank.  A line is          *)
(*   [is |-> "start"], [is |-> "end"]    the tags around a header          *)
(*   [is |-> "var", var |-> v, val |-> x]                                  *)
(*       v = Id, Type or the animation Anim(i), whose x is a name (or      *)
(*       NoLabel, "[NONE]"); v = Bad is a line that has an error           *)
(*   [is |-> "code", names |-> s, op |-> k, label |-> x]                   *)
(*       labels, then an instruction of kind k that may use the label x;   *)
(*       k = "none" on a line of labels only, k = "bad" for an instruction *)
(*       with an unknown name or wrong arguments                           *)
(***************************************************************************)
EXTENDS IscriptGraph

CONSTANTS
  NumAnims,  \* for each header type, the number of its animations
  NoLabel,   \* EMPTY_LABEL_STRING
  Illegal    \* the other names that no label may have: the header tags

ASSUME NumAnimsAssumption ==
  /\ IsFiniteSet(DOMAIN NumAnims) /\ DOMAIN NumAnims # {} /\ NULL \notin DOMAIN NumAnims
  /\ \A t \in DOMAIN NumAnims : NumAnims[t] \in Nat \ {0}

AnimNos == 0 .. 1 + CHOOSE n \in {NumAnims[t] : t \in DOMAIN NumAnims} :
                      \A t \in DOMAIN NumAnims : NumAnims[t] <= n

Id == <<"id", 0>>
Type == <<"type", 0>>
Bad == <<"bad", 0>>
Anim(i) == <<"anim", i>>

IsLine(l) ==
  \/ l.is \in {"start", "end"}
  \/ l.is = "var" /\ l.var \in {Id, Type, Bad} \cup {Anim(i) : i \in AnimNos}
  \/ /\ l.is = "code" /\ l.op \in Kinds \cup {"none", "bad"}
     /\ l.names \in Seq({l.names[m] : m \in DOMAIN l.names})
     /\ l.names = <<>> => l.op # "none"

IsSource(s) == s \in Seq({s[k] : k \in DOMAIN s}) /\ \A k \in DOMAIN s : IsLine(s[k])

-----------------------------------------------------------------------------
Is(s, what) == {k \in DOMAIN s : s[k].is = what}
OpLines(s) == {k \in Is(s, "code") : s[k].op # "none"}
Vars(s, b) == {k \in b[1] .. b[2] : s[k].is = "var"}

Blocks(s) == {b \in Is(s, "start") \X Is(s, "end") :
                b[1] < b[2] /\ \A k \in (b[1] + 1) .. (b[2] - 1) : s[k].is = "var"}

(* The last value a block gives a variable. *)
Value(s, b, v) ==
  LET given == {k \in Vars(s, b) : s[k].var = v} IN
  IF given = {} THEN NULL
  ELSE s[CHOOSE k \in given : \A j \in given : j <= k].val
LastAnim(s, b) == NumAnims[Value(s, b, Type)]
Named(s, b) == {i \in 0 .. LastAnim(s, b) - 1 : Value(s, b, Anim(i)) \notin {NULL, NoLabel}}

(* The instruction before line k, the one after it, and the one that a     *)
(* label in line k marks.                                                  *)
Before(s, k) == {j \in OpLines(s) : j < k /\ \A i \in OpLines(s) : i < k => i <= j}
After(s, k) == {j \in OpLines(s) : k \in Before(s, j)}
Marked(s, k) == CHOOSE j \in OpLines(s) : j >= k /\ \A i \in OpLines(s) : i >= k => j <= i
Labelled(s, j) == {k \in Is(s, "code") : s[k].names # <<>> /\ k <= j /\ Marked(s, k) = j}
NamesAt(s, k) == {s[k].names[m] : m \in DOMAIN s[k].names}
Names(s) == UNION {NamesAt(s, k) : k \in Is(s, "code")}
Target(s, name) == Marked(s, CHOOSE k \in Is(s, "code") : name \in NamesAt(s, k))
Ends(s, k) == s[k].op \in {"term", "jmp"}
Jumping(s, k) == s[k].op \in {"jmp", "cond"}

HeaderIsOk(s, b) ==
  /\ \A k \in Vars(s, b) : s[k].var # Bad
  /\ Value(s, b, Id) # NULL /\ Value(s, b, Type) \in DOMAIN NumAnims
  /\ \A i \in 0 .. LastAnim(s, b) : Value(s, b, Anim(i)) \notin Illegal
  /\ \A i \in Named(s, b) : Value(s, b, Anim(i)) \in Names(s)

CodeIsOk(s, k) ==
  /\ s[k].op # "bad"
  /\ Labelled(s, k) = {} => \E j \in Before(s, k) : ~Ends(s, j)
  /\ Jumping(s, k) => s[k].label \in Names(s)

WellFormed(s) ==
  /\ \A k \in Is(s, "start") \cup Is(s, "end") \cup Is(s, "var") :
       \E b \in Blocks(s) : k \in b[1] .. b[2]
  /\ \A b \in Blocks(s) : HeaderIsOk(s, b)
  /\ \A b, c \in Blocks(s) : Value(s, b, Id) = Value(s, c, Id) => b = c
  /\ \A k \in Is(s, "code") \ OpLines(s) : k + 1 \in Is(s, "code")
  /\ \A k \in OpLines(s) : CodeIsOk(s, k)
  /\ \A k \in Before(s, Len(s) + 1) : Ends(s, k)
  /\ Names(s) \cap ({NoLabel} \cup Illegal) = {}
  /\ \A j, k \in Is(s, "code") :
       NamesAt(s, j) \cap NamesAt(s, k) # {} => Marked(s, j) = Marked(s, k)

Flows(s, k) ==
  (IF Ends(s, k) THEN {} ELSE After(s, k)) \cup
  (IF Jumping(s, k) THEN {Target(s, s[k].label)} ELSE {})
Starts(s) == UNION {{Target(s, Value(s, b, Anim(i))) : i \in Named(s, b)} : b \in Blocks(s)}
Executed(s) == Closure(Starts(s), [k \in OpLines(s) |-> Flows(s, k)])
=============================================================================
