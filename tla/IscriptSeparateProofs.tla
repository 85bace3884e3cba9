----------------------- MODULE IscriptSeparateProofs -----------------------
(***************************************************************************)
(* Proofs about extracting and separating headers: every header gets a     *)
(* copy of all its code and of nothing else, in a graph whose pointers     *)
(* agree; and icedc keeps the archive.                                     *)
(***************************************************************************)
EXTENDS IscriptSeparate, IscriptGraphProofs

-----------------------------------------------------------------------------
(* The labels that the copy for a header needs, and its entries.           *)
LabelsAt(p, h) ==
  Entries(p, h) \cup {p.instr[a].target : a \in {b \in ReachIn(p, h) : Jumps(p, b)}}

(* What is the copy of instruction a and of label l for header h, when the *)
(* code W and the labels V have been copied, but next of N and jump of J   *)
(* are not set yet, the jumps of C have not been looked at, and E are the  *)
(* entries that have.                                                      *)
CopyOfInstr(p, h, W, V, N, J, a) ==
  [op       |-> <<0, a>>,
   next     |-> IF FallsThrough(p, a) /\ a \notin N THEN <<h, a + 1>> ELSE NULL,
   prev     |-> IF a - 1 \in W /\ FallsThrough(p, a - 1) /\ a - 1 \notin N
                THEN <<h, a - 1>> ELSE NULL,
   st_entry |-> IF a \in V THEN <<h, a>> ELSE NULL,
   jump     |-> IF Jumps(p, a) /\ a \notin J THEN <<h, p.instr[a].target>> ELSE NULL]

JumpsInto(p, h, W, C, l) == {h} \X {a \in W \ C : Jumps(p, a) /\ p.instr[a].target = l}

AnimsFor(h, E, l, anims) ==
  /\ anims \subseteq [header : {<<h, h>>}, type : {"HEADER", "JUMP"}]
  /\ [header |-> <<h, h>>, type |-> "HEADER"] \in anims <=> l \in E

CopyOfLabel(p, h, W, C, E, l, st) ==
  /\ st = [id |-> st.id, bc |-> IF l \in W THEN <<h, l>> ELSE NULL, anims |-> st.anims,
           jumps |-> JumpsInto(p, h, W, C, l)]
  /\ AnimsFor(h, E, l, st.anims)

CopyOK(p, h, W, V, N, J, C, E, ins, lab) ==
  /\ \A a \in W : <<h, a>> \in DOMAIN ins /\ ins[<<h, a>>] = CopyOfInstr(p, h, W, V, N, J, a)
  /\ \A l \in V : <<h, l>> \in DOMAIN lab /\ CopyOfLabel(p, h, W, C, E, l, lab[<<h, l>>])

EntryCopy(h, a) == IF a = 0 THEN NULL ELSE <<h, a>>
HeaderCopy(p, h) ==
  [ptr |-> <<h, h>>, st_entries |-> [i \in DOMAIN p.headers[h] |-> EntryCopy(h, p.headers[h][i])]]

(* Where the code that has been copied leads is copied, or open.           *)
FlowOK(p, h, W, V, N, J, E) ==
  /\ W \subseteq ReachIn(p, h) /\ V \subseteq LabelsAt(p, h) /\ E \subseteq V
  /\ \A a \in W : /\ FallsThrough(p, a) => a \in N \/ a + 1 \in W
                  /\ Jumps(p, a) => a \in J \/ p.instr[a].target \in V

(* The activations: that of a label which is not copied yet, and that of a *)
(* label whose chain has got to instruction a.                             *)
Fresh(h, l) == [old |-> <<0, l>>, new |-> <<h, l>>, next |-> <<0, l>>, instr |-> NULL,
                prev |-> NULL, at |-> "next"]
Walking(p, h, l, a, at) ==
  [old |-> <<0, l>>, new |-> <<h, l>>,
   next |-> IF FallsThrough(p, a) THEN <<0, a + 1>> ELSE NULL, instr |-> <<0, a>>,
   prev |-> <<h, a>>, at |-> at]

Walkings(p, h, W, V) ==
  {Walking(p, h, l, a, "next") : l \in V, a \in W}
  \cup {Walking(p, h, l, a, "jump") : l \in V, a \in {b \in W : Jumps(p, b)}}
Frames(p, h, W, V) == {Fresh(h, l) : l \in V} \cup Walkings(p, h, W, V)

(* An activation waits for the one that it has called.                     *)
CalledBy(p, f, caller) ==
  /\ caller.instr # NULL /\ caller.at = "next" /\ Jumps(p, caller.instr[2])
  /\ f.old = <<0, p.instr[caller.instr[2]].target>>

FreshAt(h, s) == {l \in {s[k].old[2] : k \in 1 .. 1 \cap DOMAIN s} : s[1] = Fresh(h, l)}

Calls(p, h, W, V, s) ==
  /\ s \in Seq(Frames(p, h, W, V))
  /\ \A k \in DOMAIN s : s[k].instr # NULL => s[k].old[2] <= s[k].instr[2]
  /\ \A k \in DOMAIN s : k > 1 => CalledBy(p, s[k - 1], s[k])
  /\ \A j, k \in DOMAIN s : s[j].instr # NULL /\ s[j].instr = s[k].instr => j = k
StackOK(p, h, W, V, s) ==
  /\ Calls(p, h, W, V, s)
  /\ V \subseteq W \cup FreshAt(h, s) /\ FreshAt(h, s) \cap W = {}

NextOpen(s) ==
  {s[k].instr[2] : k \in {j \in DOMAIN s : s[j].instr # NULL /\ s[j].next # NULL}}
JumpOpen(s) ==
  {s[k].instr[2] : k \in {j \in DOMAIN s : s[j].instr # NULL /\ (j > 1 \/ s[j].at = "jump")}}
Uncalled(s) ==
  {s[k].instr[2] : k \in {j \in DOMAIN s : j = 1 /\ s[j].at = "jump"}}

(* The label of the animation that is being copied.                        *)
Base(s) == s[Len(s)].old

(* The invariant.                                                          *)
Offsets == program.headers[id]
CopiedCode == {a \in ReachIn(program, id) : <<0, a>> \in DOMAIN visited_instrs}
CopiedLabels == {l \in ReachIn(program, id) : <<0, l>> \in DOMAIN visited}
Met(offs, n, busy) == {offs[i] : i \in {j \in DOMAIN offs : j < n \/ (j = n /\ busy)}} \ {0}
EntriesMet == Met(Offsets, animno, stack # <<>>)
Extracted == DOMAIN program.headers \ (ids \cup (IF pc = "copy" THEN {id} ELSE {}))

ControlInv ==
  /\ program \in Programs /\ ip = LoadedGraph(program, 0)
  /\ pc \in {"separate", "copy"}
  /\ ids \subseteq DOMAIN program.headers
  /\ pc = "copy" => id \in DOMAIN program.headers \ ids

ExtractedInv ==
  /\ DOMAIN ip_rest.headers = Extracted
  /\ \A h \in Extracted : ip_rest.headers[h] = HeaderCopy(program, h)
  /\ \A h \in Extracted : CopyOK(program, h, ReachIn(program, h), LabelsAt(program, h), {}, {}, {},
                                 Entries(program, h), instr, label)

DoneCode == UNION {{h} \X ReachIn(program, h) : h \in Extracted}
DoneLabels == UNION {{h} \X LabelsAt(program, h) : h \in Extracted}
DomainInv ==
  /\ DOMAIN instr = DoneCode \cup (IF pc = "copy" THEN {id} \X CopiedCode ELSE {})
  /\ DOMAIN label = DoneLabels \cup (IF pc = "copy" THEN {id} \X CopiedLabels ELSE {})

SymtblInv ==
  /\ ip_rest.uniq_id \in Nat /\ DOMAIN ip_rest.symtbl \subseteq Nat
  /\ {ip_rest.symtbl[k] : k \in DOMAIN ip_rest.symtbl} = DoneLabels
  /\ \A k \in DOMAIN ip_rest.symtbl :
       k < ip_rest.uniq_id /\ label[ip_rest.symtbl[k]].id = k

NewLabels == {visited[l] : l \in DOMAIN visited}
IdsInv ==
  pc = "copy" =>
    /\ IsFiniteSet(NewLabels) /\ unique_id = Cardinality(NewLabels)
    /\ \A l \in NewLabels : label[l].id \in Nat /\ label[l].id < unique_id
    /\ \A l, m \in NewLabels : label[l].id = label[m].id => l = m

VisitedInv ==
  pc = "copy" =>
    /\ visited_instrs = [x \in {0} \X CopiedCode |-> <<id, x[2]>>]
    /\ visited = [l \in {0} \X CopiedLabels |-> <<id, l[2]>>]

StackInv ==
  pc = "copy" =>
    /\ StackOK(program, id, CopiedCode, CopiedLabels, stack)
    /\ stack # <<>> => /\ animno \in DOMAIN Offsets /\ Offsets[animno] # 0
                       /\ Base(stack) = <<0, Offsets[animno]>>

EntriesInv ==
  pc = "copy" =>
    /\ animno \in 1 .. Len(Offsets) + 1
    /\ st_entries = [i \in 1 .. animno - 1 |-> EntryCopy(id, Offsets[i])]

CopyInv ==
  pc = "copy" =>
    /\ CopyOK(program, id, CopiedCode, CopiedLabels, NextOpen(stack), JumpOpen(stack),
              Uncalled(stack), EntriesMet, instr, label)
    /\ FlowOK(program, id, CopiedCode, CopiedLabels, NextOpen(stack), JumpOpen(stack), EntriesMet)

SeparateInv ==
  /\ ControlInv /\ ExtractedInv /\ DomainInv /\ SymtblInv /\ IdsInv
  /\ VisitedInv /\ StackInv /\ EntriesInv /\ CopyInv

-----------------------------------------------------------------------------
(* The code of one header. *)

LEMMA CodeAt ==
  ASSUME NEW p, IsProgram(p), NEW h \in DOMAIN p.headers
  PROVE  /\ h \in Nat
         /\ ReachIn(p, h) \subseteq Nat \ {0} /\ ReachIn(p, h) \subseteq CodeOf(p)
         /\ ReachIn(p, h) \subseteq DOMAIN p.instr /\ IsFiniteSet(ReachIn(p, h))
         /\ Entries(p, h) \subseteq LabelsAt(p, h) /\ LabelsAt(p, h) \subseteq ReachIn(p, h)
         /\ LabelsAt(p, h) \subseteq LabelsOf(p)
         /\ \A a \in ReachIn(p, h) :
              /\ FallsThrough(p, a) => a + 1 \in ReachIn(p, h)
              /\ Jumps(p, a) => p.instr[a].target \in LabelsAt(p, h)
         /\ \A T : /\ Entries(p, h) \subseteq T
                  /\ (\A a \in T \cap ReachIn(p, h) : Succ(p, a) \subseteq T)
                 => ReachIn(p, h) \subseteq T
<1>1. /\ DOMAIN p.instr \subseteq Nat \ {0} /\ IsFiniteSet(DOMAIN p.instr)
      /\ CodeOf(p) \subseteq DOMAIN p.instr
  BY ProgramFacts
<1>2. /\ Entries(p, h) \subseteq ReachIn(p, h) /\ ReachIn(p, h) \subseteq CodeOf(p)
      /\ \A a \in ReachIn(p, h) : Succ(p, a) \subseteq ReachIn(p, h)
      /\ \A T : Entries(p, h) \subseteq T /\ (\A a \in T \cap ReachIn(p, h) : Succ(p, a) \subseteq T)
               => ReachIn(p, h) \subseteq T
  BY ReachFacts
<1>3. IsFiniteSet(ReachIn(p, h))
  BY <1>1, <1>2, FS_Subset
<1>4. \A a \in ReachIn(p, h) : /\ FallsThrough(p, a) => a + 1 \in ReachIn(p, h)
                               /\ Jumps(p, a) => p.instr[a].target \in ReachIn(p, h)
  BY <1>2 DEF Succ
<1>5. LabelsAt(p, h) \subseteq ReachIn(p, h)
  BY <1>2, <1>4 DEF LabelsAt
<1>6. LabelsAt(p, h) \subseteq LabelsOf(p)
  BY <1>2 DEF LabelsAt, LabelsOf, JumpsIn
<1>7. h \in Nat
  BY DEF IsProgram
<1> QED
  BY <1>1, <1>2, <1>3, <1>4, <1>5, <1>6, <1>7 DEF LabelsAt

LEMMA OffsetFacts ==
  ASSUME NEW p, IsProgram(p), NEW h \in DOMAIN p.headers
  PROVE  /\ Len(p.headers[h]) \in Nat /\ DOMAIN p.headers[h] = 1 .. Len(p.headers[h])
         /\ \A i \in DOMAIN p.headers[h] :
              p.headers[h][i] \in Nat /\ (p.headers[h][i] # 0 => p.headers[h][i] \in Entries(p, h))
         /\ \A a \in Entries(p, h) : a # 0 /\ \E i \in DOMAIN p.headers[h] : p.headers[h][i] = a
<1>1. PICK s \in Seq(Nat) : s = p.headers[h]
  BY DEF IsProgram
<1>2. Len(s) \in Nat /\ DOMAIN s = 1 .. Len(s) /\ \A i \in DOMAIN s : s[i] \in Nat
  OBVIOUS
<1> QED
  BY <1>1, <1>2 DEF Entries

(* When nothing is open everything has been copied. *)
LEMMA AllIsCopied ==
  ASSUME NEW p, IsProgram(p), NEW h \in DOMAIN p.headers, NEW W, NEW V,
         FlowOK(p, h, W, V, {}, {}, Entries(p, h)), V \subseteq W
  PROVE  W = ReachIn(p, h) /\ V = LabelsAt(p, h)
<1>1. /\ W \subseteq ReachIn(p, h) /\ V \subseteq LabelsAt(p, h) /\ Entries(p, h) \subseteq V
      /\ \A a \in W : /\ FallsThrough(p, a) => a + 1 \in W
                      /\ Jumps(p, a) => p.instr[a].target \in V
  BY DEF FlowOK
<1>2. \A a \in W \cap ReachIn(p, h) : Succ(p, a) \subseteq W
  BY <1>1 DEF Succ
<1>3. ReachIn(p, h) \subseteq W
  BY <1>1, <1>2, CodeAt
<1> QED
  BY <1>1, <1>3 DEF LabelsAt

-----------------------------------------------------------------------------
(* The heap of the copy for one header, as the steps of a copy change it.  *)

LEMMA CopyFields ==
  ASSUME NEW p, NEW h, NEW W, NEW V, NEW N, NEW J, NEW a,
         NEW x, x = CopyOfInstr(p, h, W, V, N, J, a)
  PROVE  /\ x.op = <<0, a>>
         /\ x.next = IF FallsThrough(p, a) /\ a \notin N THEN <<h, a + 1>> ELSE NULL
         /\ x.prev = IF a - 1 \in W /\ FallsThrough(p, a - 1) /\ a - 1 \notin N
                     THEN <<h, a - 1>> ELSE NULL
         /\ x.st_entry = IF a \in V THEN <<h, a>> ELSE NULL
         /\ x.jump = IF Jumps(p, a) /\ a \notin J THEN <<h, p.instr[a].target>> ELSE NULL
         /\ x = [op |-> x.op, next |-> x.next, prev |-> x.prev, st_entry |-> x.st_entry,
                 jump |-> x.jump]
BY DEF CopyOfInstr

LEMMA LabelFields ==
  ASSUME NEW p, NEW h, NEW W, NEW C, NEW E, NEW l, NEW st, CopyOfLabel(p, h, W, C, E, l, st)
  PROVE  /\ st.bc = IF l \in W THEN <<h, l>> ELSE NULL
         /\ st.jumps = JumpsInto(p, h, W, C, l)
         /\ AnimsFor(h, E, l, st.anims)
         /\ st = [id |-> st.id, bc |-> st.bc, anims |-> st.anims, jumps |-> st.jumps]
<1>1. PICK e : e = [id |-> st.id, bc |-> IF l \in W THEN <<h, l>> ELSE NULL, anims |-> st.anims,
                    jumps |-> JumpsInto(p, h, W, C, l)]
  OBVIOUS
<1>2. /\ e.bc = IF l \in W THEN <<h, l>> ELSE NULL
      /\ e.jumps = JumpsInto(p, h, W, C, l)
      /\ e = [id |-> e.id, bc |-> e.bc, anims |-> e.anims, jumps |-> e.jumps]
      /\ e = st
  BY <1>1 DEF CopyOfLabel
<1> QED
  BY <1>2 DEF CopyOfLabel

(* The fields determine a label. *)
LEMMA IsCopyOfLabel ==
  ASSUME NEW p, NEW h, NEW W, NEW C, NEW E, NEW l, NEW st,
         st = [id |-> st.id, bc |-> st.bc, anims |-> st.anims, jumps |-> st.jumps],
         st.bc = IF l \in W THEN <<h, l>> ELSE NULL,
         st.jumps = JumpsInto(p, h, W, C, l), AnimsFor(h, E, l, st.anims)
  PROVE  CopyOfLabel(p, h, W, C, E, l, st)
<1>1. st = [id |-> st.id, bc |-> IF l \in W THEN <<h, l>> ELSE NULL, anims |-> st.anims,
            jumps |-> JumpsInto(p, h, W, C, l)]
  OBVIOUS
<1> QED
  BY <1>1 DEF CopyOfLabel

InstrForm(x) ==
  x = [op |-> x.op, next |-> x.next, prev |-> x.prev, st_entry |-> x.st_entry, jump |-> x.jump]
LabelForm(st) == st = [id |-> st.id, bc |-> st.bc, anims |-> st.anims, jumps |-> st.jumps]

(* The parts of CopyOK that the lemmas below change. *)
InstrOK(p, h, W, V, N, J, ins, a) ==
  <<h, a>> \in DOMAIN ins /\ ins[<<h, a>>] = CopyOfInstr(p, h, W, V, N, J, a)
LabelOK(p, h, W, C, E, lab, l) ==
  <<h, l>> \in DOMAIN lab /\ CopyOfLabel(p, h, W, C, E, l, lab[<<h, l>>])

LEMMA CopyParts ==
  ASSUME NEW p, NEW h, NEW W, NEW V, NEW N, NEW J, NEW C, NEW E, NEW ins, NEW lab
  PROVE  CopyOK(p, h, W, V, N, J, C, E, ins, lab)
           <=> /\ \A a \in W : InstrOK(p, h, W, V, N, J, ins, a)
               /\ \A l \in V : LabelOK(p, h, W, C, E, lab, l)
BY DEF CopyOK, InstrOK, LabelOK

(* An instruction is copied, after the one that falls into it if B has it. *)
Added(h, W, V, a, B, ins, ins2) ==
  /\ DOMAIN ins2 = DOMAIN ins \cup {<<h, a>>}
  /\ ins2[<<h, a>>] = [op |-> <<0, a>>, next |-> NULL,
                       prev |-> IF B = {} THEN NULL ELSE <<h, a - 1>>,
                       st_entry |-> IF a \in V THEN <<h, a>> ELSE NULL, jump |-> NULL]
  /\ \A b \in W : ins2[<<h, b>>] =
       [op |-> ins[<<h, b>>].op, next |-> IF b \in B THEN <<h, a>> ELSE ins[<<h, b>>].next,
        prev |-> ins[<<h, b>>].prev, st_entry |-> ins[<<h, b>>].st_entry,
        jump |-> ins[<<h, b>>].jump]
Hooked(h, V, a, lab, lab2) ==
  /\ DOMAIN lab2 = DOMAIN lab
  /\ \A l \in V : lab2[<<h, l>>] =
       [id |-> lab[<<h, l>>].id, bc |-> IF l = a THEN <<h, a>> ELSE lab[<<h, l>>].bc,
        anims |-> lab[<<h, l>>].anims, jumps |-> lab[<<h, l>>].jumps]

LEMMA AddInstr ==
  ASSUME NEW p, NEW h, NEW W, W \subseteq Nat, NEW V, NEW N, NEW J, NEW C, NEW E,
         NEW ins, NEW lab, CopyOK(p, h, W, V, N, J, C, E, ins, lab),
         NEW a \in Nat, a \notin W, a \notin N, a \notin J,
         NEW B, B \subseteq {a - 1}, \A b \in B : b \in W /\ FallsThrough(p, b),
         a - 1 \in W /\ FallsThrough(p, a - 1) => a - 1 \in N,
         NEW N2, N2 = (N \ B) \cup {c \in {a} : FallsThrough(p, c)},
         NEW J2, J2 = J \cup {c \in {a} : Jumps(p, c)},
         NEW C2, C2 = C \cup {c \in {a} : Jumps(p, c)},
         NEW ins2, Added(h, W, V, a, B, ins, ins2), NEW lab2, Hooked(h, V, a, lab, lab2)
  PROVE  CopyOK(p, h, W \cup {a}, V, N2, J2, C2, E, ins2, lab2)
<1> DEFINE W2 == W \cup {a}
<1>1. /\ \A b \in W : InstrOK(p, h, W, V, N, J, ins, b)
      /\ \A l \in V : LabelOK(p, h, W, C, E, lab, l)
  BY CopyParts
<1>2. InstrOK(p, h, W2, V, N2, J2, ins2, a)
  <2>0. PICK x : x = ins2[<<h, a>>] /\ <<h, a>> \in DOMAIN ins2
    BY DEF Added
  <2>1. x = [op |-> <<0, a>>, next |-> NULL, prev |-> IF B = {} THEN NULL ELSE <<h, a - 1>>,
             st_entry |-> IF a \in V THEN <<h, a>> ELSE NULL, jump |-> NULL]
    BY <2>0 DEF Added
  <2>2. x.next = IF FallsThrough(p, a) /\ a \notin N2 THEN <<h, a + 1>> ELSE NULL
    BY <2>1
  <2>3. x.prev = IF a - 1 \in W2 /\ FallsThrough(p, a - 1) /\ a - 1 \notin N2
                 THEN <<h, a - 1>> ELSE NULL
    <3>1. a - 1 # a /\ a - 1 \in Int
      OBVIOUS
    <3>2. x.prev = IF B = {} THEN NULL ELSE <<h, a - 1>>
      BY <2>1
    <3>3. B = {} \/ B = {a - 1}
      OBVIOUS
    <3>4. CASE B = {}
      BY <3>1, <3>2, <3>4
    <3>5. CASE B = {a - 1}
      BY <3>1, <3>2, <3>5
    <3> QED
      BY <3>3, <3>4, <3>5
  <2>4. /\ x.op = <<0, a>>
        /\ x.st_entry = IF a \in V THEN <<h, a>> ELSE NULL
        /\ x.jump = IF Jumps(p, a) /\ a \notin J2 THEN <<h, p.instr[a].target>> ELSE NULL
        /\ x = [op |-> x.op, next |-> x.next, prev |-> x.prev, st_entry |-> x.st_entry,
                jump |-> x.jump]
    BY <2>1
  <2>5. x = CopyOfInstr(p, h, W2, V, N2, J2, a)
    <3> HIDE DEF W2
    <3> QED
      BY <2>2, <2>3, <2>4 DEF CopyOfInstr
  <2> QED
    BY <2>0, <2>5 DEF InstrOK
<1>3. ASSUME NEW b \in W PROVE InstrOK(p, h, W2, V, N2, J2, ins2, b)
  <2>1. PICK x, y : x = ins2[<<h, b>>] /\ y = ins[<<h, b>>]
    OBVIOUS
  <2>2. /\ y.op = <<0, b>>
        /\ y.next = IF FallsThrough(p, b) /\ b \notin N THEN <<h, b + 1>> ELSE NULL
        /\ y.prev = IF b - 1 \in W /\ FallsThrough(p, b - 1) /\ b - 1 \notin N
                    THEN <<h, b - 1>> ELSE NULL
        /\ y.st_entry = IF b \in V THEN <<h, b>> ELSE NULL
        /\ y.jump = IF Jumps(p, b) /\ b \notin J THEN <<h, p.instr[b].target>> ELSE NULL
        /\ <<h, b>> \in DOMAIN ins
    BY <1>1, <2>1, CopyFields DEF InstrOK
  <2>3. x = [op |-> y.op, next |-> IF b \in B THEN <<h, a>> ELSE y.next,
             prev |-> y.prev, st_entry |-> y.st_entry, jump |-> y.jump]
    BY <2>1 DEF Added
  <2>4. b # a /\ b \in Nat
    OBVIOUS
  <2>5. x.next = IF FallsThrough(p, b) /\ b \notin N2 THEN <<h, b + 1>> ELSE NULL
    <3>1. CASE b \in B
      <4>1. b = a - 1 /\ b + 1 = a /\ x.next = <<h, a>> /\ b \notin N2
        BY <2>3, <2>4, <3>1
      <4> QED
        BY <3>1, <4>1
    <3>2. CASE b \notin B
      <4>1. x.next = y.next /\ (b \in N2 <=> b \in N)
        BY <2>3, <2>4, <3>2
      <4> QED
        BY <2>2, <4>1
    <3> QED
      BY <3>1, <3>2
  <2>6. x.prev = IF b - 1 \in W2 /\ FallsThrough(p, b - 1) /\ b - 1 \notin N2
                 THEN <<h, b - 1>> ELSE NULL
    <3>1. x.prev = y.prev
      BY <2>3
    <3>2. CASE b - 1 = a
      <4>1. b - 1 \notin W /\ (FallsThrough(p, b - 1) => b - 1 \in N2)
        BY <3>2
      <4> QED
        BY <2>2, <3>1, <4>1
    <3>3. CASE b - 1 # a
      <4>1. b - 1 \notin B
        BY <2>4
      <4>2. (b - 1 \in N2 <=> b - 1 \in N) /\ (b - 1 \in W2 <=> b - 1 \in W)
        BY <3>3, <4>1
      <4> QED
        BY <2>2, <3>1, <4>2
    <3> QED
      BY <3>2, <3>3
  <2>7. /\ x.op = <<0, b>>
        /\ x.st_entry = IF b \in V THEN <<h, b>> ELSE NULL
        /\ x.jump = IF Jumps(p, b) /\ b \notin J2 THEN <<h, p.instr[b].target>> ELSE NULL
        /\ x = [op |-> x.op, next |-> x.next, prev |-> x.prev, st_entry |-> x.st_entry,
                jump |-> x.jump]
    BY <2>2, <2>3, <2>4
  <2>8. x = CopyOfInstr(p, h, W2, V, N2, J2, b)
    <3> HIDE DEF W2
    <3> QED
      BY <2>5, <2>6, <2>7 DEF CopyOfInstr
  <2> QED
    BY <2>1, <2>2, <2>8 DEF InstrOK, Added
<1>4. ASSUME NEW l \in V PROVE LabelOK(p, h, W2, C2, E, lab2, l)
  <2>1. PICK x, y : x = lab2[<<h, l>>] /\ y = lab[<<h, l>>]
    OBVIOUS
  <2>2. /\ y.bc = IF l \in W THEN <<h, l>> ELSE NULL
        /\ y.jumps = JumpsInto(p, h, W, C, l) /\ AnimsFor(h, E, l, y.anims)
        /\ <<h, l>> \in DOMAIN lab
    BY <1>1, <2>1, LabelFields DEF LabelOK
  <2>3. x = [id |-> y.id, bc |-> IF l = a THEN <<h, a>> ELSE y.bc, anims |-> y.anims,
             jumps |-> y.jumps]
    BY <2>1 DEF Hooked
  <2>4. /\ x.bc = IF l = a THEN <<h, a>> ELSE y.bc
        /\ x.anims = y.anims /\ x.jumps = y.jumps
        /\ x = [id |-> x.id, bc |-> x.bc, anims |-> x.anims, jumps |-> x.jumps]
    BY <2>3
  <2>5. x.bc = IF l \in W2 THEN <<h, l>> ELSE NULL
    BY <2>2, <2>4
  <2>6. JumpsInto(p, h, W2, C2, l) = JumpsInto(p, h, W, C, l)
    <3>1. {c \in W2 \ C2 : Jumps(p, c) /\ p.instr[c].target = l}
            = {c \in W \ C : Jumps(p, c) /\ p.instr[c].target = l}
      OBVIOUS
    <3> QED
      BY <3>1 DEF JumpsInto
  <2>7. CopyOfLabel(p, h, W2, C2, E, l, x)
    BY <2>2, <2>4, <2>5, <2>6, IsCopyOfLabel
  <2> QED
    BY <2>1, <2>2, <2>7 DEF LabelOK, Hooked
<1> HIDE DEF W2
<1>5. \A b \in W2 : InstrOK(p, h, W2, V, N2, J2, ins2, b)
  BY <1>2, <1>3 DEF W2
<1>6. CopyOK(p, h, W2, V, N2, J2, C2, E, ins2, lab2)
  BY <1>4, <1>5, CopyParts
<1> QED
  BY <1>6 DEF W2

(* The chain arrives at an instruction that was copied before.             *)
Linked(h, W, a, ins, ins2) ==
  /\ DOMAIN ins2 = DOMAIN ins
  /\ \A b \in W : ins2[<<h, b>>] =
       [op |-> ins[<<h, b>>].op,
        next |-> IF b = a THEN <<h, a + 1>> ELSE ins[<<h, b>>].next,
        prev |-> IF b = a + 1 THEN <<h, a>> ELSE ins[<<h, b>>].prev,
        st_entry |-> ins[<<h, b>>].st_entry, jump |-> ins[<<h, b>>].jump]

LEMMA JoinInstr ==
  ASSUME NEW p, NEW h, NEW W, W \subseteq Nat, NEW V, NEW N, NEW J, NEW C, NEW E,
         NEW ins, NEW lab, CopyOK(p, h, W, V, N, J, C, E, ins, lab),
         NEW a \in W, FallsThrough(p, a), a + 1 \in W, NEW N2, N2 = N \ {a},
         NEW ins2, Linked(h, W, a, ins, ins2)
  PROVE  CopyOK(p, h, W, V, N2, J, C, E, ins2, lab)
<1>1. /\ \A b \in W : InstrOK(p, h, W, V, N, J, ins, b)
      /\ \A l \in V : LabelOK(p, h, W, C, E, lab, l)
  BY CopyParts
<1>2. ASSUME NEW b \in W PROVE InstrOK(p, h, W, V, N2, J, ins2, b)
  <2>1. PICK x, y : x = ins2[<<h, b>>] /\ y = ins[<<h, b>>]
    OBVIOUS
  <2>2. /\ y.op = <<0, b>>
        /\ y.next = IF FallsThrough(p, b) /\ b \notin N THEN <<h, b + 1>> ELSE NULL
        /\ y.prev = IF b - 1 \in W /\ FallsThrough(p, b - 1) /\ b - 1 \notin N
                    THEN <<h, b - 1>> ELSE NULL
        /\ y.st_entry = IF b \in V THEN <<h, b>> ELSE NULL
        /\ y.jump = IF Jumps(p, b) /\ b \notin J THEN <<h, p.instr[b].target>> ELSE NULL
        /\ <<h, b>> \in DOMAIN ins
    BY <1>1, <2>1, CopyFields, SMTT(30) DEF InstrOK
  <2>3. x = [op |-> y.op, next |-> IF b = a THEN <<h, a + 1>> ELSE y.next,
             prev |-> IF b = a + 1 THEN <<h, a>> ELSE y.prev,
             st_entry |-> y.st_entry, jump |-> y.jump]
    BY <2>1 DEF Linked
  <2>4. x.next = IF FallsThrough(p, b) /\ b \notin N2 THEN <<h, b + 1>> ELSE NULL
    BY <2>2, <2>3
  <2>5. x.prev = IF b - 1 \in W /\ FallsThrough(p, b - 1) /\ b - 1 \notin N2
                 THEN <<h, b - 1>> ELSE NULL
    <3>0. a \in Nat /\ b \in Nat
      OBVIOUS
    <3>1. a \in Int /\ b \in Int /\ (b = a + 1 <=> b - 1 = a)
      BY <3>0
    <3>2. x.prev = IF b = a + 1 THEN <<h, a>> ELSE y.prev
      BY <2>3
    <3>3. CASE b = a + 1
      <4>1. b - 1 = a
        BY <3>1, <3>3
      <4> QED
        BY <3>2, <3>3, <4>1
    <3>4. CASE b # a + 1
      <4>1. x.prev = y.prev /\ (b - 1 \in N2 <=> b - 1 \in N)
        BY <3>1, <3>2, <3>4
      <4> QED
        BY <2>2, <4>1
    <3> QED
      BY <3>3, <3>4
  <2>6. /\ x.op = <<0, b>>
        /\ x.st_entry = IF b \in V THEN <<h, b>> ELSE NULL
        /\ x.jump = IF Jumps(p, b) /\ b \notin J THEN <<h, p.instr[b].target>> ELSE NULL
        /\ x = [op |-> x.op, next |-> x.next, prev |-> x.prev, st_entry |-> x.st_entry,
                jump |-> x.jump]
    BY <2>2, <2>3
  <2>7. x = CopyOfInstr(p, h, W, V, N2, J, b)
    BY <2>4, <2>5, <2>6 DEF CopyOfInstr
  <2> QED
    BY <2>1, <2>2, <2>7 DEF InstrOK, Linked
<1> QED
  BY <1>1, <1>2, CopyParts

(* A jump gets the copy of its label.                                      *)
LEMMA SetJump ==
  ASSUME NEW p, NEW h, NEW W, NEW V, NEW N, NEW J, NEW C, NEW E,
         NEW ins, NEW lab, CopyOK(p, h, W, V, N, J, C, E, ins, lab),
         NEW a \in W, Jumps(p, a), NEW J2, J2 = J \ {a},
         NEW ins2, ins2 = [ins EXCEPT ![<<h, a>>].jump = <<h, p.instr[a].target>>]
  PROVE  CopyOK(p, h, W, V, N, J2, C, E, ins2, lab)
<1>1. /\ \A b \in W : InstrOK(p, h, W, V, N, J, ins, b)
      /\ \A l \in V : LabelOK(p, h, W, C, E, lab, l)
  BY CopyParts
<1>2. ASSUME NEW b \in W PROVE InstrOK(p, h, W, V, N, J2, ins2, b)
  <2>1. PICK x, y : x = ins2[<<h, b>>] /\ y = ins[<<h, b>>]
    OBVIOUS
  <2>2. /\ y.op = <<0, b>>
        /\ y.next = IF FallsThrough(p, b) /\ b \notin N THEN <<h, b + 1>> ELSE NULL
        /\ y.prev = IF b - 1 \in W /\ FallsThrough(p, b - 1) /\ b - 1 \notin N
                    THEN <<h, b - 1>> ELSE NULL
        /\ y.st_entry = IF b \in V THEN <<h, b>> ELSE NULL
        /\ y.jump = IF Jumps(p, b) /\ b \notin J THEN <<h, p.instr[b].target>> ELSE NULL
        /\ y = [op |-> y.op, next |-> y.next, prev |-> y.prev, st_entry |-> y.st_entry,
                jump |-> y.jump]
        /\ <<h, b>> \in DOMAIN ins /\ DOMAIN ins2 = DOMAIN ins
    <3>1. y = CopyOfInstr(p, h, W, V, N, J, b) /\ <<h, b>> \in DOMAIN ins
      BY <1>1, <2>1 DEF InstrOK
    <3>2. DOMAIN ins2 = DOMAIN ins
      OBVIOUS
    <3> QED
      BY <3>1, <3>2, CopyFields
  <2>3. x = IF b = a THEN [y EXCEPT !.jump = <<h, p.instr[a].target>>] ELSE y
    <3>1. CASE b = a
      BY <2>1, <2>2, <3>1
    <3>2. CASE b # a
      <4>1. <<h, b>> # <<h, a>>
        BY <3>2
      <4> QED
        BY <2>1, <2>2, <3>2, <4>1
    <3> QED
      BY <3>1, <3>2
  <2>4. x = [op |-> y.op, next |-> y.next, prev |-> y.prev, st_entry |-> y.st_entry,
             jump |-> IF b = a THEN <<h, p.instr[a].target>> ELSE y.jump]
    BY <2>2, <2>3
  <2>5. x.jump = IF Jumps(p, b) /\ b \notin J2 THEN <<h, p.instr[b].target>> ELSE NULL
    BY <2>2, <2>4
  <2>6. /\ x.op = y.op /\ x.next = y.next /\ x.prev = y.prev /\ x.st_entry = y.st_entry
        /\ x = [op |-> x.op, next |-> x.next, prev |-> x.prev, st_entry |-> x.st_entry,
                jump |-> x.jump]
    BY <2>4
  <2>7. x = CopyOfInstr(p, h, W, V, N, J2, b)
    BY <2>2, <2>5, <2>6 DEF CopyOfInstr
  <2> QED
    BY <2>1, <2>2, <2>7 DEF InstrOK
<1> QED
  BY <1>1, <1>2, CopyParts

(* A call of __iscript_copy_symtblent adds an animation and maybe the jump *)
(* it comes from to the copy of the label.                                 *)
CallType(E, E2, l, type) ==
  /\ type \in {"HEADER", "JUMP"}
  /\ E2 = IF type = "HEADER" THEN E \cup {l} ELSE E
CallJump(p, h, W, C, C2, l, jumps) ==
  /\ C2 \subseteq C /\ C \cap W \subseteq C2 \cup {a \in W : Jumps(p, a) /\ p.instr[a].target = l}
  /\ jumps = {h} \X ((C \cap W) \ C2)

LEMMA CallOthers ==
  ASSUME NEW p, NEW h, NEW W, NEW C, NEW C2, NEW E, NEW E2, NEW l, NEW type, NEW jumps,
         CallType(E, E2, l, type), CallJump(p, h, W, C, C2, l, jumps),
         NEW m, m # l, NEW st, CopyOfLabel(p, h, W, C, E, m, st)
  PROVE  CopyOfLabel(p, h, W, C2, E2, m, st)
<1>1. {a \in W \ C2 : Jumps(p, a) /\ p.instr[a].target = m}
        = {a \in W \ C : Jumps(p, a) /\ p.instr[a].target = m}
  BY DEF CallJump
<1>2. JumpsInto(p, h, W, C2, m) = JumpsInto(p, h, W, C, m)
  BY <1>1 DEF JumpsInto
<1>3. m \in E2 <=> m \in E
  BY DEF CallType
<1> QED
  BY <1>2, <1>3 DEF CopyOfLabel, AnimsFor

LEMMA CallJumps ==
  ASSUME NEW p, NEW h, NEW W, NEW C, NEW C2, NEW l, NEW jumps,
         CallJump(p, h, W, C, C2, l, jumps)
  PROVE  JumpsInto(p, h, W, C2, l) = JumpsInto(p, h, W, C, l) \cup jumps
<1>1. {a \in W \ C2 : Jumps(p, a) /\ p.instr[a].target = l}
        = {a \in W \ C : Jumps(p, a) /\ p.instr[a].target = l} \cup ((C \cap W) \ C2)
  BY DEF CallJump
<1> DEFINE S == {a \in W \ C : Jumps(p, a) /\ p.instr[a].target = l}
           T == (C \cap W) \ C2
<1>2. {h} \X (S \cup T) = ({h} \X S) \cup ({h} \X T)
  <2> HIDE DEF S, T
  <2> QED
    OBVIOUS
<1> QED
  BY <1>1, <1>2 DEF JumpsInto, CallJump

LEMMA CallAnims ==
  ASSUME NEW h, NEW E, NEW E2, NEW l, NEW type, CallType(E, E2, l, type),
         NEW anims, AnimsFor(h, E, l, anims)
  PROVE  AnimsFor(h, E2, l, anims \cup {[header |-> <<h, h>>, type |-> type]})
<1> DEFINE an == [header |-> <<h, h>>, type |-> type]
           head == [header |-> <<h, h>>, type |-> "HEADER"]
<1>1. an \in [header : {<<h, h>>}, type : {"HEADER", "JUMP"}]
  BY DEF CallType
<1>2. an = head <=> type = "HEADER"
  OBVIOUS
<1>3. anims \subseteq [header : {<<h, h>>}, type : {"HEADER", "JUMP"}] /\ (head \in anims <=> l \in E)
  BY DEF AnimsFor
<1> HIDE DEF an, head
<1>4. head \in anims \cup {an} <=> l \in E2
  BY <1>2, <1>3 DEF CallType
<1>5. anims \cup {an} \subseteq [header : {<<h, h>>}, type : {"HEADER", "JUMP"}]
  BY <1>1, <1>3
<1> QED
  BY <1>4, <1>5 DEF AnimsFor, an, head

CallsLabel(h, l, type, jumps, lab, lab2) ==
  lab2 = [lab EXCEPT ![<<h, l>>].anims = @ \cup {[header |-> <<h, h>>, type |-> type]},
                     ![<<h, l>>].jumps = @ \cup jumps]

LEMMA CallAgain ==
  ASSUME NEW p, NEW h, NEW W, NEW V, NEW N, NEW J, NEW C, NEW E,
         NEW ins, NEW lab, CopyOK(p, h, W, V, N, J, C, E, ins, lab),
         NEW l \in V, NEW C2, NEW E2, NEW type, NEW jumps,
         CallType(E, E2, l, type), CallJump(p, h, W, C, C2, l, jumps),
         NEW lab2, CallsLabel(h, l, type, jumps, lab, lab2)
  PROVE  /\ CopyOK(p, h, W, V, N, J, C2, E2, ins, lab2)
         /\ DOMAIN lab2 = DOMAIN lab
         /\ \A x \in DOMAIN lab : lab2[x].id = lab[x].id /\ (x # <<h, l>> => lab2[x] = lab[x])
<1>0. lab2 = [lab EXCEPT ![<<h, l>>].anims = @ \cup {[header |-> <<h, h>>, type |-> type]},
                         ![<<h, l>>].jumps = @ \cup jumps]
  BY DEF CallsLabel
<1>1. /\ \A b \in W : InstrOK(p, h, W, V, N, J, ins, b)
      /\ \A m \in V : LabelOK(p, h, W, C, E, lab, m)
  BY CopyParts
<1>2. PICK y : y = lab[<<h, l>>]
  OBVIOUS
<1>3. /\ y.bc = IF l \in W THEN <<h, l>> ELSE NULL
      /\ y.jumps = JumpsInto(p, h, W, C, l) /\ AnimsFor(h, E, l, y.anims)
      /\ y = [id |-> y.id, bc |-> y.bc, anims |-> y.anims, jumps |-> y.jumps]
      /\ <<h, l>> \in DOMAIN lab
  BY <1>1, <1>2, LabelFields DEF LabelOK
<1>4. PICK x : x = [id |-> y.id, bc |-> y.bc,
                    anims |-> y.anims \cup {[header |-> <<h, h>>, type |-> type]},
                    jumps |-> y.jumps \cup jumps]
  OBVIOUS
<1>5. /\ DOMAIN lab2 = DOMAIN lab
      /\ lab2[<<h, l>>] = x
      /\ \A z \in DOMAIN lab : z # <<h, l>> => lab2[z] = lab[z]
  <2>1. \A z \in DOMAIN lab : z # <<h, l>> => lab2[z] = lab[z]
    BY <1>0
  <2>2. DOMAIN lab2 = DOMAIN lab
    BY <1>0
  <2>3. lab2[<<h, l>>] = [y EXCEPT !.anims = @ \cup {[header |-> <<h, h>>, type |-> type]},
                                   !.jumps = @ \cup jumps]
    BY <1>0, <1>2, <1>3
  <2>4. lab2[<<h, l>>] = x
    BY <1>3, <1>4, <2>3
  <2> QED
    BY <2>1, <2>2, <2>4
<1>6. CopyOfLabel(p, h, W, C2, E2, l, x)
  <2>1. /\ x.bc = y.bc /\ x.anims = y.anims \cup {[header |-> <<h, h>>, type |-> type]}
        /\ x.jumps = y.jumps \cup jumps
        /\ x = [id |-> x.id, bc |-> x.bc, anims |-> x.anims, jumps |-> x.jumps]
    BY <1>4
  <2>2. AnimsFor(h, E2, l, x.anims) /\ x.jumps = JumpsInto(p, h, W, C2, l)
    BY <1>3, <2>1, CallAnims, CallJumps
  <2> QED
    BY <1>3, <2>1, <2>2, IsCopyOfLabel
<1>7. ASSUME NEW m \in V PROVE LabelOK(p, h, W, C2, E2, lab2, m)
  <2>1. CASE m = l
    BY <1>3, <1>5, <1>6, <2>1 DEF LabelOK
  <2>2. CASE m # l
    <3>1. <<h, m>> \in DOMAIN lab /\ CopyOfLabel(p, h, W, C, E, m, lab[<<h, m>>])
      BY <1>1 DEF LabelOK
    <3>2. lab2[<<h, m>>] = lab[<<h, m>>]
      BY <1>5, <2>2, <3>1
    <3> QED
      BY <1>5, <2>2, <3>1, <3>2, CallOthers DEF LabelOK
  <2> QED
    BY <2>1, <2>2
<1>8. ASSUME NEW z \in DOMAIN lab PROVE lab2[z].id = lab[z].id
  <2>1. x.id = y.id
    BY <1>4
  <2> QED
    BY <1>2, <1>5, <2>1
<1> QED
  BY <1>1, <1>5, <1>7, <1>8, CopyParts

(* A label that had no copy gets one, hooked up to the copy of its         *)
(* instruction if there is one.                                            *)
MakesLabel(h, W, l, u, type, jumps, lab, lab2) ==
  lab2 = Put(lab, <<h, l>>, [id |-> u, bc |-> IF l \in W THEN <<h, l>> ELSE NULL,
                             anims |-> {[header |-> <<h, h>>, type |-> type]}, jumps |-> jumps])
HooksInstr(h, W, l, ins, ins2) ==
  ins2 = IF l \in W THEN [ins EXCEPT ![<<h, l>>].st_entry = <<h, l>>] ELSE ins

LEMMA CallNew ==
  ASSUME NEW p, NEW h, NEW W, NEW V, NEW N, NEW J, NEW C, NEW E,
         NEW ins, NEW lab, CopyOK(p, h, W, V, N, J, C, E, ins, lab),
         NEW l, l \notin V, l \notin E, JumpsInto(p, h, W, C, l) = {},
         NEW C2, NEW E2, NEW type, NEW jumps,
         CallType(E, E2, l, type), CallJump(p, h, W, C, C2, l, jumps), NEW u,
         NEW lab2, MakesLabel(h, W, l, u, type, jumps, lab, lab2),
         NEW ins2, HooksInstr(h, W, l, ins, ins2)
  PROVE  CopyOK(p, h, W, V \cup {l}, N, J, C2, E2, ins2, lab2)
<1> DEFINE V2 == V \cup {l}
<1>0. ins2 = IF l \in W THEN [ins EXCEPT ![<<h, l>>].st_entry = <<h, l>>] ELSE ins
  BY DEF HooksInstr
<1>1. /\ \A b \in W : InstrOK(p, h, W, V, N, J, ins, b)
      /\ \A m \in V : LabelOK(p, h, W, C, E, lab, m)
  BY CopyParts
<1>2. ASSUME NEW b \in W PROVE InstrOK(p, h, W, V2, N, J, ins2, b)
  <2>1. PICK x, y : x = ins2[<<h, b>>] /\ y = ins[<<h, b>>]
    OBVIOUS
  <2>2. y = CopyOfInstr(p, h, W, V, N, J, b) /\ <<h, b>> \in DOMAIN ins
    BY <1>1, <2>1 DEF InstrOK
  <2>3. DOMAIN ins2 = DOMAIN ins
    BY <1>0
  <2>4. /\ y.op = <<0, b>>
        /\ y.next = IF FallsThrough(p, b) /\ b \notin N THEN <<h, b + 1>> ELSE NULL
        /\ y.prev = IF b - 1 \in W /\ FallsThrough(p, b - 1) /\ b - 1 \notin N
                    THEN <<h, b - 1>> ELSE NULL
        /\ y.st_entry = IF b \in V THEN <<h, b>> ELSE NULL
        /\ y.jump = IF Jumps(p, b) /\ b \notin J THEN <<h, p.instr[b].target>> ELSE NULL
        /\ y = [op |-> y.op, next |-> y.next, prev |-> y.prev, st_entry |-> y.st_entry,
                jump |-> y.jump]
    BY <2>2, CopyFields
  <2>5. x = IF b = l THEN [y EXCEPT !.st_entry = <<h, l>>] ELSE y
    <3>1. CASE b = l
      BY <1>0, <2>1, <2>2, <3>1
    <3>2. CASE b # l
      <4>1. <<h, b>> # <<h, l>>
        BY <3>2
      <4> QED
        BY <1>0, <2>1, <2>2, <3>2, <4>1
    <3> QED
      BY <3>1, <3>2
  <2>6. x = [op |-> y.op, next |-> y.next, prev |-> y.prev,
             st_entry |-> IF b = l THEN <<h, l>> ELSE y.st_entry, jump |-> y.jump]
    BY <2>4, <2>5
  <2>7. x.st_entry = IF b \in V2 THEN <<h, b>> ELSE NULL
    BY <2>4, <2>6
  <2>8. /\ x.op = y.op /\ x.next = y.next /\ x.prev = y.prev /\ x.jump = y.jump
        /\ x = [op |-> x.op, next |-> x.next, prev |-> x.prev, st_entry |-> x.st_entry,
                jump |-> x.jump]
    BY <2>6
  <2>9. x = CopyOfInstr(p, h, W, V2, N, J, b)
    <3> HIDE DEF V2
    <3> QED
      BY <2>4, <2>7, <2>8 DEF CopyOfInstr
  <2> QED
    BY <2>1, <2>2, <2>3, <2>9 DEF InstrOK
<1>3. PICK x : x = [id |-> u, bc |-> IF l \in W THEN <<h, l>> ELSE NULL,
                    anims |-> {[header |-> <<h, h>>, type |-> type]}, jumps |-> jumps]
  OBVIOUS
<1>4. /\ DOMAIN lab2 = DOMAIN lab \cup {<<h, l>>}
      /\ \A z \in DOMAIN lab2 : lab2[z] = IF z = <<h, l>> THEN x ELSE lab[z]
  BY <1>3 DEF Put, MakesLabel
<1>5. CopyOfLabel(p, h, W, C2, E2, l, x)
  <2>1. /\ x.bc = IF l \in W THEN <<h, l>> ELSE NULL
        /\ x.anims = {[header |-> <<h, h>>, type |-> type]} /\ x.jumps = jumps
        /\ x = [id |-> x.id, bc |-> x.bc, anims |-> x.anims, jumps |-> x.jumps]
    BY <1>3
  <2>2. AnimsFor(h, E, l, {})
    BY DEF AnimsFor
  <2>3. AnimsFor(h, E2, l, {} \cup {[header |-> <<h, h>>, type |-> type]})
    BY <2>2, CallAnims
  <2>4. AnimsFor(h, E2, l, x.anims)
    <3>1. {} \cup {[header |-> <<h, h>>, type |-> type]} = {[header |-> <<h, h>>, type |-> type]}
      OBVIOUS
    <3> QED
      BY <2>1, <2>3, <3>1
  <2>5. JumpsInto(p, h, W, C2, l) = {} \cup jumps
    BY CallJumps
  <2>6. x.jumps = JumpsInto(p, h, W, C2, l)
    BY <2>1, <2>5
  <2> QED
    BY <2>1, <2>4, <2>6, IsCopyOfLabel
<1>6. ASSUME NEW m \in V2 PROVE LabelOK(p, h, W, C2, E2, lab2, m)
  <2>1. CASE m = l
    BY <1>4, <1>5, <2>1 DEF LabelOK
  <2>2. CASE m # l
    <3>1. <<h, m>> \in DOMAIN lab /\ CopyOfLabel(p, h, W, C, E, m, lab[<<h, m>>])
      BY <1>1, <2>2 DEF LabelOK
    <3>2. lab2[<<h, m>>] = lab[<<h, m>>] /\ <<h, m>> \in DOMAIN lab2
      BY <1>4, <2>2, <3>1
    <3>3. CopyOfLabel(p, h, W, C2, E2, m, lab[<<h, m>>])
      BY <2>2, <3>1, CallOthers
    <3> QED
      BY <3>2, <3>3 DEF LabelOK
  <2> QED
    BY <2>1, <2>2
<1> HIDE DEF V2
<1>7. CopyOK(p, h, W, V2, N, J, C2, E2, ins2, lab2)
  BY <1>2, <1>6, CopyParts
<1> QED
  BY <1>7 DEF V2

(* What a step for one header leaves alone: the copies for the others.     *)
LEMMA SameCopy ==
  ASSUME NEW p, NEW h, NEW W, NEW V, NEW N, NEW J, NEW C, NEW E,
         NEW ins, NEW lab, CopyOK(p, h, W, V, N, J, C, E, ins, lab), NEW ins2, NEW lab2,
         \A a \in W : <<h, a>> \in DOMAIN ins2 /\ ins2[<<h, a>>] = ins[<<h, a>>],
         \A l \in V : /\ <<h, l>> \in DOMAIN lab2
                      /\ \/ lab2[<<h, l>>] = lab[<<h, l>>]
                         \/ \E n : lab2[<<h, l>>] = [lab[<<h, l>>] EXCEPT !.id = n]
  PROVE  CopyOK(p, h, W, V, N, J, C, E, ins2, lab2)
<1>1. ASSUME NEW l \in V PROVE CopyOfLabel(p, h, W, C, E, l, lab2[<<h, l>>])
  <2>1. CopyOfLabel(p, h, W, C, E, l, lab[<<h, l>>])
    BY DEF CopyOK
  <2>2. ASSUME NEW n, lab2[<<h, l>>] = [lab[<<h, l>>] EXCEPT !.id = n]
        PROVE  CopyOfLabel(p, h, W, C, E, l, lab2[<<h, l>>])
    <3>1. PICK x, y : x = lab2[<<h, l>>] /\ y = lab[<<h, l>>]
      OBVIOUS
    <3>2. /\ y.bc = IF l \in W THEN <<h, l>> ELSE NULL
          /\ y.jumps = JumpsInto(p, h, W, C, l)
          /\ AnimsFor(h, E, l, y.anims)
          /\ y = [id |-> y.id, bc |-> y.bc, anims |-> y.anims, jumps |-> y.jumps]
      BY <2>1, <3>1, LabelFields
    <3>3. x = [y EXCEPT !.id = n]
      BY <2>2, <3>1
    <3>4. /\ x.bc = y.bc /\ x.anims = y.anims /\ x.jumps = y.jumps
          /\ x = [id |-> x.id, bc |-> x.bc, anims |-> x.anims, jumps |-> x.jumps]
      BY <3>2, <3>3
    <3>5. CopyOfLabel(p, h, W, C, E, l, x)
      BY <3>2, <3>4, IsCopyOfLabel
    <3> QED
      BY <3>1, <3>5
  <2> QED
    BY <2>1, <2>2
<1> QED
  BY <1>1 DEF CopyOK

-----------------------------------------------------------------------------
(* The activations. *)

LEMMA FreshFields ==
  ASSUME NEW h, NEW l
  PROVE  /\ Fresh(h, l).old = <<0, l>> /\ Fresh(h, l).new = <<h, l>>
         /\ Fresh(h, l).next = <<0, l>> /\ Fresh(h, l).instr = NULL
         /\ Fresh(h, l).prev = NULL /\ Fresh(h, l).at = "next"
BY DEF Fresh

LEMMA WalkingFields ==
  ASSUME NEW p, NEW h, NEW l, NEW a, NEW at
  PROVE  /\ Walking(p, h, l, a, at).old = <<0, l>> /\ Walking(p, h, l, a, at).new = <<h, l>>
         /\ Walking(p, h, l, a, at).next = IF FallsThrough(p, a) THEN <<0, a + 1>> ELSE NULL
         /\ Walking(p, h, l, a, at).instr = <<0, a>> /\ Walking(p, h, l, a, at).prev = <<h, a>>
         /\ Walking(p, h, l, a, at).at = at
BY DEF Walking

(* What the fields of an activation are. *)
FrameIs(p, h, W, V, f) ==
  /\ f.old = <<0, f.old[2]>> /\ f.old[2] \in V /\ f.new = <<h, f.old[2]>>
  /\ f.instr = NULL => f = Fresh(h, f.old[2]) /\ f.next = f.old /\ f.next # NULL
                       /\ f.at = "next" /\ f.prev = NULL
  /\ f.instr # NULL =>
       /\ f = Walking(p, h, f.old[2], f.instr[2], f.at)
       /\ f.instr[2] \in W /\ f.instr = <<0, f.instr[2]>> /\ f.prev = <<h, f.instr[2]>>
       /\ f.next = IF FallsThrough(p, f.instr[2]) THEN <<0, f.instr[2] + 1>> ELSE NULL
       /\ f.next # NULL <=> FallsThrough(p, f.instr[2])
       /\ f.at \in {"next", "jump"} /\ (f.at = "jump" => Jumps(p, f.instr[2]))

LEMMA FrameFacts ==
  ASSUME NEW p, NEW h, NEW W, W \subseteq Nat, NEW V, V \subseteq Nat,
         NEW f \in Frames(p, h, W, V)
  PROVE  FrameIs(p, h, W, V, f)
<1>0. \A n \in Nat : NULL # <<0, n>>
  BY NullAssumption
<1>1. CASE \E l \in V : f = Fresh(h, l)
  <2>1. PICK l \in V : f = Fresh(h, l)
    BY <1>1
  <2>2. /\ f.old = <<0, l>> /\ f.new = <<h, l>> /\ f.next = <<0, l>> /\ f.instr = NULL
        /\ f.at = "next" /\ f.prev = NULL
    BY <2>1, FreshFields
  <2> QED
    BY <1>0, <2>1, <2>2 DEF FrameIs
<1>2. CASE \E l \in V, a \in W, at \in {"next", "jump"} :
             f = Walking(p, h, l, a, at) /\ (at = "jump" => Jumps(p, a))
  <2>1. PICK l \in V, a \in W, at \in {"next", "jump"} :
          f = Walking(p, h, l, a, at) /\ (at = "jump" => Jumps(p, a))
    BY <1>2
  <2>2. /\ f.old = <<0, l>> /\ f.new = <<h, l>>
        /\ f.next = IF FallsThrough(p, a) THEN <<0, a + 1>> ELSE NULL
        /\ f.instr = <<0, a>> /\ f.prev = <<h, a>> /\ f.at = at
    BY <2>1 DEF Walking
  <2>3. f.old[2] = l /\ f.instr[2] = a /\ f.instr # NULL /\ a + 1 \in Nat
    BY <1>0, <2>2
  <2>4. f.next # NULL <=> FallsThrough(p, a)
    BY <1>0, <2>2, <2>3
  <2> QED
    BY <2>1, <2>2, <2>3, <2>4 DEF FrameIs
<1> QED
  BY <1>1, <1>2 DEF Frames, Walkings

LEMMA FramesGrow ==
  ASSUME NEW p, NEW h, NEW W, NEW V, NEW W2, W \subseteq W2, NEW V2, V \subseteq V2
  PROVE  Frames(p, h, W, V) \subseteq Frames(p, h, W2, V2)
<1>1. {Fresh(h, l) : l \in V} \subseteq {Fresh(h, l) : l \in V2}
  OBVIOUS
<1>2. Walkings(p, h, W, V) \subseteq Walkings(p, h, W2, V2)
  BY DEF Walkings
<1> QED
  BY <1>1, <1>2 DEF Frames

LEMMA FreshIsFrame ==
  ASSUME NEW p, NEW h, NEW W, NEW V, NEW l \in V
  PROVE  Fresh(h, l) \in Frames(p, h, W, V)
BY DEF Frames

LEMMA WalkingIsFrame ==
  ASSUME NEW p, NEW h, NEW W, NEW V, NEW l \in V, NEW a \in W, NEW at \in {"next", "jump"},
         at = "jump" => Jumps(p, a)
  PROVE  Walking(p, h, l, a, at) \in Frames(p, h, W, V)
BY DEF Frames, Walkings

(* The open instructions of a stack, by its top.                           *)
TopNext(t) == {c \in {t.instr[2]} : t.instr # NULL /\ t.next # NULL}
TopJump(t) == {c \in {t.instr[2]} : t.instr # NULL /\ t.at = "jump"}
Called(r) == {r[k].instr[2] : k \in {j \in DOMAIN r : r[j].instr # NULL}}

(* Stack s is t on r. *)
Joined(s, t, r) ==
  /\ Len(r) \in Nat /\ DOMAIN r = 1 .. Len(r) /\ DOMAIN s = 1 .. Len(r) + 1
  /\ Len(s) = Len(r) + 1 /\ (r = <<>> <=> Len(r) = 0)
  /\ s[1] = t /\ \A k \in DOMAIN r : k + 1 \in DOMAIN s /\ s[k + 1] = r[k]

TopAt(t) == {c \in {t.instr[2]} : t.instr # NULL}

LEMMA StackParts ==
  ASSUME NEW s, NEW t, NEW r, Joined(s, t, r)
  PROVE  /\ NextOpen(s) = TopNext(t) \cup NextOpen(r)
         /\ JumpOpen(s) = TopJump(t) \cup Called(r)
         /\ t.instr # NULL \/ t.at # "jump" => Uncalled(s) = TopJump(t)
         /\ Called(s) = TopAt(t) \cup Called(r)
<1>1. /\ Len(r) \in Nat /\ DOMAIN r = 1 .. Len(r) /\ DOMAIN s = 1 .. Len(r) + 1
      /\ s[1] = t /\ \A k \in DOMAIN r : k + 1 \in DOMAIN s /\ s[k + 1] = r[k]
  BY DEF Joined
<1>2. \A k \in DOMAIN s : k \in Nat /\ (k = 1 \/ (k > 1 /\ k - 1 \in DOMAIN r /\ s[k] = r[k - 1]))
  BY <1>1
<1>3. 1 \in DOMAIN s /\ \A k \in DOMAIN r : k + 1 > 1
  BY <1>1
<1>4. NextOpen(s) = TopNext(t) \cup NextOpen(r)
  <2>1. ASSUME NEW c \in NextOpen(s) PROVE c \in TopNext(t) \cup NextOpen(r)
    BY <1>1, <1>2 DEF NextOpen, TopNext
  <2>2. TopNext(t) \subseteq NextOpen(s)
    BY <1>1, <1>3 DEF NextOpen, TopNext
  <2>3. NextOpen(r) \subseteq NextOpen(s)
    BY <1>1, <1>3 DEF NextOpen
  <2> QED
    BY <2>1, <2>2, <2>3
<1>5. JumpOpen(s) = TopJump(t) \cup Called(r)
  <2>1. ASSUME NEW c \in JumpOpen(s) PROVE c \in TopJump(t) \cup Called(r)
    BY <1>1, <1>2 DEF JumpOpen, TopJump, Called
  <2>2. TopJump(t) \subseteq JumpOpen(s)
    BY <1>1, <1>3 DEF JumpOpen, TopJump
  <2>3. Called(r) \subseteq JumpOpen(s)
    BY <1>1, <1>3 DEF JumpOpen, Called
  <2> QED
    BY <2>1, <2>2, <2>3
<1>6. t.instr # NULL \/ t.at # "jump" => Uncalled(s) = TopJump(t)
  BY <1>1, <1>3 DEF Uncalled, TopJump
<1>7. Called(s) = TopAt(t) \cup Called(r)
  <2>1. ASSUME NEW c \in Called(s)
        PROVE  c \in TopAt(t) \cup Called(r)
    BY <1>1, <1>2 DEF Called, TopAt
  <2>2. TopAt(t) \subseteq Called(s)
    BY <1>1, <1>3 DEF Called, TopAt
  <2>3. Called(r) \subseteq Called(s)
    BY <1>1, <1>3 DEF Called
  <2> QED
    BY <2>1, <2>2, <2>3
<1> QED
  BY <1>4, <1>5, <1>6, <1>7

LEMMA EmptyStack ==
  /\ NextOpen(<<>>) = {} /\ JumpOpen(<<>>) = {} /\ Uncalled(<<>>) = {} /\ Called(<<>>) = {}
  /\ \A h : FreshAt(h, <<>>) = {}
BY DEF NextOpen, JumpOpen, Uncalled, Called, FreshAt

LEMMA TopIsJoined ==
  ASSUME NEW S, NEW s \in Seq(S), s # <<>>
  PROVE  Joined(s, Head(s), Tail(s)) /\ Head(s) \in S /\ Tail(s) \in Seq(S)
<1>1. PICK t, r : t = Head(s) /\ r = Tail(s)
  OBVIOUS
<1>2. /\ r \in Seq(S) /\ Len(s) \in Nat \ {0} /\ DOMAIN s = 1 .. Len(s) /\ t = s[1] /\ t \in S
      /\ Len(r) = Len(s) - 1 /\ DOMAIN r = 1 .. Len(s) - 1
      /\ \A k \in DOMAIN r : k + 1 \in DOMAIN s /\ r[k] = s[k + 1]
  BY <1>1, TailFacts
<1>3. r = <<>> <=> Len(r) = 0
  BY <1>2
<1> QED
  BY <1>1, <1>2, <1>3 DEF Joined

(* Everything that is not copied yet waits in the activation at the top.   *)
FreshTop(t) == {l \in {t.old[2]} : t.instr = NULL}

LEMMA FreshAtTop ==
  ASSUME NEW h, NEW s, NEW t, NEW r, Joined(s, t, r),
         t.instr = NULL => t = Fresh(h, t.old[2])
  PROVE  FreshAt(h, s) = FreshTop(t)
<1>1. 1 .. 1 \cap DOMAIN s = {1} /\ s[1] = t
  BY DEF Joined
<1>2. FreshAt(h, s) = {l \in {t.old[2]} : t = Fresh(h, l)}
  BY <1>1 DEF FreshAt
<1>3. t = Fresh(h, t.old[2]) => t.instr = NULL
  <2> DEFINE l == t.old[2]
  <2>1. Fresh(h, l).instr = NULL
    BY FreshFields
  <2> HIDE DEF l
  <2>2. t = Fresh(h, l) => t.instr = NULL
    BY <2>1
  <2> QED
    BY <2>2 DEF l
<1> QED
  BY <1>2, <1>3 DEF FreshTop

LEMMA CallsGrow ==
  ASSUME NEW p, NEW h, NEW W, NEW V, NEW W2, W \subseteq W2, NEW V2, V \subseteq V2,
         NEW s, Calls(p, h, W, V, s)
  PROVE  Calls(p, h, W2, V2, s)
<1>1. Frames(p, h, W, V) \subseteq Frames(p, h, W2, V2)
  BY FramesGrow
<1>2. s \in Seq(Frames(p, h, W2, V2))
  <2> DEFINE S == Frames(p, h, W, V)
             S2 == Frames(p, h, W2, V2)
  <2>1. s \in Seq(S) /\ S \subseteq S2
    BY <1>1 DEF Calls
  <2> HIDE DEF S, S2
  <2> QED
    BY <2>1 DEF S2
<1> QED
  BY <1>2 DEF Calls

LEMMA CallsTail ==
  ASSUME NEW p, NEW h, NEW W, NEW V, NEW s, Calls(p, h, W, V, s), s # <<>>
  PROVE  Calls(p, h, W, V, Tail(s))
<1> DEFINE S == Frames(p, h, W, V)
           r == Tail(s)
<1>0. s \in Seq(S)
  BY DEF Calls
<1>1. /\ r \in Seq(S) /\ Len(s) \in Nat \ {0} /\ DOMAIN s = 1 .. Len(s)
      /\ DOMAIN r = 1 .. Len(s) - 1
      /\ \A k \in DOMAIN r : k + 1 \in DOMAIN s /\ r[k] = s[k + 1]
  BY <1>0, TailFacts
<1> HIDE DEF S, r
<1>2. ASSUME NEW k \in DOMAIN r
      PROVE  /\ r[k].instr # NULL => r[k].old[2] <= r[k].instr[2]
             /\ k > 1 => CalledBy(p, r[k - 1], r[k])
  <2>1. k + 1 \in DOMAIN s /\ r[k] = s[k + 1] /\ k \in Nat
    BY <1>1
  <2>2. k > 1 => r[k - 1] = s[k] /\ k + 1 > 1 /\ (k + 1) - 1 = k
    BY <1>1
  <2> QED
    BY <2>1, <2>2 DEF Calls
<1>3. ASSUME NEW j \in DOMAIN r, NEW k \in DOMAIN r, r[j].instr # NULL, r[j].instr = r[k].instr
      PROVE  j = k
  <2>1. j + 1 \in DOMAIN s /\ k + 1 \in DOMAIN s /\ r[j] = s[j + 1] /\ r[k] = s[k + 1]
        /\ j \in Nat /\ k \in Nat
    BY <1>1
  <2>2. j + 1 = k + 1
    BY <1>3, <2>1 DEF Calls
  <2> QED
    BY <2>1, <2>2
<1>4. Calls(p, h, W, V, r)
  BY <1>1, <1>2, <1>3 DEF Calls, S
<1> QED
  BY <1>4 DEF r

LEMMA CallsCons ==
  ASSUME NEW p, NEW h, NEW W, NEW V, NEW r, Calls(p, h, W, V, r),
         NEW t \in Frames(p, h, W, V), t.instr # NULL => t.old[2] <= t.instr[2],
         r # <<>> => CalledBy(p, t, r[1]),
         \A k \in DOMAIN r : t.instr # NULL => r[k].instr # t.instr
  PROVE  Calls(p, h, W, V, <<t>> \o r)
<1> DEFINE S == Frames(p, h, W, V)
           s == <<t>> \o r
<1>0. r \in Seq(S)
  BY DEF Calls
<1>1. /\ s \in Seq(S) /\ Len(r) \in Nat /\ DOMAIN r = 1 .. Len(r)
      /\ DOMAIN s = 1 .. Len(r) + 1 /\ s[1] = t
      /\ \A k \in DOMAIN r : k + 1 \in DOMAIN s /\ s[k + 1] = r[k]
  BY <1>0, ConsFacts
<1> HIDE DEF S, s
<1>2. \A k \in DOMAIN s :
        k \in Nat /\ (k = 1 \/ (k > 1 /\ k - 1 \in DOMAIN r /\ s[k] = r[k - 1]))
  BY <1>1
<1>3. ASSUME NEW k \in DOMAIN s
      PROVE  /\ s[k].instr # NULL => s[k].old[2] <= s[k].instr[2]
             /\ k > 1 => CalledBy(p, s[k - 1], s[k])
  <2>1. CASE k = 1
    BY <1>1, <2>1
  <2>2. CASE k = 2
    <3>1. 1 \in DOMAIN r /\ s[k] = r[1] /\ s[k - 1] = t /\ r # <<>>
      BY <1>1, <1>2, <2>2
    <3> QED
      BY <3>1 DEF Calls
  <2>3. CASE k > 2
    <3>1. /\ k - 1 \in DOMAIN r /\ s[k] = r[k - 1] /\ k - 1 > 1
          /\ (k - 1) - 1 \in DOMAIN r /\ k - 1 \in DOMAIN s /\ s[k - 1] = r[(k - 1) - 1]
      BY <1>1, <1>2, <2>3
    <3> QED
      BY <3>1 DEF Calls
  <2> QED
    BY <1>2, <2>1, <2>2, <2>3
<1>4. ASSUME NEW j \in DOMAIN s, NEW k \in DOMAIN s, s[j].instr # NULL, s[j].instr = s[k].instr
      PROVE  j = k
  <2>1. CASE j = 1 /\ k = 1
    BY <2>1
  <2>2. CASE j = 1 /\ k > 1
    <3>1. s[j] = t /\ k - 1 \in DOMAIN r /\ s[k] = r[k - 1]
      BY <1>1, <1>2, <2>2
    <3> QED
      BY <1>4, <3>1
  <2>3. CASE j > 1 /\ k = 1
    <3>1. s[k] = t /\ j - 1 \in DOMAIN r /\ s[j] = r[j - 1]
      BY <1>1, <1>2, <2>3
    <3> QED
      BY <1>4, <3>1
  <2>4. CASE j > 1 /\ k > 1
    <3>1. j - 1 \in DOMAIN r /\ s[j] = r[j - 1] /\ k - 1 \in DOMAIN r /\ s[k] = r[k - 1]
          /\ j \in Nat /\ k \in Nat
      BY <1>2, <2>4
    <3>2. j - 1 = k - 1
      BY <1>4, <3>1 DEF Calls
    <3> QED
      BY <3>1, <3>2
  <2> QED
    BY <1>2, <2>1, <2>2, <2>3, <2>4
<1>5. Calls(p, h, W, V, s)
  BY <1>1, <1>3, <1>4 DEF Calls, S
<1> QED
  BY <1>5 DEF s

LEMMA CalledFacts ==
  ASSUME NEW p, NEW h, NEW W, W \subseteq Nat, NEW V, V \subseteq Nat,
         NEW s, Calls(p, h, W, V, s)
  PROVE  /\ \A k \in DOMAIN s : FrameIs(p, h, W, V, s[k])
         /\ Called(s) \subseteq W /\ NextOpen(s) \subseteq Called(s)
         /\ JumpOpen(s) \subseteq Called(s)
         /\ \A c \in NextOpen(s) : FallsThrough(p, c)
         /\ \A c \in JumpOpen(s) \ Uncalled(s) : Jumps(p, c) /\ p.instr[c].target \in V
<1>1. ASSUME NEW k \in DOMAIN s PROVE FrameIs(p, h, W, V, s[k])
  <2>1. s[k] \in Frames(p, h, W, V)
    BY DEF Calls
  <2> QED
    BY <2>1, FrameFacts
<1>2. Called(s) \subseteq W
  BY <1>1 DEF Called, FrameIs
<1>3. NextOpen(s) \subseteq Called(s)
  BY DEF Called, NextOpen
<1>4. JumpOpen(s) \subseteq Called(s)
  BY DEF Called, JumpOpen
<1>5. \A c \in NextOpen(s) : FallsThrough(p, c)
  BY <1>1 DEF NextOpen, FrameIs
<1>6. ASSUME NEW c \in JumpOpen(s) \ Uncalled(s)
      PROVE  Jumps(p, c) /\ p.instr[c].target \in V
  <2>1. PICK k \in DOMAIN s : /\ c = s[k].instr[2] /\ s[k].instr # NULL
                              /\ k > 1 \/ s[k].at = "jump"
    BY DEF JumpOpen
  <2>2. k > 1 /\ k - 1 \in DOMAIN s
    <3>1. k \in 1 .. Len(s) /\ DOMAIN s = 1 .. Len(s) /\ Len(s) \in Nat
      BY DEF Calls
    <3>2. k # 1
      BY <1>6, <2>1 DEF Uncalled
    <3> QED
      BY <3>1, <3>2
  <2>3. CalledBy(p, s[k - 1], s[k])
    BY <2>2 DEF Calls
  <2>4. Jumps(p, c) /\ s[k - 1].old = <<0, p.instr[c].target>>
    BY <2>1, <2>3 DEF CalledBy
  <2>5. s[k - 1].old[2] \in V
    BY <1>1, <2>2 DEF FrameIs
  <2> QED
    BY <2>4, <2>5
<1> QED
  BY <1>1, <1>2, <1>3, <1>4, <1>5, <1>6

(* No two activations are at the same instruction.                         *)
LEMMA TopIsAlone ==
  ASSUME NEW p, NEW h, NEW W, W \subseteq Nat, NEW V, V \subseteq Nat,
         NEW s, Calls(p, h, W, V, s), s # <<>>, Head(s).instr # NULL
  PROVE  /\ Head(s).instr[2] \notin Called(Tail(s))
         /\ \A k \in DOMAIN Tail(s) : Tail(s)[k].instr # Head(s).instr
<1> DEFINE r == Tail(s)
<1>1. s \in Seq(Frames(p, h, W, V))
  BY DEF Calls
<1>2. /\ Len(s) \in Nat \ {0} /\ DOMAIN s = 1 .. Len(s) /\ Head(s) = s[1]
      /\ DOMAIN r = 1 .. Len(s) - 1 /\ \A k \in DOMAIN r : k + 1 \in DOMAIN s /\ r[k] = s[k + 1]
  BY <1>1, TailFacts
<1> HIDE DEF r
<1>3. ASSUME NEW k \in DOMAIN r, r[k].instr # NULL
      PROVE  r[k].instr # s[1].instr /\ r[k].instr[2] # s[1].instr[2]
  <2>1. k + 1 \in DOMAIN s /\ k + 1 # 1 /\ 1 \in DOMAIN s /\ r[k] = s[k + 1]
    BY <1>2
  <2>2. s[k + 1].instr # s[1].instr
    BY <1>2, <2>1 DEF Calls
  <2>3. FrameIs(p, h, W, V, s[1]) /\ FrameIs(p, h, W, V, s[k + 1])
    BY <2>1, CalledFacts
  <2>4. s[1].instr = <<0, s[1].instr[2]>> /\ s[k + 1].instr = <<0, s[k + 1].instr[2]>>
    BY <1>2, <1>3, <2>1, <2>3 DEF FrameIs
  <2> QED
    BY <2>1, <2>2, <2>4
<1>4. s[1].instr[2] \notin Called(r)
  BY <1>3 DEF Called
<1>5. \A k \in DOMAIN r : r[k].instr # s[1].instr
  BY <1>2, <1>3
<1> QED
  BY <1>2, <1>4, <1>5 DEF r

(* A stack by its top and the rest.                                        *)
Parts(h, s) ==
  /\ NextOpen(s) = TopNext(Head(s)) \cup NextOpen(Tail(s))
  /\ JumpOpen(s) = TopJump(Head(s)) \cup Called(Tail(s))
  /\ Uncalled(s) = TopJump(Head(s))
  /\ Called(s) = TopAt(Head(s)) \cup Called(Tail(s))
  /\ Base(s) = IF Tail(s) = <<>> THEN Head(s).old ELSE Base(Tail(s))
  /\ FreshAt(h, s) = FreshTop(Head(s))
  /\ Joined(s, Head(s), Tail(s))

LEMMA TopParts ==
  ASSUME NEW p, NEW h, NEW W, W \subseteq Nat, NEW V, V \subseteq Nat,
         NEW s, Calls(p, h, W, V, s), s # <<>>
  PROVE  Parts(h, s) /\ FrameIs(p, h, W, V, Head(s))
<1>1. PICK S : S = Frames(p, h, W, V)
  OBVIOUS
<1>2. s \in Seq(S)
  BY <1>1 DEF Calls
<1>3. PICK t, r : t = Head(s) /\ r = Tail(s)
  OBVIOUS
<1>4. Joined(s, t, r) /\ t \in S
  BY <1>2, <1>3, TopIsJoined
<1>5. FrameIs(p, h, W, V, t)
  BY <1>1, <1>4, FrameFacts
<1>6. /\ NextOpen(s) = TopNext(t) \cup NextOpen(r)
      /\ JumpOpen(s) = TopJump(t) \cup Called(r)
      /\ t.instr # NULL \/ t.at # "jump" => Uncalled(s) = TopJump(t)
      /\ Called(s) = TopAt(t) \cup Called(r)
  BY <1>4, StackParts
<1>7. t.instr # NULL \/ t.at # "jump"
  BY <1>5 DEF FrameIs
<1>8. Base(s) = IF r = <<>> THEN t.old ELSE Base(r)
  <2>1. CASE r = <<>>
    BY <1>4, <2>1 DEF Joined, Base
  <2>2. CASE r # <<>>
    <3>1. Len(r) \in DOMAIN r /\ Len(s) = Len(r) + 1
      BY <1>4, <2>2 DEF Joined
    <3>2. s[Len(s)] = r[Len(r)]
      BY <1>4, <3>1 DEF Joined
    <3> QED
      BY <2>2, <3>2 DEF Base
  <2> QED
    BY <2>1, <2>2
<1>9. FreshAt(h, s) = FreshTop(t)
  <2>1. t.instr = NULL => t = Fresh(h, t.old[2])
    BY <1>5 DEF FrameIs
  <2> QED
    BY <1>4, <2>1, FreshAtTop
<1> QED
  BY <1>3, <1>4, <1>5, <1>6, <1>7, <1>8, <1>9 DEF Parts

(* An activation ends. *)
Popped(p, h, W, V, s, t, r) ==
  /\ StackOK(p, h, W, V, r) /\ V \subseteq W /\ FrameIs(p, h, W, V, t)
  /\ NextOpen(r) = NextOpen(s) \ TopNext(t) /\ Uncalled(s) = {} /\ Uncalled(r) = {}
  /\ r = <<>> => JumpOpen(s) = {} /\ JumpOpen(r) = {} /\ Base(s) = t.old
  /\ r # <<>> => /\ Base(r) = Base(s)
                 /\ FrameIs(p, h, W, V, Head(r)) /\ CalledBy(p, t, Head(r))
                 /\ JumpOpen(r) = JumpOpen(s) \ {Head(r).instr[2]}

LEMMA PopStack ==
  ASSUME NEW p, NEW h, NEW W, W \subseteq Nat, NEW V, V \subseteq Nat,
         NEW s, StackOK(p, h, W, V, s), s # <<>>, NEW t, t = Head(s), NEW r, r = Tail(s),
         t.instr # NULL, t.at = "next"
  PROVE  Popped(p, h, W, V, s, t, r)
<1>1. Calls(p, h, W, V, s)
  BY DEF StackOK
<1>2. Parts(h, s) /\ FrameIs(p, h, W, V, t)
  BY <1>1, TopParts
<1>3. /\ NextOpen(s) = TopNext(t) \cup NextOpen(r)
      /\ JumpOpen(s) = TopJump(t) \cup Called(r)
      /\ Uncalled(s) = TopJump(t)
      /\ Base(s) = IF r = <<>> THEN t.old ELSE Base(r)
      /\ FreshAt(h, s) = FreshTop(t) /\ Joined(s, t, r)
  BY <1>2 DEF Parts
<1>4. TopJump(t) = {} /\ FreshTop(t) = {}
  BY DEF TopJump, FreshTop
<1>5. Calls(p, h, W, V, r)
  BY <1>1, CallsTail
<1>6. t.instr[2] \notin Called(r)
  BY <1>1, TopIsAlone
<1>7. NextOpen(r) \subseteq Called(r)
  BY <1>5, CalledFacts
<1>8. NextOpen(r) = NextOpen(s) \ TopNext(t)
  BY <1>3, <1>6, <1>7 DEF TopNext
<1>9. V \subseteq W
  BY <1>3, <1>4 DEF StackOK
<1>10. CASE r = <<>>
  <2>1. FreshAt(h, r) = {} /\ Called(r) = {} /\ JumpOpen(r) = {} /\ Uncalled(r) = {}
    BY <1>10, EmptyStack
  <2>2. StackOK(p, h, W, V, r)
    BY <1>5, <1>9, <2>1 DEF StackOK
  <2> QED
    BY <1>2, <1>3, <1>4, <1>8, <1>9, <1>10, <2>1, <2>2 DEF Popped
<1>11. CASE r # <<>>
  <2>1. Parts(h, r) /\ FrameIs(p, h, W, V, Head(r))
    BY <1>5, <1>11, TopParts
  <2>2. Joined(r, Head(r), Tail(r))
    BY <2>1 DEF Parts
  <2>3. 1 \in DOMAIN r /\ Head(r) = r[1]
    BY <2>2, SMTT(30) DEF Joined
  <2>4. PICK k : k = 2
    OBVIOUS
  <2>5. k \in DOMAIN s /\ k > 1 /\ s[k] = r[1] /\ s[k - 1] = t
    BY <1>3, <2>3, <2>4 DEF Joined
  <2>6. CalledBy(p, t, Head(r))
    <3>1. CalledBy(p, s[k - 1], s[k])
      BY <1>1, <2>5 DEF Calls
    <3> QED
      BY <2>3, <2>5, <3>1
  <2>7. Head(r).instr # NULL /\ Head(r).at = "next"
    BY <2>6 DEF CalledBy
  <2>8. /\ JumpOpen(r) = TopJump(Head(r)) \cup Called(Tail(r))
        /\ Uncalled(r) = TopJump(Head(r)) /\ FreshAt(h, r) = FreshTop(Head(r))
        /\ Called(r) = TopAt(Head(r)) \cup Called(Tail(r))
    BY <2>1 DEF Parts
  <2>9. TopJump(Head(r)) = {} /\ FreshTop(Head(r)) = {} /\ TopAt(Head(r)) = {Head(r).instr[2]}
    BY <2>7 DEF TopJump, FreshTop, TopAt
  <2>10. Head(r).instr[2] \notin Called(Tail(r))
    BY <1>5, <1>11, <2>7, TopIsAlone
  <2>11. JumpOpen(r) = JumpOpen(s) \ {Head(r).instr[2]}
    BY <1>3, <1>4, <2>8, <2>9, <2>10
  <2>12. StackOK(p, h, W, V, r)
    BY <1>5, <1>9, <2>8, <2>9 DEF StackOK
  <2> QED
    BY <1>2, <1>3, <1>4, <1>8, <1>9, <1>11, <2>1, <2>6, <2>8, <2>9, <2>11, <2>12 DEF Popped
<1> QED
  BY <1>10, <1>11

(* The activation at the top moves to instruction a, or on from the jump.  *)
Moved(p, h, W2, V2, s, t, r, a, at, s2) ==
  /\ StackOK(p, h, W2, V2, s2) /\ Base(s2) = Base(s)
  /\ s2 # <<>> /\ Head(s2) = Walking(p, h, t.old[2], a, at) /\ Tail(s2) = r
  /\ NextOpen(s2) = (NextOpen(s) \ TopNext(t)) \cup {c \in {a} : FallsThrough(p, c)}
  /\ JumpOpen(s2) = Called(r) \cup {c \in {a} : at = "jump"}
  /\ JumpOpen(s) = Called(r) \cup TopJump(t)
  /\ Uncalled(s2) = {c \in {a} : at = "jump"} /\ Uncalled(s) = TopJump(t)
  /\ Called(s2) = {a} \cup Called(r)

LEMMA MoveTop ==
  ASSUME NEW p, NEW h, NEW W, W \subseteq Nat, NEW V, V \subseteq Nat,
         NEW s, StackOK(p, h, W, V, s), s # <<>>, NEW t, t = Head(s), NEW r, r = Tail(s),
         NEW W2, W \subseteq W2, W2 \subseteq Nat, NEW V2, V \subseteq V2, V2 \subseteq W2,
         NEW a \in W2, NEW at \in {"next", "jump"}, at = "jump" => Jumps(p, a),
         t.old[2] <= a, a \notin Called(r),
         NEW s2, s2 = <<Walking(p, h, t.old[2], a, at)>> \o r
  PROVE  Moved(p, h, W2, V2, s, t, r, a, at, s2)
<1> DEFINE u == Walking(p, h, t.old[2], a, at)
<1>1. Calls(p, h, W, V, s) /\ s \in Seq(Frames(p, h, W, V))
  BY DEF StackOK, Calls
<1>2. Parts(h, s) /\ FrameIs(p, h, W, V, t)
  BY <1>1, TopParts
<1>3. /\ NextOpen(s) = TopNext(t) \cup NextOpen(r)
      /\ JumpOpen(s) = TopJump(t) \cup Called(r)
      /\ Uncalled(s) = TopJump(t)
      /\ Base(s) = IF r = <<>> THEN t.old ELSE Base(r)
      /\ Joined(s, t, r)
  BY <1>2 DEF Parts
<1>4. t.old = <<0, t.old[2]>> /\ t.old[2] \in V
  BY <1>2 DEF FrameIs
<1>5. /\ u.old = t.old /\ u.instr = <<0, a>> /\ u.instr # NULL /\ u.at = at
      /\ u.next = IF FallsThrough(p, a) THEN <<0, a + 1>> ELSE NULL
      /\ u.next # NULL <=> FallsThrough(p, a)
  <2>1. /\ u.old = <<0, t.old[2]>> /\ u.instr = <<0, a>> /\ u.at = at
        /\ u.next = IF FallsThrough(p, a) THEN <<0, a + 1>> ELSE NULL
    BY DEF Walking
  <2>2. <<0, a>> # NULL /\ <<0, a + 1>> # NULL
    <3>1. a \in Nat /\ a + 1 \in Nat
      OBVIOUS
    <3> QED
      BY <3>1, NullAssumption
  <2> HIDE DEF u
  <2> QED
    BY <1>4, <2>1, <2>2
<1>6. u \in Frames(p, h, W2, V2)
  <2>1. t.old[2] \in V2
    BY <1>4
  <2> QED
    BY <2>1, WalkingIsFrame
<1> HIDE DEF u
<1>7. Calls(p, h, W2, V2, r)
  BY <1>1, CallsTail, CallsGrow
<1>8. r # <<>> => CalledBy(p, u, r[1])
  <2>1. PICK k : k = 2
    OBVIOUS
  <2>2. ASSUME r # <<>> PROVE CalledBy(p, t, r[1])
    <3>1. k \in DOMAIN s /\ k > 1 /\ s[k] = r[1] /\ s[k - 1] = t
      BY <1>3, <2>1, <2>2 DEF Joined
    <3>2. CalledBy(p, s[k - 1], s[k])
      BY <1>1, <3>1 DEF Calls
    <3> QED
      BY <3>1, <3>2
  <2> QED
    BY <1>5, <2>2 DEF CalledBy
<1>9. \A k \in DOMAIN r : r[k].instr # u.instr
  <2>1. ASSUME NEW k \in DOMAIN r, r[k].instr = u.instr PROVE FALSE
    <3>1. r[k].instr # NULL /\ r[k].instr = <<0, a>>
      BY <1>5, <2>1
    <3>2. r[k].instr[2] \in Called(r)
      BY <2>1, <3>1 DEF Called
    <3> QED
      BY <3>1, <3>2
  <2> QED
    BY <2>1
<1>10. u.old[2] <= u.instr[2]
  BY <1>5
<1>11. s2 = <<u>> \o r
  BY DEF u
<1>12. Calls(p, h, W2, V2, s2)
  BY <1>6, <1>7, <1>8, <1>9, <1>10, <1>11, CallsCons
<1>13. s2 # <<>> /\ Head(s2) = u /\ Tail(s2) = r
  <2>1. r \in Seq(Frames(p, h, W2, V2))
    BY <1>7 DEF Calls
  <2> QED
    BY <1>6, <1>11, <2>1
<1>14. Parts(h, s2)
  BY <1>12, <1>13, TopParts
<1>15. /\ NextOpen(s2) = TopNext(u) \cup NextOpen(r)
       /\ JumpOpen(s2) = TopJump(u) \cup Called(r)
       /\ Uncalled(s2) = TopJump(u) /\ Called(s2) = TopAt(u) \cup Called(r)
       /\ Base(s2) = IF r = <<>> THEN u.old ELSE Base(r)
       /\ FreshAt(h, s2) = FreshTop(u)
  BY <1>13, <1>14 DEF Parts
<1>16. /\ TopNext(u) = {c \in {a} : FallsThrough(p, c)} /\ TopJump(u) = {c \in {a} : at = "jump"}
       /\ TopAt(u) = {a} /\ FreshTop(u) = {}
  BY <1>5 DEF TopNext, TopJump, TopAt, FreshTop
<1>17. StackOK(p, h, W2, V2, s2)
  BY <1>12, <1>15, <1>16 DEF StackOK
<1>18. TopNext(t) \cap NextOpen(r) = {}
  <2>1. t.instr # NULL => t.instr[2] \notin Called(r)
    BY <1>1, TopIsAlone
  <2>2. NextOpen(r) \subseteq Called(r)
    BY <1>7, CalledFacts
  <2> QED
    BY <2>1, <2>2 DEF TopNext
<1>19. NextOpen(s) \ TopNext(t) = NextOpen(r)
  BY <1>3, <1>18
<1> QED
  BY <1>3, <1>5, <1>13, <1>15, <1>16, <1>17, <1>19 DEF u, Moved

(* An activation for a label with no copy is put on a stack. *)
Pushed(p, h, W, V2, r, l, s) ==
  /\ StackOK(p, h, W, V2, s) /\ s # <<>>
  /\ NextOpen(s) = NextOpen(r) /\ JumpOpen(s) = Called(r) /\ Uncalled(s) = {}
  /\ Base(s) = IF r = <<>> THEN <<0, l>> ELSE Base(r)

LEMMA PushStack ==
  ASSUME NEW p, NEW h, NEW W, W \subseteq Nat, NEW V, V \subseteq W,
         NEW r, Calls(p, h, W, V, r), NEW l \in Nat, l \notin W, NEW V2, V2 = V \cup {l},
         r # <<>> => CalledBy(p, Fresh(h, l), Head(r)),
         NEW s, s = <<Fresh(h, l)>> \o r
  PROVE  Pushed(p, h, W, V2, r, l, s)
<1> DEFINE u == Fresh(h, l)
<1>1. u.old = <<0, l>> /\ u.instr = NULL /\ u.at = "next" /\ u.old[2] = l
  BY FreshFields
<1>2. u \in Frames(p, h, W, V2)
  BY FreshIsFrame
<1>3. s = <<u>> \o r
  OBVIOUS
<1>4. r # <<>> => CalledBy(p, u, Head(r))
  OBVIOUS
<1> HIDE DEF u
<1>5. Calls(p, h, W, V2, r)
  BY CallsGrow
<1>6. r # <<>> => Head(r) = r[1]
  OBVIOUS
<1>7. Calls(p, h, W, V2, s)
  BY <1>1, <1>2, <1>3, <1>4, <1>5, <1>6, CallsCons
<1>8. s # <<>> /\ Head(s) = u /\ Tail(s) = r
  <2>1. r \in Seq(Frames(p, h, W, V2))
    BY <1>5 DEF Calls
  <2> QED
    BY <1>2, <1>3, <2>1
<1>9. Parts(h, s)
  <2>1. V2 \subseteq Nat
    OBVIOUS
  <2> QED
    BY <1>7, <1>8, <2>1, TopParts
<1>10. /\ NextOpen(s) = TopNext(u) \cup NextOpen(r)
       /\ JumpOpen(s) = TopJump(u) \cup Called(r)
       /\ Uncalled(s) = TopJump(u)
       /\ Base(s) = IF r = <<>> THEN u.old ELSE Base(r)
       /\ FreshAt(h, s) = FreshTop(u)
  BY <1>8, <1>9 DEF Parts
<1>11. TopNext(u) = {} /\ TopJump(u) = {} /\ FreshTop(u) = {l}
  BY <1>1 DEF TopNext, TopJump, FreshTop
<1>12. StackOK(p, h, W, V2, s)
  BY <1>7, <1>10, <1>11 DEF StackOK
<1> QED
  BY <1>1, <1>8, <1>10, <1>11, <1>12 DEF Pushed

-----------------------------------------------------------------------------
(* The steps of a copy keep the invariant. *)

LEMMA MetFacts ==
  ASSUME NEW offs, NEW m \in Nat, DOMAIN offs = 1 .. m, NEW n \in 1 .. m
  PROVE  /\ Met(offs, n + 1, FALSE) = Met(offs, n, TRUE)
         /\ Met(offs, n, TRUE) = Met(offs, n, FALSE) \cup ({offs[n]} \ {0})
<1>1. {j \in DOMAIN offs : j < n + 1 \/ (j = n + 1 /\ FALSE)}
        = {j \in DOMAIN offs : j < n \/ (j = n /\ TRUE)}
  OBVIOUS
<1>2. {j \in DOMAIN offs : j < n \/ (j = n /\ TRUE)}
        = {j \in DOMAIN offs : j < n \/ (j = n /\ FALSE)} \cup {n}
  OBVIOUS
<1> QED
  BY <1>1, <1>2 DEF Met

LEMMA EntriesAreMet ==
  ASSUME NEW p, IsProgram(p), NEW h \in DOMAIN p.headers, NEW n,
         n = Len(p.headers[h]) + 1
  PROVE  Met(p.headers[h], n, FALSE) = Entries(p, h)
<1>1. /\ Len(p.headers[h]) \in Nat /\ DOMAIN p.headers[h] = 1 .. Len(p.headers[h])
  BY OffsetFacts
<1>2. {j \in DOMAIN p.headers[h] : j < n \/ (j = n /\ FALSE)} = DOMAIN p.headers[h]
  BY <1>1
<1> QED
  BY <1>2 DEF Met, Entries

(* What is known while a header is being copied.                           *)
Copying ==
  /\ IsProgram(program) /\ id \in DOMAIN program.headers /\ id \in Nat /\ id \notin Extracted
  /\ CopiedCode \subseteq ReachIn(program, id) /\ CopiedCode \subseteq Nat \ {0}
  /\ CopiedLabels \subseteq LabelsAt(program, id) /\ CopiedLabels \subseteq Nat \ {0}
  /\ DOMAIN visited_instrs = {0} \X CopiedCode
  /\ \A a \in CopiedCode : visited_instrs[<<0, a>>] = <<id, a>>
  /\ DOMAIN visited = {0} \X CopiedLabels
  /\ \A l \in CopiedLabels : visited[<<0, l>>] = <<id, l>>
  /\ NewLabels = {id} \X CopiedLabels
  /\ Len(Offsets) \in Nat /\ DOMAIN Offsets = 1 .. Len(Offsets)

CopiesIn(h, V, f) ==
  /\ DOMAIN f = {0} \X V /\ \A l \in V : f[<<0, l>>] = <<h, l>>
  /\ {f[x] : x \in DOMAIN f} = {h} \X V

LEMMA CopiesAre ==
  ASSUME NEW h, NEW V, NEW f, f = [x \in {0} \X V |-> <<h, x[2]>>]
  PROVE  CopiesIn(h, V, f)
<1>1. DOMAIN f = {0} \X V /\ \A x \in {0} \X V : f[x] = <<h, x[2]>>
  OBVIOUS
<1>2. \A l \in V : <<0, l>> \in {0} \X V /\ <<0, l>>[2] = l
  OBVIOUS
<1>3. \A l \in V : f[<<0, l>>] = <<h, l>>
  BY <1>1, <1>2
<1>4. ASSUME NEW x \in {0} \X V PROVE f[x] \in {h} \X V
  BY <1>1
<1>5. ASSUME NEW y \in {h} \X V PROVE \E x \in DOMAIN f : f[x] = y
  <2>1. PICK l \in V : y = <<h, l>>
    OBVIOUS
  <2> QED
    BY <1>1, <1>2, <1>3, <2>1
<1>6. {f[x] : x \in DOMAIN f} \subseteq {h} \X V
  BY <1>1, <1>4
<1>7. {h} \X V \subseteq {f[x] : x \in DOMAIN f}
  BY <1>5
<1>8. {f[x] : x \in DOMAIN f} = {h} \X V
  BY <1>6, <1>7
<1> QED
  BY <1>1, <1>3, <1>8 DEF CopiesIn

LEMMA InCopy ==
  ASSUME SeparateInv, pc = "copy"
  PROVE  Copying
<1>1. IsProgram(program) /\ id \in DOMAIN program.headers /\ id \notin Extracted
  BY SeparateAssumption DEF SeparateInv, ControlInv, Extracted
<1>2. /\ id \in Nat /\ ReachIn(program, id) \subseteq Nat \ {0}
      /\ LabelsAt(program, id) \subseteq ReachIn(program, id)
  BY <1>1, CodeAt
<1>3. CopiedCode \subseteq ReachIn(program, id) /\ CopiedLabels \subseteq ReachIn(program, id)
  BY DEF CopiedCode, CopiedLabels
<1>4. CopiedLabels \subseteq LabelsAt(program, id)
  BY DEF SeparateInv, CopyInv, FlowOK
<1>5. /\ DOMAIN visited_instrs = {0} \X CopiedCode
      /\ \A a \in CopiedCode : visited_instrs[<<0, a>>] = <<id, a>>
  <2>1. visited_instrs = [x \in {0} \X CopiedCode |-> <<id, x[2]>>]
    BY DEF SeparateInv, VisitedInv
  <2> QED
    BY <2>1, CopiesAre DEF CopiesIn
<1>6. /\ DOMAIN visited = {0} \X CopiedLabels
      /\ \A l \in CopiedLabels : visited[<<0, l>>] = <<id, l>>
      /\ {visited[x] : x \in DOMAIN visited} = {id} \X CopiedLabels
  <2>1. visited = [x \in {0} \X CopiedLabels |-> <<id, x[2]>>]
    BY DEF SeparateInv, VisitedInv
  <2> QED
    BY <2>1, CopiesAre DEF CopiesIn
<1>7. Len(Offsets) \in Nat /\ DOMAIN Offsets = 1 .. Len(Offsets)
  BY <1>1, OffsetFacts DEF Offsets
<1>8. CopiedCode \subseteq Nat \ {0} /\ CopiedLabels \subseteq Nat \ {0}
  BY <1>2, <1>3
<1> QED
  BY <1>1, <1>2, <1>3, <1>4, <1>5, <1>6, <1>7, <1>8 DEF Copying, NewLabels

LEMMA CopyStep ==
  ASSUME SeparateInv, pc = "copy", UNCHANGED <<program, ip, pc, ids, id, ip_rest>>,
         NEW W, CopiedCode \subseteq W, W \subseteq ReachIn(program, id),
         NEW V, CopiedLabels \subseteq V, V \subseteq LabelsAt(program, id),
         visited_instrs' = [x \in {0} \X W |-> <<id, x[2]>>],
         visited' = [x \in {0} \X V |-> <<id, x[2]>>],
         DOMAIN instr' = DOMAIN instr \cup ({id} \X W),
         DOMAIN label' = DOMAIN label \cup ({id} \X V),
         \A x \in DOMAIN instr : x[1] # id => instr'[x] = instr[x],
         \A x \in DOMAIN label : x[1] # id => label'[x] = label[x],
         \A x \in DOMAIN label : label'[x].id = label[x].id,
         \/ V = CopiedLabels /\ unique_id' = unique_id
         \/ \E l \in Nat \ CopiedLabels : /\ V = CopiedLabels \cup {l}
                                          /\ unique_id' = unique_id + 1
                                          /\ label'[<<id, l>>].id = unique_id,
         StackOK(program, id, W, V, stack'),
         animno' \in 1 .. Len(Offsets) + 1,
         st_entries' = [i \in 1 .. animno' - 1 |-> EntryCopy(id, Offsets[i])],
         stack' # <<>> => /\ animno' \in DOMAIN Offsets /\ Offsets[animno'] # 0
                          /\ Base(stack') = <<0, Offsets[animno']>>,
         NEW E, E = Met(Offsets, animno', stack' # <<>>),
         CopyOK(program, id, W, V, NextOpen(stack'), JumpOpen(stack'), Uncalled(stack'), E,
                instr', label'),
         FlowOK(program, id, W, V, NextOpen(stack'), JumpOpen(stack'), E)
  PROVE  SeparateInv'
<1>0. Copying
  BY InCopy
<1>1. Extracted' = Extracted /\ Offsets' = Offsets /\ pc' = "copy" /\ EntriesMet' = E
  BY DEF Extracted, Offsets, EntriesMet
<1>2. W \subseteq Nat /\ V \subseteq ReachIn(program, id)
  BY <1>0, CodeAt DEF Copying
<1>3. CopiedCode' = W
  <2>1. DOMAIN visited_instrs' = {0} \X W
    OBVIOUS
  <2>2. CopiedCode' = {a \in ReachIn(program, id) : <<0, a>> \in DOMAIN visited_instrs'}
    BY DEF CopiedCode
  <2> QED
    BY <2>1, <2>2
<1>4. CopiedLabels' = V
  <2>1. DOMAIN visited' = {0} \X V
    OBVIOUS
  <2>2. CopiedLabels' = {l \in ReachIn(program, id) : <<0, l>> \in DOMAIN visited'}
    BY DEF CopiedLabels
  <2> QED
    BY <1>2, <2>1, <2>2
<1>5. ControlInv'
  BY DEF SeparateInv, ControlInv
<1>6. DomainInv'
  <2>1. DoneCode' = DoneCode /\ DoneLabels' = DoneLabels
    BY <1>1 DEF DoneCode, DoneLabels
  <2>2. DOMAIN instr = DoneCode \cup ({id} \X CopiedCode)
        /\ DOMAIN label = DoneLabels \cup ({id} \X CopiedLabels)
    BY DEF SeparateInv, DomainInv
  <2>3. {id} \X CopiedCode \subseteq {id} \X W /\ {id} \X CopiedLabels \subseteq {id} \X V
    OBVIOUS
  <2>4. DOMAIN instr' = DoneCode \cup ({id} \X W) /\ DOMAIN label' = DoneLabels \cup ({id} \X V)
    BY <2>2, <2>3
  <2> QED
    BY <1>1, <1>3, <1>4, <2>1, <2>4 DEF DomainInv
<1>7. ExtractedInv'
  <2>1. /\ DOMAIN ip_rest.headers = Extracted
        /\ \A h \in Extracted : ip_rest.headers[h] = HeaderCopy(program, h)
    BY DEF SeparateInv, ExtractedInv
  <2>2. ASSUME NEW h \in Extracted
        PROVE  CopyOK(program, h, ReachIn(program, h), LabelsAt(program, h), {}, {}, {},
                      Entries(program, h), instr', label')
    <3>1. CopyOK(program, h, ReachIn(program, h), LabelsAt(program, h), {}, {}, {},
                 Entries(program, h), instr, label)
      BY DEF SeparateInv, ExtractedInv
    <3>2. h # id
      BY <1>0 DEF Copying
    <3>3. ASSUME NEW a \in ReachIn(program, h)
          PROVE  <<h, a>> \in DOMAIN instr' /\ instr'[<<h, a>>] = instr[<<h, a>>]
      <4>1. <<h, a>> \in DOMAIN instr
        BY <3>1 DEF CopyOK
      <4>2. <<h, a>>[1] # id
        BY <3>2
      <4> QED
        BY <4>1, <4>2
    <3>4. ASSUME NEW l \in LabelsAt(program, h)
          PROVE  <<h, l>> \in DOMAIN label' /\ label'[<<h, l>>] = label[<<h, l>>]
      <4>1. <<h, l>> \in DOMAIN label
        BY <3>1 DEF CopyOK
      <4>2. <<h, l>>[1] # id
        BY <3>2
      <4> QED
        BY <4>1, <4>2
    <3> QED
      BY <3>1, <3>3, <3>4, SameCopy
  <2> QED
    BY <1>1, <2>1, <2>2 DEF ExtractedInv
<1>8. SymtblInv'
  <2>1. /\ ip_rest.uniq_id \in Nat /\ DOMAIN ip_rest.symtbl \subseteq Nat
        /\ {ip_rest.symtbl[k] : k \in DOMAIN ip_rest.symtbl} = DoneLabels
        /\ \A k \in DOMAIN ip_rest.symtbl :
             k < ip_rest.uniq_id /\ label[ip_rest.symtbl[k]].id = k
    BY DEF SeparateInv, SymtblInv
  <2>2. DoneLabels \subseteq DOMAIN label /\ DoneLabels' = DoneLabels
    BY <1>1 DEF SeparateInv, DomainInv, DoneLabels
  <2>3. \A k \in DOMAIN ip_rest.symtbl : label'[ip_rest.symtbl[k]].id = k
    BY <2>1, <2>2
  <2> QED
    BY <2>1, <2>2, <2>3 DEF SymtblInv
<1>9. NewLabels' = {id} \X V
  <2>1. PICK f : f = visited'
    OBVIOUS
  <2>2. f = [x \in {0} \X V |-> <<id, x[2]>>]
    BY <2>1
  <2>3. CopiesIn(id, V, f)
    BY <2>2, CopiesAre
  <2> QED
    BY <2>1, <2>3 DEF NewLabels, CopiesIn
<1>10. IdsInv'
  <2> DEFINE L == {id} \X CopiedLabels
  <2>1. /\ IsFiniteSet(L) /\ unique_id = Cardinality(L)
        /\ \A l \in L : label[l].id \in Nat /\ label[l].id < unique_id
        /\ \A l, m \in L : label[l].id = label[m].id => l = m
    BY <1>0 DEF SeparateInv, IdsInv, Copying
  <2>2. L \subseteq DOMAIN label
    BY DEF SeparateInv, DomainInv
  <2>3. \A l \in L : label'[l].id = label[l].id
    BY <2>2
  <2>4. CASE V = CopiedLabels /\ unique_id' = unique_id
    <3>1. NewLabels' = L
      BY <1>9, <2>4
    <3> HIDE DEF L
    <3> QED
      BY <2>1, <2>3, <2>4, <3>1 DEF IdsInv
  <2>5. CASE \E l \in Nat \ CopiedLabels : /\ V = CopiedLabels \cup {l}
                                           /\ unique_id' = unique_id + 1
                                           /\ label'[<<id, l>>].id = unique_id
    <3>1. PICK l \in Nat \ CopiedLabels : /\ V = CopiedLabels \cup {l}
                                          /\ unique_id' = unique_id + 1
                                          /\ label'[<<id, l>>].id = unique_id
      BY <2>5
    <3>2. PICK x : x = <<id, l>>
      OBVIOUS
    <3>3. NewLabels' = L \cup {x} /\ x \notin L
      BY <1>9, <3>1, <3>2
    <3> HIDE DEF L
    <3>4. IsFiniteSet(L \cup {x}) /\ Cardinality(L \cup {x}) = Cardinality(L) + 1
          /\ Cardinality(L) \in Nat
      BY <2>1, <3>3, FS_AddElement, FS_CardinalityType
    <3>5. \A m \in L : label'[m].id \in Nat /\ label'[m].id < unique_id
      BY <2>1, <2>3
    <3>6. label'[x].id = unique_id /\ unique_id \in Nat
      BY <2>1, <3>1, <3>2, <3>4
    <3>7. \A m \in L \cup {x} : label'[m].id \in Nat /\ label'[m].id < unique_id + 1
      BY <3>5, <3>6
    <3>8. \A m, k \in L \cup {x} : label'[m].id = label'[k].id => m = k
      BY <2>1, <2>3, <3>5, <3>6
    <3> QED
      BY <2>1, <3>1, <3>3, <3>4, <3>7, <3>8 DEF IdsInv
  <2> QED
    BY <2>4, <2>5
<1>11. VisitedInv'
  BY <1>3, <1>4 DEF VisitedInv
<1>12. StackInv'
  BY <1>1, <1>3, <1>4 DEF StackInv
<1>13. EntriesInv'
  BY <1>1 DEF EntriesInv
<1>14. CopyInv'
  BY <1>1, <1>3, <1>4 DEF CopyInv
<1> QED
  BY <1>5, <1>6, <1>7, <1>8, <1>10, <1>11, <1>12, <1>13, <1>14 DEF SeparateInv

LEMMA AppendEntry ==
  ASSUME NEW h, NEW offs, NEW n \in Nat \ {0}, NEW s, s = [i \in 1 .. n - 1 |-> EntryCopy(h, offs[i])]
  PROVE  Append(s, EntryCopy(h, offs[n])) = [i \in 1 .. n |-> EntryCopy(h, offs[i])]
<1> DEFINE S == {EntryCopy(h, offs[i]) : i \in 1 .. n}
           e == EntryCopy(h, offs[n])
           t == [i \in 1 .. n |-> EntryCopy(h, offs[i])]
<1>1. s \in Seq(S) /\ e \in S /\ Len(s) = n - 1
  <2>1. n - 1 \in Nat /\ \A i \in 1 .. n - 1 : i \in 1 .. n
    OBVIOUS
  <2>2. s \in [1 .. n - 1 -> S]
    BY <2>1
  <2>3. n \in 1 .. n
    OBVIOUS
  <2>4. s \in Seq(S)
    <3> HIDE DEF S
    <3> QED
      BY <2>1, <2>2
  <2>5. Len(s) = n - 1
    <3> HIDE DEF S
    <3>1. Len(s) \in Nat /\ s \in [1 .. Len(s) -> S]
      BY <2>4
    <3>2. DOMAIN s = 1 .. n - 1
      OBVIOUS
    <3> QED
      BY <2>1, <3>1, <3>2
  <2> QED
    BY <2>3, <2>4, <2>5
<1> HIDE DEF S, e
<1>2. /\ DOMAIN s = 1 .. n - 1 /\ DOMAIN Append(s, e) = 1 .. n /\ Append(s, e)[n] = e
      /\ \A k \in DOMAIN s : Append(s, e)[k] = s[k]
  <2>1. /\ Append(s, e) \in Seq(S) /\ Len(s) \in Nat
        /\ DOMAIN s = 1 .. Len(s) /\ DOMAIN Append(s, e) = 1 .. Len(s) + 1
        /\ Append(s, e)[Len(s) + 1] = e
        /\ \A k \in DOMAIN s : Append(s, e)[k] = s[k]
    BY <1>1, AppendFacts
  <2>2. Len(s) + 1 = n
    BY <1>1
  <2> QED
    BY <1>1, <2>1, <2>2
<1>3. ASSUME NEW i \in 1 .. n PROVE Append(s, e)[i] = EntryCopy(h, offs[i])
  <2>1. CASE i = n
    BY <1>2, <2>1 DEF e
  <2>2. CASE i # n
    <3>1. i \in 1 .. n - 1
      BY <2>2
    <3> QED
      BY <1>2, <3>1
  <2> QED
    BY <2>1, <2>2
<1>4. Append(s, e) = t
  <2>1. Append(s, e) = [i \in 1 .. n |-> Append(s, e)[i]]
    <3>1. Append(s, e) \in Seq(S)
      BY <1>1, AppendFacts
    <3>2. Append(s, e) = [i \in DOMAIN Append(s, e) |-> Append(s, e)[i]]
      BY <3>1, SeqIsFunction
    <3> QED
      BY <1>2, <3>2
  <2> QED
    BY <1>3, <2>1
<1> QED
  BY <1>4 DEF e

(* The animation that is being copied is done. *)
LEMMA EntryDone ==
  ASSUME Copying, EntriesInv, pc = "copy", animno \in DOMAIN Offsets,
         st_entries' = Append(st_entries, EntryCopy(id, Offsets[animno])), animno' = animno + 1
  PROVE  /\ animno' \in 1 .. Len(Offsets) + 1
         /\ st_entries' = [i \in 1 .. animno' - 1 |-> EntryCopy(id, Offsets[i])]
<1>1. Len(Offsets) \in Nat /\ animno \in 1 .. Len(Offsets)
  BY DEF Copying
<1>2. st_entries = [i \in 1 .. animno - 1 |-> EntryCopy(id, Offsets[i])]
  BY DEF EntriesInv
<1>3. animno \in Nat \ {0} /\ animno' - 1 = animno /\ animno' \in 1 .. Len(Offsets) + 1
  BY <1>1
<1>4. Append(st_entries, EntryCopy(id, Offsets[animno])) = [i \in 1 .. animno |-> EntryCopy(id, Offsets[i])]
  BY <1>2, <1>3, AppendEntry
<1> QED
  BY <1>3, <1>4

LEMMA ReturnStep ==
  ASSUME SeparateInv, pc = "copy", stack # <<>>, Top.instr # NULL, Top.at = "next",
         UNCHANGED <<program, ip, pc, ids, id, label, ip_rest, unique_id, visited, visited_instrs>>,
         NEW heap, DOMAIN heap = DOMAIN instr, \A x \in DOMAIN instr : x[1] # id => heap[x] = instr[x],
         CopyOK(program, id, CopiedCode, CopiedLabels, NextOpen(Tail(stack)), JumpOpen(stack), {},
                EntriesMet, heap, label),
         FlowOK(program, id, CopiedCode, CopiedLabels, NextOpen(Tail(stack)), JumpOpen(stack),
                EntriesMet),
         Return(Top.new, heap, Tail(stack))
  PROVE  SeparateInv'
<1> DEFINE W == CopiedCode
           V == CopiedLabels
<1>0. Copying
  BY InCopy
<1>1. PICK t, r : t = Top /\ t = Head(stack) /\ r = Tail(stack)
  BY DEF Top
<1>2. /\ W \subseteq Nat /\ V \subseteq Nat /\ StackOK(program, id, W, V, stack)
      /\ animno \in DOMAIN Offsets /\ Offsets[animno] # 0
      /\ Base(stack) = <<0, Offsets[animno]>> /\ EntriesInv
  BY <1>0 DEF Copying, SeparateInv, StackInv
<1>3. DOMAIN instr = DOMAIN instr \cup ({id} \X W) /\ DOMAIN label = DOMAIN label \cup ({id} \X V)
  BY DEF SeparateInv, DomainInv
<1>4. /\ visited_instrs' = [x \in {0} \X W |-> <<id, x[2]>>]
      /\ visited' = [x \in {0} \X V |-> <<id, x[2]>>]
  BY DEF SeparateInv, VisitedInv
<1>5. W \subseteq ReachIn(program, id) /\ V \subseteq LabelsAt(program, id)
  BY <1>0 DEF Copying
<1> HIDE DEF W, V
<1>6. /\ StackOK(program, id, W, V, r) /\ FrameIs(program, id, W, V, t)
      /\ Uncalled(r) = {}
      /\ r = <<>> => JumpOpen(stack) = {} /\ JumpOpen(r) = {} /\ Base(stack) = t.old
      /\ r # <<>> => /\ Base(r) = Base(stack)
                     /\ FrameIs(program, id, W, V, Head(r)) /\ CalledBy(program, t, Head(r))
                     /\ JumpOpen(r) = JumpOpen(stack) \ {Head(r).instr[2]}
  <2>1. Popped(program, id, W, V, stack, t, r)
    BY <1>1, <1>2, PopStack
  <2> QED
    BY <2>1 DEF Popped
<1>7. t.new = <<id, t.old[2]>> /\ Return(t.new, heap, r)
  BY <1>1, <1>6 DEF FrameIs
<1>8. CASE r = <<>>
  <2>1. /\ stack' = <<>> /\ st_entries' = Append(st_entries, t.new) /\ animno' = animno + 1
        /\ instr' = heap
    BY <1>7, <1>8 DEF Return
  <2>2. t.new = EntryCopy(id, Offsets[animno])
    <3>1. t.old = <<0, Offsets[animno]>>
      BY <1>2, <1>6, <1>8
    <3>2. t.old[2] = Offsets[animno]
      BY <3>1
    <3> QED
      BY <1>2, <1>7, <3>2 DEF EntryCopy
  <2>3. /\ animno' \in 1 .. Len(Offsets) + 1
        /\ st_entries' = [i \in 1 .. animno' - 1 |-> EntryCopy(id, Offsets[i])]
    BY <1>0, <1>2, <2>1, <2>2, EntryDone
  <2>4. EntriesMet = Met(Offsets, animno', stack' # <<>>)
    <3>1. Len(Offsets) \in Nat /\ DOMAIN Offsets = 1 .. Len(Offsets) /\ animno \in 1 .. Len(Offsets)
      BY <1>0, <1>2 DEF Copying
    <3>2. Met(Offsets, animno + 1, FALSE) = Met(Offsets, animno, TRUE)
      BY <3>1, MetFacts
    <3>3. (stack' # <<>>) = FALSE /\ (stack # <<>>) = TRUE
      BY <2>1
    <3> QED
      BY <2>1, <3>2, <3>3 DEF EntriesMet
  <2>5. CopyOK(program, id, W, V, NextOpen(stack'), JumpOpen(stack'), Uncalled(stack'), EntriesMet,
               instr', label')
    BY <1>1, <1>6, <1>8, <2>1 DEF W, V
  <2>6. FlowOK(program, id, W, V, NextOpen(stack'), JumpOpen(stack'), EntriesMet)
    BY <1>1, <1>6, <1>8, <2>1 DEF W, V
  <2> QED
    <3>1. StackOK(program, id, W, V, stack')
      BY <1>6, <1>8, <2>1
    <3>2. DOMAIN instr' = DOMAIN instr \cup ({id} \X W) /\ DOMAIN label' = DOMAIN label \cup ({id} \X V)
      BY <1>3, <2>1
    <3>3. \A x \in DOMAIN instr : x[1] # id => instr'[x] = instr[x]
      BY <2>1
    <3>4. CopiedCode \subseteq W /\ CopiedLabels \subseteq V /\ V = CopiedLabels
      BY DEF W, V
    <3> QED
      BY <1>4, <1>5, <2>1, <2>3, <2>4, <2>5, <2>6, <3>1, <3>2, <3>3, <3>4, CopyStep
<1>9. CASE r # <<>>
  <2>1. PICK c : c = Head(r).instr[2]
    OBVIOUS
  <2>2. /\ Head(r).instr # NULL /\ Jumps(program, c) /\ t.old = <<0, program.instr[c].target>>
    BY <1>6, <1>9, <2>1 DEF CalledBy
  <2>3. c \in W /\ Head(r).prev = <<id, c>>
    BY <1>6, <1>9, <2>1, <2>2 DEF FrameIs
  <2>4. t.new = <<id, program.instr[c].target>>
    BY <1>7, <2>2
  <2>5. /\ stack' = r /\ UNCHANGED <<st_entries, animno>>
        /\ instr' = [heap EXCEPT ![<<id, c>>].jump = <<id, program.instr[c].target>>]
    BY <1>7, <1>9, <2>3, <2>4 DEF Return
  <2>6. JumpOpen(r) = JumpOpen(stack) \ {c}
    BY <1>6, <1>9, <2>1
  <2>7. CopyOK(program, id, W, V, NextOpen(r), JumpOpen(stack), {}, EntriesMet, heap, label)
    BY <1>1 DEF W, V
  <2>8. CopyOK(program, id, W, V, NextOpen(r), JumpOpen(r), {}, EntriesMet, instr', label)
    BY <2>2, <2>3, <2>5, <2>6, <2>7, SetJump
  <2>9. FlowOK(program, id, W, V, NextOpen(r), JumpOpen(r), EntriesMet)
    <3>1. FlowOK(program, id, W, V, NextOpen(r), JumpOpen(stack), EntriesMet)
      BY <1>1 DEF W, V
    <3>2. t.old[2] \in V
      BY <1>6 DEF FrameIs
    <3>3. program.instr[c].target \in V
      BY <2>2, <3>2
    <3> QED
      BY <2>6, <3>1, <3>3 DEF FlowOK
  <2>10. EntriesMet = Met(Offsets, animno', stack' # <<>>)
    <3>1. (stack' # <<>>) = TRUE /\ (stack # <<>>) = TRUE
      BY <1>9, <2>5
    <3> QED
      BY <2>5, <3>1 DEF EntriesMet
  <2>11. CopyOK(program, id, W, V, NextOpen(stack'), JumpOpen(stack'), Uncalled(stack'), EntriesMet,
                instr', label')
    BY <1>6, <2>5, <2>8
  <2>12. StackOK(program, id, W, V, stack') /\ Base(stack') = <<0, Offsets[animno']>>
         /\ FlowOK(program, id, W, V, NextOpen(stack'), JumpOpen(stack'), EntriesMet)
    BY <1>2, <1>6, <1>9, <2>5, <2>9
  <2>13. DOMAIN instr' = DOMAIN heap /\ \A x \in DOMAIN heap : x[1] # id => instr'[x] = heap[x]
    <3>1. \A x : x[1] # id => x # <<id, c>>
      OBVIOUS
    <3> QED
      BY <2>5, <3>1
  <2>14. DOMAIN instr' = DOMAIN instr \cup ({id} \X W) /\ DOMAIN label' = DOMAIN label \cup ({id} \X V)
    BY <1>3, <2>13
  <2>15. \A x \in DOMAIN instr : x[1] # id => instr'[x] = instr[x]
    BY <2>13
  <2>16. /\ animno' \in 1 .. Len(Offsets) + 1
         /\ st_entries' = [i \in 1 .. animno' - 1 |-> EntryCopy(id, Offsets[i])]
         /\ animno' \in DOMAIN Offsets /\ Offsets[animno'] # 0
    BY <1>2, <2>5 DEF EntriesInv
  <2>17. CopiedCode \subseteq W /\ CopiedLabels \subseteq V /\ V = CopiedLabels
    BY DEF W, V
  <2> QED
    BY <1>4, <1>5, <2>10, <2>11, <2>12, <2>14, <2>15, <2>16, <2>17, CopyStep
<1> QED
  BY <1>8, <1>9

(* All objects have the fields of their kind. *)
LEMMA HeapForm ==
  ASSUME SeparateInv, pc = "copy"
  PROVE  /\ \A x \in DOMAIN instr : InstrForm(instr[x]) /\ x \in Nat \X Nat
         /\ \A x \in DOMAIN label : LabelForm(label[x]) /\ x \in Nat \X Nat
<1>0. Copying
  BY InCopy
<1>1. ASSUME NEW h, NEW W, NEW V, NEW N, NEW J, NEW C, NEW E,
             CopyOK(program, h, W, V, N, J, C, E, instr, label)
      PROVE  /\ \A a \in W : InstrForm(instr[<<h, a>>])
             /\ \A l \in V : LabelForm(label[<<h, l>>])
  <2>1. ASSUME NEW a \in W PROVE InstrForm(instr[<<h, a>>])
    <3>1. PICK x : x = instr[<<h, a>>]
      OBVIOUS
    <3>2. x = CopyOfInstr(program, h, W, V, N, J, a)
      BY <1>1, <3>1 DEF CopyOK
    <3>3. InstrForm(x)
      BY <3>2 DEF InstrForm, CopyOfInstr
    <3> QED
      BY <3>1, <3>3
  <2>2. ASSUME NEW l \in V PROVE LabelForm(label[<<h, l>>])
    <3>1. CopyOfLabel(program, h, W, C, E, l, label[<<h, l>>])
      BY <1>1 DEF CopyOK
    <3> QED
      BY <3>1, LabelFields DEF LabelForm
  <2> QED
    BY <2>1, <2>2
<1>2. \A h \in Extracted :
        /\ h \in Nat /\ ReachIn(program, h) \subseteq Nat /\ LabelsAt(program, h) \subseteq Nat
        /\ CopyOK(program, h, ReachIn(program, h), LabelsAt(program, h), {}, {}, {},
                  Entries(program, h), instr, label)
  <2>1. ASSUME NEW h \in Extracted
        PROVE  /\ h \in Nat /\ ReachIn(program, h) \subseteq Nat
               /\ LabelsAt(program, h) \subseteq Nat
    <3>1. h \in DOMAIN program.headers
      BY DEF Extracted
    <3>2. h \in Nat /\ ReachIn(program, h) \subseteq Nat \ {0}
          /\ LabelsAt(program, h) \subseteq ReachIn(program, h)
      BY <1>0, <3>1, CodeAt DEF Copying
    <3> QED
      BY <3>2
  <2> QED
    BY <2>1 DEF SeparateInv, ExtractedInv
<1>3. CopyOK(program, id, CopiedCode, CopiedLabels, NextOpen(stack), JumpOpen(stack),
             Uncalled(stack), EntriesMet, instr, label)
      /\ id \in Nat /\ CopiedCode \subseteq Nat /\ CopiedLabels \subseteq Nat
  BY <1>0 DEF SeparateInv, CopyInv, Copying
<1>4. /\ DOMAIN instr = DoneCode \cup ({id} \X CopiedCode)
      /\ DOMAIN label = DoneLabels \cup ({id} \X CopiedLabels)
  BY DEF SeparateInv, DomainInv
<1>5. ASSUME NEW x \in DOMAIN instr PROVE InstrForm(instr[x]) /\ x \in Nat \X Nat
  <2>1. CASE x \in DoneCode
    <3>0. PICK h \in Extracted : x \in {h} \X ReachIn(program, h)
      BY <2>1 DEF DoneCode
    <3>1. PICK a \in ReachIn(program, h) : x = <<h, a>>
      BY <3>0
    <3>2. InstrForm(instr[<<h, a>>])
      BY <1>1, <1>2, <3>1
    <3>3. h \in Nat /\ a \in Nat
      BY <1>2, <3>1
    <3> QED
      BY <3>1, <3>2, <3>3
  <2>2. CASE x \in {id} \X CopiedCode
    <3>1. PICK a \in CopiedCode : x = <<id, a>>
      BY <2>2
    <3>2. InstrForm(instr[<<id, a>>])
      BY <1>1, <1>3, <3>1
    <3> QED
      BY <1>3, <3>1, <3>2
  <2> QED
    BY <1>4, <2>1, <2>2
<1>6. ASSUME NEW x \in DOMAIN label PROVE LabelForm(label[x]) /\ x \in Nat \X Nat
  <2>1. CASE x \in DoneLabels
    <3>0. PICK h \in Extracted : x \in {h} \X LabelsAt(program, h)
      BY <2>1 DEF DoneLabels
    <3>1. PICK a \in LabelsAt(program, h) : x = <<h, a>>
      BY <3>0
    <3>2. LabelForm(label[<<h, a>>])
      BY <1>1, <1>2, <3>1
    <3>3. h \in Nat /\ a \in Nat
      BY <1>2, <3>1
    <3> QED
      BY <3>1, <3>2, <3>3
  <2>2. CASE x \in {id} \X CopiedLabels
    <3>1. PICK a \in CopiedLabels : x = <<id, a>>
      BY <2>2
    <3>2. LabelForm(label[<<id, a>>])
      BY <1>1, <1>3, <3>1
    <3> QED
      BY <1>3, <3>1, <3>2
  <2> QED
    BY <1>4, <2>1, <2>2
<1> QED
  BY <1>5, <1>6

LEMMA LinkFacts ==
  ASSUME NEW heap, \A x \in DOMAIN heap : InstrForm(heap[x]), NEW new
  PROVE  /\ DOMAIN Link(heap, new) = DOMAIN heap
         /\ \A x \in DOMAIN heap :
              /\ Link(heap, new)[x] =
                   [op |-> heap[x].op, next |-> IF x = Top.prev THEN new ELSE heap[x].next,
                    prev |-> IF x = new THEN Top.prev ELSE heap[x].prev,
                    st_entry |-> heap[x].st_entry, jump |-> heap[x].jump]
              /\ x # new /\ x # Top.prev => Link(heap, new)[x] = heap[x]
<1>1. DOMAIN Link(heap, new) = DOMAIN heap
  BY DEF Link
<1>2. ASSUME NEW x \in DOMAIN heap
      PROVE  /\ Link(heap, new)[x] =
                  [op |-> heap[x].op, next |-> IF x = Top.prev THEN new ELSE heap[x].next,
                   prev |-> IF x = new THEN Top.prev ELSE heap[x].prev,
                   st_entry |-> heap[x].st_entry, jump |-> heap[x].jump]
             /\ x # new /\ x # Top.prev => Link(heap, new)[x] = heap[x]
  <2>1. PICK y, z : y = heap[x] /\ z = Link(heap, new)[x]
    OBVIOUS
  <2>2. y = [op |-> y.op, next |-> y.next, prev |-> y.prev, st_entry |-> y.st_entry,
             jump |-> y.jump]
    BY <2>1 DEF InstrForm
  <2>3. z = [y EXCEPT !.prev = IF x = new THEN Top.prev ELSE @,
                      !.next = IF x = Top.prev THEN new ELSE @]
    BY <2>1 DEF Link
  <2>4. z = [op |-> y.op, next |-> IF x = Top.prev THEN new ELSE y.next,
             prev |-> IF x = new THEN Top.prev ELSE y.prev,
             st_entry |-> y.st_entry, jump |-> y.jump]
    BY <2>2, <2>3
  <2>5. x # new /\ x # Top.prev => z = y
    BY <2>2, <2>4
  <2> QED
    BY <2>1, <2>4, <2>5
<1> QED
  BY <1>1, <1>2

PutsCopy(f, h, W, c) ==
  Put(f, <<0, c>>, <<h, c>>) = [x \in {0} \X (W \cup {c}) |-> <<h, x[2]>>]

LEMMA PutCopy ==
  ASSUME NEW h, NEW W, NEW c, NEW f, f = [x \in {0} \X W |-> <<h, x[2]>>]
  PROVE  PutsCopy(f, h, W, c)
<1>1. DOMAIN f = {0} \X W /\ \A x \in {0} \X W : f[x] = <<h, x[2]>>
  OBVIOUS
<1>2. {0} \X (W \cup {c}) = ({0} \X W) \cup {<<0, c>>}
  OBVIOUS
<1>3. \A x \in {0} \X (W \cup {c}) : (IF x = <<0, c>> THEN <<h, c>> ELSE f[x]) = <<h, x[2]>>
  BY <1>1, <1>2
<1>4. Put(f, <<0, c>>, <<h, c>>) =
        [x \in {0} \X (W \cup {c}) |-> IF x = <<0, c>> THEN <<h, c>> ELSE f[x]]
  BY <1>1, <1>2 DEF Put
<1> QED
  BY <1>3, <1>4 DEF PutsCopy

(* The graph that is copied, where the copy is reading it.                 *)
LEMMA OldInstr ==
  ASSUME SeparateInv, pc = "copy", NEW a \in ReachIn(program, id)
  PROVE  /\ ip.instr[<<0, a>>].op = <<0, a>>
         /\ ip.instr[<<0, a>>].next = IF FallsThrough(program, a) THEN <<0, a + 1>> ELSE NULL
         /\ ip.instr[<<0, a>>].st_entry = IF a \in LabelsOf(program) THEN <<0, a>> ELSE NULL
         /\ ip.instr[<<0, a>>].jump =
              IF Jumps(program, a) THEN <<0, program.instr[a].target>> ELSE NULL
         /\ ip.instr[<<0, a>>].jump # NULL <=> Jumps(program, a)
         /\ a \in Nat /\ LabelsAt(program, id) \subseteq LabelsOf(program)
         /\ NULL \notin {0} \X Nat
<1>1. IsProgram(program) /\ id \in DOMAIN program.headers
  BY InCopy DEF Copying
<1>2. ReachIn(program, id) \subseteq CodeOf(program) /\ ReachIn(program, id) \subseteq Nat \ {0}
      /\ LabelsAt(program, id) \subseteq LabelsOf(program)
      /\ LabelsAt(program, id) \subseteq ReachIn(program, id)
      /\ (Jumps(program, a) => program.instr[a].target \in LabelsAt(program, id))
  BY <1>1, CodeAt
<1>3. InstrsOf(program, 0, ip.instr)
  <2>1. ip = LoadedGraph(program, 0)
    BY DEF SeparateInv, ControlInv
  <2> QED
    BY <2>1, LoadedParts
<1>4. NULL \notin {0} \X Nat
  BY NullAssumption
<1>5. a \in CodeOf(program) /\ a \in Nat
  BY <1>2
<1>6. /\ ip.instr[<<0, a>>].op = <<0, a>>
      /\ ip.instr[<<0, a>>].next = IF FallsThrough(program, a) THEN <<0, a + 1>> ELSE NULL
      /\ ip.instr[<<0, a>>].st_entry = IF a \in LabelsOf(program) THEN <<0, a>> ELSE NULL
      /\ ip.instr[<<0, a>>].jump =
           IF Jumps(program, a) THEN <<0, program.instr[a].target>> ELSE NULL
  BY <1>3, <1>5 DEF InstrsOf
<1>7. Jumps(program, a) => <<0, program.instr[a].target>> \in {0} \X Nat
  BY <1>2
<1> QED
  BY <1>2, <1>4, <1>5, <1>6, <1>7

(* The activation at the top, when its chain goes on. *)
AtNext ==
  /\ Copying /\ pc = "copy" /\ stack # <<>> /\ Top = Head(stack) /\ Top.at = "next"
  /\ StackOK(program, id, CopiedCode, CopiedLabels, stack)
  /\ Calls(program, id, CopiedCode, CopiedLabels, stack)
  /\ Parts(id, stack) /\ FrameIs(program, id, CopiedCode, CopiedLabels, Top)
  /\ Uncalled(stack) = {}
  /\ CopyOK(program, id, CopiedCode, CopiedLabels, NextOpen(stack), JumpOpen(stack), {}, EntriesMet,
            instr, label)
  /\ FlowOK(program, id, CopiedCode, CopiedLabels, NextOpen(stack), JumpOpen(stack), EntriesMet)
  /\ CopiedCode \subseteq Nat /\ CopiedLabels \subseteq Nat
  /\ Top.instr = NULL => Top.old[2] \notin CopiedCode
  /\ Top.instr # NULL => CopiedLabels \subseteq CopiedCode /\ Top.old[2] <= Top.instr[2]

LEMMA AtNextFacts ==
  ASSUME SeparateInv, At("next")
  PROVE  AtNext
<1>1. pc = "copy" /\ stack # <<>> /\ Top = Head(stack) /\ Top.at = "next"
  BY DEF At, Top
<1>2. Copying /\ CopiedCode \subseteq Nat /\ CopiedLabels \subseteq Nat
  BY <1>1, InCopy DEF Copying
<1>3. /\ StackOK(program, id, CopiedCode, CopiedLabels, stack)
      /\ Calls(program, id, CopiedCode, CopiedLabels, stack)
  BY <1>1 DEF SeparateInv, StackInv, StackOK
<1>4. Parts(id, stack) /\ FrameIs(program, id, CopiedCode, CopiedLabels, Top)
  BY <1>1, <1>2, <1>3, TopParts
<1>5. Uncalled(stack) = {}
  BY <1>1, <1>4 DEF Parts, TopJump
<1>6. FreshAt(id, stack) = FreshTop(Top)
  BY <1>1, <1>4 DEF Parts
<1>7. Top.instr = NULL => Top.old[2] \notin CopiedCode
  BY <1>3, <1>6 DEF FreshTop, StackOK
<1>8. Top.instr # NULL => CopiedLabels \subseteq CopiedCode
  BY <1>3, <1>6 DEF FreshTop, StackOK
<1>9. Top.instr # NULL => Top.old[2] <= Top.instr[2]
  <2>1. 1 \in DOMAIN stack /\ stack[1] = Top
    BY <1>1, <1>4 DEF Parts, Joined
  <2> QED
    BY <1>3, <2>1 DEF Calls
<1>10. /\ CopyOK(program, id, CopiedCode, CopiedLabels, NextOpen(stack), JumpOpen(stack),
                 Uncalled(stack), EntriesMet, instr, label)
       /\ FlowOK(program, id, CopiedCode, CopiedLabels, NextOpen(stack), JumpOpen(stack), EntriesMet)
  BY <1>1 DEF SeparateInv, CopyInv
<1> QED
  BY <1>1, <1>2, <1>3, <1>4, <1>5, <1>7, <1>8, <1>9, <1>10 DEF AtNext

LEMMA ChainEndsStep ==
  ASSUME SeparateInv, ChainEnds
  PROVE  SeparateInv'
<1>1. AtNext /\ Top.next = NULL
  BY AtNextFacts DEF ChainEnds
<1>2. Top.instr # NULL
  BY <1>1 DEF AtNext, FrameIs
<1>3. NextOpen(Tail(stack)) = NextOpen(stack)
  <2>1. NextOpen(stack) = TopNext(Top) \cup NextOpen(Tail(stack))
    BY <1>1 DEF AtNext, Parts
  <2>2. TopNext(Top) = {}
    BY <1>1 DEF TopNext
  <2> QED
    BY <2>1, <2>2
<1>4. /\ UNCHANGED <<program, ip, pc, ids, id, label, ip_rest, unique_id, visited, visited_instrs>>
      /\ Return(Top.new, instr, Tail(stack))
  BY DEF ChainEnds
<1>5. pc = "copy" /\ stack # <<>> /\ Top.at = "next"
  BY <1>1 DEF AtNext
<1>6. /\ CopyOK(program, id, CopiedCode, CopiedLabels, NextOpen(Tail(stack)), JumpOpen(stack), {},
                EntriesMet, instr, label)
      /\ FlowOK(program, id, CopiedCode, CopiedLabels, NextOpen(Tail(stack)), JumpOpen(stack),
                EntriesMet)
  BY <1>1, <1>3 DEF AtNext
<1> QED
  BY <1>2, <1>4, <1>5, <1>6, ReturnStep

LEMMA ChainJoinsStep ==
  ASSUME SeparateInv, ChainJoins
  PROVE  SeparateInv'
<1>1. AtNext /\ Top.next # NULL /\ Copied(Top.next)
  BY AtNextFacts DEF ChainJoins
<1>2. PICK h, p, W, V, t : /\ h = id /\ p = program /\ W = CopiedCode /\ V = CopiedLabels
                           /\ t = Top
  OBVIOUS
<1>3. /\ Copying /\ pc = "copy" /\ stack # <<>> /\ t = Head(stack) /\ t.at = "next"
      /\ StackOK(p, h, W, V, stack) /\ Parts(h, stack) /\ FrameIs(p, h, W, V, t)
      /\ CopyOK(p, h, W, V, NextOpen(stack), JumpOpen(stack), {}, EntriesMet, instr, label)
      /\ FlowOK(p, h, W, V, NextOpen(stack), JumpOpen(stack), EntriesMet)
      /\ W \subseteq Nat /\ V \subseteq Nat
      /\ t.instr = NULL => t.old[2] \notin W
      /\ t.instr # NULL => V \subseteq W /\ t.old[2] <= t.instr[2]
  BY <1>1, <1>2 DEF AtNext
<1>4. DOMAIN visited_instrs = {0} \X W /\ (\A b \in W : visited_instrs[<<0, b>>] = <<h, b>>)
      /\ W \subseteq ReachIn(p, h) /\ h \in Nat
  BY <1>2, <1>3 DEF Copying
<1>5. t.instr # NULL
  <2> SUFFICES ASSUME t.instr = NULL PROVE FALSE
    OBVIOUS
  <2>1. t.next = t.old /\ t.old = <<0, t.old[2]>>
    BY <1>3 DEF FrameIs
  <2>2. <<0, t.old[2]>> \in {0} \X W
    BY <1>1, <1>2, <1>4, <2>1 DEF Copied
  <2> QED
    BY <1>3, <2>2
<1>6. PICK a : a = t.instr[2]
  OBVIOUS
<1>7. /\ a \in W /\ t.prev = <<h, a>> /\ FallsThrough(p, a) /\ t.next = <<0, a + 1>>
      /\ t.old = <<0, t.old[2]>> /\ t.old[2] \in V /\ t.old[2] <= a /\ a \in Nat
  BY <1>1, <1>2, <1>3, <1>5, <1>6 DEF FrameIs
<1>8. a + 1 \in W /\ visited_instrs[t.next] = <<h, a + 1>>
  BY <1>1, <1>2, <1>4, <1>7 DEF Copied
<1>9. PICK new : new = <<h, a + 1>>
  OBVIOUS
<1>10. Hook(instr, t.next, new) = instr /\ HookLabel(t.next, new) = label
  <2>1. /\ ip.instr[<<0, a + 1>>].st_entry = IF a + 1 \in LabelsOf(program) THEN <<0, a + 1>> ELSE NULL
        /\ NULL \notin {0} \X Nat
    BY <1>2, <1>3, <1>4, <1>8, OldInstr
  <2>2. t.old \in {0} \X Nat /\ t.old # <<0, a + 1>>
    <3>1. PICK l : l = t.old[2]
      OBVIOUS
    <3>2. l \in Nat /\ a \in Nat /\ l <= a /\ t.old = <<0, l>>
      BY <1>3, <1>7, <3>1
    <3>3. l # a + 1
      BY <3>2
    <3> QED
      BY <3>2, <3>3
  <2>3. ip.instr[t.next].st_entry # t.old
    BY <1>7, <2>1, <2>2
  <2> QED
    BY <1>2, <2>3 DEF Hook, HookLabel
<1>11. PICK heap : heap = Link(instr, new)
  OBVIOUS
<1>12. /\ DOMAIN heap = DOMAIN instr
       /\ \A x \in DOMAIN instr :
            /\ heap[x] =
                 [op |-> instr[x].op, next |-> IF x = <<h, a>> THEN new ELSE instr[x].next,
                  prev |-> IF x = new THEN <<h, a>> ELSE instr[x].prev,
                  st_entry |-> instr[x].st_entry, jump |-> instr[x].jump]
            /\ x # new /\ x # <<h, a>> => heap[x] = instr[x]
  <2>1. \A x \in DOMAIN instr : InstrForm(instr[x])
    BY <1>3, HeapForm
  <2>2. Top.prev = <<h, a>>
    BY <1>2, <1>7
  <2> QED
    BY <1>11, <2>1, <2>2, LinkFacts
<1>13. \A x \in DOMAIN instr : x[1] # id => heap[x] = instr[x]
  <2>1. \A x : x[1] # h => x # new /\ x # <<h, a>>
    BY <1>9
  <2> QED
    BY <1>2, <1>12, <2>1
<1>14. NextOpen(Tail(stack)) = NextOpen(stack) \ {a}
  <2>1. NextOpen(Tail(stack)) = NextOpen(stack) \ TopNext(t)
    <3>1. Popped(p, h, W, V, stack, t, Tail(stack))
      BY <1>3, <1>5, PopStack
    <3> QED
      BY <3>1 DEF Popped
  <2>2. TopNext(t) = {a}
    BY <1>1, <1>2, <1>5, <1>6 DEF TopNext
  <2> QED
    BY <2>1, <2>2
<1>15. CopyOK(p, h, W, V, NextOpen(Tail(stack)), JumpOpen(stack), {}, EntriesMet, heap, label)
  <2>1. ASSUME NEW b \in W
        PROVE  heap[<<h, b>>] =
                 [op |-> instr[<<h, b>>].op,
                  next |-> IF b = a THEN <<h, a + 1>> ELSE instr[<<h, b>>].next,
                  prev |-> IF b = a + 1 THEN <<h, a>> ELSE instr[<<h, b>>].prev,
                  st_entry |-> instr[<<h, b>>].st_entry, jump |-> instr[<<h, b>>].jump]
    <3>1. <<h, b>> \in DOMAIN instr
      BY <1>3 DEF CopyOK
    <3>2. (<<h, b>> = <<h, a>> <=> b = a) /\ (<<h, b>> = new <=> b = a + 1)
      BY <1>9
    <3> QED
      BY <1>9, <1>12, <3>1, <3>2
  <2>2. PICK N, N2, J, E : /\ N = NextOpen(stack) /\ N2 = NextOpen(Tail(stack))
                           /\ J = JumpOpen(stack) /\ E = EntriesMet
    OBVIOUS
  <2>3. CopyOK(p, h, W, V, N, J, {}, E, instr, label) /\ N2 = N \ {a}
    BY <1>3, <1>14, <2>2
  <2>4. Linked(h, W, a, instr, heap)
    BY <1>12, <2>1 DEF Linked
  <2>5. CopyOK(p, h, W, V, N2, J, {}, E, heap, label)
    BY <1>3, <1>7, <1>8, <2>3, <2>4, JoinInstr
  <2> QED
    BY <2>2, <2>5
<1>16. FlowOK(p, h, W, V, NextOpen(Tail(stack)), JumpOpen(stack), EntriesMet)
  BY <1>3, <1>8, <1>14 DEF FlowOK
<1>17. /\ UNCHANGED <<program, ip, pc, ids, id, ip_rest, unique_id, visited, visited_instrs>>
       /\ label' = HookLabel(Top.next, visited_instrs[Top.next])
       /\ Return(Top.new, Link(Hook(instr, Top.next, visited_instrs[Top.next]),
                               visited_instrs[Top.next]), Tail(stack))
  BY DEF ChainJoins
<1>18. label' = label /\ Return(Top.new, heap, Tail(stack))
  BY <1>2, <1>8, <1>9, <1>10, <1>11, <1>17
<1> QED
  BY <1>2, <1>3, <1>5, <1>12, <1>13, <1>15, <1>16, <1>17, <1>18, ReturnStep

(* A field of a new cell can be set when the cell is made. *)
SetsWhatItPuts(f, k, v, e) ==
  [Put(f, k, v) EXCEPT ![k].st_entry = e] = Put(f, k, [v EXCEPT !.st_entry = e])

LEMMA PutThenSet ==
  ASSUME NEW f, NEW k, NEW v, NEW e
  PROVE  SetsWhatItPuts(f, k, v, e)
<1>1. PICK g : g = Put(f, k, v)
  OBVIOUS
<1>2. g[k] = v /\ k \in DOMAIN g /\ DOMAIN g = DOMAIN f \cup {k}
      /\ \A x \in DOMAIN g : x # k => g[x] = f[x]
  BY <1>1 DEF Put
<1>3. PICK w : w = [v EXCEPT !.st_entry = e]
  OBVIOUS
<1>4. [g EXCEPT ![k].st_entry = e] = [x \in DOMAIN g |-> IF x = k THEN w ELSE g[x]]
  BY <1>2, <1>3
<1>5. \A x \in DOMAIN g : (IF x = k THEN w ELSE g[x]) = (IF x = k THEN w ELSE f[x])
  BY <1>2
<1>6. [g EXCEPT ![k].st_entry = e] = [x \in DOMAIN f \cup {k} |-> IF x = k THEN w ELSE f[x]]
  BY <1>2, <1>4, <1>5
<1> QED
  BY <1>1, <1>3, <1>6 DEF Put, SetsWhatItPuts

(* The instruction c that the activation t is about to copy.               *)
Arrives(p, h, W, V, t, c, B) ==
  /\ t.next = <<0, c>> /\ c \in ReachIn(p, h) /\ c \in Nat \ {0} /\ c \notin W
  /\ t.old[2] \in V /\ t.old = <<0, t.old[2]>> /\ t.new = <<h, t.old[2]>> /\ t.old[2] <= c
  /\ \/ t.instr = NULL /\ c = t.old[2] /\ B = {} /\ t.prev = NULL
     \/ /\ t.instr # NULL /\ c # t.old[2] /\ B = {c - 1} /\ t.prev = <<h, c - 1>>
        /\ c \notin V /\ c - 1 \in W /\ FallsThrough(p, c - 1)
  /\ B = TopNext(t) /\ V \subseteq W \cup {c}

LEMMA ArrivesFacts ==
  ASSUME AtNext, Top.next # NULL, ~Copied(Top.next)
  PROVE  Arrives(program, id, CopiedCode, CopiedLabels, Top, Top.next[2], TopNext(Top))
<1>2. PICK h, p, W, V, t : /\ h = id /\ p = program /\ W = CopiedCode /\ V = CopiedLabels
                           /\ t = Top
  OBVIOUS
<1>3. /\ Copying /\ FrameIs(p, h, W, V, t) /\ StackOK(p, h, W, V, stack) /\ Parts(h, stack)
      /\ W \subseteq Nat /\ V \subseteq Nat /\ t = Head(stack)
      /\ t.instr # NULL => V \subseteq W /\ t.old[2] <= t.instr[2]
  BY <1>2 DEF AtNext
<1>4. DOMAIN visited_instrs = {0} \X W
      /\ W \subseteq ReachIn(p, h) /\ V \subseteq LabelsAt(p, h) /\ IsProgram(p)
      /\ h \in DOMAIN p.headers
  BY <1>2, <1>3 DEF Copying
<1>5. /\ ReachIn(p, h) \subseteq Nat \ {0} /\ LabelsAt(p, h) \subseteq ReachIn(p, h)
      /\ \A a \in ReachIn(p, h) : FallsThrough(p, a) => a + 1 \in ReachIn(p, h)
  BY <1>4, CodeAt
<1>6. t.next \notin {0} \X W /\ t.next # NULL
  BY <1>2, <1>4 DEF Copied
<1>7. V \subseteq W \cup FreshTop(t)
  BY <1>3 DEF StackOK, Parts
<1>8. PICK l : l = t.old[2]
  OBVIOUS
<1>9. l \in V /\ l \in Nat /\ t.old = <<0, l>> /\ t.new = <<h, l>>
  BY <1>3, <1>8 DEF FrameIs
<1>10. CASE t.instr = NULL
  <2>1. t.next = <<0, l>> /\ t.prev = NULL
    BY <1>3, <1>9, <1>10 DEF FrameIs
  <2>2. t.next[2] = l /\ TopNext(t) = {} /\ FreshTop(t) = {l}
    BY <1>8, <1>10, <2>1 DEF TopNext, FreshTop
  <2>3. l \notin W
    BY <1>6, <2>1
  <2>4. l \in ReachIn(p, h) /\ l \in Nat \ {0}
    BY <1>4, <1>5, <1>9
  <2>5. Arrives(p, h, W, V, t, l, {})
    BY <1>7, <1>8, <1>9, <1>10, <2>1, <2>2, <2>3, <2>4 DEF Arrives
  <2> QED
    BY <1>2, <2>2, <2>5
<1>11. CASE t.instr # NULL
  <2>1. PICK b : b = t.instr[2]
    OBVIOUS
  <2>2. /\ b \in W /\ t.prev = <<h, b>> /\ FallsThrough(p, b) /\ t.next = <<0, b + 1>>
        /\ b \in Nat
    BY <1>3, <1>6, <1>11, <2>1 DEF FrameIs
  <2>3. PICK c : c = b + 1
    OBVIOUS
  <2>4. t.next = <<0, c>> /\ t.next[2] = c /\ c \in Nat \ {0} /\ c - 1 = b /\ b <= c
    BY <2>2, <2>3
  <2>5. TopNext(t) = {b} /\ FreshTop(t) = {}
    BY <1>6, <1>11, <2>1 DEF TopNext, FreshTop
  <2>6. c \notin W
    BY <1>6, <2>4
  <2>7. V \subseteq W /\ l <= b
    BY <1>3, <1>8, <1>11, <2>1
  <2>8. c \in ReachIn(p, h)
    BY <1>4, <1>5, <2>2, <2>3
  <2>9. l # c /\ l <= c
    BY <1>9, <2>2, <2>3, <2>7
  <2>10. c \notin V /\ V \subseteq W \cup {c}
    BY <2>6, <2>7
  <2>11. Arrives(p, h, W, V, t, c, {b})
    BY <1>8, <1>9, <1>11, <2>2, <2>4, <2>5, <2>6, <2>8, <2>9, <2>10 DEF Arrives
  <2> QED
    BY <1>2, <2>4, <2>5, <2>11
<1> QED
  BY <1>10, <1>11

(* How the heap changes. *)
LEMMA CopyInstrHeap ==
  ASSUME SeparateInv, CopyInstr, AtNext, NEW p, p = program, NEW h, h = id, NEW W, W = CopiedCode,
         NEW V, V = CopiedLabels, NEW c, NEW B, Arrives(p, h, W, V, Top, c, B)
  PROVE  /\ Added(h, W, V, c, B, instr, instr') /\ Hooked(h, V, c, label, label')
         /\ \A x \in DOMAIN instr : x[1] # h => instr'[x] = instr[x]
         /\ \A x \in DOMAIN label : label'[x].id = label[x].id
                                    /\ (x[1] # h => label'[x] = label[x])
<1>0. PICK t : t = Top
  OBVIOUS
<1>1. /\ t.next = <<0, c>> /\ c \in ReachIn(p, h) /\ c \in Nat \ {0} /\ c \notin W
      /\ t.old[2] \in V /\ t.old = <<0, t.old[2]>> /\ t.new = <<h, t.old[2]>>
      /\ \/ t.instr = NULL /\ c = t.old[2] /\ B = {} /\ t.prev = NULL
         \/ /\ t.instr # NULL /\ c # t.old[2] /\ B = {c - 1} /\ t.prev = <<h, c - 1>>
            /\ c \notin V /\ c - 1 \in W
  BY <1>0 DEF Arrives
<1>2. /\ pc = "copy" /\ Copying /\ W \subseteq Nat /\ V \subseteq Nat /\ h \in Nat
      /\ V \subseteq LabelsAt(p, h)
  BY DEF AtNext, Copying
<1>3. PICK l : l = t.old[2]
  OBVIOUS
<1>4. /\ ip.instr[<<0, c>>].op = <<0, c>>
      /\ ip.instr[<<0, c>>].st_entry = IF c \in LabelsOf(p) THEN <<0, c>> ELSE NULL
      /\ LabelsAt(p, h) \subseteq LabelsOf(p) /\ NULL \notin {0} \X Nat
  BY <1>1, <1>2, OldInstr
<1>5. ip.instr[t.next].st_entry = t.old <=> c \in V
  <2>1. t.old = <<0, l>> /\ l \in V /\ l \in Nat
    BY <1>1, <1>2, <1>3
  <2>2. CASE c = l
    BY <1>1, <1>2, <1>4, <2>1, <2>2
  <2>3. CASE c # l
    <3>1. <<0, l>> # <<0, c>> /\ <<0, l>> # NULL /\ c \notin V
      BY <1>1, <1>3, <1>4, <2>1, <2>3
    <3> QED
      BY <1>1, <1>4, <2>1, <3>1
  <2> QED
    BY <2>2, <2>3
<1>6. c \in V <=> c = l
  BY <1>1, <1>3
<1>7. PICK new, made, made2 :
        /\ new = <<h, c>>
        /\ made = [op |-> <<0, c>>, next |-> NULL, prev |-> NULL, st_entry |-> NULL, jump |-> NULL]
        /\ made2 = [op |-> <<0, c>>, next |-> NULL, prev |-> NULL,
                    st_entry |-> IF c \in V THEN <<h, c>> ELSE NULL, jump |-> NULL]
  OBVIOUS
<1>8. /\ label' = HookLabel(t.next, new)
      /\ instr' = Link(Hook(Put(instr, new, made), t.next, new), new)
  <2>1. Copy(t.next) = new
    BY <1>1, <1>7 DEF Copy
  <2> QED
    BY <1>0, <1>1, <1>4, <1>7, <2>1 DEF CopyInstr
<1>9. PICK heap : heap = Put(instr, new, made2)
  OBVIOUS
<1>10. Hook(Put(instr, new, made), t.next, new) = heap
  <2>1. CASE c \in V
    <3>1. Hook(Put(instr, new, made), t.next, new) = [Put(instr, new, made) EXCEPT ![new].st_entry = <<h, c>>]
      BY <1>0, <1>1, <1>3, <1>5, <1>6, <2>1 DEF Hook
    <3>2. [made EXCEPT !.st_entry = <<h, c>>] = made2
      BY <1>7, <2>1
    <3>3. SetsWhatItPuts(instr, new, made, <<h, c>>)
      BY PutThenSet
    <3>4. [Put(instr, new, made) EXCEPT ![new].st_entry = <<h, c>>]
            = Put(instr, new, [made EXCEPT !.st_entry = <<h, c>>])
      BY <3>3 DEF SetsWhatItPuts
    <3> QED
      BY <1>9, <3>1, <3>2, <3>4
  <2>2. CASE c \notin V
    BY <1>0, <1>5, <1>7, <1>9, <2>2 DEF Hook
  <2> QED
    BY <2>1, <2>2
<1>11. /\ DOMAIN heap = DOMAIN instr \cup {new} /\ heap[new] = made2
       /\ \A x \in DOMAIN instr : x # new => heap[x] = instr[x]
  BY <1>9 DEF Put
<1>12. (\A x \in DOMAIN instr : InstrForm(instr[x])) /\ (\A x \in DOMAIN label : LabelForm(label[x]))
  BY <1>2, HeapForm
<1>13. InstrForm(made2)
  BY <1>7 DEF InstrForm
<1>14. \A x \in DOMAIN heap : InstrForm(heap[x])
  BY <1>11, <1>12, <1>13
<1>15. /\ DOMAIN instr' = DOMAIN heap
       /\ \A x \in DOMAIN heap :
            /\ instr'[x] =
                 [op |-> heap[x].op, next |-> IF x = t.prev THEN new ELSE heap[x].next,
                  prev |-> IF x = new THEN t.prev ELSE heap[x].prev,
                  st_entry |-> heap[x].st_entry, jump |-> heap[x].jump]
            /\ x # new /\ x # t.prev => instr'[x] = heap[x]
  <2>1. instr' = Link(heap, new)
    BY <1>8, <1>10
  <2> QED
    BY <1>0, <1>14, <2>1, LinkFacts
<1>16. /\ new # t.prev /\ (IF B = {} THEN NULL ELSE <<h, c - 1>>) = t.prev
       /\ \A b \in W : <<h, b>> # new /\ (<<h, b>> = t.prev <=> b \in B)
       /\ \A x : x[1] # h => (x # new /\ x # t.prev) \/ x \notin DOMAIN instr
  <2>1. NULL \notin Nat \X Nat
    BY NullAssumption
  <2>2. \A b \in W : <<h, b>> # new
    BY <1>1, <1>7
  <2>3. new \in Nat \X Nat
    BY <1>1, <1>2, <1>7
  <2>4. CASE t.instr = NULL
    <3>1. B = {} /\ t.prev = NULL
      BY <1>1, <2>4
    <3>2. \A b \in W : <<h, b>> # NULL
      BY <1>2, <2>1
    <3>3. NULL \notin DOMAIN instr
      BY <1>2, <2>1, HeapForm
    <3>4. \A x : x[1] # h => x # new
      BY <1>7
    <3> QED
      BY <2>1, <2>2, <2>3, <3>1, <3>2, <3>3, <3>4
  <2>5. CASE t.instr # NULL
    <3>1. B = {c - 1} /\ t.prev = <<h, c - 1>>
      BY <1>1, <2>5
    <3>2. new # <<h, c - 1>>
      <4>1. c # c - 1
        BY <1>1
      <4> QED
        BY <1>7, <4>1
    <3>3. \A b \in W : <<h, b>> = <<h, c - 1>> <=> b = c - 1
      OBVIOUS
    <3>4. \A x : x[1] # h => x # new /\ x # <<h, c - 1>>
      BY <1>7
    <3> QED
      BY <2>2, <3>1, <3>2, <3>3, <3>4
  <2> QED
    BY <2>4, <2>5
<1>17. Added(h, W, V, c, B, instr, instr')
  <2>1. instr'[new] = [op |-> <<0, c>>, next |-> NULL, prev |-> IF B = {} THEN NULL ELSE <<h, c - 1>>,
                       st_entry |-> IF c \in V THEN <<h, c>> ELSE NULL, jump |-> NULL]
    <3>1. /\ made2.op = <<0, c>> /\ made2.next = NULL /\ made2.jump = NULL
          /\ made2.st_entry = IF c \in V THEN <<h, c>> ELSE NULL
      BY <1>7
    <3>2. new \in DOMAIN heap /\ heap[new] = made2
      BY <1>11
    <3>3. instr'[new] = [op |-> made2.op, next |-> made2.next, prev |-> t.prev,
                         st_entry |-> made2.st_entry, jump |-> made2.jump]
      BY <1>15, <1>16, <3>2
    <3> QED
      BY <1>16, <3>1, <3>3
  <2>2. ASSUME NEW b \in W
        PROVE  instr'[<<h, b>>] =
                 [op |-> instr[<<h, b>>].op,
                  next |-> IF b \in B THEN <<h, c>> ELSE instr[<<h, b>>].next,
                  prev |-> instr[<<h, b>>].prev, st_entry |-> instr[<<h, b>>].st_entry,
                  jump |-> instr[<<h, b>>].jump]
    <3>1. <<h, b>> \in DOMAIN instr
      BY DEF AtNext, CopyOK
    <3>2. PICK x : x = <<h, b>>
      OBVIOUS
    <3>3. x # new /\ (x = t.prev <=> b \in B) /\ x \in DOMAIN heap /\ heap[x] = instr[x]
      BY <1>11, <1>16, <3>1, <3>2
    <3>4. instr'[x] = [op |-> instr[x].op, next |-> IF b \in B THEN new ELSE instr[x].next,
                       prev |-> instr[x].prev, st_entry |-> instr[x].st_entry,
                       jump |-> instr[x].jump]
      BY <1>15, <3>3
    <3> QED
      BY <1>7, <3>2, <3>4
  <2> QED
    BY <1>7, <1>11, <1>15, <2>1, <2>2 DEF Added
<1>18. \A x \in DOMAIN instr : x[1] # h => instr'[x] = instr[x]
  BY <1>11, <1>15, <1>16
<1>19. /\ Hooked(h, V, c, label, label')
       /\ \A x \in DOMAIN label : label'[x].id = label[x].id
                                  /\ (x[1] # h => label'[x] = label[x])
  <2>1. CASE c \in V
    <3>1. label' = [label EXCEPT ![<<h, c>>].bc = <<h, c>>]
      BY <1>0, <1>1, <1>3, <1>5, <1>6, <1>7, <1>8, <2>1 DEF HookLabel
    <3>2. DOMAIN label' = DOMAIN label /\ \A x \in DOMAIN label : x # <<h, c>> => label'[x] = label[x]
      BY <3>1
    <3>3. <<h, c>> \in DOMAIN label
      BY <2>1 DEF AtNext, CopyOK
    <3>4. PICK y, z : y = label[<<h, c>>] /\ z = label'[<<h, c>>]
      OBVIOUS
    <3>5. z = [y EXCEPT !.bc = <<h, c>>]
      BY <3>1, <3>3, <3>4
    <3>6. y = [id |-> y.id, bc |-> y.bc, anims |-> y.anims, jumps |-> y.jumps]
      BY <1>12, <3>3, <3>4 DEF LabelForm
    <3>7. z = [id |-> y.id, bc |-> <<h, c>>, anims |-> y.anims, jumps |-> y.jumps]
      BY <3>5, <3>6
    <3>8. ASSUME NEW m \in V
          PROVE  label'[<<h, m>>] =
                   [id |-> label[<<h, m>>].id, bc |-> IF m = c THEN <<h, c>> ELSE label[<<h, m>>].bc,
                    anims |-> label[<<h, m>>].anims, jumps |-> label[<<h, m>>].jumps]
      <4>1. CASE m = c
        BY <3>4, <3>7, <4>1
      <4>2. CASE m # c
        <5>1. <<h, m>> \in DOMAIN label /\ <<h, m>> # <<h, c>>
          BY <4>2 DEF AtNext, CopyOK
        <5> QED
          BY <1>12, <3>2, <4>2, <5>1 DEF LabelForm
      <4> QED
        BY <4>1, <4>2
    <3>9. z.id = y.id
      BY <3>7
    <3>10. Hooked(h, V, c, label, label')
      BY <3>2, <3>8 DEF Hooked
    <3>11. ASSUME NEW x \in DOMAIN label
           PROVE  label'[x].id = label[x].id /\ (x[1] # h => label'[x] = label[x])
      <4>1. CASE x = <<h, c>>
        BY <3>4, <3>9, <4>1
      <4>2. CASE x # <<h, c>>
        BY <3>2, <4>2
      <4> QED
        BY <4>1, <4>2
    <3> QED
      BY <3>10, <3>11
  <2>2. CASE c \notin V
    <3>1. label' = label
      BY <1>0, <1>5, <1>8, <2>2 DEF HookLabel
    <3>2. ASSUME NEW m \in V
          PROVE  label'[<<h, m>>] =
                   [id |-> label[<<h, m>>].id, bc |-> IF m = c THEN <<h, c>> ELSE label[<<h, m>>].bc,
                    anims |-> label[<<h, m>>].anims, jumps |-> label[<<h, m>>].jumps]
      <4>1. m # c
        BY <2>2
      <4>2. <<h, m>> \in DOMAIN label
        BY DEF AtNext, CopyOK
      <4> QED
        BY <1>12, <3>1, <4>1, <4>2 DEF LabelForm
    <3> QED
      BY <3>1, <3>2 DEF Hooked
  <2> QED
    BY <2>1, <2>2
<1> QED
  BY <1>17, <1>18, <1>19

LEMMA CopyInstrStep ==
  ASSUME SeparateInv, CopyInstr
  PROVE  SeparateInv'
<1>1. AtNext /\ Top.next # NULL /\ ~Copied(Top.next) /\ At("next")
  BY AtNextFacts DEF CopyInstr
<1>2. PICK h, p, W, V, t, r : /\ h = id /\ p = program /\ W = CopiedCode /\ V = CopiedLabels
                              /\ t = Top /\ r = Tail(stack)
  OBVIOUS
<1>3. PICK c, B : c = t.next[2] /\ B = TopNext(t)
  OBVIOUS
<1>4. Arrives(p, h, W, V, t, c, B)
  BY <1>1, <1>2, <1>3, ArrivesFacts
<1>5. /\ Added(h, W, V, c, B, instr, instr') /\ Hooked(h, V, c, label, label')
      /\ \A x \in DOMAIN instr : x[1] # h => instr'[x] = instr[x]
      /\ \A x \in DOMAIN label : label'[x].id = label[x].id
                                 /\ (x[1] # h => label'[x] = label[x])
  BY <1>1, <1>2, <1>4, CopyInstrHeap
<1>6. /\ Copying /\ pc = "copy" /\ stack # <<>> /\ t = Head(stack) /\ t.at = "next"
      /\ StackOK(p, h, W, V, stack) /\ Calls(p, h, W, V, stack)
      /\ Parts(h, stack) /\ FrameIs(p, h, W, V, t)
      /\ CopyOK(p, h, W, V, NextOpen(stack), JumpOpen(stack), {}, EntriesMet, instr, label)
      /\ FlowOK(p, h, W, V, NextOpen(stack), JumpOpen(stack), EntriesMet)
      /\ W \subseteq Nat /\ V \subseteq Nat
  BY <1>1, <1>2 DEF AtNext
<1>7. /\ t.next = <<0, c>> /\ c \in ReachIn(p, h) /\ c \in Nat \ {0} /\ c \notin W
      /\ t.old[2] \in V /\ t.old[2] <= c /\ V \subseteq W \cup {c}
      /\ B \subseteq {c - 1} /\ \A b \in B : b \in W /\ FallsThrough(p, b)
  BY <1>4 DEF Arrives
<1>8. /\ ip.instr[<<0, c>>].next = IF FallsThrough(p, c) THEN <<0, c + 1>> ELSE NULL
      /\ ip.instr[<<0, c>>].jump # NULL <=> Jumps(p, c)
  BY <1>2, <1>6, <1>7, OldInstr
<1>9. PICK at, W2 : at = (IF Jumps(p, c) THEN "jump" ELSE "next") /\ W2 = W \cup {c}
  OBVIOUS
<1>10. stack' = <<Walking(p, h, t.old[2], c, at)>> \o r
  <2>1. stack' = <<[t EXCEPT !.next = ip.instr[t.next].next, !.instr = t.next, !.prev = Copy(t.next),
                             !.at = IF ip.instr[t.next].jump = NULL THEN "next" ELSE "jump"]>> \o r
    BY <1>2 DEF CopyInstr
  <2>2. Copy(t.next) = <<h, c>>
    BY <1>2, <1>7 DEF Copy
  <2>3. t = [old |-> t.old, new |-> t.new, next |-> t.next, instr |-> t.instr, prev |-> t.prev,
             at |-> t.at]
    <3>1. t = Fresh(h, t.old[2]) \/ t = Walking(p, h, t.old[2], t.instr[2], t.at)
      BY <1>6 DEF FrameIs
    <3> QED
      BY <3>1 DEF Fresh, Walking
  <2>4. t.old = <<0, t.old[2]>> /\ t.new = <<h, t.old[2]>>
    BY <1>6 DEF FrameIs
  <2>5. [t EXCEPT !.next = ip.instr[t.next].next, !.instr = t.next, !.prev = Copy(t.next),
                  !.at = IF ip.instr[t.next].jump = NULL THEN "next" ELSE "jump"]
          = [old |-> t.old, new |-> t.new, next |-> ip.instr[t.next].next, instr |-> t.next,
             prev |-> Copy(t.next), at |-> IF ip.instr[t.next].jump = NULL THEN "next" ELSE "jump"]
    <3>1. PICK next, i, prev, where :
            /\ next = ip.instr[t.next].next /\ i = t.next /\ prev = Copy(t.next)
            /\ where = IF ip.instr[t.next].jump = NULL THEN "next" ELSE "jump"
      OBVIOUS
    <3>2. PICK o, n, t3, t4, t5, t6 : 
            t = [old |-> o, new |-> n, next |-> t3, instr |-> t4, prev |-> t5, at |-> t6]
      BY <2>3
    <3>3. [t EXCEPT !.next = next, !.instr = i, !.prev = prev, !.at = where]
            = [old |-> o, new |-> n, next |-> next, instr |-> i, prev |-> prev, at |-> where]
      <4>1. PICK u : u = [t EXCEPT !.next = next]
        OBVIOUS
      <4>2. u = [old |-> o, new |-> n, next |-> next, instr |-> t4, prev |-> t5, at |-> t6]
        BY <3>2, <4>1
      <4>3. PICK v : v = [u EXCEPT !.instr = i]
        OBVIOUS
      <4>4. v = [old |-> o, new |-> n, next |-> next, instr |-> i, prev |-> t5, at |-> t6]
        BY <4>2, <4>3
      <4>5. PICK w : w = [v EXCEPT !.prev = prev]
        OBVIOUS
      <4>6. w = [old |-> o, new |-> n, next |-> next, instr |-> i, prev |-> prev, at |-> t6]
        BY <4>4, <4>5
      <4>7. [w EXCEPT !.at = where]
              = [old |-> o, new |-> n, next |-> next, instr |-> i, prev |-> prev, at |-> where]
        BY <4>6
      <4> QED
        BY <4>1, <4>3, <4>5, <4>7, Zenon
    <3>4. t.old = o /\ t.new = n
      BY <3>2
    <3> QED
      BY <3>1, <3>3, <3>4
  <2>6. (IF ip.instr[t.next].jump = NULL THEN "next" ELSE "jump") = at
    BY <1>7, <1>8, <1>9
  <2>7. PICK l : l = t.old[2]
    OBVIOUS
  <2>8. t.old = <<0, l>> /\ t.new = <<h, l>>
    BY <2>4, <2>7
  <2>9. [old |-> t.old, new |-> t.new, next |-> ip.instr[t.next].next, instr |-> t.next,
         prev |-> Copy(t.next), at |-> IF ip.instr[t.next].jump = NULL THEN "next" ELSE "jump"]
          = Walking(p, h, l, c, at)
    BY <1>7, <1>8, <2>2, <2>6, <2>8 DEF Walking
  <2> QED
    BY <2>1, <2>5, <2>7, <2>9
<1>11. Moved(p, h, W2, V, stack, t, r, c, at, stack')
  <2>1. c \notin Called(r)
    <3>1. Calls(p, h, W, V, r)
      BY <1>2, <1>6, CallsTail
    <3>2. Called(r) \subseteq W
      BY <1>6, <3>1, CalledFacts
    <3> QED
      BY <1>7, <3>2
  <2>2. /\ W \subseteq W2 /\ W2 \subseteq Nat /\ V \subseteq W2 /\ c \in W2
        /\ at \in {"next", "jump"} /\ (at = "jump" => Jumps(p, c))
    BY <1>6, <1>7, <1>9
  <2>3. PICK s, s2 : s = stack /\ s2 = stack'
    OBVIOUS
  <2>4. /\ StackOK(p, h, W, V, s) /\ Parts(h, s) /\ s # <<>> /\ t = Head(s) /\ r = Tail(s)
        /\ W \subseteq Nat /\ V \subseteq Nat
        /\ s2 = <<Walking(p, h, t.old[2], c, at)>> \o r
        /\ t.old[2] <= c /\ t.at = "next"
    BY <1>2, <1>6, <1>7, <1>10, <2>3
  <2>5. Moved(p, h, W2, V, s, t, r, c, at, s2)
    BY <2>1, <2>2, <2>4, MoveTop, ZenonT(60)
  <2> QED
    BY <2>3, <2>5
<1>12. PICK N, J, E, N2, J2, C2 :
         /\ N = NextOpen(stack) /\ J = JumpOpen(stack) /\ E = EntriesMet
         /\ N2 = NextOpen(stack') /\ J2 = JumpOpen(stack') /\ C2 = Uncalled(stack')
  OBVIOUS
<1>13. /\ StackOK(p, h, W2, V, stack') /\ Base(stack') = Base(stack) /\ stack' # <<>>
       /\ N2 = (N \ B) \cup {b \in {c} : FallsThrough(p, b)}
       /\ J2 = J \cup {b \in {c} : Jumps(p, b)}
       /\ C2 = {} \cup {b \in {c} : Jumps(p, b)}
  <2>1. TopJump(t) = {}
    BY <1>6 DEF TopJump
  <2>2. {b \in {c} : at = "jump"} = {b \in {c} : Jumps(p, b)}
    BY <1>9
  <2> QED
    BY <1>3, <1>11, <1>12, <2>1, <2>2 DEF Moved
<1>14. N \subseteq W /\ J \subseteq W
  BY <1>6, <1>12, CalledFacts
<1>15. CopyOK(p, h, W2, V, N2, J2, C2, E, instr', label')
  <2>1. CopyOK(p, h, W, V, N, J, {}, E, instr, label) /\ c \in Nat
        /\ c \notin N /\ c \notin J
    BY <1>6, <1>7, <1>12, <1>14
  <2>2. c - 1 \in W /\ FallsThrough(p, c - 1) => c - 1 \in N
    <3>1. ASSUME NEW b, b = c - 1, b \in W, FallsThrough(p, b) PROVE b \in N
      <4>1. b \in N \/ b + 1 \in W
        BY <1>6, <1>12, <3>1 DEF FlowOK
      <4>2. b + 1 = c
        BY <1>7, <3>1
      <4> QED
        BY <1>7, <4>1, <4>2
    <3> QED
      BY <3>1
  <2>3. CopyOK(p, h, W \cup {c}, V, N2, J2, C2, E, instr', label')
    BY <1>5, <1>6, <1>7, <1>13, <2>1, <2>2, AddInstr, ZenonT(60)
  <2> QED
    BY <1>9, <2>3
<1>16. FlowOK(p, h, W2, V, N2, J2, E)
  <2>1. /\ W \subseteq ReachIn(p, h) /\ V \subseteq LabelsAt(p, h) /\ E \subseteq V
        /\ \A a \in W : /\ FallsThrough(p, a) => a \in N \/ a + 1 \in W
                        /\ Jumps(p, a) => a \in J \/ p.instr[a].target \in V
    BY <1>6, <1>12 DEF FlowOK
  <2>2. \A a \in W : FallsThrough(p, a) => a \in N2 \/ a + 1 \in W2
    <3>1. ASSUME NEW a \in W, a \in B PROVE a + 1 \in W2
      <4>1. a = c - 1
        BY <1>7, <3>1
      <4>2. a + 1 = c
        BY <1>7, <4>1
      <4> QED
        BY <1>9, <4>2
    <3> QED
      BY <1>9, <1>13, <2>1, <3>1
  <2>3. /\ FallsThrough(p, c) => c \in N2
        /\ Jumps(p, c) => c \in J2
    BY <1>13
  <2>4. \A a \in W : Jumps(p, a) => a \in J2 \/ p.instr[a].target \in V
    BY <1>13, <2>1
  <2>5. W2 \subseteq ReachIn(p, h)
    BY <1>7, <1>9, <2>1
  <2> QED
    BY <1>9, <2>1, <2>2, <2>3, <2>4, <2>5 DEF FlowOK
<1>17. /\ UNCHANGED <<program, ip, pc, ids, id, ip_rest, st_entries, animno, unique_id, visited>>
       /\ visited_instrs' = Put(visited_instrs, Top.next, Copy(Top.next))
  BY DEF CopyInstr
<1>18. /\ visited_instrs' = [x \in {0} \X W2 |-> <<h, x[2]>>]
       /\ visited' = [x \in {0} \X V |-> <<h, x[2]>>]
  <2>1. /\ visited_instrs = [x \in {0} \X W |-> <<h, x[2]>>]
        /\ visited = [x \in {0} \X V |-> <<h, x[2]>>]
    BY <1>2, <1>6 DEF SeparateInv, VisitedInv
  <2>2. Copy(Top.next) = <<h, c>> /\ Top.next = <<0, c>>
    BY <1>2, <1>7 DEF Copy
  <2>3. Put(visited_instrs, <<0, c>>, <<h, c>>) = [x \in {0} \X (W \cup {c}) |-> <<h, x[2]>>]
    <3>1. PutsCopy(visited_instrs, h, W, c)
      BY <2>1, PutCopy
    <3> QED
      BY <2>1, <3>1 DEF PutsCopy
  <2> QED
    BY <1>9, <1>17, <2>1, <2>2, <2>3
<1>19. /\ DOMAIN instr' = DOMAIN instr \cup ({h} \X W2)
       /\ DOMAIN label' = DOMAIN label \cup ({h} \X V)
  <2>1. /\ {h} \X W \subseteq DOMAIN instr /\ {h} \X V \subseteq DOMAIN label
    BY <1>2, <1>6 DEF SeparateInv, DomainInv
  <2>2. DOMAIN instr' = DOMAIN instr \cup {<<h, c>>} /\ DOMAIN label' = DOMAIN label
    BY <1>5 DEF Added, Hooked
  <2>3. {h} \X W2 = ({h} \X W) \cup {<<h, c>>}
    BY <1>9
  <2> QED
    BY <2>1, <2>2, <2>3
<1>20. /\ animno' \in 1 .. Len(Offsets) + 1
       /\ st_entries' = [i \in 1 .. animno' - 1 |-> EntryCopy(id, Offsets[i])]
       /\ animno' \in DOMAIN Offsets /\ Offsets[animno'] # 0
       /\ Base(stack') = <<0, Offsets[animno']>> /\ E = Met(Offsets, animno', stack' # <<>>)
  <2>1. (stack' # <<>>) = TRUE /\ (stack # <<>>) = TRUE
    BY <1>6, <1>13
  <2> QED
    BY <1>6, <1>12, <1>13, <1>17, <2>1 DEF SeparateInv, EntriesInv, StackInv, EntriesMet
<1>21. W2 \subseteq ReachIn(p, h) /\ V \subseteq LabelsAt(p, h) /\ W \subseteq W2
  BY <1>9, <1>16 DEF FlowOK
<1>22. CopyOK(p, h, W2, V, NextOpen(stack'), JumpOpen(stack'), Uncalled(stack'), E, instr', label')
       /\ FlowOK(p, h, W2, V, NextOpen(stack'), JumpOpen(stack'), E)
  BY <1>12, <1>15, <1>16
<1> QED
  BY <1>2, <1>5, <1>6, <1>13, <1>17, <1>18, <1>19, <1>20, <1>21, <1>22, CopyStep

-----------------------------------------------------------------------------
(* The calls of __iscript_copy_symtblent. *)

LEMMA OldLabel ==
  ASSUME SeparateInv, pc = "copy", NEW l \in LabelsAt(program, id)
  PROVE  ip.label[<<0, l>>].bc = <<0, l>> /\ l \in ReachIn(program, id) /\ l \in Nat \ {0}
<1>1. IsProgram(program) /\ id \in DOMAIN program.headers
  BY InCopy DEF Copying
<1>2. /\ LabelsAt(program, id) \subseteq LabelsOf(program)
      /\ LabelsAt(program, id) \subseteq ReachIn(program, id)
      /\ ReachIn(program, id) \subseteq Nat \ {0}
  BY <1>1, CodeAt
<1>3. LabelsIn(program, 0, ip.label)
  <2>1. ip = LoadedGraph(program, 0)
    BY DEF SeparateInv, ControlInv
  <2> QED
    BY <2>1, LoadedParts
<1> QED
  BY <1>2, <1>3 DEF LabelsIn

(* Label l is copied for a caller with the activations F: none, if it is   *)
(* an animation of the header, or those whose first is at a jump to l.     *)
CallSite(l, F) ==
  /\ l \in LabelsAt(program, id) /\ CopiedLabels \subseteq CopiedCode
  /\ Calls(program, id, CopiedCode, CopiedLabels, F)
  /\ NextOpen(F) = NextOpen(stack) /\ Called(F) = JumpOpen(stack)
  /\ Uncalled(F) = {} /\ FreshAt(id, F) = {}
  /\ animno \in DOMAIN Offsets /\ Offsets[animno] # 0
  /\ F = <<>> => Offsets[animno] = l
  /\ F # <<>> => /\ Base(F) = <<0, Offsets[animno]>>
                 /\ CalledBy(program, Fresh(id, l), Head(F))
                 /\ Head(F).instr[2] \in CopiedCode /\ Head(F).prev = <<id, Head(F).instr[2]>>
                 /\ JumpOpen(F) = JumpOpen(stack) \ {Head(F).instr[2]}

(* What a call has done to the labels, when V is what has a copy now.      *)
LabelsKept(V) ==
  /\ V \subseteq LabelsAt(program, id) /\ CopiedLabels \subseteq V
  /\ visited' = [x \in {0} \X V |-> <<id, x[2]>>]
  /\ DOMAIN label' = DOMAIN label \cup ({id} \X V)
  /\ \A x \in DOMAIN label : x[1] # id => label'[x] = label[x]
  /\ \A x \in DOMAIN label : label'[x].id = label[x].id
  /\ \/ V = CopiedLabels /\ unique_id' = unique_id
     \/ \E l \in Nat \ CopiedLabels : /\ V = CopiedLabels \cup {l}
                                      /\ unique_id' = unique_id + 1
                                      /\ label'[<<id, l>>].id = unique_id

LEMMA CallReturns ==
  ASSUME SeparateInv, pc = "copy", UNCHANGED <<program, ip, pc, ids, id, ip_rest, visited_instrs>>,
         NEW l, NEW F, CallSite(l, F), NEW V, LabelsKept(V), V \subseteq CopiedCode, l \in V,
         NEW heap, DOMAIN heap = DOMAIN instr, \A x \in DOMAIN instr : x[1] # id => heap[x] = instr[x],
         NEW E, E = Met(Offsets, animno, TRUE),
         CopyOK(program, id, CopiedCode, V, NextOpen(stack), JumpOpen(stack), {}, E, heap, label'),
         FlowOK(program, id, CopiedCode, V, NextOpen(stack), JumpOpen(stack), E),
         Return(<<id, l>>, heap, F)
  PROVE  SeparateInv'
<1>0. Copying /\ EntriesInv
  BY InCopy DEF SeparateInv
<1>1. PICK h, p, W, U, N, J : /\ h = id /\ p = program /\ W = CopiedCode /\ U = CopiedLabels
                              /\ N = NextOpen(stack) /\ J = JumpOpen(stack)
  OBVIOUS
<1>2. /\ CopyOK(p, h, W, V, N, J, {}, E, heap, label') /\ FlowOK(p, h, W, V, N, J, E)
      /\ l \in LabelsAt(p, h) /\ Calls(p, h, W, U, F)
      /\ NextOpen(F) = N /\ Called(F) = J /\ Uncalled(F) = {} /\ FreshAt(h, F) = {}
      /\ animno \in DOMAIN Offsets /\ Offsets[animno] # 0
      /\ W \subseteq ReachIn(p, h) /\ V \subseteq LabelsAt(p, h) /\ U \subseteq V /\ V \subseteq W
  BY <1>0, <1>1 DEF CallSite, LabelsKept, Copying
<1>3. DOMAIN instr = DOMAIN instr \cup ({h} \X W)
  BY <1>1 DEF SeparateInv, DomainInv
<1>4. visited_instrs' = [x \in {0} \X W |-> <<h, x[2]>>]
  BY <1>1 DEF SeparateInv, VisitedInv
<1>5. StackOK(p, h, W, V, F)
  <2>1. Calls(p, h, W, V, F)
    BY <1>2, CallsGrow
  <2> QED
    BY <1>2, <2>1 DEF StackOK
<1>6. /\ visited' = [x \in {0} \X V |-> <<h, x[2]>>]
      /\ DOMAIN label' = DOMAIN label \cup ({h} \X V)
      /\ \A x \in DOMAIN label : x[1] # h => label'[x] = label[x]
      /\ \A x \in DOMAIN label : label'[x].id = label[x].id
      /\ \/ V = U /\ unique_id' = unique_id
         \/ \E m \in Nat \ U : /\ V = U \cup {m} /\ unique_id' = unique_id + 1
                               /\ label'[<<h, m>>].id = unique_id
  BY <1>1 DEF LabelsKept
<1>7. CASE F = <<>>
  <2>1. /\ stack' = <<>> /\ st_entries' = Append(st_entries, <<h, l>>) /\ animno' = animno + 1
        /\ instr' = heap
    BY <1>1, <1>7 DEF Return
  <2>2. <<h, l>> = EntryCopy(id, Offsets[animno])
    BY <1>1, <1>2, <1>7 DEF EntryCopy, CallSite
  <2>3. /\ animno' \in 1 .. Len(Offsets) + 1
        /\ st_entries' = [i \in 1 .. animno' - 1 |-> EntryCopy(id, Offsets[i])]
    BY <1>0, <1>2, <2>1, <2>2, EntryDone
  <2>4. E = Met(Offsets, animno', stack' # <<>>)
    <3>1. Len(Offsets) \in Nat /\ DOMAIN Offsets = 1 .. Len(Offsets) /\ animno \in 1 .. Len(Offsets)
      BY <1>0, <1>2 DEF Copying
    <3>2. Met(Offsets, animno + 1, FALSE) = Met(Offsets, animno, TRUE)
      BY <3>1, MetFacts
    <3>3. (stack' # <<>>) = FALSE
      BY <2>1
    <3> QED
      BY <2>1, <3>2, <3>3
  <2>5. NextOpen(stack') = N /\ JumpOpen(stack') = J /\ Uncalled(stack') = {}
    BY <1>2, <1>7, <2>1, EmptyStack
  <2>6. /\ CopyOK(p, h, W, V, NextOpen(stack'), JumpOpen(stack'), Uncalled(stack'), E, instr', label')
        /\ FlowOK(p, h, W, V, NextOpen(stack'), JumpOpen(stack'), E)
        /\ StackOK(p, h, W, V, stack')
    BY <1>2, <1>5, <1>7, <2>1, <2>5
  <2>7. /\ DOMAIN instr' = DOMAIN instr \cup ({h} \X W)
        /\ \A x \in DOMAIN instr : x[1] # id => instr'[x] = instr[x]
    BY <1>3, <2>1
  <2> QED
    BY <1>1, <1>2, <1>4, <1>6, <2>1, <2>3, <2>4, <2>6, <2>7, CopyStep, ZenonT(60)
<1>8. CASE F # <<>>
  <2>1. PICK c : c = Head(F).instr[2]
    OBVIOUS
  <2>2. /\ Base(F) = <<0, Offsets[animno]>> /\ CalledBy(p, Fresh(h, l), Head(F))
        /\ c \in W /\ Head(F).prev = <<h, c>> /\ JumpOpen(F) = J \ {c}
    BY <1>1, <1>8, <2>1 DEF CallSite
  <2>3. Jumps(p, c) /\ l = p.instr[c].target
    <3>1. Fresh(h, l).old = <<0, l>>
      BY FreshFields
    <3> QED
      BY <2>1, <2>2, <3>1 DEF CalledBy
  <2>4. /\ stack' = F /\ UNCHANGED <<st_entries, animno>>
        /\ instr' = [heap EXCEPT ![<<h, c>>].jump = <<h, p.instr[c].target>>]
    BY <1>1, <1>8, <2>2, <2>3 DEF Return
  <2>5. PICK J2 : J2 = JumpOpen(F)
    OBVIOUS
  <2>6. CopyOK(p, h, W, V, N, J2, {}, E, instr', label')
    <3>1. PICK ins2, lab : ins2 = instr' /\ lab = label'
      OBVIOUS
    <3>2. /\ ins2 = [heap EXCEPT ![<<h, c>>].jump = <<h, p.instr[c].target>>]
          /\ CopyOK(p, h, W, V, N, J, {}, E, heap, lab) /\ J2 = J \ {c}
      BY <1>2, <2>2, <2>4, <2>5, <3>1
    <3>3. CopyOK(p, h, W, V, N, J2, {}, E, ins2, lab)
      BY <2>2, <2>3, <3>2, SetJump
    <3> QED
      BY <3>1, <3>3
  <2>7. FlowOK(p, h, W, V, N, J2, E)
    <3>1. J2 = J \ {c} /\ p.instr[c].target \in V
      BY <2>2, <2>3, <2>5
    <3> QED
      BY <1>2, <3>1 DEF FlowOK
  <2>8. E = Met(Offsets, animno', stack' # <<>>)
    <3>1. (stack' # <<>>) = TRUE
      BY <1>8, <2>4
    <3> QED
      BY <2>4, <3>1
  <2>9. /\ CopyOK(p, h, W, V, NextOpen(stack'), JumpOpen(stack'), Uncalled(stack'), E, instr', label')
        /\ FlowOK(p, h, W, V, NextOpen(stack'), JumpOpen(stack'), E)
        /\ StackOK(p, h, W, V, stack') /\ Base(stack') = <<0, Offsets[animno']>>
    BY <1>2, <1>5, <2>2, <2>4, <2>5, <2>6, <2>7
  <2>10. DOMAIN instr' = DOMAIN heap /\ \A x \in DOMAIN heap : x[1] # h => instr'[x] = heap[x]
    <3>1. \A x : x[1] # h => x # <<h, c>>
      OBVIOUS
    <3> QED
      BY <2>4, <3>1
  <2>11. /\ DOMAIN instr' = DOMAIN instr \cup ({h} \X W)
         /\ \A x \in DOMAIN instr : x[1] # h => instr'[x] = instr[x]
    BY <1>1, <1>3, <2>10
  <2>12. /\ animno' \in 1 .. Len(Offsets) + 1
         /\ st_entries' = [i \in 1 .. animno' - 1 |-> EntryCopy(id, Offsets[i])]
         /\ animno' \in DOMAIN Offsets /\ Offsets[animno'] # 0
    BY <1>0, <1>2, <2>4 DEF EntriesInv
  <2> QED
    BY <1>1, <1>2, <1>4, <1>6, <2>8, <2>9, <2>11, <2>12, CopyStep, ZenonT(60)
<1> QED
  BY <1>7, <1>8

LEMMA CallPushes ==
  ASSUME SeparateInv, pc = "copy", UNCHANGED <<program, ip, pc, ids, id, ip_rest, visited_instrs>>,
         NEW l, NEW F, CallSite(l, F), l \notin CopiedCode,
         NEW V, V = CopiedLabels \cup {l}, LabelsKept(V),
         UNCHANGED <<instr, st_entries, animno>>, stack' = <<Fresh(id, l)>> \o F,
         NEW E, E = Met(Offsets, animno, TRUE),
         CopyOK(program, id, CopiedCode, V, NextOpen(stack), JumpOpen(stack), {}, E, instr, label'),
         FlowOK(program, id, CopiedCode, V, NextOpen(stack), JumpOpen(stack), E)
  PROVE  SeparateInv'
<1>0. Copying /\ EntriesInv
  BY InCopy DEF SeparateInv
<1>1. PICK h, p, W, U, N, J : /\ h = id /\ p = program /\ W = CopiedCode /\ U = CopiedLabels
                              /\ N = NextOpen(stack) /\ J = JumpOpen(stack)
  OBVIOUS
<1>2. /\ CopyOK(p, h, W, V, N, J, {}, E, instr, label') /\ FlowOK(p, h, W, V, N, J, E)
      /\ l \in LabelsAt(p, h) /\ Calls(p, h, W, U, F)
      /\ NextOpen(F) = N /\ Called(F) = J
      /\ animno \in DOMAIN Offsets /\ Offsets[animno] # 0
      /\ W \subseteq ReachIn(p, h) /\ V \subseteq LabelsAt(p, h) /\ U \subseteq V /\ U \subseteq W
      /\ F # <<>> => CalledBy(p, Fresh(h, l), Head(F))
      /\ W \subseteq Nat
  BY <1>0, <1>1 DEF CallSite, LabelsKept, Copying
<1>3. l \in Nat
  BY <1>1, <1>2, OldLabel
<1>5. Pushed(p, h, W, V, F, l, stack')
  <2>1. PICK s : s = stack'
    OBVIOUS
  <2>2. s = <<Fresh(h, l)>> \o F /\ V = U \cup {l} /\ l \notin W
    BY <1>1, <2>1
  <2>3. Pushed(p, h, W, V, F, l, s)
    BY <1>2, <1>3, <2>2, PushStack
  <2> QED
    BY <2>1, <2>3
<1>6. /\ StackOK(p, h, W, V, stack') /\ stack' # <<>>
      /\ NextOpen(stack') = N /\ JumpOpen(stack') = J /\ Uncalled(stack') = {}
      /\ Base(stack') = <<0, Offsets[animno]>>
  <2>1. /\ StackOK(p, h, W, V, stack') /\ stack' # <<>>
        /\ NextOpen(stack') = NextOpen(F) /\ JumpOpen(stack') = Called(F)
        /\ Uncalled(stack') = {}
        /\ Base(stack') = IF F = <<>> THEN <<0, l>> ELSE Base(F)
    BY <1>5 DEF Pushed
  <2>2. CASE F = <<>>
    <3>1. l = Offsets[animno]
      BY <2>2 DEF CallSite
    <3> QED
      BY <1>2, <2>1, <2>2, <3>1
  <2>3. CASE F # <<>>
    <3>1. Base(F) = <<0, Offsets[animno]>>
      BY <2>3 DEF CallSite
    <3> QED
      BY <1>2, <2>1, <2>3, <3>1
  <2> QED
    BY <2>2, <2>3
<1>7. /\ DOMAIN instr' = DOMAIN instr \cup ({h} \X W)
      /\ \A x \in DOMAIN instr : x[1] # h => instr'[x] = instr[x]
  BY <1>1 DEF SeparateInv, DomainInv
<1>8. visited_instrs' = [x \in {0} \X W |-> <<h, x[2]>>]
  BY <1>1 DEF SeparateInv, VisitedInv
<1>9. /\ visited' = [x \in {0} \X V |-> <<h, x[2]>>]
      /\ DOMAIN label' = DOMAIN label \cup ({h} \X V)
      /\ \A x \in DOMAIN label : x[1] # h => label'[x] = label[x]
      /\ \A x \in DOMAIN label : label'[x].id = label[x].id
      /\ \/ V = U /\ unique_id' = unique_id
         \/ \E m \in Nat \ U : /\ V = U \cup {m} /\ unique_id' = unique_id + 1
                               /\ label'[<<h, m>>].id = unique_id
  BY <1>1 DEF LabelsKept
<1>10. E = Met(Offsets, animno', stack' # <<>>)
  <2>1. (stack' # <<>>) = TRUE
    BY <1>6
  <2> QED
    BY <2>1
<1>11. /\ CopyOK(p, h, W, V, NextOpen(stack'), JumpOpen(stack'), Uncalled(stack'), E, instr', label')
       /\ FlowOK(p, h, W, V, NextOpen(stack'), JumpOpen(stack'), E)
  <2>1. PICK ins2, lab : ins2 = instr' /\ lab = label'
    OBVIOUS
  <2>2. CopyOK(p, h, W, V, N, J, {}, E, ins2, lab)
    BY <1>2, <2>1
  <2> QED
    BY <1>2, <1>6, <2>1, <2>2
<1>12. /\ animno' \in 1 .. Len(Offsets) + 1
       /\ st_entries' = [i \in 1 .. animno' - 1 |-> EntryCopy(id, Offsets[i])]
       /\ animno' \in DOMAIN Offsets /\ Offsets[animno'] # 0
       /\ Base(stack') = <<0, Offsets[animno']>>
  BY <1>0, <1>2, <1>6 DEF EntriesInv
<1>13. /\ U \subseteq V /\ W \subseteq ReachIn(p, h) /\ V \subseteq LabelsAt(p, h)
       /\ StackOK(p, h, W, V, stack')
  BY <1>2, <1>6
<1> QED
  BY <1>1, <1>7, <1>8, <1>9, <1>10, <1>11, <1>12, <1>13, CopyStep, ZenonT(60)

(* What is copied when a call comes, for the animation or the jump that it *)
(* comes from.                                                             *)
CallOf(l, type, jump, F) ==
  /\ CallSite(l, F) /\ type \in {"HEADER", "JUMP"}
  /\ CallType(EntriesMet, Met(Offsets, animno, TRUE), l, type)
  /\ CallJump(program, id, CopiedCode, Uncalled(stack), {}, l, {jump} \ {NULL})
  /\ l \notin CopiedLabels => JumpsInto(program, id, CopiedCode, Uncalled(stack), l) = {}

(* The flow with one more label. *)
LEMMA CallFlow ==
  ASSUME NEW p, NEW h, NEW W, NEW V, NEW N, NEW J, NEW E, FlowOK(p, h, W, V, N, J, E),
         NEW l \in LabelsAt(p, h), NEW E2, NEW type, CallType(E, E2, l, type),
         NEW V2, V2 = V \cup {l}
  PROVE  FlowOK(p, h, W, V2, N, J, E2)
BY DEF FlowOK, CallType

LEMMA CopyAgainStep ==
  ASSUME SeparateInv, pc = "copy", UNCHANGED <<program, ip, pc, ids, id, ip_rest, visited_instrs>>,
         NEW l, NEW type, NEW jump, NEW F, CallOf(l, type, jump, F),
         CopyAgain(<<0, l>>, type, jump, F)
  PROVE  SeparateInv'
<1>0. Copying
  BY InCopy
<1>1. PICK h, p, W, V, N, J, C, E, E2, jumps :
        /\ h = id /\ p = program /\ W = CopiedCode /\ V = CopiedLabels
        /\ N = NextOpen(stack) /\ J = JumpOpen(stack) /\ C = Uncalled(stack)
        /\ E = EntriesMet /\ E2 = Met(Offsets, animno, TRUE) /\ jumps = {jump} \ {NULL}
  OBVIOUS
<1>2. /\ CopyOK(p, h, W, V, N, J, C, E, instr, label) /\ FlowOK(p, h, W, V, N, J, E)
      /\ CallSite(l, F) /\ CallType(E, E2, l, type) /\ CallJump(p, h, W, C, {}, l, jumps)
      /\ l \in LabelsAt(p, h) /\ V \subseteq W /\ V \subseteq LabelsAt(p, h)
  BY <1>0, <1>1 DEF CallOf, CallSite, SeparateInv, CopyInv, Copying
<1>3. /\ visited = [x \in {0} \X V |-> <<h, x[2]>>]
      /\ {h} \X V \subseteq DOMAIN label
  BY <1>1 DEF SeparateInv, VisitedInv, DomainInv
<1>4. l \in V /\ visited[<<0, l>>] = <<h, l>>
  <2>1. <<0, l>> \in DOMAIN visited
    BY DEF CopyAgain
  <2>2. l \in V
    BY <1>0, <1>1, <2>1 DEF Copying
  <2> QED
    BY <1>0, <1>1, <2>2 DEF Copying
<1>5. /\ label' = [label EXCEPT ![<<h, l>>].anims = @ \cup {[header |-> <<h, h>>, type |-> type]},
                                ![<<h, l>>].jumps = @ \cup jumps]
      /\ Return(<<h, l>>, instr, F) /\ UNCHANGED <<unique_id, visited>>
  BY <1>1, <1>4 DEF CopyAgain, IsAnim, AddJump
<1>6. /\ CopyOK(p, h, W, V, N, J, {}, E2, instr, label')
      /\ DOMAIN label' = DOMAIN label
      /\ \A x \in DOMAIN label : label'[x].id = label[x].id /\ (x # <<h, l>> => label'[x] = label[x])
  <2>1. PICK lab, lab2, ins, C2 : lab = label /\ lab2 = label' /\ ins = instr /\ C2 = {}
    OBVIOUS
  <2>2. /\ CallsLabel(h, l, type, jumps, lab, lab2)
        /\ CopyOK(p, h, W, V, N, J, C, E, ins, lab) /\ CallJump(p, h, W, C, C2, l, jumps)
    BY <1>2, <1>5, <2>1 DEF CallsLabel
  <2>3. /\ CopyOK(p, h, W, V, N, J, C2, E2, ins, lab2)
        /\ DOMAIN lab2 = DOMAIN lab
        /\ \A x \in DOMAIN lab : lab2[x].id = lab[x].id /\ (x # <<h, l>> => lab2[x] = lab[x])
    BY <1>2, <1>4, <2>2, CallAgain
  <2> QED
    BY <2>1, <2>3
<1>7. \A x : x[1] # h => x # <<h, l>>
  OBVIOUS
<1>8. LabelsKept(V)
  BY <1>1, <1>2, <1>3, <1>5, <1>6, <1>7 DEF LabelsKept
<1>9. FlowOK(p, h, W, V, N, J, E2)
  <2>1. V = V \cup {l}
    BY <1>4
  <2> QED
    BY <1>2, <2>1, CallFlow
<1> QED
  BY <1>1, <1>2, <1>4, <1>5, <1>6, <1>8, <1>9, CallReturns

LEMMA CopyNewStep ==
  ASSUME SeparateInv, pc = "copy", UNCHANGED <<program, ip, pc, ids, id, ip_rest, visited_instrs>>,
         NEW l, NEW type, NEW jump, NEW F, CallOf(l, type, jump, F),
         CopyNew(<<0, l>>, type, jump, F)
  PROVE  SeparateInv'
<1>0. Copying
  BY InCopy
<1>1. PICK h, p, W, V, N, J, C, E, E2, jumps, u, V2 :
        /\ h = id /\ p = program /\ W = CopiedCode /\ V = CopiedLabels
        /\ N = NextOpen(stack) /\ J = JumpOpen(stack) /\ C = Uncalled(stack)
        /\ E = EntriesMet /\ E2 = Met(Offsets, animno, TRUE) /\ jumps = {jump} \ {NULL}
        /\ u = unique_id /\ V2 = V \cup {l}
  OBVIOUS
<1>2. /\ CopyOK(p, h, W, V, N, J, C, E, instr, label) /\ FlowOK(p, h, W, V, N, J, E)
      /\ CallSite(l, F) /\ CallType(E, E2, l, type) /\ CallJump(p, h, W, C, {}, l, jumps)
      /\ l \in LabelsAt(p, h) /\ V \subseteq W /\ V \subseteq LabelsAt(p, h)
  BY <1>0, <1>1 DEF CallOf, CallSite, SeparateInv, CopyInv, Copying
<1>3. /\ visited = [x \in {0} \X V |-> <<h, x[2]>>]
      /\ DOMAIN label \cap {<<h, l>>} = {<<h, l>>} \cap ({h} \X V)
      /\ {h} \X V \subseteq DOMAIN label
  <2>1. /\ visited = [x \in {0} \X V |-> <<h, x[2]>>]
        /\ DOMAIN label = DoneLabels \cup ({h} \X V)
    BY <1>1 DEF SeparateInv, VisitedInv, DomainInv
  <2>2. <<h, l>> \notin DoneLabels
    BY <1>0, <1>1 DEF DoneLabels, Copying
  <2> QED
    BY <2>1, <2>2
<1>4. l \notin V /\ l \notin E /\ JumpsInto(p, h, W, C, l) = {} /\ l \in Nat
      /\ l \in ReachIn(p, h) /\ ip.label[<<0, l>>].bc = <<0, l>>
  <2>1. <<0, l>> \notin DOMAIN visited
    BY DEF CopyNew
  <2>2. l \notin V
    BY <1>3, <2>1
  <2> QED
    BY <1>1, <1>2, <2>2, OldLabel DEF CallOf, FlowOK
<1>5. PICK new, new2 :
        /\ new = [id |-> u, bc |-> NULL, anims |-> {[header |-> <<h, h>>, type |-> type]},
                  jumps |-> jumps]
        /\ new2 = [id |-> u, bc |-> <<h, l>>, anims |-> {[header |-> <<h, h>>, type |-> type]},
                   jumps |-> jumps]
  OBVIOUS
<1>6. /\ unique_id' = u + 1 /\ visited' = Put(visited, <<0, l>>, <<h, l>>)
      /\ IF l \in W
         THEN /\ label' = Put(label, <<h, l>>, new2)
              /\ Return(<<h, l>>, [instr EXCEPT ![<<h, l>>].st_entry = <<h, l>>], F)
         ELSE /\ label' = Put(label, <<h, l>>, new) /\ stack' = <<Fresh(h, l)>> \o F
              /\ UNCHANGED <<instr, st_entries, animno>>
  <2>1. Copy(<<0, l>>) = <<h, l>> /\ IsAnim(type) = [header |-> <<h, h>>, type |-> type]
        /\ AddJump({}, jump) = jumps
    BY <1>1 DEF Copy, IsAnim, AddJump
  <2>2. <<0, l>> \in DOMAIN visited_instrs <=> l \in W
    BY <1>0, <1>1 DEF Copying
  <2>3. l \in W => visited_instrs[<<0, l>>] = <<h, l>>
    BY <1>0, <1>1 DEF Copying
  <2>4. Frame(<<0, l>>) = Fresh(h, l)
    BY <1>4, <2>1 DEF Frame, Fresh
  <2>5. [new EXCEPT !.bc = <<h, l>>] = new2
    BY <1>5
  <2>6. /\ unique_id' = u + 1 /\ visited' = Put(visited, <<0, l>>, <<h, l>>)
        /\ IF <<0, l>> \in DOMAIN visited_instrs
           THEN /\ label' = Put(label, <<h, l>>, [new EXCEPT !.bc = visited_instrs[<<0, l>>]])
                /\ Return(<<h, l>>, [instr EXCEPT ![visited_instrs[<<0, l>>]].st_entry = <<h, l>>], F)
           ELSE /\ label' = Put(label, <<h, l>>, new) /\ stack' = <<Frame(<<0, l>>)>> \o F
                /\ UNCHANGED <<instr, st_entries, animno>>
    BY <1>1, <1>4, <1>5, <2>1 DEF CopyNew
  <2> QED
    BY <2>2, <2>3, <2>4, <2>5, <2>6
<1>7. PICK heap : heap = IF l \in W THEN [instr EXCEPT ![<<h, l>>].st_entry = <<h, l>>] ELSE instr
  OBVIOUS
<1>8. MakesLabel(h, W, l, u, type, jumps, label, label')
  BY <1>5, <1>6 DEF MakesLabel
<1>9. CopyOK(p, h, W, V2, N, J, {}, E2, heap, label')
  <2>1. PICK lab, lab2, ins, C2 : lab = label /\ lab2 = label' /\ ins = instr /\ C2 = {}
    OBVIOUS
  <2>2. /\ MakesLabel(h, W, l, u, type, jumps, lab, lab2) /\ HooksInstr(h, W, l, ins, heap)
        /\ CopyOK(p, h, W, V, N, J, C, E, ins, lab) /\ CallJump(p, h, W, C, C2, l, jumps)
    BY <1>2, <1>7, <1>8, <2>1 DEF HooksInstr
  <2>3. CopyOK(p, h, W, V \cup {l}, N, J, C2, E2, heap, lab2)
    BY <1>2, <1>4, <2>2, CallNew
  <2> QED
    BY <1>1, <2>1, <2>3
<1>10. FlowOK(p, h, W, V2, N, J, E2)
  BY <1>1, <1>2, CallFlow
<1>11. LabelsKept(V2)
  <2>1. /\ DOMAIN label' = DOMAIN label \cup {<<h, l>>}
        /\ \A x \in DOMAIN label : label'[x] = label[x]
        /\ label'[<<h, l>>].id = u
    <3>1. PICK f, g, e : f = label /\ g = label' /\ (e = new \/ e = new2) /\ g = Put(f, <<h, l>>, e)
      BY <1>6
    <3>2. DOMAIN g = DOMAIN f \cup {<<h, l>>} /\ g[<<h, l>>] = e
          /\ \A x \in DOMAIN f : x # <<h, l>> => g[x] = f[x]
      BY <3>1 DEF Put
    <3>3. e.id = u
      BY <1>5, <3>1
    <3>4. <<h, l>> \notin DOMAIN f
      BY <1>3, <1>4, <3>1
    <3> QED
      BY <3>1, <3>2, <3>3, <3>4
  <2>2. DOMAIN label' = DOMAIN label \cup ({h} \X V2)
    <3>1. {h} \X V2 = ({h} \X V) \cup {<<h, l>>}
      BY <1>1
    <3> QED
      BY <1>3, <2>1, <3>1
  <2>3. visited' = [x \in {0} \X V2 |-> <<h, x[2]>>]
    <3>1. PutsCopy(visited, h, V, l)
      BY <1>3, PutCopy
    <3> QED
      BY <1>1, <1>6, <3>1 DEF PutsCopy
  <2>4. l \in Nat \ CopiedLabels /\ V2 = CopiedLabels \cup {l}
    BY <1>1, <1>4
  <2>5. V2 \subseteq LabelsAt(program, id) /\ CopiedLabels \subseteq V2
    BY <1>1, <1>2
  <2> QED
    BY <1>1, <1>6, <2>1, <2>2, <2>3, <2>4, <2>5 DEF LabelsKept
<1>12. CASE l \in W
  <2>1. Return(<<h, l>>, heap, F)
    BY <1>6, <1>7, <1>12
  <2>2. DOMAIN heap = DOMAIN instr /\ \A x \in DOMAIN instr : x[1] # h => heap[x] = instr[x]
    <3>1. heap = [instr EXCEPT ![<<h, l>>].st_entry = <<h, l>>]
      BY <1>7, <1>12
    <3>2. \A x : x[1] # h => x # <<h, l>>
      OBVIOUS
    <3> QED
      BY <3>1, <3>2
  <2>3. V2 \subseteq CopiedCode /\ l \in V2
    BY <1>1, <1>2, <1>12
  <2> QED
    BY <1>1, <1>2, <1>9, <1>10, <1>11, <2>1, <2>2, <2>3, CallReturns
<1>13. CASE l \notin W
  <2>1. heap = instr
    BY <1>7, <1>13
  <2>2. UNCHANGED <<instr, st_entries, animno>> /\ stack' = <<Fresh(id, l)>> \o F
    BY <1>1, <1>6, <1>13
  <2>3. V2 = CopiedLabels \cup {l} /\ l \notin CopiedCode
    BY <1>1, <1>13
  <2> QED
    BY <1>1, <1>2, <1>9, <1>10, <1>11, <2>1, <2>2, <2>3, CallPushes
<1> QED
  BY <1>12, <1>13

LEMMA OldEntry ==
  ASSUME SeparateInv, pc = "copy"
  PROVE  /\ DOMAIN ip.headers[id].st_entries = DOMAIN Offsets
         /\ \A i \in DOMAIN Offsets :
              /\ Offsets[i] = 0 => ip.headers[id].st_entries[i] = NULL
              /\ Offsets[i] # 0 => /\ ip.headers[id].st_entries[i] = <<0, Offsets[i]>>
                                   /\ ip.headers[id].st_entries[i] # NULL
                                   /\ Offsets[i] \in LabelsAt(program, id)
<1>1. IsProgram(program) /\ id \in DOMAIN program.headers /\ Offsets = program.headers[id]
  BY InCopy DEF Copying, Offsets
<1>2. HeadersOf(program, 0, ip.headers)
  <2>1. ip = LoadedGraph(program, 0)
    BY DEF SeparateInv, ControlInv
  <2> QED
    BY <2>1, LoadedParts
<1>3. /\ DOMAIN ip.headers[id].st_entries = DOMAIN Offsets
      /\ \A i \in DOMAIN Offsets : ip.headers[id].st_entries[i] =
           IF Offsets[i] \in LabelsOf(program) THEN <<0, Offsets[i]>> ELSE NULL
  BY <1>1, <1>2 DEF HeadersOf
<1>4. /\ \A i \in DOMAIN Offsets : Offsets[i] = 0 \/ Offsets[i] \in LabelsOf(program)
      /\ 0 \notin LabelsOf(program)
  BY <1>1, LabelFacts
<1>5. \A i \in DOMAIN Offsets :
        Offsets[i] \in Nat /\ (Offsets[i] # 0 => Offsets[i] \in Entries(program, id))
  BY <1>1, OffsetFacts
<1>6. Entries(program, id) \subseteq LabelsAt(program, id)
  BY <1>1, CodeAt
<1>7. \A i \in DOMAIN Offsets : <<0, Offsets[i]>> # NULL
  <2>1. \A n \in Nat : <<0, n>> # NULL
    BY NullAssumption
  <2> QED
    BY <1>5, <2>1
<1> QED
  BY <1>3, <1>4, <1>5, <1>6, <1>7

(* An animation is copied, or there is none. *)
LEMMA NoEntryStep ==
  ASSUME SeparateInv, pc = "copy", stack = <<>>, animno \in DOMAIN Offsets, Offsets[animno] = 0,
         UNCHANGED <<program, ip, pc, ids, id, ip_rest, visited_instrs, instr, label, unique_id,
                     visited, stack>>,
         st_entries' = Append(st_entries, NULL), animno' = animno + 1
  PROVE  SeparateInv'
<1>0. Copying /\ EntriesInv
  BY InCopy DEF SeparateInv
<1>1. PICK h, p, W, V, E :
        /\ h = id /\ p = program /\ W = CopiedCode /\ V = CopiedLabels /\ E = EntriesMet
  OBVIOUS
<1>2. /\ CopyOK(p, h, W, V, NextOpen(stack'), JumpOpen(stack'), Uncalled(stack'), E, instr', label')
      /\ FlowOK(p, h, W, V, NextOpen(stack'), JumpOpen(stack'), E)
      /\ StackOK(p, h, W, V, stack')
  BY <1>1 DEF SeparateInv, CopyInv, StackInv
<1>3. /\ animno' \in 1 .. Len(Offsets) + 1
      /\ st_entries' = [i \in 1 .. animno' - 1 |-> EntryCopy(id, Offsets[i])]
  <2>1. EntryCopy(id, Offsets[animno]) = NULL
    BY DEF EntryCopy
  <2> QED
    BY <1>0, <2>1, EntryDone
<1>4. E = Met(Offsets, animno', stack' # <<>>)
  <2>1. Len(Offsets) \in Nat /\ DOMAIN Offsets = 1 .. Len(Offsets) /\ animno \in 1 .. Len(Offsets)
    BY <1>0 DEF Copying
  <2>2. /\ Met(Offsets, animno + 1, FALSE) = Met(Offsets, animno, TRUE)
        /\ Met(Offsets, animno, TRUE) = Met(Offsets, animno, FALSE) \cup ({Offsets[animno]} \ {0})
    BY <2>1, MetFacts, ZenonT(60)
  <2>3. {Offsets[animno]} \ {0} = {}
    OBVIOUS
  <2>4. (stack # <<>>) = FALSE /\ (stack' # <<>>) = FALSE
    OBVIOUS
  <2> QED
    BY <1>1, <2>2, <2>3, <2>4 DEF EntriesMet
<1>5. /\ W \subseteq ReachIn(p, h) /\ V \subseteq LabelsAt(p, h)
      /\ visited_instrs' = [x \in {0} \X W |-> <<h, x[2]>>]
      /\ visited' = [x \in {0} \X V |-> <<h, x[2]>>]
      /\ DOMAIN instr' = DOMAIN instr \cup ({h} \X W)
      /\ DOMAIN label' = DOMAIN label \cup ({h} \X V)
  BY <1>0, <1>1 DEF Copying, SeparateInv, VisitedInv, DomainInv
<1> QED
  BY <1>1, <1>2, <1>3, <1>4, <1>5, CopyStep

LEMMA EntryIsCalled ==
  ASSUME SeparateInv, pc = "copy", stack = <<>>, animno \in DOMAIN Offsets, Offsets[animno] # 0
  PROVE  CallOf(Offsets[animno], "HEADER", NULL, <<>>)
<1>0. Copying
  BY InCopy
<1>1. PICK h, p, W, V, E, l :
        /\ h = id /\ p = program /\ W = CopiedCode /\ V = CopiedLabels /\ E = EntriesMet
        /\ l = Offsets[animno]
  OBVIOUS
<1>2. /\ FlowOK(p, h, W, V, NextOpen(stack), JumpOpen(stack), E) /\ StackOK(p, h, W, V, stack)
  BY <1>1 DEF SeparateInv, CopyInv, StackInv
<1>3. /\ NextOpen(stack) = {} /\ JumpOpen(stack) = {} /\ Uncalled(stack) = {}
      /\ Called(stack) = {} /\ FreshAt(h, stack) = {}
  BY EmptyStack
<1>4. Calls(p, h, W, V, stack) /\ V \subseteq W
  BY <1>2, <1>3 DEF StackOK
<1>5. l \in LabelsAt(p, h)
  BY <1>1, OldEntry
<1>6. CallSite(l, <<>>)
  BY <1>1, <1>3, <1>4, <1>5 DEF CallSite
<1>7. CallType(E, Met(Offsets, animno, TRUE), l, "HEADER")
  <2>1. Len(Offsets) \in Nat /\ DOMAIN Offsets = 1 .. Len(Offsets) /\ animno \in 1 .. Len(Offsets)
    BY <1>0 DEF Copying
  <2>2. Met(Offsets, animno, TRUE) = Met(Offsets, animno, FALSE) \cup ({Offsets[animno]} \ {0})
    BY <2>1, MetFacts
  <2>3. {Offsets[animno]} \ {0} = {l}
    BY <1>1
  <2>4. (stack # <<>>) = FALSE
    OBVIOUS
  <2>5. E = Met(Offsets, animno, FALSE)
    BY <1>1, <2>4 DEF EntriesMet
  <2> QED
    BY <2>2, <2>3, <2>5 DEF CallType
<1>8. CallJump(p, h, W, {}, {}, l, {NULL} \ {NULL})
  <2>1. {h} \X (({} \cap W) \ {}) = {}
    OBVIOUS
  <2> QED
    BY <2>1 DEF CallJump
<1>9. l \notin V => JumpsInto(p, h, W, {}, l) = {}
  <2> SUFFICES ASSUME l \notin V PROVE JumpsInto(p, h, W, {}, l) = {}
    OBVIOUS
  <2>1. {a \in W \ {} : Jumps(p, a) /\ p.instr[a].target = l} = {}
    BY <1>2, <1>3 DEF FlowOK
  <2>2. {h} \X {} = {}
    OBVIOUS
  <2> QED
    BY <2>1, <2>2 DEF JumpsInto
<1> QED
  BY <1>1, <1>3, <1>6, <1>7, <1>8, <1>9 DEF CallOf

LEMMA CopyEntryStep ==
  ASSUME SeparateInv, CopyEntry
  PROVE  SeparateInv'
<1>1. /\ pc = "copy" /\ stack = <<>> /\ animno \in DOMAIN Offsets
      /\ UNCHANGED <<program, ip, pc, ids, id, ip_rest, visited_instrs>>
  BY OldEntry DEF CopyEntry
<1>2. CASE Offsets[animno] = 0
  <2>1. ip.headers[id].st_entries[animno] = NULL
    BY <1>1, <1>2, OldEntry
  <2>2. /\ st_entries' = Append(st_entries, NULL) /\ animno' = animno + 1
        /\ UNCHANGED <<instr, label, unique_id, visited, stack>>
    BY <2>1 DEF CopyEntry
  <2> QED
    BY <1>1, <1>2, <2>2, NoEntryStep
<1>3. CASE Offsets[animno] # 0
  <2>1. PICK l : l = Offsets[animno]
    OBVIOUS
  <2>2. ip.headers[id].st_entries[animno] = <<0, l>> /\ <<0, l>> # NULL
    BY <1>1, <1>3, <2>1, OldEntry
  <2>3. CopySymTblEnt(<<0, l>>, "HEADER", NULL, <<>>)
    BY <2>2 DEF CopyEntry
  <2>4. CallOf(l, "HEADER", NULL, <<>>)
    BY <1>1, <1>3, <2>1, EntryIsCalled
  <2> QED
    BY <1>1, <2>3, <2>4, CopyAgainStep, CopyNewStep DEF CopySymTblEnt
<1> QED
  BY <1>2, <1>3

(* The call for a jump that the walk of a label's chain comes to. *)
LEMMA JumpIsCalled ==
  ASSUME SeparateInv, At("jump"), NEW a, a = Top.instr[2],
         NEW F, F = <<Returned(Top)>> \o Tail(stack)
  PROVE  /\ Jumps(program, a) /\ a \in CopiedCode /\ Top.instr = <<0, a>>
         /\ CallOf(program.instr[a].target, "JUMP", Top.prev, F)
<1>0. Copying /\ pc = "copy" /\ stack # <<>>
  BY InCopy DEF At
<1>1. PICK h, p, W, V, N, J, C, E, t, r, s :
        /\ h = id /\ p = program /\ W = CopiedCode /\ V = CopiedLabels
        /\ N = NextOpen(stack) /\ J = JumpOpen(stack) /\ C = Uncalled(stack) /\ E = EntriesMet
        /\ t = Top /\ r = Tail(stack) /\ s = stack
  OBVIOUS
<1>2. /\ t = Head(s) /\ r = Tail(s) /\ s # <<>> /\ t.at = "jump" /\ StackOK(p, h, W, V, s)
      /\ Calls(p, h, W, V, s) /\ FlowOK(p, h, W, V, N, J, E)
      /\ N = NextOpen(s) /\ J = JumpOpen(s) /\ C = Uncalled(s)
      /\ W \subseteq ReachIn(p, h) /\ W \subseteq Nat /\ V \subseteq Nat
      /\ IsProgram(p) /\ h \in DOMAIN p.headers /\ a = t.instr[2]
  BY <1>0, <1>1 DEF At, Top, SeparateInv, StackInv, CopyInv, StackOK, Copying
<1>3. Parts(h, s) /\ FrameIs(p, h, W, V, t)
  BY <1>2, TopParts
<1>4. t.instr # NULL
  BY <1>2, <1>3 DEF FrameIs
<1>5. /\ t = Walking(p, h, t.old[2], a, "jump") /\ a \in W /\ t.instr = <<0, a>>
      /\ t.prev = <<h, a>> /\ Jumps(p, a) /\ (t.next # NULL <=> FallsThrough(p, a))
      /\ t.old[2] \in V
  BY <1>2, <1>3, <1>4 DEF FrameIs
<1>6. /\ N = TopNext(t) \cup NextOpen(r) /\ J = TopJump(t) \cup Called(r) /\ C = TopJump(t)
      /\ FreshAt(h, s) = FreshTop(t) /\ Joined(s, t, r)
  BY <1>2, <1>3 DEF Parts
<1>7. /\ TopJump(t) = {a} /\ FreshTop(t) = {} /\ TopNext(t) = {c \in {a} : FallsThrough(p, c)}
  BY <1>2, <1>4, <1>5 DEF TopJump, FreshTop, TopNext
<1>8. V \subseteq W
  BY <1>2, <1>6, <1>7 DEF StackOK
<1>9. a \notin Called(r)
  BY <1>2, <1>4, TopIsAlone
<1>10. t.old[2] <= a
  <2>1. PICK k : k = 1
    OBVIOUS
  <2>2. k \in DOMAIN s /\ s[k] = t
    BY <1>6, <2>1 DEF Joined
  <2>3. s[k].instr # NULL => s[k].old[2] <= s[k].instr[2]
    BY <1>2, <2>2 DEF Calls
  <2> QED
    BY <1>2, <1>4, <2>2, <2>3
<1>11. F = <<Walking(p, h, t.old[2], a, "next")>> \o r
  <2>1. PICK l : l = t.old[2]
    OBVIOUS
  <2>2. t = Walking(p, h, l, a, "jump")
    BY <1>5, <2>1
  <2>3. [t EXCEPT !.at = "next"] = Walking(p, h, l, a, "next")
    <3>1. PICK next : next = IF FallsThrough(p, a) THEN <<0, a + 1>> ELSE NULL
      OBVIOUS
    <3>2. t = [old |-> <<0, l>>, new |-> <<h, l>>, next |-> next, instr |-> <<0, a>>,
               prev |-> <<h, a>>, at |-> "jump"]
      BY <2>2, <3>1 DEF Walking
    <3>3. [t EXCEPT !.at = "next"] =
            [old |-> <<0, l>>, new |-> <<h, l>>, next |-> next, instr |-> <<0, a>>,
             prev |-> <<h, a>>, at |-> "next"]
      BY <3>2
    <3> QED
      BY <3>1, <3>3 DEF Walking
  <2> QED
    BY <1>1, <2>1, <2>3 DEF Returned
<1>12. Moved(p, h, W, V, s, t, r, a, "next", F)
  <2>1. PICK at : at = "next"
    OBVIOUS
  <2>2. at \in {"next", "jump"} /\ (at = "jump" => Jumps(p, a)) /\ W \subseteq W /\ V \subseteq V
    BY <2>1
  <2>3. F = <<Walking(p, h, t.old[2], a, at)>> \o r
    BY <1>11, <2>1
  <2>4. /\ StackOK(p, h, W, V, s) /\ s # <<>> /\ t = Head(s) /\ r = Tail(s)
        /\ W \subseteq Nat /\ V \subseteq Nat /\ V \subseteq W /\ a \in W
        /\ t.old[2] <= a /\ a \notin Called(r)
    BY <1>2, <1>5, <1>8, <1>9, <1>10
  <2>5. Moved(p, h, W, V, s, t, r, a, at, F)
    BY <2>2, <2>3, <2>4, MoveTop, ZenonT(60)
  <2> QED
    BY <2>1, <2>5
<1>13. PICK u : u = Walking(p, h, t.old[2], a, "next")
  OBVIOUS
<1>14. /\ StackOK(p, h, W, V, F) /\ Base(F) = Base(s) /\ F # <<>> /\ Head(F) = u /\ Tail(F) = r
       /\ NextOpen(F) = (N \ TopNext(t)) \cup {c \in {a} : FallsThrough(p, c)}
       /\ JumpOpen(F) = Called(r) /\ Uncalled(F) = {} /\ Called(F) = {a} \cup Called(r)
  <2>1. {c \in {a} : "next" = "jump"} = {}
    OBVIOUS
  <2> QED
    BY <1>2, <1>12, <1>13, <2>1 DEF Moved
<1>15. NextOpen(F) = N /\ Called(F) = J /\ JumpOpen(F) = J \ {a}
  BY <1>6, <1>7, <1>9, <1>14
<1>16. u.instr = <<0, a>> /\ u.instr[2] = a /\ u.instr # NULL /\ u.at = "next" /\ u.prev = <<h, a>>
  <2>1. <<0, a>> # NULL
    BY <1>2, <1>5, NullAssumption
  <2>2. u.instr = <<0, a>> /\ u.at = "next" /\ u.prev = <<h, a>>
    BY <1>13 DEF Walking
  <2> QED
    BY <2>1, <2>2
<1>17. Calls(p, h, W, V, F) /\ FreshAt(h, F) = {}
  <2>1. Calls(p, h, W, V, F)
    BY <1>14 DEF StackOK
  <2>2. Parts(h, F)
    BY <1>2, <1>14, <2>1, TopParts
  <2>3. FreshAt(h, F) = FreshTop(u)
    BY <1>14, <2>2 DEF Parts
  <2>4. FreshTop(u) = {}
    BY <1>16 DEF FreshTop
  <2> QED
    BY <2>1, <2>3, <2>4
<1>18. PICK l : l = p.instr[a].target
  OBVIOUS
<1>19. l \in LabelsAt(p, h)
  BY <1>2, <1>5, <1>18, CodeAt
<1>20. CalledBy(p, Fresh(h, l), u)
  <2>1. Jumps(p, u.instr[2]) /\ l = p.instr[u.instr[2]].target
    BY <1>5, <1>16, <1>18
  <2>2. Fresh(h, l).old = <<0, l>>
    BY FreshFields
  <2> QED
    BY <1>16, <2>1, <2>2 DEF CalledBy
<1>21. CallSite(l, F)
  <2>1. animno \in DOMAIN Offsets /\ Offsets[animno] # 0 /\ Base(s) = <<0, Offsets[animno]>>
    BY <1>0, <1>1 DEF SeparateInv, StackInv
  <2>2. Head(F).instr[2] = a /\ Head(F).prev = <<h, a>> /\ CalledBy(p, Fresh(h, l), Head(F))
    BY <1>14, <1>16, <1>20
  <2> QED
    BY <1>1, <1>5, <1>8, <1>14, <1>15, <1>17, <1>19, <2>1, <2>2 DEF CallSite
<1>22. CallType(E, Met(Offsets, animno, TRUE), l, "JUMP")
  <2>1. (stack # <<>>) = TRUE
    BY <1>0
  <2> QED
    BY <1>1, <2>1 DEF EntriesMet, CallType
<1>23. CallJump(p, h, W, C, {}, l, {Top.prev} \ {NULL})
  <2>1. C = {a} /\ C \cap W = {a}
    BY <1>5, <1>6, <1>7
  <2>2. {Top.prev} \ {NULL} = {<<h, a>>}
    <3>1. <<h, a>> # NULL
      BY <1>0, <1>1, <1>2, <1>5, NullAssumption DEF Copying
    <3> QED
      BY <1>1, <1>5, <3>1
  <2>3. {h} \X ((C \cap W) \ {}) = {<<h, a>>}
    BY <2>1
  <2>4. C \cap W \subseteq {} \cup {b \in W : Jumps(p, b) /\ p.instr[b].target = l}
    BY <1>5, <1>18, <2>1
  <2> QED
    BY <2>2, <2>3, <2>4 DEF CallJump
<1>24. l \notin V => JumpsInto(p, h, W, C, l) = {}
  <2> SUFFICES ASSUME l \notin V PROVE JumpsInto(p, h, W, C, l) = {}
    OBVIOUS
  <2>1. \A b \in W \ C : Jumps(p, b) => p.instr[b].target # l
    <3>1. ASSUME NEW b \in W \ C, Jumps(p, b), b \in J PROVE p.instr[b].target \in V
      BY <1>2, <3>1, CalledFacts
    <3> QED
      BY <1>2, <3>1 DEF FlowOK
  <2>2. {b \in W \ C : Jumps(p, b) /\ p.instr[b].target = l} = {}
    BY <2>1
  <2>3. {h} \X {} = {}
    OBVIOUS
  <2> QED
    BY <2>2, <2>3 DEF JumpsInto
<1>25. CallOf(l, "JUMP", Top.prev, F)
  BY <1>1, <1>21, <1>22, <1>23, <1>24 DEF CallOf
<1> QED
  BY <1>1, <1>5, <1>18, <1>25

LEMMA CopyJumpStep ==
  ASSUME SeparateInv, CopyJump
  PROVE  SeparateInv'
<1>1. At("jump") /\ pc = "copy" /\ UNCHANGED <<program, ip, pc, ids, id, ip_rest, visited_instrs>>
  BY DEF CopyJump, At
<1>2. PICK a, F : a = Top.instr[2] /\ F = <<Returned(Top)>> \o Tail(stack)
  OBVIOUS
<1>3. /\ Jumps(program, a) /\ a \in CopiedCode /\ Top.instr = <<0, a>>
      /\ CallOf(program.instr[a].target, "JUMP", Top.prev, F)
  BY <1>1, <1>2, JumpIsCalled
<1>4. PICK l : l = program.instr[a].target
  OBVIOUS
<1>5. ip.instr[Top.instr].jump = <<0, l>>
  <2>1. a \in ReachIn(program, id)
    BY <1>3 DEF CopiedCode
  <2> QED
    BY <1>1, <1>3, <1>4, <2>1, OldInstr
<1>6. CopySymTblEnt(<<0, l>>, "JUMP", Top.prev, F)
  BY <1>2, <1>5 DEF CopyJump
<1> QED
  BY <1>1, <1>3, <1>4, <1>6, CopyAgainStep, CopyNewStep DEF CopySymTblEnt

-----------------------------------------------------------------------------
(* A header is extracted, its copy merged. *)

LEMMA InitInv ==
  ASSUME Init
  PROVE  SeparateInv
<1>1. DOMAIN <<>> = {}
  OBVIOUS
<1>2. /\ program \in Programs /\ ip = LoadedGraph(program, 0) /\ pc = "separate"
      /\ ids = DOMAIN program.headers /\ instr = <<>> /\ label = <<>>
      /\ ip_rest = [headers |-> <<>>, symtbl |-> <<>>, uniq_id |-> 0]
  BY DEF Init
<1>3. ip_rest.headers = <<>> /\ ip_rest.symtbl = <<>> /\ ip_rest.uniq_id = 0
  BY <1>2
<1>4. Extracted = {}
  BY <1>2 DEF Extracted
<1>5. DoneCode = {} /\ DoneLabels = {}
  BY <1>4 DEF DoneCode, DoneLabels
<1>6. pc # "copy"
  BY <1>2
<1>7. ControlInv
  BY <1>2 DEF ControlInv
<1>8. ExtractedInv
  BY <1>1, <1>3, <1>4 DEF ExtractedInv
<1>9. DomainInv
  BY <1>1, <1>2, <1>5, <1>6 DEF DomainInv
<1>10. SymtblInv
  <2>1. {ip_rest.symtbl[k] : k \in DOMAIN ip_rest.symtbl} = {}
    BY <1>1, <1>3
  <2> QED
    BY <1>1, <1>3, <1>5, <2>1 DEF SymtblInv
<1> QED
  BY <1>6, <1>7, <1>8, <1>9, <1>10
     DEF SeparateInv, IdsInv, VisitedInv, StackInv, EntriesInv, CopyInv

NothingYet(h, f) == f = [x \in {0} \X {} |-> <<h, x[2]>>]

LEMMA EmptyIsNothingYet ==
  ASSUME NEW h
  PROVE  NothingYet(h, <<>>)
<1>1. {0} \X {} = {}
  OBVIOUS
<1>2. <<>> = [x \in {} |-> <<h, x[2]>>]
  OBVIOUS
<1> QED
  BY <1>1, <1>2 DEF NothingYet

LEMMA ExtractStep ==
  ASSUME SeparateInv, NEW h \in ids, ExtractHeader(h)
  PROVE  SeparateInv'
<1>1. /\ pc = "separate" /\ pc' = "copy" /\ ids' = ids \ {h} /\ id' = h
      /\ st_entries' = <<>> /\ animno' = 1 /\ unique_id' = 0
      /\ visited' = <<>> /\ visited_instrs' = <<>> /\ stack' = <<>>
      /\ UNCHANGED <<program, ip, instr, label, ip_rest>>
  BY DEF ExtractHeader
<1>2. h \in DOMAIN program.headers /\ IsProgram(program)
  BY SeparateAssumption DEF SeparateInv, ControlInv
<1>3. Extracted' = Extracted /\ DoneCode' = DoneCode /\ DoneLabels' = DoneLabels
  <2>1. Extracted' = Extracted
    BY <1>1 DEF Extracted
  <2> QED
    BY <1>1, <2>1 DEF DoneCode, DoneLabels
<1>4. CopiedCode' = {} /\ CopiedLabels' = {} /\ NewLabels' = {}
  <2>1. DOMAIN visited' = {} /\ DOMAIN visited_instrs' = {}
    BY <1>1
  <2> QED
    BY <2>1 DEF CopiedCode, CopiedLabels, NewLabels
<1>5. ControlInv'
  BY <1>1, <1>2 DEF SeparateInv, ControlInv
<1>6. ExtractedInv'
  BY <1>1, <1>3 DEF SeparateInv, ExtractedInv
<1>7. DomainInv'
  <2>1. {id'} \X {} = {}
    OBVIOUS
  <2> QED
    BY <1>1, <1>3, <1>4, <2>1 DEF SeparateInv, DomainInv
<1>8. SymtblInv'
  BY <1>1, <1>3 DEF SeparateInv, SymtblInv
<1>9. IdsInv'
  BY <1>1, <1>4, FS_EmptySet DEF IdsInv
<1>10. VisitedInv'
  BY <1>1, <1>4, EmptyIsNothingYet DEF VisitedInv, NothingYet
<1>11. StackInv'
  <2>1. Calls(program', id', {}, {}, <<>>)
    BY DEF Calls
  <2>2. StackOK(program', id', {}, {}, <<>>)
    BY <2>1, EmptyStack DEF StackOK
  <2> QED
    BY <1>1, <1>4, <2>2 DEF StackInv
<1>12. Len(Offsets') \in Nat /\ DOMAIN Offsets' = 1 .. Len(Offsets') /\ Offsets' = program.headers[h]
  <2>1. Offsets' = program.headers[h]
    BY <1>1 DEF Offsets
  <2> QED
    BY <1>2, <2>1, OffsetFacts
<1>13. EntriesInv'
  <2>1. 1 .. 1 - 1 = {}
    OBVIOUS
  <2>2. <<>> = [i \in {} |-> EntryCopy(id', Offsets'[i])]
    OBVIOUS
  <2>3. [i \in 1 .. 1 - 1 |-> EntryCopy(id', Offsets'[i])] = <<>>
    BY <2>1, <2>2
  <2>4. 1 \in 1 .. Len(Offsets') + 1
    BY <1>12
  <2> QED
    BY <1>1, <2>3, <2>4 DEF EntriesInv
<1>14. CopyInv'
  <2>1. (stack' # <<>>) = FALSE
    BY <1>1
  <2>2. EntriesMet' = {}
    <3>1. EntriesMet' = Met(Offsets', 1, FALSE)
      BY <1>1, <2>1 DEF EntriesMet
    <3>2. {j \in DOMAIN Offsets' : j < 1 \/ (j = 1 /\ FALSE)} = {}
      BY <1>12
    <3> QED
      BY <3>1, <3>2 DEF Met
  <2>3. FlowOK(program', id', {}, {}, NextOpen(stack'), JumpOpen(stack'), {})
    BY DEF FlowOK
  <2>4. CopyOK(program', id', {}, {}, NextOpen(stack'), JumpOpen(stack'), Uncalled(stack'), {},
               instr', label')
    BY DEF CopyOK
  <2> QED
    BY <1>4, <2>2, <2>3, <2>4 DEF CopyInv
<1> QED
  BY <1>5, <1>6, <1>7, <1>8, <1>9, <1>10, <1>11, <1>13, <1>14 DEF SeparateInv

(* All the code has been copied when the header has no more animations.    *)
LEMMA CopyIsWhole ==
  ASSUME SeparateInv, pc = "copy", stack = <<>>,
         animno \notin DOMAIN ip.headers[id].st_entries
  PROVE  /\ Copying
         /\ CopiedCode = ReachIn(program, id) /\ CopiedLabels = LabelsAt(program, id)
         /\ CopyOK(program, id, ReachIn(program, id), LabelsAt(program, id), {}, {}, {},
                   Entries(program, id), instr, label)
         /\ [ptr |-> <<id, id>>, st_entries |-> st_entries] = HeaderCopy(program, id)
<1>0. Copying
  BY InCopy
<1>1. PICK n : n = Len(Offsets)
  OBVIOUS
<1>2. /\ n \in Nat /\ DOMAIN Offsets = 1 .. n /\ IsProgram(program) /\ id \in DOMAIN program.headers
      /\ Offsets = program.headers[id]
  BY <1>0, <1>1 DEF Copying, Offsets
<1>3. animno = n + 1 /\ st_entries = [i \in 1 .. n |-> EntryCopy(id, Offsets[i])]
  <2>1. animno \in 1 .. n + 1 /\ animno \notin 1 .. n
        /\ st_entries = [i \in 1 .. animno - 1 |-> EntryCopy(id, Offsets[i])]
    BY <1>1, <1>2, OldEntry DEF SeparateInv, EntriesInv
  <2>2. animno = n + 1 /\ animno - 1 = n
    BY <1>2, <2>1
  <2> QED
    BY <2>1, <2>2
<1>4. EntriesMet = Entries(program, id)
  <2>1. (stack # <<>>) = FALSE
    OBVIOUS
  <2>2. EntriesMet = Met(program.headers[id], n + 1, FALSE)
    BY <1>2, <1>3, <2>1 DEF EntriesMet
  <2>3. Met(program.headers[id], n + 1, FALSE) = Entries(program, id)
    BY <1>1, <1>2, EntriesAreMet
  <2> QED
    BY <2>2, <2>3
<1>5. NextOpen(stack) = {} /\ JumpOpen(stack) = {} /\ Uncalled(stack) = {} /\ FreshAt(id, stack) = {}
  BY EmptyStack
<1>6. /\ CopyOK(program, id, CopiedCode, CopiedLabels, {}, {}, {}, Entries(program, id), instr, label)
      /\ FlowOK(program, id, CopiedCode, CopiedLabels, {}, {}, Entries(program, id))
  BY <1>4, <1>5 DEF SeparateInv, CopyInv
<1>7. CopiedLabels \subseteq CopiedCode
  BY <1>5 DEF SeparateInv, StackInv, StackOK
<1>8. CopiedCode = ReachIn(program, id) /\ CopiedLabels = LabelsAt(program, id)
  BY <1>2, <1>6, <1>7, AllIsCopied
<1>9. [ptr |-> <<id, id>>, st_entries |-> st_entries] = HeaderCopy(program, id)
  BY <1>2, <1>3 DEF HeaderCopy
<1> QED
  BY <1>0, <1>6, <1>8, <1>9

(* The new ids go on where those of the result end. *)
MergedTable(old, n, lab, new, tbl) ==
  tbl = [k \in DOMAIN old \cup {n + lab[l].id : l \in new} |->
           IF k \in {n + lab[l].id : l \in new}
           THEN CHOOSE l \in new : n + lab[l].id = k ELSE old[k]]

(* A symbol table of the labels S with ids below n; fresh ids of new labels *)
(* below m.                                                                *)
TableOf(tbl, n, S) == /\ DOMAIN tbl \subseteq Nat /\ {tbl[k] : k \in DOMAIN tbl} = S
                      /\ \A k \in DOMAIN tbl : k < n
FreshIds(new, lab, m) == /\ \A l \in new : lab[l].id \in Nat /\ lab[l].id < m
                         /\ \A l, k \in new : lab[l].id = lab[k].id => l = k
EachOldOrNew(tbl, old, new, lab, n) ==
  \A k \in DOMAIN tbl :
    \/ k \in DOMAIN old /\ tbl[k] = old[k]
    \/ tbl[k] \in new /\ k = n + lab[tbl[k]].id

LEMMA SymtblGrows ==
  ASSUME NEW old, NEW n \in Nat, NEW S, NEW lab, TableOf(old, n, S),
         NEW new, NEW m \in Nat, FreshIds(new, lab, m),
         NEW tbl, MergedTable(old, n, lab, new, tbl)
  PROVE  TableOf(tbl, n + m, S \cup new) /\ EachOldOrNew(tbl, old, new, lab, n)
<1>d. /\ DOMAIN old \subseteq Nat /\ {old[k] : k \in DOMAIN old} = S
      /\ \A k \in DOMAIN old : k < n
      /\ \A l \in new : lab[l].id \in Nat /\ lab[l].id < m
      /\ \A l, k \in new : lab[l].id = lab[k].id => l = k
  BY DEF TableOf, FreshIds
<1>f. PICK f : f = [l \in new |-> lab[l].id]
  OBVIOUS
<1>g. /\ \A l \in new : f[l] = lab[l].id /\ f[l] \in Nat /\ f[l] < m
      /\ \A l, k \in new : f[l] = f[k] => l = k
  BY <1>d, <1>f
<1>h. PICK K : K = {n + lab[l].id : l \in new}
  OBVIOUS
<1>i. /\ K = {n + f[l] : l \in new}
      /\ DOMAIN tbl = DOMAIN old \cup K
      /\ \A k \in DOMAIN tbl : tbl[k] = IF k \in K THEN CHOOSE l \in new : n + lab[l].id = k
                                                   ELSE old[k]
  BY <1>g, <1>h DEF MergedTable
<1>1. \A k \in K : k \in Nat /\ k >= n /\ k < n + m
  BY <1>g, <1>i
<1>2. K \cap DOMAIN old = {}
  BY <1>d, <1>1
<1>3. \A k \in DOMAIN old : tbl[k] = old[k] /\ k \in DOMAIN tbl
  BY <1>2, <1>i
<1>4. ASSUME NEW k \in K
      PROVE  tbl[k] \in new /\ k = n + f[tbl[k]] /\ k \in DOMAIN tbl
  <2>1. tbl[k] = CHOOSE l \in new : n + lab[l].id = k
    BY <1>i
  <2>2. \E l \in new : n + lab[l].id = k
    BY <1>h
  <2>3. tbl[k] \in new /\ k = n + lab[tbl[k]].id
    BY <2>1, <2>2
  <2> QED
    BY <1>g, <1>i, <2>3
<1>5. ASSUME NEW l \in new PROVE tbl[n + f[l]] = l /\ n + f[l] \in K
  <2>1. PICK k : k = n + f[l]
    OBVIOUS
  <2>2. k \in K
    BY <1>i, <2>1
  <2>3. tbl[k] \in new /\ n + f[l] = n + f[tbl[k]]
    BY <1>4, <2>1, <2>2
  <2>4. f[l] = f[tbl[k]]
    BY <1>g, <2>3
  <2> QED
    BY <1>g, <2>1, <2>2, <2>3, <2>4
<1>6. DOMAIN tbl = DOMAIN old \cup K
  BY <1>i
<1>7. {tbl[k] : k \in DOMAIN tbl} \subseteq S \cup new
  BY <1>d, <1>3, <1>4, <1>6
<1>8. S \cup new \subseteq {tbl[k] : k \in DOMAIN tbl}
  <2>1. ASSUME NEW x \in S PROVE x \in {tbl[k] : k \in DOMAIN tbl}
    BY <1>d, <1>3
  <2>2. ASSUME NEW x \in new PROVE x \in {tbl[k] : k \in DOMAIN tbl}
    BY <1>5, <1>6
  <2> QED
    BY <2>1, <2>2
<1>9. \A k \in DOMAIN tbl : k < n + m
  BY <1>d, <1>1, <1>6
<1>10. DOMAIN tbl \subseteq Nat
  BY <1>d, <1>1, <1>6
<1>11. {tbl[k] : k \in DOMAIN tbl} = S \cup new
  BY <1>7, <1>8
<1>12. EachOldOrNew(tbl, old, new, lab, n)
  BY <1>3, <1>4, <1>6, <1>g DEF EachOldOrNew
<1> QED
  BY <1>9, <1>10, <1>11, <1>12 DEF TableOf

LEMMA MergeStep ==
  ASSUME SeparateInv, MergeSingle
  PROVE  SeparateInv'
<1>1. /\ pc = "copy" /\ pc' = "separate" /\ stack = <<>>
      /\ animno \notin DOMAIN ip.headers[id].st_entries
      /\ UNCHANGED <<program, ip, ids, instr, id>>
  BY DEF MergeSingle, copying
<1>2. PICK h, p, W, V, new, f, uniq, n :
        /\ h = id /\ p = program /\ W = ReachIn(p, h) /\ V = LabelsAt(p, h)
        /\ new = {h} \X V /\ f = [l \in {h} \X V |-> label[l].id]
        /\ uniq = ip_rest.uniq_id /\ n = Cardinality({h} \X V)
  OBVIOUS
<1>3. /\ Copying /\ CopiedCode = W /\ CopiedLabels = V
      /\ CopyOK(p, h, W, V, {}, {}, {}, Entries(p, h), instr, label)
      /\ [ptr |-> <<h, h>>, st_entries |-> st_entries] = HeaderCopy(p, h)
  BY <1>1, <1>2, CopyIsWhole
<1>4. NewLabels = new
  BY <1>2, <1>3 DEF Copying
<1>5. /\ label' = [l \in DOMAIN label |->
                     IF l \in new THEN [label[l] EXCEPT !.id = uniq + @] ELSE label[l]]
      /\ ip_rest'.headers = Put(ip_rest.headers, h, [ptr |-> <<h, h>>, st_entries |-> st_entries])
      /\ MergedTable(ip_rest.symtbl, uniq, label, new, ip_rest'.symtbl)
      /\ ip_rest'.uniq_id = uniq + n
  <2>1. /\ label' = [l \in DOMAIN label |->
                       IF l \in NewLabels THEN [label[l] EXCEPT !.id = NewId(@)] ELSE label[l]]
        /\ ip_rest' =
             [headers |-> Put(ip_rest.headers, id, [ptr |-> <<id, id>>, st_entries |-> st_entries]),
              symtbl  |-> [k \in DOMAIN ip_rest.symtbl \cup {NewId(label[l].id) : l \in NewLabels} |->
                             IF k \in {NewId(label[l].id) : l \in NewLabels}
                             THEN CHOOSE l \in NewLabels : NewId(label[l].id) = k
                             ELSE ip_rest.symtbl[k]],
              uniq_id |-> ip_rest.uniq_id + Cardinality(NewLabels)]
    BY DEF MergeSingle, NewLabels
  <2>2. \A k : NewId(k) = uniq + k
    BY <1>2 DEF NewId
  <2>3. /\ label' = [l \in DOMAIN label |->
                       IF l \in NewLabels THEN [label[l] EXCEPT !.id = uniq + @] ELSE label[l]]
        /\ ip_rest' =
             [headers |-> Put(ip_rest.headers, id, [ptr |-> <<id, id>>, st_entries |-> st_entries]),
              symtbl  |-> [k \in DOMAIN ip_rest.symtbl \cup {uniq + label[l].id : l \in NewLabels} |->
                             IF k \in {uniq + label[l].id : l \in NewLabels}
                             THEN CHOOSE l \in NewLabels : uniq + label[l].id = k
                             ELSE ip_rest.symtbl[k]],
              uniq_id |-> uniq + Cardinality(NewLabels)]
    BY <1>2, <2>1 DEF NewId
  <2>4. PICK T : MergedTable(ip_rest.symtbl, uniq, label, NewLabels, T)
    BY DEF MergedTable
  <2>5. ip_rest' =
          [headers |-> Put(ip_rest.headers, id, [ptr |-> <<id, id>>, st_entries |-> st_entries]),
           symtbl |-> T, uniq_id |-> uniq + Cardinality(NewLabels)]
    BY <2>3, <2>4 DEF MergedTable
  <2>6. /\ ip_rest'.headers = Put(ip_rest.headers, id, [ptr |-> <<id, id>>, st_entries |-> st_entries])
        /\ ip_rest'.symtbl = T /\ ip_rest'.uniq_id = uniq + Cardinality(NewLabels)
    BY <2>5
  <2> QED
    BY <1>2, <1>4, <2>3, <2>4, <2>6
<1>6. /\ IsFiniteSet(new) /\ n \in Nat /\ uniq \in Nat
      /\ DOMAIN f = new /\ \A l \in new : f[l] = label[l].id /\ f[l] \in Nat /\ f[l] < n
      /\ \A l, m \in new : f[l] = f[m] => l = m
  <2>1. /\ IsFiniteSet(new) /\ unique_id = Cardinality(new)
        /\ \A l \in new : label[l].id \in Nat /\ label[l].id < unique_id
        /\ \A l, m \in new : label[l].id = label[m].id => l = m
    BY <1>1, <1>4 DEF SeparateInv, IdsInv
  <2>2. n = unique_id /\ n \in Nat
    BY <1>2, <2>1, FS_CardinalityType
  <2>3. DOMAIN f = new /\ \A l \in new : f[l] = label[l].id
    BY <1>2
  <2>4. uniq \in Nat
    BY <1>2 DEF SeparateInv, SymtblInv
  <2> QED
    BY <2>1, <2>2, <2>3, <2>4
<1>7. /\ Extracted' = Extracted \cup {h} /\ h \notin Extracted
      /\ DOMAIN instr = DoneCode \cup ({h} \X W) /\ DOMAIN label = DoneLabels \cup new
  <2>1. Extracted' = Extracted \cup {h}
    BY <1>1, <1>2 DEF SeparateInv, ControlInv, Extracted
  <2> QED
    BY <1>1, <1>2, <1>3, <2>1 DEF SeparateInv, DomainInv, Copying
<1>8. DoneCode' = DoneCode \cup ({h} \X W) /\ DoneLabels' = DoneLabels \cup new
  <2>1. DoneCode' = UNION {{g} \X ReachIn(p, g) : g \in Extracted \cup {h}}
    BY <1>1, <1>2, <1>7 DEF DoneCode
  <2>2. DoneLabels' = UNION {{g} \X LabelsAt(p, g) : g \in Extracted \cup {h}}
    BY <1>1, <1>2, <1>7 DEF DoneLabels
  <2>3. /\ DoneCode = UNION {{g} \X ReachIn(p, g) : g \in Extracted}
        /\ DoneLabels = UNION {{g} \X LabelsAt(p, g) : g \in Extracted}
    BY <1>2 DEF DoneCode, DoneLabels
  <2>4. PICK S, T : /\ S = {{g} \X ReachIn(p, g) : g \in Extracted}
                    /\ T = {{g} \X LabelsAt(p, g) : g \in Extracted}
    OBVIOUS
  <2>5. {{g} \X ReachIn(p, g) : g \in Extracted \cup {h}} = S \cup {{h} \X W}
    BY <1>2, <2>4
  <2>6. {{g} \X LabelsAt(p, g) : g \in Extracted \cup {h}} = T \cup {new}
    BY <1>2, <2>4
  <2>7. UNION (S \cup {{h} \X W}) = (UNION S) \cup ({h} \X W)
    OBVIOUS
  <2>8. UNION (T \cup {new}) = (UNION T) \cup new
    OBVIOUS
  <2> QED
    BY <2>1, <2>2, <2>3, <2>4, <2>5, <2>6, <2>7, <2>8
<1>9. /\ DOMAIN label' = DOMAIN label
      /\ \A l \in DoneLabels : label'[l] = label[l]
      /\ \A l \in new : /\ label'[l] = [label[l] EXCEPT !.id = uniq + f[l]]
                        /\ label'[l].id = uniq + f[l]
  <2>1. new \cap DoneLabels = {}
    <3>1. ASSUME NEW g \in Extracted, NEW y \in {g} \X LabelsAt(program, g) PROVE y \notin new
      BY <1>2, <1>7, <3>1
    <3> QED
      BY <3>1 DEF DoneLabels
  <2>2. DOMAIN label' = DOMAIN label
    BY <1>5
  <2>3. ASSUME NEW l \in DoneLabels PROVE label'[l] = label[l]
    BY <1>5, <1>7, <2>1
  <2>4. ASSUME NEW l \in new
        PROVE  /\ label'[l] = [label[l] EXCEPT !.id = uniq + f[l]]
               /\ label'[l].id = uniq + f[l]
    <3>1. PICK x, y : x = label[l] /\ y = label'[l]
      OBVIOUS
    <3>2. LabelForm(x) /\ l \in DOMAIN label
      BY <1>1, <1>7, <3>1, HeapForm
    <3>3. y = [x EXCEPT !.id = uniq + @] /\ f[l] = x.id
      BY <1>5, <1>6, <3>1, <3>2
    <3>4. y = [x EXCEPT !.id = uniq + f[l]]
      BY <3>3
    <3>5. y.id = uniq + f[l]
      <4>1. PICK e : e = uniq + f[l]
        OBVIOUS
      <4>2. x = [id |-> x.id, bc |-> x.bc, anims |-> x.anims, jumps |-> x.jumps]
        BY <3>2 DEF LabelForm
      <4>3. PICK a, b, c, d : x = [id |-> a, bc |-> b, anims |-> c, jumps |-> d]
        BY <4>2
      <4>4. y = [x EXCEPT !.id = e]
        BY <3>4, <4>1
      <4>5. y = [id |-> e, bc |-> b, anims |-> c, jumps |-> d]
        BY <4>3, <4>4
      <4>6. y.id = e
        BY <4>5
      <4> QED
        BY <4>1, <4>6
    <3> QED
      BY <3>1, <3>4, <3>5
  <2> QED
    BY <2>2, <2>3, <2>4
<1>10. ControlInv'
  BY <1>1 DEF SeparateInv, ControlInv
<1>11. ExtractedInv'
  <2>1. /\ DOMAIN ip_rest.headers = Extracted
        /\ \A g \in Extracted : ip_rest.headers[g] = HeaderCopy(p, g)
        /\ \A g \in Extracted : CopyOK(p, g, ReachIn(p, g), LabelsAt(p, g), {}, {}, {},
                                       Entries(p, g), instr, label)
    BY <1>2 DEF SeparateInv, ExtractedInv
  <2>2. /\ DOMAIN ip_rest'.headers = Extracted'
        /\ \A g \in Extracted' : ip_rest'.headers[g] = HeaderCopy(p, g)
    <3>1. ip_rest'.headers = Put(ip_rest.headers, h, HeaderCopy(p, h))
      BY <1>3, <1>5
    <3> QED
      BY <1>7, <2>1, <3>1 DEF Put
  <2>3. ASSUME NEW g \in Extracted
        PROVE  CopyOK(p, g, ReachIn(p, g), LabelsAt(p, g), {}, {}, {}, Entries(p, g), instr, label')
    <3>1. CopyOK(p, g, ReachIn(p, g), LabelsAt(p, g), {}, {}, {}, Entries(p, g), instr, label)
      BY <2>1
    <3>2. \A a \in ReachIn(p, g) : <<g, a>> \in DOMAIN instr /\ instr[<<g, a>>] = instr[<<g, a>>]
      BY <3>1 DEF CopyOK
    <3>3. \A l \in LabelsAt(p, g) : /\ <<g, l>> \in DOMAIN label'
                                    /\ label'[<<g, l>>] = label[<<g, l>>]
      <4>1. \A l \in LabelsAt(p, g) : <<g, l>> \in DoneLabels
        BY <1>2 DEF DoneLabels
      <4> QED
        BY <1>7, <1>9, <4>1
    <3> QED
      BY <3>1, <3>2, <3>3, SameCopy
  <2>4. CopyOK(p, h, W, V, {}, {}, {}, Entries(p, h), instr, label')
    <3>1. \A a \in W : <<h, a>> \in DOMAIN instr /\ instr[<<h, a>>] = instr[<<h, a>>]
      BY <1>3 DEF CopyOK
    <3>2. \A l \in V : /\ <<h, l>> \in DOMAIN label'
                       /\ \E m : label'[<<h, l>>] = [label[<<h, l>>] EXCEPT !.id = m]
      <4>1. \A l \in V : <<h, l>> \in new
        BY <1>2
      <4> QED
        BY <1>7, <1>9, <4>1
    <3>3. PICK lab, lab2, ins : lab = label /\ lab2 = label' /\ ins = instr
      OBVIOUS
    <3>4. /\ \A a \in W : <<h, a>> \in DOMAIN ins /\ ins[<<h, a>>] = ins[<<h, a>>]
          /\ \A l \in V : /\ <<h, l>> \in DOMAIN lab2
                          /\ \/ lab2[<<h, l>>] = lab[<<h, l>>]
                             \/ \E m : lab2[<<h, l>>] = [lab[<<h, l>>] EXCEPT !.id = m]
          /\ CopyOK(p, h, W, V, {}, {}, {}, Entries(p, h), ins, lab)
      BY <1>3, <3>1, <3>2, <3>3
    <3>5. CopyOK(p, h, W, V, {}, {}, {}, Entries(p, h), ins, lab2)
      BY <3>4, SameCopy
    <3> QED
      BY <3>3, <3>5
  <2> QED
    BY <1>1, <1>2, <1>7, <2>2, <2>3, <2>4 DEF ExtractedInv
<1>12. DomainInv'
  BY <1>1, <1>7, <1>8, <1>9 DEF DomainInv
<1>13. SymtblInv'
  <2>1. PICK old, tbl, lab : old = ip_rest.symtbl /\ tbl = ip_rest'.symtbl /\ lab = label
    OBVIOUS
  <2>2. MergedTable(old, uniq, lab, new, tbl) /\ ip_rest'.uniq_id = uniq + n
    BY <1>5, <2>1
  <2>3. /\ DOMAIN old \subseteq Nat /\ {old[k] : k \in DOMAIN old} = DoneLabels
        /\ \A k \in DOMAIN old : k < uniq /\ label[old[k]].id = k
    BY <1>2, <2>1 DEF SeparateInv, SymtblInv
  <2>4. PICK S : S = DoneLabels
    OBVIOUS
  <2>5. TableOf(tbl, uniq + n, S \cup new) /\ EachOldOrNew(tbl, old, new, lab, uniq)
    <3>1. FreshIds(new, lab, n)
      BY <1>6, <2>1 DEF FreshIds
    <3>2. TableOf(old, uniq, S)
      BY <2>3, <2>4 DEF TableOf
    <3>3. MergedTable(old, uniq, lab, new, tbl)
      BY <2>2
    <3>4. uniq \in Nat /\ n \in Nat
      BY <1>6
    <3> QED
      BY <3>1, <3>2, <3>3, <3>4, SymtblGrows
  <2>6. ASSUME NEW k \in DOMAIN tbl PROVE label'[tbl[k]].id = k
    <3>1. CASE k \in DOMAIN old /\ tbl[k] = old[k]
      BY <1>9, <2>3, <3>1
    <3>2. CASE tbl[k] \in new /\ k = uniq + lab[tbl[k]].id
      <4>1. PICK x : x = tbl[k]
        OBVIOUS
      <4>2. x \in new
        BY <3>2, <4>1
      <4>3. k = uniq + lab[x].id
        BY <3>2, <4>1
      <4>4. f[x] = lab[x].id
        BY <1>6, <2>1, <4>2
      <4>5. label'[x].id = uniq + f[x]
        BY <1>9, <4>2
      <4> QED
        BY <4>1, <4>3, <4>4, <4>5
    <3> QED
      BY <2>5, <3>1, <3>2 DEF EachOldOrNew
  <2>7. uniq + n \in Nat
    BY <1>6
  <2> QED
    BY <1>8, <2>1, <2>2, <2>4, <2>5, <2>6, <2>7 DEF SymtblInv, TableOf
<1>14. pc' # "copy"
  BY <1>1
<1> QED
  BY <1>10, <1>11, <1>12, <1>13, <1>14
     DEF SeparateInv, IdsInv, VisitedInv, StackInv, EntriesInv, CopyInv

-----------------------------------------------------------------------------
LEMMA SeparatedStep ==
  ASSUME SeparateInv, UNCHANGED vars
  PROVE  SeparateInv'
<1>1. UNCHANGED <<program, ip, pc, ids, instr, label, ip_rest, id, st_entries, animno, unique_id,
                 visited, visited_instrs, stack>>
  BY DEF vars, copying
<1>2. /\ Extracted' = Extracted /\ Offsets' = Offsets /\ CopiedCode' = CopiedCode
      /\ CopiedLabels' = CopiedLabels /\ NewLabels' = NewLabels /\ EntriesMet' = EntriesMet
  BY <1>1 DEF Extracted, Offsets, CopiedCode, CopiedLabels, NewLabels, EntriesMet
<1>3. DoneCode' = DoneCode /\ DoneLabels' = DoneLabels
  BY <1>1, <1>2 DEF DoneCode, DoneLabels
<1>4. ControlInv'
  BY <1>1 DEF SeparateInv, ControlInv
<1>5. ExtractedInv'
  BY <1>1, <1>2 DEF SeparateInv, ExtractedInv
<1>6. DomainInv'
  BY <1>1, <1>2, <1>3 DEF SeparateInv, DomainInv
<1>7. SymtblInv'
  BY <1>1, <1>3 DEF SeparateInv, SymtblInv
<1>8. IdsInv'
  BY <1>1, <1>2 DEF SeparateInv, IdsInv
<1>9. VisitedInv'
  BY <1>1, <1>2 DEF SeparateInv, VisitedInv
<1>10. StackInv'
  BY <1>1, <1>2 DEF SeparateInv, StackInv
<1>11. EntriesInv'
  BY <1>1, <1>2 DEF SeparateInv, EntriesInv
<1>12. CopyInv'
  BY <1>1, <1>2 DEF SeparateInv, CopyInv
<1> QED
  BY <1>4, <1>5, <1>6, <1>7, <1>8, <1>9, <1>10, <1>11, <1>12 DEF SeparateInv

(* The invariant holds in every state of a run. *)
LEMMA SeparateInvHolds == Spec => []SeparateInv
<1>1. Init => SeparateInv
  BY InitInv
<1>2. SeparateInv /\ [Next]_vars => SeparateInv'
  <2> SUFFICES ASSUME SeparateInv, [Next]_vars PROVE SeparateInv'
    OBVIOUS
  <2>1. CASE \E h \in ids : ExtractHeader(h)
    BY <2>1, ExtractStep
  <2>2. CASE CopyEntry
    BY <2>2, CopyEntryStep
  <2>3. CASE ChainEnds
    BY <2>3, ChainEndsStep
  <2>4. CASE ChainJoins
    BY <2>4, ChainJoinsStep
  <2>5. CASE CopyInstr
    BY <2>5, CopyInstrStep
  <2>6. CASE CopyJump
    BY <2>6, CopyJumpStep
  <2>7. CASE MergeSingle
    BY <2>7, MergeStep
  <2>8. CASE Separated \/ UNCHANGED vars
    BY <2>8, SeparatedStep DEF Separated
  <2> QED
    BY <2>1, <2>2, <2>3, <2>4, <2>5, <2>6, <2>7, <2>8 DEF Next
<1> QED
  BY <1>1, <1>2, PTL DEF Spec

-----------------------------------------------------------------------------
(* A copy in which everything is done.                                     *)

WholeCopy(p, h, ins, lab) ==
  /\ IsProgram(p) /\ h \in DOMAIN p.headers
  /\ CopyOK(p, h, ReachIn(p, h), LabelsAt(p, h), {}, {}, {}, Entries(p, h), ins, lab)

InstrIs(p, h, ins, a) ==
  /\ <<h, a>> \in DOMAIN ins /\ ins[<<h, a>>].op = <<0, a>>
  /\ ins[<<h, a>>].next = IF FallsThrough(p, a) THEN <<h, a + 1>> ELSE NULL
  /\ ins[<<h, a>>].prev = IF a - 1 \in ReachIn(p, h) /\ FallsThrough(p, a - 1)
                          THEN <<h, a - 1>> ELSE NULL
  /\ ins[<<h, a>>].st_entry = IF a \in LabelsAt(p, h) THEN <<h, a>> ELSE NULL
  /\ ins[<<h, a>>].jump = IF Jumps(p, a) THEN <<h, p.instr[a].target>> ELSE NULL
LabelIs(p, h, lab, l) ==
  /\ <<h, l>> \in DOMAIN lab /\ lab[<<h, l>>].bc = <<h, l>>
  /\ lab[<<h, l>>].jumps = {h} \X {a \in ReachIn(p, h) : Jumps(p, a) /\ p.instr[a].target = l}
  /\ \A an \in lab[<<h, l>>].anims :
       an.header = <<h, h>> /\ (an.type = "HEADER" => l \in Entries(p, h))
  /\ l \in Entries(p, h) => [header |-> <<h, h>>, type |-> "HEADER"] \in lab[<<h, l>>].anims
HeaderIs(p, h, header) ==
  /\ header.ptr = <<h, h>> /\ DOMAIN header.st_entries = DOMAIN p.headers[h]
  /\ \A i \in DOMAIN p.headers[h] :
       /\ header.st_entries[i] = IF p.headers[h][i] = 0 THEN NULL ELSE <<h, p.headers[h][i]>>
       /\ p.headers[h][i] # 0 => p.headers[h][i] \in Entries(p, h)
  /\ \A a \in Entries(p, h) : \E i \in DOMAIN p.headers[h] : header.st_entries[i] = <<h, a>>

LEMMA WholeInstr ==
  ASSUME NEW p, NEW h, NEW ins, NEW lab, WholeCopy(p, h, ins, lab), NEW a \in ReachIn(p, h)
  PROVE  InstrIs(p, h, ins, a)
<1>1. PICK x, W, V : x = ins[<<h, a>>] /\ W = ReachIn(p, h) /\ V = LabelsAt(p, h)
  OBVIOUS
<1>2. <<h, a>> \in DOMAIN ins /\ x = CopyOfInstr(p, h, W, V, {}, {}, a)
  BY <1>1 DEF WholeCopy, CopyOK
<1>3. /\ x.op = <<0, a>>
      /\ x.next = IF FallsThrough(p, a) THEN <<h, a + 1>> ELSE NULL
      /\ x.prev = IF a - 1 \in W /\ FallsThrough(p, a - 1) THEN <<h, a - 1>> ELSE NULL
      /\ x.st_entry = IF a \in V THEN <<h, a>> ELSE NULL
      /\ x.jump = IF Jumps(p, a) THEN <<h, p.instr[a].target>> ELSE NULL
  BY <1>2, CopyFields
<1> QED
  BY <1>1, <1>2, <1>3 DEF InstrIs

LEMMA WholeLabel ==
  ASSUME NEW p, NEW h, NEW ins, NEW lab, WholeCopy(p, h, ins, lab), NEW l \in LabelsAt(p, h)
  PROVE  LabelIs(p, h, lab, l)
<1>1. PICK st, W, E : st = lab[<<h, l>>] /\ W = ReachIn(p, h) /\ E = Entries(p, h)
  OBVIOUS
<1>2. <<h, l>> \in DOMAIN lab /\ CopyOfLabel(p, h, W, {}, E, l, st)
  BY <1>1 DEF WholeCopy, CopyOK
<1>3. l \in W
  BY <1>1, CodeAt DEF WholeCopy
<1>4. /\ st.bc = <<h, l>> /\ st.jumps = JumpsInto(p, h, W, {}, l) /\ AnimsFor(h, E, l, st.anims)
  BY <1>2, <1>3, LabelFields
<1>5. st.jumps = {h} \X {a \in W : Jumps(p, a) /\ p.instr[a].target = l}
  BY <1>4 DEF JumpsInto
<1>6. ASSUME NEW an \in st.anims PROVE an.header = <<h, h>> /\ (an.type = "HEADER" => l \in E)
  <2>1. an \in [header : {<<h, h>>}, type : {"HEADER", "JUMP"}]
    BY <1>4 DEF AnimsFor
  <2>2. an.header = <<h, h>> /\ an = [header |-> <<h, h>>, type |-> an.type]
    BY <2>1
  <2> QED
    BY <1>4, <2>2 DEF AnimsFor
<1>7. l \in E => [header |-> <<h, h>>, type |-> "HEADER"] \in st.anims
  BY <1>4 DEF AnimsFor
<1> QED
  BY <1>1, <1>2, <1>4, <1>5, <1>6, <1>7 DEF LabelIs

LEMMA WholeHeader ==
  ASSUME NEW p, IsProgram(p), NEW h \in DOMAIN p.headers
  PROVE  HeaderIs(p, h, HeaderCopy(p, h))
<1>1. PICK s : s = p.headers[h]
  OBVIOUS
<1>2. PICK e : e = [i \in DOMAIN s |-> EntryCopy(h, s[i])]
  OBVIOUS
<1>3. HeaderCopy(p, h).ptr = <<h, h>> /\ HeaderCopy(p, h).st_entries = e
  BY <1>1, <1>2 DEF HeaderCopy
<1>4. DOMAIN e = DOMAIN s /\ \A i \in DOMAIN s : e[i] = IF s[i] = 0 THEN NULL ELSE <<h, s[i]>>
  BY <1>2 DEF EntryCopy
<1>5. /\ \A i \in DOMAIN s : s[i] # 0 => s[i] \in Entries(p, h)
      /\ \A a \in Entries(p, h) : a # 0 /\ \E i \in DOMAIN s : s[i] = a
  BY <1>1, OffsetFacts
<1> QED
  BY <1>1, <1>3, <1>4, <1>5, ZenonT(60) DEF HeaderIs

(* The copies for the headers X, and nothing else. *)
Copies(p, X, ins, lab) ==
  /\ IsProgram(p) /\ X \subseteq DOMAIN p.headers
  /\ \A h \in X : WholeCopy(p, h, ins, lab)
  /\ DOMAIN ins = UNION {{h} \X ReachIn(p, h) : h \in X}
  /\ DOMAIN lab = UNION {{h} \X LabelsAt(p, h) : h \in X}

LEMMA NameFacts ==
  ASSUME NEW p, IsProgram(p), NEW h \in DOMAIN p.headers, NEW a \in ReachIn(p, h)
  PROVE  /\ <<h, a>> # NULL /\ h \in Nat /\ a \in Nat \ {0} /\ (a - 1) + 1 = a /\ (a + 1) - 1 = a
         /\ a \in DOMAIN p.instr
<1>1. h \in Nat /\ a \in Nat \ {0} /\ a \in DOMAIN p.instr
  BY CodeAt
<1> QED
  BY <1>1, NullAssumption

LEMMA CopiesInstrsAgree ==
  ASSUME NEW p, NEW X, NEW ins, NEW lab, Copies(p, X, ins, lab)
  PROVE  InstrsAgree(ins, lab)
<1>1. ASSUME NEW x \in DOMAIN ins
      PROVE  \E h \in X : \E a \in ReachIn(p, h) : x = <<h, a>>
  BY DEF Copies
<1>2. SUFFICES ASSUME NEW h \in X, NEW a \in ReachIn(p, h), NEW x, x = <<h, a>>
      PROVE  /\ ins[x].next # NULL =>
                  ins[x].next \in DOMAIN ins /\ ins[ins[x].next].prev = x
             /\ ins[x].prev # NULL =>
                  ins[x].prev \in DOMAIN ins /\ ins[ins[x].prev].next = x
             /\ ins[x].st_entry # NULL =>
                  ins[x].st_entry \in DOMAIN lab /\ lab[ins[x].st_entry].bc = x
             /\ ins[x].jump # NULL =>
                  ins[x].jump \in DOMAIN lab /\ x \in lab[ins[x].jump].jumps
  BY <1>1 DEF InstrsAgree
<1>3. WholeCopy(p, h, ins, lab) /\ IsProgram(p) /\ h \in DOMAIN p.headers
  BY DEF Copies
<1>4. /\ ins[x].next = IF FallsThrough(p, a) THEN <<h, a + 1>> ELSE NULL
      /\ ins[x].prev = IF a - 1 \in ReachIn(p, h) /\ FallsThrough(p, a - 1)
                       THEN <<h, a - 1>> ELSE NULL
      /\ ins[x].st_entry = IF a \in LabelsAt(p, h) THEN <<h, a>> ELSE NULL
      /\ ins[x].jump = IF Jumps(p, a) THEN <<h, p.instr[a].target>> ELSE NULL
  <2>1. InstrIs(p, h, ins, a)
    BY <1>3, WholeInstr
  <2> QED
    BY <1>2, <2>1 DEF InstrIs
<1>5. (a - 1) + 1 = a /\ (a + 1) - 1 = a
  BY <1>3, NameFacts
<1>6. ins[x].next # NULL => ins[x].next \in DOMAIN ins /\ ins[ins[x].next].prev = x
  <2>1. SUFFICES ASSUME FallsThrough(p, a)
                 PROVE  <<h, a + 1>> \in DOMAIN ins /\ ins[<<h, a + 1>>].prev = x
    BY <1>4
  <2>2. a + 1 \in ReachIn(p, h)
    BY <1>3, <2>1, CodeAt
  <2>3. PICK b \in ReachIn(p, h) : b = a + 1 /\ b - 1 = a
    BY <1>5, <2>2
  <2>4. /\ <<h, b>> \in DOMAIN ins
        /\ ins[<<h, b>>].prev = IF b - 1 \in ReachIn(p, h) /\ FallsThrough(p, b - 1)
                                THEN <<h, b - 1>> ELSE NULL
    <3>1. InstrIs(p, h, ins, b)
      BY <1>3, WholeInstr
    <3> QED
      BY <3>1 DEF InstrIs
  <2> QED
    BY <1>2, <2>1, <2>3, <2>4
<1>7. ins[x].prev # NULL => ins[x].prev \in DOMAIN ins /\ ins[ins[x].prev].next = x
  <2>1. SUFFICES ASSUME a - 1 \in ReachIn(p, h), FallsThrough(p, a - 1)
                 PROVE  <<h, a - 1>> \in DOMAIN ins /\ ins[<<h, a - 1>>].next = x
    BY <1>4
  <2>2. PICK b \in ReachIn(p, h) : b = a - 1 /\ b + 1 = a
    BY <1>5, <2>1
  <2>3. /\ <<h, b>> \in DOMAIN ins
        /\ ins[<<h, b>>].next = IF FallsThrough(p, b) THEN <<h, b + 1>> ELSE NULL
    <3>1. InstrIs(p, h, ins, b)
      BY <1>3, WholeInstr
    <3> QED
      BY <3>1 DEF InstrIs
  <2> QED
    BY <1>2, <2>1, <2>2, <2>3
<1>8. ins[x].st_entry # NULL => ins[x].st_entry \in DOMAIN lab /\ lab[ins[x].st_entry].bc = x
  <2>1. SUFFICES ASSUME a \in LabelsAt(p, h)
                 PROVE  <<h, a>> \in DOMAIN lab /\ lab[<<h, a>>].bc = x
    BY <1>4
  <2>2. LabelIs(p, h, lab, a)
    BY <1>3, <2>1, WholeLabel
  <2> QED
    BY <1>2, <2>2 DEF LabelIs
<1>9. ins[x].jump # NULL => ins[x].jump \in DOMAIN lab /\ x \in lab[ins[x].jump].jumps
  <2>1. SUFFICES ASSUME Jumps(p, a), NEW t, t = p.instr[a].target
                 PROVE  <<h, t>> \in DOMAIN lab /\ x \in lab[<<h, t>>].jumps
    BY <1>4
  <2>2. t \in LabelsAt(p, h)
    BY <1>3, <2>1, CodeAt
  <2>3. /\ <<h, t>> \in DOMAIN lab
        /\ lab[<<h, t>>].jumps = {h} \X {b \in ReachIn(p, h) : Jumps(p, b) /\ p.instr[b].target = t}
    <3>1. LabelIs(p, h, lab, t)
      BY <1>3, <2>2, WholeLabel
    <3> QED
      BY <3>1 DEF LabelIs
  <2> QED
    BY <1>2, <2>1, <2>3
<1> QED
  BY <1>6, <1>7, <1>8, <1>9

LEMMA CopiesLabelsAgree ==
  ASSUME NEW p, NEW X, NEW ins, NEW lab, Copies(p, X, ins, lab)
  PROVE  LabelsAgree(ins, lab)
<1>1. ASSUME NEW x \in DOMAIN lab
      PROVE  \E h \in X : \E l \in LabelsAt(p, h) : x = <<h, l>>
  BY DEF Copies
<1>2. SUFFICES ASSUME NEW h \in X, NEW l \in LabelsAt(p, h), NEW x, x = <<h, l>>
      PROVE  /\ lab[x].bc \in DOMAIN ins /\ ins[lab[x].bc].st_entry = x
             /\ \A j \in lab[x].jumps : j \in DOMAIN ins /\ ins[j].jump = x
  BY <1>1 DEF LabelsAgree
<1>3. WholeCopy(p, h, ins, lab) /\ IsProgram(p) /\ h \in DOMAIN p.headers
  BY DEF Copies
<1>4. /\ lab[x].bc = x
      /\ lab[x].jumps = {h} \X {b \in ReachIn(p, h) : Jumps(p, b) /\ p.instr[b].target = l}
  <2>1. LabelIs(p, h, lab, l)
    BY <1>3, WholeLabel
  <2> QED
    BY <1>2, <2>1 DEF LabelIs
<1>5. l \in ReachIn(p, h)
  BY <1>3, CodeAt
<1>6. x \in DOMAIN ins /\ ins[x].st_entry = x
  <2>1. InstrIs(p, h, ins, l)
    BY <1>3, <1>5, WholeInstr
  <2> QED
    BY <1>2, <2>1 DEF InstrIs
<1>7. ASSUME NEW j \in lab[x].jumps PROVE j \in DOMAIN ins /\ ins[j].jump = x
  <2>1. PICK b \in ReachIn(p, h) : j = <<h, b>> /\ Jumps(p, b) /\ p.instr[b].target = l
    BY <1>4
  <2>2. /\ <<h, b>> \in DOMAIN ins
        /\ ins[<<h, b>>].jump = IF Jumps(p, b) THEN <<h, p.instr[b].target>> ELSE NULL
    <3>1. InstrIs(p, h, ins, b)
      BY <1>3, WholeInstr
    <3> QED
      BY <3>1 DEF InstrIs
  <2> QED
    BY <1>2, <2>1, <2>2
<1> QED
  BY <1>4, <1>6, <1>7

LEMMA CopiesHeadersAgree ==
  ASSUME NEW p, NEW X, NEW ins, NEW lab, Copies(p, X, ins, lab),
         NEW headers, DOMAIN headers = X, \A h \in X : headers[h] = HeaderCopy(p, h)
  PROVE  HeadersAgree(headers, lab)
<1>1. \A h \in X : WholeCopy(p, h, ins, lab) /\ IsProgram(p) /\ h \in DOMAIN p.headers
  BY DEF Copies
<1>2. ASSUME NEW h \in X, NEW i \in DOMAIN headers[h].st_entries,
             headers[h].st_entries[i] # NULL
      PROVE  /\ headers[h].st_entries[i] \in DOMAIN lab
             /\ [header |-> headers[h].ptr, type |-> "HEADER"] \in lab[headers[h].st_entries[i]].anims
  <2>1. /\ headers[h].ptr = <<h, h>> /\ i \in DOMAIN p.headers[h]
        /\ headers[h].st_entries[i] = IF p.headers[h][i] = 0 THEN NULL ELSE <<h, p.headers[h][i]>>
        /\ p.headers[h][i] # 0 => p.headers[h][i] \in Entries(p, h)
    <3>1. HeaderIs(p, h, headers[h])
      BY <1>1, WholeHeader
    <3> QED
      BY <3>1 DEF HeaderIs
  <2>2. PICK l : l = p.headers[h][i]
    OBVIOUS
  <2>3. l \in Entries(p, h) /\ headers[h].st_entries[i] = <<h, l>>
    BY <1>2, <2>1, <2>2
  <2>4. l \in LabelsAt(p, h)
    BY <2>3 DEF LabelsAt
  <2>5. <<h, l>> \in DOMAIN lab /\ [header |-> <<h, h>>, type |-> "HEADER"] \in lab[<<h, l>>].anims
    <3>1. LabelIs(p, h, lab, l)
      BY <1>1, <2>4, WholeLabel
    <3> QED
      BY <2>3, <3>1 DEF LabelIs
  <2> QED
    BY <2>1, <2>3, <2>5
<1>3. ASSUME NEW x \in DOMAIN lab, NEW an \in lab[x].anims
      PROVE  \E h \in X : /\ an.header = headers[h].ptr
                          /\ an.type = "HEADER" =>
                               \E i \in DOMAIN headers[h].st_entries : headers[h].st_entries[i] = x
  <2>1. PICK h \in X : \E m \in LabelsAt(p, h) : x = <<h, m>>
    BY DEF Copies
  <2>2. PICK l \in LabelsAt(p, h) : x = <<h, l>>
    BY <2>1
  <2>3. an.header = <<h, h>> /\ (an.type = "HEADER" => l \in Entries(p, h))
    <3>1. LabelIs(p, h, lab, l)
      BY <1>1, WholeLabel
    <3> QED
      BY <2>2, <3>1 DEF LabelIs
  <2>4. /\ headers[h].ptr = <<h, h>> /\ DOMAIN headers[h].st_entries = DOMAIN p.headers[h]
        /\ \A a \in Entries(p, h) : \E i \in DOMAIN p.headers[h] : headers[h].st_entries[i] = <<h, a>>
    <3>1. HeaderIs(p, h, headers[h])
      BY <1>1, WholeHeader
    <3> QED
      BY <3>1 DEF HeaderIs
  <2> QED
    BY <2>2, <2>3, <2>4
<1> QED
  BY <1>2, <1>3 DEF HeadersAgree

-----------------------------------------------------------------------------
(* Between two headers there are the copies for the headers extracted, and *)
(* nothing else.                                                           *)
LEMMA ExtractedAreCopies ==
  ASSUME SeparateInv
  PROVE  /\ IsProgram(program) /\ Extracted \subseteq DOMAIN program.headers
         /\ \A h \in Extracted : WholeCopy(program, h, instr, label)
         /\ pc = "separate" => Copies(program, Extracted, instr, label)
<1>1. IsProgram(program) /\ Extracted \subseteq DOMAIN program.headers
  BY SeparateAssumption DEF SeparateInv, ControlInv, Extracted
<1>2. \A h \in Extracted : WholeCopy(program, h, instr, label)
  BY <1>1 DEF SeparateInv, ExtractedInv, WholeCopy
<1>3. pc = "separate" => DOMAIN instr = DoneCode /\ DOMAIN label = DoneLabels
  BY DEF SeparateInv, DomainInv
<1> QED
  BY <1>1, <1>2, <1>3 DEF Copies, DoneCode, DoneLabels

LEMMA AgreeFromInv ==
  ASSUME SeparateInv
  PROVE  SeparatedAgree
<1> SUFFICES ASSUME pc = "separate"
             PROVE  /\ InstrsAgree(instr, label) /\ LabelsAgree(instr, label)
                    /\ HeadersAgree(ip_rest.headers, label)
                    /\ SymTblAgrees(ip_rest.symtbl, ip_rest.uniq_id, label)
  BY DEF SeparatedAgree, Between
<1>1. PICK X : X = Extracted
  OBVIOUS
<1>2. Copies(program, X, instr, label)
  BY <1>1, ExtractedAreCopies
<1>3. InstrsAgree(instr, label) /\ LabelsAgree(instr, label)
  BY <1>2, CopiesInstrsAgree, CopiesLabelsAgree
<1>4. HeadersAgree(ip_rest.headers, label)
  <2>1. DOMAIN ip_rest.headers = X /\ \A h \in X : ip_rest.headers[h] = HeaderCopy(program, h)
    BY <1>1 DEF SeparateInv, ExtractedInv
  <2>2. PICK p, lab, ins, headers : p = program /\ lab = label /\ ins = instr /\ headers = ip_rest.headers
    OBVIOUS
  <2>3. HeadersAgree(headers, lab)
    BY <1>2, <2>1, <2>2, CopiesHeadersAgree
  <2> QED
    BY <2>2, <2>3
<1>5. SymTblAgrees(ip_rest.symtbl, ip_rest.uniq_id, label)
  BY DEF SeparateInv, SymtblInv, DomainInv, SymTblAgrees
<1> QED
  BY <1>3, <1>4, <1>5

(* SeparatedAgree: whenever no header is being extracted, every pointer of *)
(* the copies leads to a copy, next and prev, labels and instructions,     *)
(* jumps and their back references, headers and animations agree, and the  *)
(* symbol table of the result holds each label under its new id.           *)
THEOREM SeparatedGraphIsSound == Spec => []SeparatedAgree
<1>1. SeparateInv => SeparatedAgree
  BY AgreeFromInv
<1> QED
  BY <1>1, SeparateInvHolds, PTL

-----------------------------------------------------------------------------
(* An instruction of the copy for h is reached by h alone.                 *)

(* Every object of D is named after a header and code of it. *)
NamedAfter(p, D) ==
  \A x \in D : \E h \in DOMAIN p.headers : \E a \in ReachIn(p, h) : x = <<h, a>>

LEMMA FiniteProduct ==
  ASSUME NEW S, NEW T, IsFiniteSet(S), IsFiniteSet(T)
  PROVE  IsFiniteSet(S \X T)
BY FS_Product

LEMMA ReachIsCode ==
  ASSUME NEW p, IsProgram(p), NEW h \in DOMAIN p.headers
  PROVE  /\ h \in Nat /\ ReachIn(p, h) \subseteq Nat
         /\ ReachIn(p, h) \subseteq DOMAIN p.instr
BY CodeAt

LEMMA PairsFinite ==
  ASSUME NEW S, NEW T, IsFiniteSet(S), IsFiniteSet(T),
         NEW D, \A x \in D : \E h \in S : \E a \in T : x = <<h, a>>
  PROVE  IsFiniteSet(D)
<1>1. D \subseteq S \X T
  OBVIOUS
<1> QED
  BY <1>1, FiniteProduct, FS_Subset

LEMMA CopiesFinite ==
  ASSUME NEW p, IsProgram(p), NEW D, NamedAfter(p, D)
  PROVE  IsFiniteSet(D) /\ NULL \notin D
<1>1. PICK S, T : S = DOMAIN p.headers /\ T = DOMAIN p.instr
  OBVIOUS
<1>2. IsFiniteSet(S)
  BY <1>1 DEF IsProgram
<1>3. IsFiniteSet(T)
  BY <1>1, ProgramFacts
<1>4. \A h \in S : h \in Nat /\ \A a \in ReachIn(p, h) : a \in Nat /\ a \in T
  BY <1>1, ReachIsCode
<1>5. ASSUME NEW y \in D
      PROVE  (\E h \in S : \E a \in T : y = <<h, a>>) /\ y \in Nat \X Nat
  <2>1. \E h \in S : \E a \in ReachIn(p, h) : y = <<h, a>>
    BY <1>1 DEF NamedAfter
  <2> QED
    BY <1>4, <2>1
<1>6. IsFiniteSet(D)
  BY <1>2, <1>3, <1>5, PairsFinite
<1> QED
  BY <1>5, <1>6, NullAssumption

LEMMA ReachedByItsOwn ==
  ASSUME NEW p, NEW X, NEW ins, NEW lab, Copies(p, X, ins, lab),
         NEW h \in X, NEW a \in ReachIn(p, h), NEW x, x = <<h, a>>
  PROVE  ReachedBy(ins, lab, x) = {h}
<1> DEFINE D == DOMAIN ins
           Back(y) == (({ins[y].prev} \ {NULL}) \cup
                       UNION {lab[l].jumps : l \in {ins[y].st_entry} \cap DOMAIN lab})
                      \cap DOMAIN ins
           next == [y \in D |-> Back(y)]
           back == Closure({x}, next)
<1>0. /\ IsProgram(p) /\ h \in DOMAIN p.headers /\ WholeCopy(p, h, ins, lab)
      /\ IsFiniteSet(D) /\ x \in D /\ x # NULL
  <2>1. /\ IsProgram(p) /\ h \in DOMAIN p.headers /\ WholeCopy(p, h, ins, lab)
        /\ NamedAfter(p, D)
    BY DEF Copies, NamedAfter
  <2>2. IsFiniteSet(D) /\ NULL \notin D
    <3> HIDE DEF D
    <3> QED
      BY <2>1, CopiesFinite
  <2>3. x \in D
    <3>1. InstrIs(p, h, ins, a)
      BY <2>1, WholeInstr
    <3> QED
      BY <3>1 DEF InstrIs
  <2> QED
    BY <2>1, <2>2, <2>3
<1>1. PICK W, V, E : W = ReachIn(p, h) /\ V = LabelsAt(p, h) /\ E = Entries(p, h)
  OBVIOUS
<1>2. /\ E \subseteq V /\ V \subseteq W
      /\ \A T : E \subseteq T /\ (\A b \in T \cap W : Succ(p, b) \subseteq T) => W \subseteq T
      /\ \A b \in W : Succ(p, b) \subseteq W
  <2>1. /\ E \subseteq V /\ V \subseteq W
        /\ \A T : E \subseteq T /\ (\A b \in T \cap W : Succ(p, b) \subseteq T) => W \subseteq T
    BY <1>0, <1>1, CodeAt
  <2>2. \A b \in W : Succ(p, b) \subseteq W
    BY <1>0, <1>1, ReachFacts
  <2> QED
    BY <2>1, <2>2
<1>3. \A l \in V : /\ <<h, l>> \in DOMAIN lab
                   /\ lab[<<h, l>>].jumps = {h} \X {b \in W : Jumps(p, b) /\ p.instr[b].target = l}
                   /\ \A an \in lab[<<h, l>>].anims : an.header = <<h, h>>
                   /\ l \in E => [header |-> <<h, h>>, type |-> "HEADER"] \in lab[<<h, l>>].anims
  <2>1. ASSUME NEW l \in V PROVE LabelIs(p, h, lab, l)
    BY <1>0, <1>1, WholeLabel
  <2> QED
    BY <1>1, <2>1 DEF LabelIs
<1>4. \A b \in W : /\ <<h, b>> \in D
                   /\ ins[<<h, b>>].prev = IF b - 1 \in W /\ FallsThrough(p, b - 1)
                                           THEN <<h, b - 1>> ELSE NULL
                   /\ ins[<<h, b>>].st_entry = IF b \in V THEN <<h, b>> ELSE NULL
  <2>1. ASSUME NEW b \in W PROVE InstrIs(p, h, ins, b)
    BY <1>0, <1>1, WholeInstr
  <2> QED
    BY <1>1, <2>1 DEF InstrIs
<1>5. NULL \notin DOMAIN lab
  <2>1. NamedAfter(p, DOMAIN lab)
    <3>1. \A y \in DOMAIN lab : \E g \in DOMAIN p.headers : \E b \in LabelsAt(p, g) : y = <<g, b>>
      BY DEF Copies
    <3>2. \A g \in DOMAIN p.headers : LabelsAt(p, g) \subseteq ReachIn(p, g)
      BY <1>0, CodeAt
    <3> QED
      BY <3>1, <3>2 DEF NamedAfter
  <2> QED
    BY <1>0, <2>1, CopiesFinite
<1>6. \A b \in W : (b - 1) + 1 = b /\ (b + 1) - 1 = b
  BY <1>0, <1>1, NameFacts
<1>7. ASSUME NEW b \in W
      PROVE  /\ Back(<<h, b>>) \subseteq {h} \X W
             /\ \A c \in W : b \in Succ(p, c) => <<h, c>> \in Back(<<h, b>>)
  <2>1. PICK y : y = <<h, b>>
    OBVIOUS
  <2>2. /\ ins[y].prev = IF b - 1 \in W /\ FallsThrough(p, b - 1) THEN <<h, b - 1>> ELSE NULL
        /\ ins[y].st_entry = IF b \in V THEN y ELSE NULL
    BY <1>4, <2>1
  <2>3. {ins[y].prev} \ {NULL} \subseteq {h} \X W
    BY <2>2
  <2>4. PICK J : J = UNION {lab[l].jumps : l \in {ins[y].st_entry} \cap DOMAIN lab}
    OBVIOUS
  <2>5. J = IF b \in V THEN {h} \X {c \in W : Jumps(p, c) /\ p.instr[c].target = b} ELSE {}
    <3>1. CASE b \in V
      <4>1. ins[y].st_entry = y /\ y \in DOMAIN lab
        BY <1>3, <2>1, <2>2, <3>1
      <4>2. J = lab[y].jumps
        BY <2>4, <4>1
      <4> QED
        BY <1>3, <2>1, <3>1, <4>2
    <3>2. CASE b \notin V
      BY <1>5, <2>2, <2>4, <3>2
    <3> QED
      BY <3>1, <3>2
  <2>6. Back(y) = (({ins[y].prev} \ {NULL}) \cup J) \cap D
    BY <2>4
  <2>7. Back(y) \subseteq {h} \X W
    BY <2>3, <2>5, <2>6
  <2>8. ASSUME NEW c \in W, b \in Succ(p, c) PROVE <<h, c>> \in Back(y)
    <3>1. <<h, c>> \in D
      BY <1>4
    <3>2. (FallsThrough(p, c) /\ b = c + 1) \/ (Jumps(p, c) /\ p.instr[c].target = b)
      BY <2>8 DEF Succ
    <3>3. CASE FallsThrough(p, c) /\ b = c + 1
      <4>1. b - 1 = c
        BY <1>6, <3>3
      <4>2. ins[y].prev = <<h, c>>
        BY <2>2, <3>3, <4>1
      <4>3. <<h, c>> # NULL
        BY <1>0, <1>1, NameFacts
      <4> QED
        BY <2>6, <3>1, <4>2, <4>3
    <3>4. CASE Jumps(p, c) /\ p.instr[c].target = b
      <4>1. b \in V
        BY <1>1, <3>4 DEF LabelsAt
      <4> QED
        BY <2>5, <2>6, <3>1, <3>4, <4>1
    <3> QED
      BY <3>2, <3>3, <3>4
  <2> QED
    BY <2>1, <2>7, <2>8
<1>8. next \in [D -> SUBSET D] /\ (\A y \in D : next[y] = Back(y)) /\ DOMAIN next = D
  OBVIOUS
<1>9. ReachedBy(ins, lab, x) =
        {an.header[2] : an \in {b \in UNION {lab[l].anims : l \in {ins[y].st_entry : y \in back}
                                                                   \cap DOMAIN lab} :
                                  b.type = "HEADER"}}
  <2>1. {x} \ {NULL} = {x}
    BY <1>0
  <2> QED
    BY <2>1 DEF ReachedBy
<1> HIDE DEF Back
<1>10. /\ x \in back /\ Closed(back, next)
       /\ \A T : {x} \subseteq T /\ Closed(T, next) => back \subseteq T
  <2> HIDE DEF next, D
  <2> QED
    BY <1>0, <1>8, ClosureIsLeast
<1> HIDE DEF next, back
<1>11. back \subseteq {h} \X W
  <2>1. PICK T : T = {h} \X W
    OBVIOUS
  <2>2. Closed(T, next)
    BY <1>7, <1>8, <2>1 DEF Closed
  <2>3. x \in T
    BY <1>1, <2>1
  <2> QED
    BY <1>10, <2>1, <2>2, <2>3
<1>12. PICK L : L = {ins[y].st_entry : y \in back} \cap DOMAIN lab
  OBVIOUS
<1>13. L = back \cap ({h} \X V)
  <2>1. ASSUME NEW y \in back PROVE ins[y].st_entry = IF y \in {h} \X V THEN y ELSE NULL
    <3>1. PICK b \in W : y = <<h, b>>
      BY <1>11
    <3> QED
      BY <1>4, <3>1
  <2>2. {h} \X V \subseteq DOMAIN lab
    BY <1>3
  <2> QED
    BY <1>5, <1>12, <2>1, <2>2
<1>14. ReachedBy(ins, lab, x) \subseteq {h}
  <2>1. \A l \in L : \A an \in lab[l].anims : an.header = <<h, h>>
    BY <1>3, <1>13
  <2> QED
    BY <1>9, <1>12, <2>1
<1>15. \E l \in back : l \in {h} \X E
  <2> SUFFICES ASSUME \A l \in E : <<h, l>> \notin back PROVE FALSE
    OBVIOUS
  <2>1. PICK T : T = {b \in W : <<h, b>> \notin back}
    OBVIOUS
  <2>2. E \subseteq T
    BY <1>2, <2>1
  <2>3. ASSUME NEW c \in T, NEW b \in Succ(p, c) PROVE b \in T
    <3>1. c \in W /\ b \in W /\ <<h, c>> \notin back
      BY <1>2, <2>1
    <3>2. <<h, c>> \in Back(<<h, b>>)
      BY <1>7, <3>1
    <3>3. <<h, b>> \in D
      BY <1>4, <3>1
    <3>4. PICK y, z : y = <<h, b>> /\ z = <<h, c>>
      OBVIOUS
    <3>5. y \in D /\ z \in next[y] /\ z \notin back
      BY <1>8, <3>1, <3>2, <3>3, <3>4
    <3>6. y \notin back
      BY <1>8, <1>10, <3>5 DEF Closed
    <3> QED
      BY <2>1, <3>1, <3>4, <3>6
  <2>4. W \subseteq T
    BY <1>2, <2>2, <2>3
  <2> QED
    BY <1>1, <1>10, <2>1, <2>4
<1>16. h \in ReachedBy(ins, lab, x)
  <2>1. PICK l \in E : <<h, l>> \in back
    BY <1>15
  <2>2. PICK y, an : y = <<h, l>> /\ an = [header |-> <<h, h>>, type |-> "HEADER"]
    OBVIOUS
  <2>3. y \in L /\ an \in lab[y].anims
    BY <1>2, <1>3, <1>13, <2>1, <2>2
  <2>4. an.type = "HEADER" /\ an.header[2] = h
    BY <2>2
  <2> QED
    BY <1>9, <1>12, <2>3, <2>4
<1> QED
  BY <1>14, <1>16

LEMMA NothingSharedFromInv ==
  ASSUME SeparateInv
  PROVE  NothingShared
<1> SUFFICES ASSUME pc = "separate", NEW x \in DOMAIN instr
             PROVE  Cardinality(ReachedBy(instr, label, x)) = 1
  BY DEF NothingShared, Between
<1>1. PICK X : X = Extracted
  OBVIOUS
<1>2. Copies(program, X, instr, label)
  BY <1>1, ExtractedAreCopies
<1>3. \E h \in X : \E a \in ReachIn(program, h) : x = <<h, a>>
  BY <1>2 DEF Copies
<1>4. PICK h \in X : \E a \in ReachIn(program, h) : x = <<h, a>>
  BY <1>3
<1>5. PICK a \in ReachIn(program, h) : x = <<h, a>>
  BY <1>4
<1>6. ReachedBy(instr, label, x) = {h}
  BY <1>2, <1>5, ReachedByItsOwn
<1> QED
  BY <1>6, FS_Singleton

(* NothingShared: after -s no two headers share any instruction, whatever  *)
(* they shared before: isinstr_reached_by finds exactly one header for     *)
(* each instruction of the result.                                         *)
THEOREM SeparatedHeadersShareNothing == Spec => []NothingShared
<1>1. SeparateInv => NothingShared
  BY NothingSharedFromInv
<1> QED
  BY <1>1, SeparateInvHolds, PTL

-----------------------------------------------------------------------------
(* What the copy for a header says is what the program says.               *)

(* The code of the copy for h, with the heap around it. *)
Readable(p, h, ins, lab) ==
  /\ WholeCopy(p, h, ins, lab) /\ IsFiniteSet(DOMAIN ins)
  /\ NULL \notin DOMAIN ins /\ NULL \notin DOMAIN lab

Reads(p, h, W, V, ins, lab) ==
  /\ \A a \in W :
       /\ <<h, a>> \in DOMAIN ins /\ ins[<<h, a>>].op = <<0, a>> /\ a # 0
       /\ ins[<<h, a>>].next = IF FallsThrough(p, a) THEN <<h, a + 1>> ELSE NULL
       /\ ins[<<h, a>>].jump = IF Jumps(p, a) THEN <<h, p.instr[a].target>> ELSE NULL
       /\ FallsThrough(p, a) => a + 1 \in W
       /\ Jumps(p, a) => p.instr[a].target \in V
  /\ \A l \in V : l \in W /\ <<h, l>> \in DOMAIN lab /\ lab[<<h, l>>].bc = <<h, l>>
  /\ Entries(p, h) \subseteq V

LEMMA ReadFacts ==
  ASSUME NEW p, NEW h, NEW ins, NEW lab, Readable(p, h, ins, lab)
  PROVE  Reads(p, h, ReachIn(p, h), LabelsAt(p, h), ins, lab)
<1>1. WholeCopy(p, h, ins, lab) /\ IsProgram(p) /\ h \in DOMAIN p.headers
  BY DEF Readable, WholeCopy
<1>2. /\ ReachIn(p, h) \subseteq Nat \ {0} /\ Entries(p, h) \subseteq LabelsAt(p, h)
      /\ LabelsAt(p, h) \subseteq ReachIn(p, h)
      /\ \A a \in ReachIn(p, h) : /\ FallsThrough(p, a) => a + 1 \in ReachIn(p, h)
                                  /\ Jumps(p, a) => p.instr[a].target \in LabelsAt(p, h)
  BY <1>1, CodeAt
<1>3. ASSUME NEW a \in ReachIn(p, h) PROVE InstrIs(p, h, ins, a)
  BY <1>1, WholeInstr
<1>4. ASSUME NEW l \in LabelsAt(p, h) PROVE LabelIs(p, h, lab, l)
  BY <1>1, WholeLabel
<1> QED
  BY <1>2, <1>3, <1>4 DEF InstrIs, LabelIs, Reads

(* Executing follows the code of the header. *)
LEMMA ExecutesItsCopy ==
  ASSUME NEW p, NEW h, NEW ins, NEW lab, Readable(p, h, ins, lab)
  PROVE  Executes(ins, lab, HeaderCopy(p, h)) = {h} \X ReachIn(p, h)
<1> DEFINE D == DOMAIN ins
           header == HeaderCopy(p, h)
           Mark(l) == {lab[k].bc : k \in {l} \cap DOMAIN lab}
           Step(x) == ({ins[x].next} \cup Mark(ins[x].jump)) \cap D
           next == [x \in D |-> Step(x)]
           starts == UNION {Mark(header.st_entries[i]) : i \in DOMAIN header.st_entries}
           X == Closure(starts \cap D, next)
<1>0. Executes(ins, lab, header) = X
  BY DEF Executes
<1>1. PICK W, V, E : W = ReachIn(p, h) /\ V = LabelsAt(p, h) /\ E = Entries(p, h)
  OBVIOUS
<1>2. /\ IsFiniteSet(D) /\ NULL \notin D /\ NULL \notin DOMAIN lab
      /\ IsProgram(p) /\ h \in DOMAIN p.headers
  BY DEF Readable, WholeCopy
<1>3. /\ \A a \in W :
           /\ <<h, a>> \in D
           /\ ins[<<h, a>>].next = IF FallsThrough(p, a) THEN <<h, a + 1>> ELSE NULL
           /\ ins[<<h, a>>].jump = IF Jumps(p, a) THEN <<h, p.instr[a].target>> ELSE NULL
           /\ FallsThrough(p, a) => a + 1 \in W
           /\ Jumps(p, a) => p.instr[a].target \in V
      /\ \A l \in V : l \in W /\ Mark(<<h, l>>) = {<<h, l>>}
      /\ E \subseteq V
  <2>1. Reads(p, h, W, V, ins, lab)
    BY <1>1, ReadFacts
  <2> QED
    BY <1>1, <2>1, ZenonT(60) DEF Reads
<1>4. Mark(NULL) = {}
  BY <1>2
<1>5. starts \cap D = {h} \X E
  <2>1. /\ DOMAIN header.st_entries = DOMAIN p.headers[h]
        /\ \A i \in DOMAIN p.headers[h] :
             header.st_entries[i] = NULL \/ header.st_entries[i] \in {h} \X E
        /\ \A a \in E : \E i \in DOMAIN p.headers[h] : header.st_entries[i] = <<h, a>>
    <3>1. HeaderIs(p, h, header)
      BY <1>2, WholeHeader
    <3> HIDE DEF header
    <3>2. PICK s : s = p.headers[h]
      OBVIOUS
    <3>3. /\ DOMAIN header.st_entries = DOMAIN s
          /\ \A i \in DOMAIN s :
               /\ header.st_entries[i] = IF s[i] = 0 THEN NULL ELSE <<h, s[i]>>
               /\ s[i] # 0 => s[i] \in E
          /\ \A a \in E : \E i \in DOMAIN s : header.st_entries[i] = <<h, a>>
      BY <1>1, <3>1, <3>2 DEF HeaderIs
    <3>4. ASSUME NEW i \in DOMAIN s
          PROVE  header.st_entries[i] = NULL \/ header.st_entries[i] \in {h} \X E
      <4>1. CASE s[i] = 0
        BY <3>3, <4>1
      <4>2. CASE s[i] # 0
        <5>1. PICK a : a = s[i]
          OBVIOUS
        <5>2. header.st_entries[i] = <<h, a>> /\ a \in E
          BY <3>3, <4>2, <5>1
        <5> QED
          BY <5>2
      <4> QED
        BY <4>1, <4>2
    <3> QED
      BY <3>2, <3>3, <3>4
  <2> HIDE DEF header, Mark
  <2>5. \A x \in {h} \X E : Mark(x) = {x} /\ x \in D
    <3>1. ASSUME NEW l \in E PROVE Mark(<<h, l>>) = {<<h, l>>} /\ <<h, l>> \in D
      <4>1. l \in V /\ l \in W
        BY <1>3
      <4> QED
        BY <1>3, <4>1
    <3> QED
      BY <3>1
  <2>2. starts \subseteq {h} \X E
    <3>1. ASSUME NEW i \in DOMAIN header.st_entries PROVE Mark(header.st_entries[i]) \subseteq {h} \X E
      BY <1>4, <2>1, <2>5
    <3> QED
      BY <3>1
  <2>3. {h} \X E \subseteq starts
    <3>1. ASSUME NEW x \in {h} \X E PROVE x \in starts
      <4>1. PICK i \in DOMAIN header.st_entries : header.st_entries[i] = x
        BY <2>1
      <4>2. x \in Mark(header.st_entries[i])
        BY <2>5, <4>1
      <4> QED
        BY <4>2
    <3> QED
      BY <3>1
  <2>4. {h} \X E \subseteq D
    BY <2>5
  <2> HIDE DEF starts
  <2> QED
    BY <2>2, <2>3, <2>4
<1>6. ASSUME NEW a \in W
      PROVE  /\ Step(<<h, a>>) \subseteq {h} \X W
             /\ \A b \in Succ(p, a) : <<h, b>> \in Step(<<h, a>>)
  <2>1. PICK x : x = <<h, a>>
    OBVIOUS
  <2>2. /\ ins[x].next = IF FallsThrough(p, a) THEN <<h, a + 1>> ELSE NULL
        /\ Mark(ins[x].jump) = IF Jumps(p, a) THEN {<<h, p.instr[a].target>>} ELSE {}
    <3> HIDE DEF Mark
    <3> QED
      BY <1>3, <1>4, <2>1
  <2>3. Step(x) = ({ins[x].next} \cup Mark(ins[x].jump)) \cap D
    OBVIOUS
  <2> HIDE DEF Mark, Step, D
  <2>4. Step(x) \subseteq {h} \X W
    <3>1. {ins[x].next} \cap D \subseteq {h} \X W
      <4>1. CASE FallsThrough(p, a)
        <5>1. PICK b \in W : b = a + 1
          BY <1>3, <4>1
        <5>2. ins[x].next = <<h, b>>
          BY <2>2, <4>1, <5>1
        <5> QED
          BY <5>2
      <4>2. CASE ~FallsThrough(p, a)
        BY <1>2, <2>2, <4>2
      <4> QED
        BY <4>1, <4>2
    <3>2. Mark(ins[x].jump) \subseteq {h} \X W
      <4>1. CASE Jumps(p, a)
        <5>1. PICK b \in W : b = p.instr[a].target
          BY <1>3, <4>1
        <5>2. Mark(ins[x].jump) = {<<h, b>>}
          BY <2>2, <4>1, <5>1
        <5> QED
          BY <5>2
      <4>2. CASE ~Jumps(p, a)
        BY <2>2, <4>2
      <4> QED
        BY <4>1, <4>2
    <3> QED
      BY <2>3, <3>1, <3>2
  <2>5. ASSUME NEW b \in Succ(p, a) PROVE <<h, b>> \in Step(x)
    <3>1. b \in W /\ <<h, b>> \in D
      BY <1>3 DEF Succ
    <3> QED
      BY <2>2, <2>3, <3>1 DEF Succ
  <2> QED
    BY <2>1, <2>4, <2>5
<1>7. next \in [D -> SUBSET D] /\ (\A x \in D : next[x] = Step(x)) /\ DOMAIN next = D
  OBVIOUS
<1> HIDE DEF Step, starts
<1>8. /\ {h} \X E \subseteq X /\ Closed(X, next)
      /\ \A T : {h} \X E \subseteq T /\ Closed(T, next) => X \subseteq T
  <2> HIDE DEF next, D
  <2> QED
    BY <1>2, <1>5, <1>7, ClosureIsLeast
<1> HIDE DEF next, X, header
<1>9. X \subseteq {h} \X W
  <2>1. PICK T : T = {h} \X W
    OBVIOUS
  <2>2. Closed(T, next)
    BY <1>6, <1>7, <2>1 DEF Closed
  <2>3. {h} \X E \subseteq T
    BY <1>3, <2>1
  <2> QED
    BY <1>8, <2>1, <2>2, <2>3
<1>10. {h} \X W \subseteq X
  <2>1. PICK T : T = {a \in W : <<h, a>> \in X}
    OBVIOUS
  <2>2. E \subseteq T
    BY <1>3, <1>8, <2>1
  <2>3. ASSUME NEW a \in T \cap W, NEW b \in Succ(p, a) PROVE b \in T
    <3>1. b \in W
      BY <1>3 DEF Succ
    <3>2. PICK x, y : x = <<h, a>> /\ y = <<h, b>>
      OBVIOUS
    <3>3. x \in D /\ x \in X /\ y \in next[x]
      BY <1>3, <1>6, <1>7, <2>1, <3>2
    <3>4. y \in X
      BY <1>7, <1>8, <3>3 DEF Closed
    <3> QED
      BY <2>1, <3>1, <3>2, <3>4
  <2>4. W \subseteq T
    BY <1>1, <1>2, <2>2, <2>3, ReachFacts
  <2> QED
    BY <2>1, <2>4
<1> QED
  BY <1>0, <1>1, <1>9, <1>10 DEF header

LEMMA CopySaysTheSame ==
  ASSUME NEW p, NEW h, NEW ins, NEW lab, Readable(p, h, ins, lab)
  PROVE  Script(ins, lab, HeaderCopy(p, h)) = ProgramScript(p, 0, h)
<1> DEFINE header == HeaderCopy(p, h)
           Op(x) == IF x \in DOMAIN ins THEN ins[x].op ELSE NULL
           Mark(l) == IF l \in DOMAIN lab THEN Op(lab[l].bc) ELSE NULL
           s == p.headers[h]
           POp(a) == IF a = 0 THEN NULL ELSE <<0, a>>
           CodeLine(x) == [op |-> Op(x), next |-> Op(ins[x].next), jump |-> Mark(ins[x].jump)]
           PLine(a) == [op   |-> POp(a),
                        next |-> POp(IF FallsThrough(p, a) THEN a + 1 ELSE 0),
                        jump |-> POp(IF Jumps(p, a) THEN p.instr[a].target ELSE 0)]
<1>1. PICK W, V, E : W = ReachIn(p, h) /\ V = LabelsAt(p, h) /\ E = Entries(p, h)
  OBVIOUS
<1>2. /\ NULL \notin DOMAIN ins /\ NULL \notin DOMAIN lab /\ IsProgram(p) /\ h \in DOMAIN p.headers
  BY DEF Readable, WholeCopy
<1>3. /\ \A a \in W :
           /\ <<h, a>> \in DOMAIN ins /\ ins[<<h, a>>].op = <<0, a>> /\ a # 0
           /\ ins[<<h, a>>].next = IF FallsThrough(p, a) THEN <<h, a + 1>> ELSE NULL
           /\ ins[<<h, a>>].jump = IF Jumps(p, a) THEN <<h, p.instr[a].target>> ELSE NULL
           /\ FallsThrough(p, a) => a + 1 \in W
           /\ Jumps(p, a) => p.instr[a].target \in V
      /\ \A l \in V : l \in W /\ <<h, l>> \in DOMAIN lab /\ lab[<<h, l>>].bc = <<h, l>>
      /\ E \subseteq V
  <2>1. Reads(p, h, W, V, ins, lab)
    BY <1>1, ReadFacts
  <2> QED
    BY <1>1, <2>1 DEF Reads
<1>4. Op(NULL) = NULL /\ Mark(NULL) = NULL
  BY <1>2
<1>5. \A a \in W : Op(<<h, a>>) = POp(a)
  BY <1>3
<1>6. \A l \in V : Mark(<<h, l>>) = POp(l)
  <2>1. ASSUME NEW l \in V PROVE Mark(<<h, l>>) = POp(l)
    <3>1. PICK x : x = <<h, l>>
      OBVIOUS
    <3>2. l \in W /\ x \in DOMAIN lab /\ lab[x].bc = x /\ Op(x) = POp(l)
      BY <1>3, <1>5, <3>1
    <3> HIDE DEF Op, POp
    <3> QED
      BY <3>1, <3>2
  <2> QED
    BY <2>1
<1>7. POp(0) = NULL
  OBVIOUS
<1> HIDE DEF Op, Mark, POp
<1>8. [i \in DOMAIN header.st_entries |-> Mark(header.st_entries[i])] = [i \in DOMAIN s |-> POp(s[i])]
  <2>1. /\ DOMAIN header.st_entries = DOMAIN s
        /\ \A i \in DOMAIN s :
             /\ header.st_entries[i] = IF s[i] = 0 THEN NULL ELSE <<h, s[i]>>
             /\ s[i] # 0 => s[i] \in E
    <3>1. HeaderIs(p, h, header)
      BY <1>2, WholeHeader
    <3> HIDE DEF header
    <3> QED
      BY <1>1, <3>1 DEF HeaderIs
  <2>2. ASSUME NEW i \in DOMAIN s PROVE Mark(header.st_entries[i]) = POp(s[i])
    <3> HIDE DEF header, s
    <3>1. CASE s[i] = 0
      BY <1>4, <1>7, <2>1, <3>1
    <3>2. CASE s[i] # 0
      <4>1. PICK a : a = s[i]
        OBVIOUS
      <4>2. a \in V /\ header.st_entries[i] = <<h, a>>
        BY <1>3, <2>1, <3>2, <4>1
      <4> QED
        BY <1>6, <4>1, <4>2
    <3> QED
      BY <3>1, <3>2
  <2> HIDE DEF header, s
  <2> QED
    BY <2>1, <2>2
<1>9. ASSUME NEW a \in W PROVE CodeLine(<<h, a>>) = PLine(a)
  <2>1. PICK x : x = <<h, a>>
    OBVIOUS
  <2>2. Op(x) = POp(a)
    BY <1>5, <2>1
  <2>3. Op(ins[x].next) = POp(IF FallsThrough(p, a) THEN a + 1 ELSE 0)
    <3>1. CASE FallsThrough(p, a)
      <4>1. PICK b \in W : b = a + 1
        BY <1>3, <3>1
      <4>2. ins[x].next = <<h, b>>
        BY <1>3, <2>1, <3>1, <4>1
      <4>3. Op(<<h, b>>) = POp(b)
        BY <1>5
      <4> QED
        BY <3>1, <4>1, <4>2, <4>3
    <3>2. CASE ~FallsThrough(p, a)
      BY <1>3, <1>4, <1>7, <2>1, <3>2
    <3> QED
      BY <3>1, <3>2
  <2>4. Mark(ins[x].jump) = POp(IF Jumps(p, a) THEN p.instr[a].target ELSE 0)
    <3>1. CASE Jumps(p, a)
      <4>1. PICK b \in V : b = p.instr[a].target
        BY <1>3, <3>1
      <4>2. ins[x].jump = <<h, b>>
        BY <1>3, <2>1, <3>1, <4>1
      <4>3. Mark(<<h, b>>) = POp(b)
        BY <1>6
      <4> QED
        BY <3>1, <4>1, <4>2, <4>3
    <3>2. CASE ~Jumps(p, a)
      BY <1>3, <1>4, <1>7, <2>1, <3>2
    <3> QED
      BY <3>1, <3>2
  <2> QED
    BY <2>1, <2>2, <2>3, <2>4
<1>10. {CodeLine(x) : x \in Executes(ins, lab, header)} = {PLine(a) : a \in W}
  <2>1. Executes(ins, lab, header) = {h} \X W
    BY <1>1, ExecutesItsCopy
  <2> HIDE DEF CodeLine, PLine, header
  <2>2. ASSUME NEW x \in {h} \X W PROVE \E a \in W : CodeLine(x) = PLine(a)
    <3>1. PICK a \in W : x = <<h, a>>
      OBVIOUS
    <3> QED
      BY <1>9, <3>1
  <2>3. ASSUME NEW a \in W PROVE \E x \in {h} \X W : CodeLine(x) = PLine(a)
    <3>1. <<h, a>> \in {h} \X W
      OBVIOUS
    <3> QED
      BY <1>9, <3>1
  <2> QED
    BY <2>1, <2>2, <2>3
<1>11. Script(ins, lab, header) =
         [entries |-> [i \in DOMAIN header.st_entries |-> Mark(header.st_entries[i])],
          code    |-> {CodeLine(x) : x \in Executes(ins, lab, header)}]
  BY DEF Script, Op, Mark
<1>12. ProgramScript(p, 0, h) = [entries |-> [i \in DOMAIN s |-> POp(s[i])],
                                 code    |-> {PLine(a) : a \in W}]
  BY <1>1 DEF ProgramScript, POp
<1> HIDE DEF CodeLine, PLine, header, s
<1>13. Script(ins, lab, header) = ProgramScript(p, 0, h)
  BY <1>8, <1>10, <1>11, <1>12
<1> QED
  BY <1>13 DEF header

-----------------------------------------------------------------------------
(* The archive that the copies are: at every step, of a copy too, the      *)
(* headers extracted say what they said in the program.                    *)
LEMMA ArchiveFacts ==
  ASSUME SeparateInv
  PROVE  /\ DOMAIN ip_rest.headers = Extracted
         /\ \A h \in Extracted : Script(instr, label, ip_rest.headers[h]) = ProgramScript(program, 0, h)
<1>1. /\ IsProgram(program) /\ Extracted \subseteq DOMAIN program.headers
      /\ \A h \in Extracted : WholeCopy(program, h, instr, label)
  BY ExtractedAreCopies
<1>2. NamedAfter(program, DOMAIN instr) /\ NamedAfter(program, DOMAIN label)
  <2>1. \A x \in DoneCode : \E h \in DOMAIN program.headers : \E a \in ReachIn(program, h) : x = <<h, a>>
    BY <1>1 DEF DoneCode
  <2>2. \A x \in DoneLabels : \E h \in DOMAIN program.headers : \E a \in ReachIn(program, h) : x = <<h, a>>
    <3>1. \A x \in DoneLabels : \E h \in Extracted : \E a \in LabelsAt(program, h) : x = <<h, a>>
      BY DEF DoneLabels
    <3>2. \A h \in Extracted : LabelsAt(program, h) \subseteq ReachIn(program, h)
      BY <1>1, CodeAt
    <3> QED
      BY <1>1, <3>1, <3>2
  <2>3. pc = "copy" => id \in DOMAIN program.headers
    BY DEF SeparateInv, ControlInv
  <2>4. CopiedCode \subseteq ReachIn(program, id) /\ CopiedLabels \subseteq ReachIn(program, id)
    BY DEF CopiedCode, CopiedLabels
  <2>5. /\ DOMAIN instr = DoneCode \cup (IF pc = "copy" THEN {id} \X CopiedCode ELSE {})
        /\ DOMAIN label = DoneLabels \cup (IF pc = "copy" THEN {id} \X CopiedLabels ELSE {})
    BY DEF SeparateInv, DomainInv
  <2>6. ASSUME NEW x \in DOMAIN instr
        PROVE  \E h \in DOMAIN program.headers : \E a \in ReachIn(program, h) : x = <<h, a>>
    BY <2>1, <2>3, <2>4, <2>5
  <2>7. ASSUME NEW x \in DOMAIN label
        PROVE  \E h \in DOMAIN program.headers : \E a \in ReachIn(program, h) : x = <<h, a>>
    BY <2>2, <2>3, <2>4, <2>5
  <2> QED
    BY <2>6, <2>7 DEF NamedAfter
<1>3. IsFiniteSet(DOMAIN instr) /\ NULL \notin DOMAIN instr /\ NULL \notin DOMAIN label
  BY <1>1, <1>2, CopiesFinite
<1>4. DOMAIN ip_rest.headers = Extracted
      /\ \A h \in Extracted : ip_rest.headers[h] = HeaderCopy(program, h)
  BY DEF SeparateInv, ExtractedInv
<1>5. ASSUME NEW h \in Extracted
      PROVE  Script(instr, label, HeaderCopy(program, h)) = ProgramScript(program, 0, h)
  <2>1. Readable(program, h, instr, label)
    BY <1>1, <1>3 DEF Readable
  <2> QED
    BY <2>1, CopySaysTheSame
<1> QED
  BY <1>4, <1>5

-----------------------------------------------------------------------------
(* Refinement. *)

AbstractInputs == <<[h \in DOMAIN program.headers |-> ProgramScript(program, 0, h)]>>
AbstractRead == IF Begun THEN 1 ELSE 0
AbstractTodo == IF Begun THEN ids \cup (IF pc = "copy" THEN {id} ELSE {}) ELSE {}
AbstractArchive ==
  [h \in DOMAIN ip_rest.headers |-> Script(instr, label, ip_rest.headers[h])]

LEMMA InputFacts ==
  /\ DOMAIN AbstractInputs = 1 .. 1 /\ Len(AbstractInputs) = 1
  /\ DOMAIN AbstractInputs[1] = DOMAIN program.headers
  /\ \A h \in DOMAIN program.headers : AbstractInputs[1][h] = ProgramScript(program, 0, h)
<1>1. PICK f : f = [h \in DOMAIN program.headers |-> ProgramScript(program, 0, h)]
  OBVIOUS
<1>2. AbstractInputs = <<f>>
  BY <1>1 DEF AbstractInputs
<1> QED
  BY <1>1, <1>2

(* What no step but ExtractHeader and MergeSingle changes. *)
LEMMA CopyingSteps ==
  ASSUME \/ CopyEntry \/ ChainEnds \/ ChainJoins \/ CopyInstr \/ CopyJump \/ Separated
         \/ UNCHANGED vars
  PROVE  UNCHANGED <<program, pc, ids, id, ip_rest>>
<1>1. CASE CopyEntry
  BY <1>1 DEF CopyEntry
<1>2. CASE ChainEnds
  BY <1>2 DEF ChainEnds
<1>3. CASE ChainJoins
  BY <1>3 DEF ChainJoins
<1>4. CASE CopyInstr
  BY <1>4 DEF CopyInstr
<1>5. CASE CopyJump
  BY <1>5 DEF CopyJump
<1>6. CASE Separated \/ UNCHANGED vars
  BY <1>6 DEF Separated, vars, copying
<1> QED
  BY <1>1, <1>2, <1>3, <1>4, <1>5, <1>6

ArchiveExact ==
  SeparateInv =>
    /\ DOMAIN ip_rest.headers = Extracted
    /\ \A h \in Extracted : Script(instr, label, ip_rest.headers[h]) = ProgramScript(program, 0, h)

LEMMA ArchiveExactNext == ArchiveExact /\ ArchiveExact'
<1>1. ArchiveExact
  BY ArchiveFacts DEF ArchiveExact
<1> QED
  BY <1>1, PTL

LEMMA StepRefines ==
  ASSUME SeparateInv, SeparateInv', [Next]_vars
  PROVE  [SeparatedArchive!Next]_(SeparatedArchive!vars)
<1>1. /\ DOMAIN ip_rest.headers = Extracted
      /\ \A h \in Extracted : Script(instr, label, ip_rest.headers[h]) = ProgramScript(program, 0, h)
  BY ArchiveFacts
<1>2. /\ DOMAIN ip_rest'.headers = Extracted'
      /\ \A h \in Extracted' :
           Script(instr', label', ip_rest'.headers[h]) = ProgramScript(program', 0, h)
  BY ArchiveExactNext DEF ArchiveExact
<1>3. /\ AbstractArchive = [h \in Extracted |-> ProgramScript(program, 0, h)]
      /\ AbstractArchive' = [h \in Extracted' |-> ProgramScript(program', 0, h)]
  <2>1. AbstractArchive = [h \in DOMAIN ip_rest.headers |-> Script(instr, label, ip_rest.headers[h])]
    BY DEF AbstractArchive
  <2>2. AbstractArchive' = [h \in DOMAIN ip_rest'.headers |->
                              Script(instr', label', ip_rest'.headers[h])]
    BY DEF AbstractArchive
  <2> QED
    BY <1>1, <1>2, <2>1, <2>2
<1>4. pc \in {"separate", "copy"} /\ ids \subseteq DOMAIN program.headers
      /\ (pc = "copy" => id \in DOMAIN program.headers \ ids)
  BY DEF SeparateInv, ControlInv
<1>5. CASE \E h \in ids : ExtractHeader(h)
  <2>1. PICK h \in ids : ExtractHeader(h)
    BY <1>5
  <2>2. /\ pc = "separate" /\ pc' = "copy" /\ ids' = ids \ {h} /\ id' = h
        /\ UNCHANGED <<program, ip_rest>>
    BY <2>1 DEF ExtractHeader
  <2>3. Extracted' = Extracted
    BY <2>2 DEF Extracted
  <2>4. AbstractArchive' = AbstractArchive /\ AbstractInputs' = AbstractInputs
    BY <1>3, <2>2, <2>3 DEF AbstractInputs
  <2>5. Begun' /\ AbstractRead' = 1 /\ AbstractTodo' = ids
    BY <2>2 DEF Begun, AbstractRead, AbstractTodo
  <2>6. CASE Begun
    <3>1. AbstractRead = 1 /\ AbstractTodo = ids
      BY <2>2, <2>6 DEF AbstractRead, AbstractTodo
    <3> QED
      BY <2>4, <2>5, <3>1 DEF SeparatedArchive!vars, AbstractInputs, AbstractRead, AbstractTodo,
                              AbstractArchive
  <2>7. CASE ~Begun
    <3>1. AbstractRead = 0 /\ AbstractTodo = {} /\ ids = DOMAIN program.headers
      BY <2>2, <2>7 DEF AbstractRead, AbstractTodo, Begun
    <3>2. /\ AbstractTodo = {} /\ AbstractRead < Len(AbstractInputs)
          /\ AbstractRead' = AbstractRead + 1
          /\ AbstractTodo' = DOMAIN AbstractInputs[AbstractRead + 1]
          /\ UNCHANGED <<AbstractInputs, AbstractArchive>>
      BY <2>4, <2>5, <3>1, InputFacts
    <3>3. SeparatedArchive!Read
      BY <3>2 DEF SeparatedArchive!Read, AbstractInputs, AbstractRead, AbstractTodo, AbstractArchive
    <3> QED
      BY <3>3 DEF SeparatedArchive!Next
  <2> QED
    BY <2>6, <2>7
<1>6. CASE MergeSingle
  <2>1. /\ pc = "copy" /\ pc' = "separate" /\ UNCHANGED <<program, ids, id>>
    BY <1>6 DEF MergeSingle, copying
  <2>2. Extracted' = Extracted \cup {id} /\ id \notin Extracted
    BY <1>4, <2>1 DEF Extracted
  <2>3. Begun /\ Begun' /\ AbstractRead = 1 /\ AbstractRead' = 1
    BY <1>4, <2>1 DEF Begun, AbstractRead
  <2>4. AbstractTodo = ids \cup {id} /\ AbstractTodo' = ids
    BY <2>1, <2>3 DEF AbstractTodo
  <2>5. AbstractInputs' = AbstractInputs
    BY <2>1 DEF AbstractInputs
  <2>6. DOMAIN AbstractArchive = Extracted
    BY <1>3
  <2>7. AbstractArchive' = [g \in DOMAIN AbstractArchive \cup {id} |->
                              IF g = id THEN AbstractInputs[AbstractRead][id] ELSE AbstractArchive[g]]
    <3>1. AbstractInputs[AbstractRead][id] = ProgramScript(program, 0, id)
      BY <1>4, <2>1, <2>3, InputFacts
    <3>2. \A g \in Extracted : AbstractArchive[g] = ProgramScript(program, 0, g)
      BY <1>3
    <3>3. AbstractArchive' = [g \in Extracted \cup {id} |-> ProgramScript(program, 0, g)]
      BY <1>3, <2>1, <2>2
    <3> QED
      BY <2>6, <3>1, <3>2, <3>3
  <2>8. id \in AbstractTodo \ DOMAIN AbstractArchive /\ AbstractTodo' = AbstractTodo \ {id}
    BY <1>4, <2>1, <2>2, <2>4, <2>6
  <2>9. SeparatedArchive!Define(id)
    BY <2>3, <2>5, <2>7, <2>8 DEF SeparatedArchive!Define, AbstractInputs, AbstractRead,
                                  AbstractTodo, AbstractArchive
  <2>10. \E h \in AbstractTodo : SeparatedArchive!Discard(h) \/ SeparatedArchive!Define(h)
    BY <2>8, <2>9
  <2> QED
    BY <2>10 DEF SeparatedArchive!Next, AbstractTodo
<1>7. CASE \/ CopyEntry \/ ChainEnds \/ ChainJoins \/ CopyInstr \/ CopyJump \/ Separated
           \/ UNCHANGED vars
  <2>1. UNCHANGED <<program, pc, ids, id, ip_rest>>
    BY <1>7, CopyingSteps
  <2>2. Extracted' = Extracted
    BY <2>1 DEF Extracted
  <2>3. /\ AbstractInputs' = AbstractInputs /\ AbstractRead' = AbstractRead
        /\ AbstractTodo' = AbstractTodo
    BY <2>1 DEF AbstractInputs, AbstractRead, AbstractTodo, Begun
  <2>4. AbstractArchive' = AbstractArchive
    BY <1>3, <2>1, <2>2
  <2> QED
    BY <2>3, <2>4 DEF SeparatedArchive!vars, AbstractInputs, AbstractRead, AbstractTodo,
                      AbstractArchive
<1> QED
  BY <1>5, <1>6, <1>7 DEF Next

(* ImplementsArchive: icedc -s reads the program and defines its headers   *)
(* one by one, each with the script it had; while the code of one is       *)
(* copied, instruction by instruction, no header that is done changes.     *)
THEOREM SeparationImplementsTheArchive == Spec => ImplementsArchive
<1>1. Init => SeparatedArchive!Init
  <2> SUFFICES ASSUME Init PROVE SeparatedArchive!Init
    OBVIOUS
  <2>1. pc = "separate" /\ ids = DOMAIN program.headers /\ ip_rest.headers = <<>>
    BY DEF Init
  <2>2. ~Begun /\ AbstractRead = 0 /\ AbstractTodo = {}
    BY <2>1 DEF Begun, AbstractRead, AbstractTodo
  <2>3. AbstractArchive = <<>>
    BY <2>1 DEF AbstractArchive
  <2>4. DOMAIN AbstractInputs = 1 .. Len(AbstractInputs)
    BY InputFacts
  <2> QED
    BY <2>2, <2>3, <2>4 DEF SeparatedArchive!Init, AbstractInputs, AbstractRead, AbstractTodo,
                            AbstractArchive
<1>2. SeparateInv /\ SeparateInv' /\ [Next]_vars
        => [SeparatedArchive!Next]_(SeparatedArchive!vars)
  BY StepRefines
<1> QED
  BY <1>1, <1>2, SeparateInvHolds, PTL DEF Spec, ImplementsArchive, SeparatedArchive!Spec
=============================================================================
