------------------------- MODULE IscriptSaveProofs -------------------------
(***************************************************************************)
(* Proofs about iscript_save: nothing it writes overwrites something else, *)
(* and a file it saves says what the object graph says.                    *)
(***************************************************************************)
EXTENDS IscriptSave, IscriptGraphProofs

-----------------------------------------------------------------------------
(* The invariant, in three parts.  The domains of the variables: *)

Writing == {"headers", "slots", "anims", "code"}
Linking == {"relocate", "msave", "saved"}
Failed == {"too big", "not saved"}
InHeader == {"slots", "anims", "code"}

Chosen ==
  program \in Programs /\ version \in Versions /\ iscript = LoadedGraph(program, 0)

Places ==
  /\ DOMAIN array \subseteq Nat /\ pos \in Nat /\ size \in Nat
  /\ header_table_offset \in Nat /\ end_of_file \in Nat

Control ==
  /\ pc \in {"start", "table"} \cup Writing \cup Linking \cup Failed
  /\ todo \subseteq DOMAIN program.headers
  /\ hdr \in Nat /\ (pc \in InHeader => hdr \in DOMAIN program.headers \ todo)
  /\ animno \in Nat \ {0}
  /\ bc \in DOMAIN instr \cup {NULL}
  /\ pc \notin {"code"} \cup Failed => bc = NULL /\ todoq = <<>>

QueueTypes ==
  /\ todoq \in Seq(DOMAIN label)
  /\ idtoheaderq \in Seq([id : DOMAIN program.headers, offset : Nat])
  /\ relocq \in Seq([id : Nat, offset : Nat])

Domains == Chosen /\ Places /\ Control /\ QueueTypes

(* The layout of the file. *)

What(a) == array[a].what
Ends(a, b) == a + Extent(a) <= b
Apart == \A a, b \in DOMAIN array : a < b => Ends(a, b)

PieceOK(a) ==
  \/ What(a) \in {"eof", "address", "header", "entry"}
  \/ What(a) = "instr" /\ array[a].instr \in DOMAIN instr

(* An offset the relocation queue holds: an address or the last argument   *)
(* of a jump.                                                              *)
IsTail(o) ==
  \E a \in DOMAIN array : /\ What(a) = "instr" /\ instr[array[a].instr].jump # NULL
                          /\ o = a + Bytes(array[a].instr) - 2
Relocatable(o) == (o \in DOMAIN array /\ What(o) = "address") \/ IsTail(o)

IsEof(a) == a \in DOMAIN array /\ array[a] = EofMark

WritingLaid ==
  /\ Top + 4 <= pos /\ pos <= size
  /\ \A a \in DOMAIN array : Top <= a /\ Ends(a, pos)
  /\ IsEof(Top)
  /\ Cardinality(todo) + Len(idtoheaderq) = Cardinality(DOMAIN iscript.headers)

TableLaid ==
  /\ pos <= size
  /\ IF version = "STARCRAFT"
     THEN /\ pos + 4 * Len(idtoheaderq) = Top
          /\ Top + 4 <= end_of_file /\ end_of_file <= size
          /\ IsEof(Top)
          /\ \A a \in DOMAIN array :
               Ends(a, pos) \/ (Top <= a /\ Ends(a, end_of_file))
     ELSE Top <= pos /\ \A a \in DOMAIN array : Top <= a /\ Ends(a, pos)

Laid ==
  /\ \A a \in DOMAIN array : PieceOK(a)
  /\ PiecesDisjoint /\ size <= MaxSize
  /\ pc = "start" => array = <<>> /\ pos = 0 /\ relocq = <<>> /\ idtoheaderq = <<>>
                     /\ todo = DOMAIN iscript.headers
  /\ pc \in Writing => Apart /\ WritingLaid
  /\ pc = "table" => Apart /\ TableLaid
  /\ pc = "relocate" /\ version = "BROODWAR" =>
       Top <= size /\ \A a \in DOMAIN array : Top <= a
  /\ pc \notin Failed => \A k \in DOMAIN relocq : Relocatable(relocq[k].offset)

(* The code: each instruction is written at most once, after the one it    *)
(* follows; the labels are done whose instruction is written; what the     *)
(* code and the animations refer to is written or owed.                    *)

Placed(x) == \E a \in DOMAIN array : IsInstrAt(a, x)
Once == \A a, b \in DOMAIN array : \A x \in DOMAIN instr :
          IsInstrAt(a, x) /\ IsInstrAt(b, x) => a = b
PlacedAreDone ==
  \A l \in DOMAIN label : label[l].id \in symtbl_done <=> Placed(label[l].bc)

Small == Cardinality(LabelsOf(program)) <= 2^16
OffsetsKept ==
  Small => \A l \in DOMAIN label : \A a \in DOMAIN array :
    IsInstrAt(a, label[l].bc) =>
      Key(label[l].id) \in DOMAIN offsets /\ offsets[Key(label[l].id)] = a

PrevPlaced ==
  \A x \in DOMAIN instr : Placed(x) /\ instr[x].prev # NULL => Placed(instr[x].prev)
Follows ==
  \A x \in DOMAIN instr : \A a \in DOMAIN array :
    IsInstrAt(a, x) /\ instr[x].next # NULL =>
      \/ IsInstrAt(a + Bytes(x), instr[x].next)
      \/ bc = instr[x].next /\ pos = a + Bytes(x)
Cursor ==
  bc # NULL /\ instr[bc].prev # NULL => Placed(instr[bc].prev) /\ ~Placed(bc)

Ahead(x, y) ==
  /\ x[2] <= y[2]
  /\ \A c \in x[2] + 1 .. y[2] :
       <<0, c>> \in DOMAIN instr /\ instr[<<0, c>>].prev = <<0, c - 1>>
Owed(l) ==
  \/ Placed(label[l].bc)
  \/ \E k \in DOMAIN todoq : todoq[k] = l
  \/ bc # NULL /\ Ahead(bc, label[l].bc)

JumpsOwed ==
  \A x \in DOMAIN instr : Placed(x) /\ instr[x].jump # NULL => Owed(instr[x].jump)
Due(h, i) ==
  /\ h \in DOMAIN program.headers \ todo /\ Entries0(h)[i] # NULL
  /\ pc \in InHeader /\ h = hdr => pc # "slots" /\ i < animno
EntriesOwed ==
  \A h \in DOMAIN program.headers : \A i \in DOMAIN Entries0(h) :
    Due(h, i) => Owed(Entries0(h)[i])

CodeInv ==
  pc \notin Failed =>
    /\ Once /\ PlacedAreDone /\ OffsetsKept
    /\ PrevPlaced /\ Follows /\ Cursor
    /\ JumpsOwed /\ EntriesOwed

(* What is written of the headers and of the table, and the places that    *)
(* wait for an address.                                                    *)

Relocs == {relocq[k] : k \in DOMAIN relocq}
Pending(s) == \E r \in Relocs : r.offset = s
Fixed(s, l) ==
  pc \in Linking /\ s \in DOMAIN array /\ array[s] = Address(Lookup(label[l].id))
RefersTo(s, l) ==
  /\ \A r \in Relocs : r.offset = s => r.id = label[l].id
  /\ Pending(s) \/ Fixed(s, l)
Empty(s) == array[s] = Address(0) /\ ~Pending(s)

Slot(o, i) == o + 8 + 2 * (i - 1)
SlotIsFilled(s, l) ==
  /\ s \in DOMAIN array /\ What(s) = "address"
  /\ IF l = NULL THEN Empty(s) ELSE RefersTo(s, l)
InSlots(h) == pc = "slots" /\ h = hdr
HeaderAt(h, o) ==
  /\ o \in DOMAIN array /\ array[o] = HeaderMark(h)
  /\ InSlots(h) => pos = Slot(o, animno)
  /\ \A i \in DOMAIN Entries0(h) :
       (InSlots(h) => i < animno) => SlotIsFilled(Slot(o, i), Entries0(h)[i])

HeaderRefs == {idtoheaderq[k] : k \in DOMAIN idtoheaderq}
Queued == {q.id : q \in HeaderRefs}
HeadersLaid == \A q \in HeaderRefs : HeaderAt(q.id, q.offset)

TailsLaid ==
  \A x \in DOMAIN instr : \A a \in DOMAIN array :
    IsInstrAt(a, x) /\ instr[x].jump # NULL => RefersTo(a + Bytes(x) - 2, instr[x].jump)

Written == Cardinality(DOMAIN iscript.headers) - Len(idtoheaderq)
EntryAt(k) == header_table_offset + 4 * (k - 1)
EntryOK(a) ==
  /\ a \in DOMAIN array /\ What(a) = "entry"
  /\ array[a].id \in DOMAIN program.headers
  /\ HeaderAt(array[a].id, array[a].offset)
Listed == {array[EntryAt(k)].id : k \in 1 .. Written}
TableInv ==
  /\ Written \in Nat
  /\ pc = "table" => pos = EntryAt(Written + 1)
  /\ pc \in Linking => idtoheaderq = <<>> /\ IsEof(EntryAt(Written + 1))
  /\ \A k \in 1 .. Written : EntryOK(EntryAt(k))
  /\ Listed \cup Queued = DOMAIN program.headers

FileInv ==
  /\ pc \in Writing => Queued = DOMAIN program.headers \ todo
  /\ pc \notin Failed => HeadersLaid /\ TailsLaid
  /\ pc \in {"table"} \cup Linking =>
       /\ version = "STARCRAFT" => header_table_offset = 0
       /\ todo = {} /\ TableInv
  /\ pc = "start" \/ pc \in Writing => header_table_offset = 0
  /\ pc \in {"msave", "saved"} => relocq = <<>>
  /\ pc \in {"msave", "saved"} /\ version = "BROODWAR" =>
       0 \in DOMAIN array /\ array[0] = Address(header_table_offset)
-----------------------------------------------------------------------------
(* What the proofs use of the graph. *)

GraphFacts ==
  /\ NULL \notin DOMAIN instr /\ NULL \notin DOMAIN label
  /\ DOMAIN iscript.headers = DOMAIN program.headers
  /\ DOMAIN program.headers \subseteq Nat /\ IsFiniteSet(DOMAIN program.headers)
  /\ \A h \in DOMAIN program.headers :
       /\ \E n \in Nat : DOMAIN Entries0(h) = 1 .. n
       /\ \A i \in DOMAIN Entries0(h) : Entries0(h)[i] \in DOMAIN label \cup {NULL}
  /\ \A x \in DOMAIN instr :
       /\ Bytes(x) \in Nat /\ Bytes(x) > 0
       /\ instr[x].jump # NULL => instr[x].jump \in DOMAIN label /\ Bytes(x) > 2
       /\ instr[x].next # NULL =>
            instr[x].next \in DOMAIN instr /\ instr[instr[x].next].prev = x
       /\ instr[x].prev # NULL =>
            instr[x].prev \in DOMAIN instr /\ instr[instr[x].prev].next = x
       /\ instr[x].st_entry # NULL =>
            instr[x].st_entry \in DOMAIN label /\ label[instr[x].st_entry].bc = x
       /\ instr[x].prev = NULL => instr[x].st_entry # NULL
  /\ \A l \in DOMAIN label :
       /\ label[l].bc \in DOMAIN instr /\ instr[label[l].bc].st_entry = l
       /\ label[l].id \in Nat
       /\ \A m \in DOMAIN label : label[m].id = label[l].id => m = l

(* An instruction that nothing runs into is marked by a label: it is where *)
(* an animation starts or where a jump leads to.                           *)
LEMMA StartsAreLabelled ==
  ASSUME NEW p, IsProgram(p)
  PROVE  \A a \in CodeOf(p) :
           a \in LabelsOf(p) \/ (a - 1 \in CodeOf(p) /\ FallsThrough(p, a - 1))
<1> DEFINE T == {a \in CodeOf(p) :
                   a \in LabelsOf(p) \/ (a - 1 \in CodeOf(p) /\ FallsThrough(p, a - 1))}
<1>1. \A h \in DOMAIN p.headers : Entries(p, h) \subseteq T
  BY CodeFacts DEF LabelsOf
<1>2. ASSUME NEW a \in T \cap CodeOf(p)
      PROVE  Succ(p, a) \subseteq T
  <2>1. Succ(p, a) \subseteq CodeOf(p)
    BY CodeFacts
  <2>2. a \in Nat
    BY ProgramFacts
  <2>3. FallsThrough(p, a) => a + 1 \in T
    BY <2>1, <2>2 DEF Succ
  <2>4. Jumps(p, a) => p.instr[a].target \in T
    BY <2>1, LabelFacts DEF Succ, JumpsIn
  <2> QED
    BY <2>3, <2>4 DEF Succ
<1>3. CodeOf(p) \subseteq T
  <2> HIDE DEF T
  <2> QED
    BY <1>1, <1>2, CodeFacts
<1> QED
  BY <1>3

LEMMA HeaderIds ==
  ASSUME NEW p, IsProgram(p)
  PROVE  DOMAIN p.headers \subseteq Nat /\ IsFiniteSet(DOMAIN p.headers)
<1> DEFINE S == DOMAIN p.headers
<1>1. IsFiniteSet(S)
  BY Zenon DEF IsProgram
<1>2. S \subseteq Nat
  BY Zenon DEF IsProgram
<1> QED
  BY <1>1, <1>2

LEMMA InstrFacts ==
  ASSUME NEW p, IsProgram(p), NEW i, NEW l, InstrsOf(p, 0, i), LabelsIn(p, 0, l)
  PROVE  \A x \in DOMAIN i :
           /\ i[x].jump # NULL => i[x].jump \in DOMAIN l /\ Jumps(p, x[2])
           /\ i[x].next # NULL => i[x].next \in DOMAIN i /\ i[i[x].next].prev = x
           /\ i[x].prev # NULL => i[x].prev \in DOMAIN i /\ i[i[x].prev].next = x
           /\ i[x].st_entry # NULL => i[x].st_entry \in DOMAIN l /\ l[i[x].st_entry].bc = x
           /\ i[x].prev = NULL => i[x].st_entry # NULL
<1> SUFFICES ASSUME NEW x \in DOMAIN i
             PROVE  /\ i[x].jump # NULL => i[x].jump \in DOMAIN l /\ Jumps(p, x[2])
                    /\ i[x].next # NULL => i[x].next \in DOMAIN i /\ i[i[x].next].prev = x
                    /\ i[x].prev # NULL => i[x].prev \in DOMAIN i /\ i[i[x].prev].next = x
                    /\ i[x].st_entry # NULL =>
                         i[x].st_entry \in DOMAIN l /\ l[i[x].st_entry].bc = x
                    /\ i[x].prev = NULL => i[x].st_entry # NULL
  OBVIOUS
<1>1. PICK a \in CodeOf(p) : x = <<0, a>>
  BY DEF InstrsOf
<1>2. a \in Nat /\ a \in DOMAIN p.instr
  BY ProgramFacts
<1>3. InstrsAgree(i, l)
  BY LoadedInstrsAgree
<1>4. i[x].jump # NULL => i[x].jump \in DOMAIN l /\ Jumps(p, x[2])
  BY <1>1, <1>3 DEF InstrsOf, InstrsAgree
<1>5. i[x].prev = NULL => i[x].st_entry # NULL
  <2> SUFFICES ASSUME i[x].prev = NULL PROVE i[x].st_entry # NULL
    OBVIOUS
  <2>1. ~(a - 1 \in CodeOf(p) /\ FallsThrough(p, a - 1))
    <3> SUFFICES ASSUME a - 1 \in CodeOf(p), FallsThrough(p, a - 1) PROVE FALSE
      OBVIOUS
    <3>1. i[x].prev = <<0, a - 1>>
      BY <1>1 DEF InstrsOf
    <3>2. a - 1 \in Nat
      BY ProgramFacts
    <3> QED
      BY <3>1, <3>2, NullAssumption
  <2>2. a \in LabelsOf(p)
    BY <2>1, StartsAreLabelled
  <2>3. i[x].st_entry = <<0, a>>
    BY <2>2, <1>1 DEF InstrsOf
  <2> QED
    BY <2>3, <1>2, NullAssumption
<1> QED
  BY <1>3, <1>4, <1>5 DEF InstrsAgree

LEMMA LabelIdFacts ==
  ASSUME NEW p, IsProgram(p), NEW l, LabelsIn(p, 0, l)
  PROVE  \A x \in DOMAIN l : /\ l[x].id \in Nat /\ l[x].id < Cardinality(LabelsOf(p))
                             /\ \A y \in DOMAIN l : l[y].id = l[x].id => y = x
<1> SUFFICES ASSUME NEW x \in DOMAIN l, NEW y \in DOMAIN l
             PROVE  /\ l[x].id \in Nat /\ l[x].id < Cardinality(LabelsOf(p))
                    /\ l[y].id = l[x].id => y = x
  OBVIOUS
<1>1. PICK a \in LabelsOf(p) : x = <<0, a>>
  BY DEF LabelsIn
<1>2. PICK b \in LabelsOf(p) : y = <<0, b>>
  BY DEF LabelsIn
<1>3. l[x].id = IdOf(p, a) /\ l[y].id = IdOf(p, b)
  BY <1>1, <1>2 DEF LabelsIn
<1>4. a \in Nat /\ b \in Nat
  BY LabelFacts, ProgramFacts
<1>5. /\ IdOf(p, a) \in Nat /\ IdOf(p, b) \in Nat /\ IdOf(p, a) < Cardinality(LabelsOf(p))
      /\ a < b => IdOf(p, a) < IdOf(p, b)
      /\ b < a => IdOf(p, b) < IdOf(p, a)
  BY IdFacts
<1> QED
  BY <1>1, <1>2, <1>3, <1>4, <1>5

LEMMA TheGraph ==
  ASSUME SaveAssumption, program \in Programs, iscript = LoadedGraph(program, 0)
  PROVE  /\ IsProgram(program)
         /\ InstrsOf(program, 0, instr) /\ LabelsIn(program, 0, label)
         /\ HeadersOf(program, 0, iscript.headers)
<1> QED
  BY LoadedParts DEF SaveAssumption, instr, label

LEMMA GraphIsSound == Domains => GraphFacts
<1> SUFFICES ASSUME Domains PROVE GraphFacts
  OBVIOUS
<1>1. /\ IsProgram(program) /\ InstrsOf(program, 0, instr) /\ LabelsIn(program, 0, label)
      /\ HeadersOf(program, 0, iscript.headers)
  BY TheGraph, SaveAssumption DEF Domains, Chosen
<1>2. NULL \notin DOMAIN instr /\ NULL \notin DOMAIN label
  <2>1. \A a \in CodeOf(program) : a \in Nat
    BY <1>1, ProgramFacts
  <2>2. \A a \in LabelsOf(program) : a \in Nat
    BY <1>1, <2>1, LabelFacts
  <2> QED
    BY <1>1, <2>1, <2>2, NullAssumption DEF InstrsOf, LabelsIn
<1>3. /\ DOMAIN iscript.headers = DOMAIN program.headers
      /\ DOMAIN program.headers \subseteq Nat /\ IsFiniteSet(DOMAIN program.headers)
  <2>1. DOMAIN iscript.headers = DOMAIN program.headers
    BY <1>1 DEF HeadersOf
  <2>2. DOMAIN program.headers \subseteq Nat /\ IsFiniteSet(DOMAIN program.headers)
    BY <1>1, HeaderIds
  <2> QED
    BY <2>1, <2>2
<1>4. ASSUME NEW h \in DOMAIN program.headers
      PROVE  /\ \E n \in Nat : DOMAIN Entries0(h) = 1 .. n
             /\ \A i \in DOMAIN Entries0(h) : Entries0(h)[i] \in DOMAIN label \cup {NULL}
  <2>1. DOMAIN program.headers[h] = 1 .. Len(program.headers[h])
        /\ Len(program.headers[h]) \in Nat
    BY <1>1, ProgramFacts
  <2>2. DOMAIN Entries0(h) = DOMAIN program.headers[h]
    BY <1>1 DEF Entries0, HeadersOf
  <2>3. ASSUME NEW i \in DOMAIN Entries0(h)
        PROVE  Entries0(h)[i] \in DOMAIN label \cup {NULL}
    <3>1. Entries0(h)[i] = IF program.headers[h][i] \in LabelsOf(program)
                           THEN <<0, program.headers[h][i]>> ELSE NULL
      BY <1>1, <2>2 DEF Entries0, HeadersOf
    <3>2. DOMAIN label = {0} \X LabelsOf(program)
      BY <1>1 DEF LabelsIn
    <3> QED
      BY <3>1, <3>2
  <2> QED
    BY <2>1, <2>2, <2>3
<1>5. ASSUME NEW x \in DOMAIN instr
      PROVE  /\ Bytes(x) \in Nat /\ Bytes(x) > 0
             /\ Jumps(program, x[2]) => Bytes(x) > 2
  <2>1. PICK a \in CodeOf(program) : x = <<0, a>>
    BY <1>1 DEF InstrsOf
  <2>2. program.instr[a].kind \in Kinds
    BY <1>1, ProgramFacts
  <2> DEFINE k == program.instr[a].kind
  <2>3. Bytes(x) = Length[k]
    BY <2>1 DEF Bytes
  <2>4. Length[k] \in Nat \ {0} /\ Length["jmp"] > 2 /\ Length["cond"] > 2
    BY <2>2, SaveAssumption DEF SaveAssumption
  <2>5. Jumps(program, x[2]) => k \in {"jmp", "cond"}
    BY <2>1 DEF Jumps
  <2> QED
    BY <2>3, <2>4, <2>5
<1>6. ASSUME NEW x \in DOMAIN instr
      PROVE  /\ instr[x].jump # NULL => instr[x].jump \in DOMAIN label /\ Bytes(x) > 2
             /\ instr[x].next # NULL =>
                  instr[x].next \in DOMAIN instr /\ instr[instr[x].next].prev = x
             /\ instr[x].prev # NULL =>
                  instr[x].prev \in DOMAIN instr /\ instr[instr[x].prev].next = x
             /\ instr[x].st_entry # NULL =>
                  instr[x].st_entry \in DOMAIN label /\ label[instr[x].st_entry].bc = x
             /\ instr[x].prev = NULL => instr[x].st_entry # NULL
  <2>1. /\ instr[x].jump # NULL => instr[x].jump \in DOMAIN label /\ Jumps(program, x[2])
        /\ instr[x].next # NULL =>
             instr[x].next \in DOMAIN instr /\ instr[instr[x].next].prev = x
        /\ instr[x].prev # NULL =>
             instr[x].prev \in DOMAIN instr /\ instr[instr[x].prev].next = x
        /\ instr[x].st_entry # NULL =>
             instr[x].st_entry \in DOMAIN label /\ label[instr[x].st_entry].bc = x
        /\ instr[x].prev = NULL => instr[x].st_entry # NULL
    BY <1>1, InstrFacts
  <2> QED
    BY <2>1, <1>5
<1>7. \A l \in DOMAIN label : /\ label[l].id \in Nat
                              /\ \A m \in DOMAIN label : label[m].id = label[l].id => m = l
  BY <1>1, LabelIdFacts
<1>8. \A l \in DOMAIN label : label[l].bc \in DOMAIN instr /\ instr[label[l].bc].st_entry = l
  BY <1>1, LoadedLabelsAgree DEF LabelsAgree
<1> QED
  BY <1>2, <1>3, <1>4, <1>5, <1>6, <1>7, <1>8 DEF GraphFacts

(* isinstrenum_rewind follows prev to the start of the chain. *)
Chained(i, b, a) ==
  \A c \in b + 1 .. a : <<0, c>> \in DOMAIN i /\ i[<<0, c>>].prev = <<0, c - 1>>
BackFrom(i, f) == f = [j \in DOMAIN i |-> IF i[j].prev = NULL THEN j ELSE f[i[j].prev]]
ChainsBack(i, C) ==
  /\ C \subseteq Nat /\ DOMAIN i = {0} \X C
  /\ \A a \in C : i[<<0, a>>].prev = NULL
                  \/ (a - 1 \in C /\ i[<<0, a>>].prev = <<0, a - 1>>)

(* Where the chain that leads to a can be entered. *)
Entrances(i, C, a) == {b \in C : b <= a /\ Chained(i, b, a)}
Entrance(i, C, a) == CHOOSE b \in Entrances(i, C, a) : \A c \in Entrances(i, C, a) : b <= c

LEMMA ChainedStep ==
  ASSUME NEW C, NEW i, ChainsBack(i, C), NEW a \in C, i[<<0, a>>].prev # NULL
  PROVE  /\ a - 1 \in C /\ i[<<0, a>>].prev = <<0, a - 1>>
         /\ \A b \in Nat : b <= a - 1 => (Chained(i, b, a) <=> Chained(i, b, a - 1))
<1>1. a - 1 \in C /\ i[<<0, a>>].prev = <<0, a - 1>> /\ a \in Nat /\ <<0, a>> \in DOMAIN i
  BY DEF ChainsBack
<1>2. ASSUME NEW b \in Nat, b <= a - 1
      PROVE  Chained(i, b, a) <=> Chained(i, b, a - 1)
  <2>1. b + 1 .. a = (b + 1 .. a - 1) \cup {a}
    BY <1>1, <1>2
  <2> QED
    BY <1>1, <2>1 DEF Chained
<1> QED
  BY <1>1, <1>2

LEMMA EntranceFacts ==
  ASSUME NEW C, NEW i, ChainsBack(i, C), NEW a \in C
  PROVE  /\ a \in Entrances(i, C, a) /\ Entrances(i, C, a) \subseteq Nat
         /\ Entrance(i, C, a) \in Entrances(i, C, a)
         /\ \A c \in Entrances(i, C, a) : Entrance(i, C, a) <= c
<1>1. C \subseteq Nat
  BY DEF ChainsBack
<1>2. Chained(i, a, a)
  BY <1>1 DEF Chained
<1>3. a \in Entrances(i, C, a) /\ Entrances(i, C, a) \subseteq Nat
  <2>1. a <= a
    BY <1>1
  <2>2. a \in Entrances(i, C, a)
    BY <1>2, <2>1 DEF Entrances
  <2>3. Entrances(i, C, a) \subseteq C
    BY DEF Entrances
  <2> QED
    BY <1>1, <2>2, <2>3
<1>4. \E b \in Entrances(i, C, a) : \A c \in Entrances(i, C, a) : b <= c
  BY <1>3, LeastNumber
<1>5. /\ Entrance(i, C, a) \in Entrances(i, C, a)
      /\ \A c \in Entrances(i, C, a) : Entrance(i, C, a) <= c
  BY Zenon, <1>4 DEF Entrance
<1> QED
  BY <1>3, <1>5

LEMMA EntranceStep ==
  ASSUME NEW C, NEW i, ChainsBack(i, C), NEW a \in C
  PROVE  Entrance(i, C, a) = IF i[<<0, a>>].prev = NULL THEN a ELSE Entrance(i, C, a - 1)
<1>1. C \subseteq Nat /\ a \in Nat
  BY DEF ChainsBack
<1>2. CASE i[<<0, a>>].prev = NULL
  <2>1. ASSUME NEW b \in Entrances(i, C, a) PROVE b = a
    <3> SUFFICES ASSUME b < a PROVE FALSE
      BY <1>1 DEF Entrances
    <3>1. b \in Nat /\ a \in b + 1 .. a
      BY <1>1, <2>1 DEF Entrances
    <3>2. i[<<0, a>>].prev = <<0, a - 1>> /\ a - 1 \in Nat
      BY <1>1, <3>1, <2>1 DEF Chained, Entrances
    <3> QED
      BY <3>2, <1>2, NullAssumption
  <2> QED
    BY <1>2, <2>1, EntranceFacts
<1>3. CASE i[<<0, a>>].prev # NULL
  <2>1. /\ a - 1 \in C
        /\ \A b \in Nat : b <= a - 1 => (Chained(i, b, a) <=> Chained(i, b, a - 1))
    BY <1>3, ChainedStep
  <2> DEFINE E == Entrances(i, C, a)
             F == Entrances(i, C, a - 1)
             m == Entrance(i, C, a)
             n == Entrance(i, C, a - 1)
  <2>2. ASSUME NEW b \in F PROVE b \in E
    <3>1. b \in C /\ b <= a - 1 /\ Chained(i, b, a - 1)
      BY <2>2 DEF Entrances
    <3>2. b <= a /\ Chained(i, b, a)
      BY <1>1, <2>1, <3>1
    <3> QED
      BY <3>1, <3>2 DEF Entrances
  <2>3. ASSUME NEW b \in E, b # a PROVE b \in F
    <3>1. b \in C /\ b <= a /\ Chained(i, b, a)
      BY <2>3 DEF Entrances
    <3>2. b <= a - 1 /\ Chained(i, b, a - 1)
      BY <1>1, <2>1, <2>3, <3>1
    <3> QED
      BY <3>1, <3>2 DEF Entrances
  <2>4. a \in E /\ m \in E /\ (\A c \in E : m <= c) /\ E \subseteq Nat
    BY EntranceFacts
  <2>5. a - 1 \in F /\ n \in F /\ (\A c \in F : n <= c)
    BY <2>1, EntranceFacts
  <2> HIDE DEF E, F, m, n
  <2>6. m <= a - 1 /\ m <= n /\ m \in Nat /\ n \in Nat
    <3>1. a - 1 \in E /\ n \in E
      BY <2>2, <2>5
    <3> QED
      BY <3>1, <2>4
  <2>7. m \in F
    BY <2>3, <2>4, <2>6, <1>1
  <2>8. m = n
    BY <2>5, <2>6, <2>7
  <2> QED
    BY <2>8, <1>3 DEF m, n
<1> QED
  BY <1>2, <1>3

LEMMA BackExists ==
  ASSUME NEW C, NEW i, ChainsBack(i, C)
  PROVE  \E f : BackFrom(i, f)
<1> DEFINE f == [j \in DOMAIN i |-> <<0, Entrance(i, C, j[2])>>]
<1>1. ASSUME NEW a \in C
      PROVE  f[<<0, a>>] = <<0, Entrance(i, C, a)>>
  BY DEF ChainsBack
<1>2. ASSUME NEW j \in DOMAIN i
      PROVE  f[j] = IF i[j].prev = NULL THEN j ELSE f[i[j].prev]
  <2> HIDE DEF f
  <2>0. DOMAIN i = {0} \X C
    BY DEF ChainsBack
  <2>1. PICK a \in C : j = <<0, a>>
    BY <2>0
  <2>2. CASE i[j].prev = NULL
    BY <1>1, <2>1, <2>2, EntranceStep
  <2>3. CASE i[j].prev # NULL
    <3>1. a - 1 \in C /\ i[j].prev = <<0, a - 1>>
      BY <2>1, <2>3, ChainedStep
    <3>2. Entrance(i, C, a) = Entrance(i, C, a - 1)
      BY <2>1, <2>3, EntranceStep
    <3> QED
      BY <1>1, <2>1, <2>3, <3>1, <3>2
  <2> QED
    BY <2>2, <2>3
<1>3. f = [j \in DOMAIN i |-> f[j]]
  OBVIOUS
<1>4. BackFrom(i, f)
  <2> HIDE DEF f
  <2> QED
    BY <1>2, <1>3 DEF BackFrom
<1> QED
  BY <1>4

(* The start of the chain of a, as f knows it. *)
StartsAt(i, C, f, a) ==
  \E b \in C : /\ f[<<0, a>>] = <<0, b>> /\ i[<<0, b>>].prev = NULL
               /\ b <= a /\ Chained(i, b, a)

LEMMA BackFacts ==
  ASSUME NEW C, NEW i, ChainsBack(i, C), NEW f, BackFrom(i, f)
  PROVE  \A a \in C : StartsAt(i, C, f, a)
<1> DEFINE Bad == {a \in C : ~StartsAt(i, C, f, a)}
<1> SUFFICES ASSUME Bad # {} PROVE FALSE
  OBVIOUS
<1>0. C \subseteq Nat
  BY DEF ChainsBack
<1>1. PICK a \in Bad : \A c \in Bad : a <= c
  BY <1>0, LeastNumber
<1>2. a \in Nat /\ a \in C /\ <<0, a>> \in DOMAIN i
  BY DEF ChainsBack
<1>3. f[<<0, a>>] = IF i[<<0, a>>].prev = NULL THEN <<0, a>> ELSE f[i[<<0, a>>].prev]
  BY <1>2 DEF BackFrom
<1>4. CASE i[<<0, a>>].prev = NULL
  <2>1. Chained(i, a, a)
    BY <1>2, EntranceFacts DEF Entrances
  <2> QED
    BY <1>1, <1>2, <1>3, <1>4, <2>1 DEF StartsAt
<1>5. CASE i[<<0, a>>].prev # NULL
  <2>1. /\ a - 1 \in C /\ i[<<0, a>>].prev = <<0, a - 1>>
        /\ \A b \in Nat : b <= a - 1 => (Chained(i, b, a) <=> Chained(i, b, a - 1))
    BY <1>2, <1>5, ChainedStep
  <2>2. StartsAt(i, C, f, a - 1)
    <3>1. a - 1 \notin Bad
      BY <1>1, <1>2, <2>1
    <3> QED
      BY <3>1, <2>1
  <2>3. PICK b \in C : /\ f[<<0, a - 1>>] = <<0, b>> /\ i[<<0, b>>].prev = NULL
                       /\ b <= a - 1 /\ Chained(i, b, a - 1)
    BY <2>2 DEF StartsAt
  <2>4. b <= a /\ Chained(i, b, a)
    BY <1>0, <1>2, <2>1, <2>3
  <2>5. f[<<0, a>>] = <<0, b>>
    BY <1>3, <1>5, <2>1, <2>3
  <2>6. StartsAt(i, C, f, a)
    BY <2>3, <2>4, <2>5 DEF StartsAt
  <2> QED
    BY <2>6, <1>1
<1> QED
  BY <1>4, <1>5

LEMMA InstrsChainBack ==
  ASSUME NEW p, IsProgram(p), NEW i, InstrsOf(p, 0, i)
  PROVE  ChainsBack(i, CodeOf(p))
<1>1. CodeOf(p) \subseteq Nat
  BY ProgramFacts
<1> QED
  BY <1>1 DEF InstrsOf, ChainsBack

LEMMA RewindFacts ==
  Domains => \A x \in DOMAIN instr :
    /\ Rewind(x) \in DOMAIN instr /\ instr[Rewind(x)].prev = NULL
    /\ Ahead(Rewind(x), x)
<1> SUFFICES ASSUME Domains, NEW x \in DOMAIN instr
             PROVE  /\ Rewind(x) \in DOMAIN instr /\ instr[Rewind(x)].prev = NULL
                    /\ Ahead(Rewind(x), x)
  OBVIOUS
<1> DEFINE C == CodeOf(program)
           back == CHOOSE f : BackFrom(instr, f)
<1>1. ChainsBack(instr, C)
  BY TheGraph, SaveAssumption, InstrsChainBack DEF Domains, Chosen
<1>2. BackFrom(instr, back)
  BY <1>1, BackExists
<1>3. Rewind(x) = back[x]
  BY DEF Rewind, BackFrom
<1>4. PICK a \in C : x = <<0, a>>
  BY <1>1 DEF ChainsBack
<1> HIDE DEF back
<1>5. PICK b \in C : /\ back[<<0, a>>] = <<0, b>> /\ instr[<<0, b>>].prev = NULL
                     /\ b <= a /\ Chained(instr, b, a)
  BY <1>1, <1>2, BackFacts DEF StartsAt
<1>6. <<0, b>> \in DOMAIN instr
  BY <1>1 DEF ChainsBack
<1>7. Ahead(<<0, b>>, <<0, a>>)
  BY <1>5 DEF Ahead, Chained
<1> QED
  BY <1>3, <1>4, <1>5, <1>6, <1>7

-----------------------------------------------------------------------------
(* Functions, queues and what is written. *)

LEMMA PutFacts ==
  ASSUME NEW f, NEW k, NEW v
  PROVE  /\ DOMAIN Put(f, k, v) = DOMAIN f \cup {k}
         /\ Put(f, k, v)[k] = v
         /\ \A x \in DOMAIN f : x # k => Put(f, k, v)[x] = f[x]
BY DEF Put

LEMMA PutPlaces ==
  ASSUME NEW f, NEW k \in Nat, NEW v, DOMAIN f \subseteq Nat
  PROVE  DOMAIN Put(f, k, v) \subseteq Nat
<1>1. DOMAIN Put(f, k, v) = DOMAIN f \cup {k}
  BY PutFacts
<1> QED
  BY <1>1

LEMMA AlignedFacts ==
  ASSUME NEW n \in Nat
  PROVE  n + (n % 2) \in Nat /\ n + (n % 2) >= n
OBVIOUS

LEMMA MarkFacts ==
  /\ EofMark.what = "eof"
  /\ \A a : Address(a).what = "address" /\ Address(a).value = a
  /\ \A h : HeaderMark(h).what = "header"
  /\ \A x : InstrMark(x).what = "instr" /\ InstrMark(x).instr = x
  /\ \A x, y : InstrMark(x) = InstrMark(y) => x = y
BY DEF EofMark, Address, HeaderMark, InstrMark

LEMMA ExtentFacts ==
  \A a : /\ What(a) = "header" => Extent(a) = 8
         /\ What(a) = "instr" => Extent(a) = Bytes(array[a].instr)
         /\ What(a) = "address" => Extent(a) = 2
         /\ What(a) \in {"eof", "entry"} => Extent(a) = 4
BY DEF Extent, What

LEMMA SameGraph ==
  UNCHANGED const => /\ instr' = instr /\ label' = label /\ Top' = Top
                     /\ \A x : Bytes(x)' = Bytes(x)
                     /\ \A h : Entries0(h)' = Entries0(h) /\ HeaderMark(h)' = HeaderMark(h)
                     /\ program' = program /\ version' = version /\ iscript' = iscript
BY DEF const, instr, label, Top, Bytes, Entries0, HeaderMark

-----------------------------------------------------------------------------
(* The domains. *)

LEMMA TopFacts == Domains => Top \in Nat /\ Cardinality(DOMAIN iscript.headers) \in Nat
BY GraphIsSound, FS_CardinalityType, SaveAssumption DEF GraphFacts, Top, SaveAssumption

LEMMA DomainsInit == Init => Domains
<1> SUFFICES ASSUME Init PROVE Domains
  OBVIOUS
<1>1. MaxSize \in Nat
  BY SaveAssumption DEF SaveAssumption
<1>2. array = <<>> => DOMAIN array = {}
  OBVIOUS
<1> QED
  BY <1>1, <1>2 DEF Init, Domains, Chosen, Places, Control, QueueTypes, Writing, Linking, Failed, InHeader

LEMMA DomainsGiveUp ==
  ASSUME Domains, NEW why \in Failed, GiveUp(why)
  PROVE  Domains'
<1>1. instr' = instr /\ label' = label
  BY SameGraph DEF GiveUp
<1> QED
  BY <1>1 DEF Domains, Chosen, Places, Control, QueueTypes, GiveUp, const, mfile, coder, queues, Failed, Writing, Linking, InHeader

(* What a step that does not give up makes of the types of the variables.  *)
LEMMA DomainsNext ==
  ASSUME Domains, [Next]_vars
  PROVE  Domains'
<1> DEFINE H == DOMAIN program.headers
<1> USE DEF const, mfile, coder, queues, Failed, Writing, Linking, InHeader
<1>0. GraphFacts /\ Chosen /\ Places /\ Control /\ QueueTypes
  BY GraphIsSound DEF Domains
<1>g. ASSUME GiveUp("too big") PROVE Domains'
  BY <1>g, DomainsGiveUp
<1>1. ASSUME UNCHANGED const
      PROVE  /\ instr' = instr /\ label' = label /\ program' = program
             /\ version' = version /\ iscript' = iscript /\ Chosen'
  <2>1. /\ instr' = instr /\ label' = label /\ program' = program
        /\ version' = version /\ iscript' = iscript
    BY <1>1, SameGraph
  <2> QED
    BY <2>1, <1>0 DEF Chosen
<1>2. ASSUME Start, ~Fail PROVE Domains'
  <2>1. Top \in Nat
    BY TopFacts
  <2>2. Places'
    BY <1>0, <1>2, <2>1, PutPlaces DEF Start, Places
  <2>3. Control' /\ QueueTypes'
    BY <1>0, <1>1, <1>2 DEF Start, Control, QueueTypes
  <2> QED
    BY <1>1, <1>2, <2>2, <2>3 DEF Start, Domains
<1>3. ASSUME NEW h \in todo, WriteHeader(h), ~Fail PROVE Domains'
  <2>1. h \in H /\ h \in Nat
    BY <1>0 DEF Control, GraphFacts
  <2>2. Aligned \in Nat
    BY <1>0, AlignedFacts DEF Places, Aligned
  <2>3. Places'
    BY <1>0, <1>3, <2>2, PutPlaces DEF WriteHeader, Places
  <2>4. QueueTypes'
    <3>1. [id |-> h, offset |-> Aligned] \in [id : H, offset : Nat]
      BY <2>1, <2>2
    <3>2. idtoheaderq' = Append(idtoheaderq, [id |-> h, offset |-> Aligned])
      BY <1>3 DEF WriteHeader
    <3>3. idtoheaderq' \in Seq([id : H, offset : Nat])
      BY <1>0, <3>1, <3>2, AppendFacts DEF QueueTypes
    <3> QED
      BY <1>0, <1>1, <1>3, <3>3 DEF WriteHeader, QueueTypes
  <2>5. Control'
    <3>1. /\ pc' = "slots" /\ hdr' = h /\ animno' = 1 /\ todo' = todo \ {h}
          /\ UNCHANGED <<const, bc, todoq>> /\ pc = "headers"
      BY <1>3 DEF WriteHeader
    <3> QED
      BY <1>0, <1>1, <2>1, <3>1 DEF Control
  <2> QED
    BY <1>1, <1>3, <2>3, <2>4, <2>5 DEF WriteHeader, Domains
<1>4. ASSUME WriteSlot, ~Fail PROVE Domains'
  <2> DEFINE l == Entries0(hdr)[animno]
  <2>1. hdr \in H /\ l \in DOMAIN label \cup {NULL}
    BY <1>0, <1>4 DEF WriteSlot, Control, GraphFacts
  <2>2. l # NULL => label[l].id \in Nat
    BY <1>0, <2>1 DEF GraphFacts
  <2>3. relocq' = IF l = NULL THEN relocq
                  ELSE Append(relocq, [id |-> label[l].id, offset |-> pos])
    BY <1>4 DEF WriteSlot
  <2> HIDE DEF l
  <2>4. relocq' \in Seq([id : Nat, offset : Nat])
    <3>1. CASE l = NULL
      BY <1>0, <2>3, <3>1 DEF QueueTypes
    <3>2. CASE l # NULL
      <4>1. [id |-> label[l].id, offset |-> pos] \in [id : Nat, offset : Nat]
        BY <1>0, <2>2, <3>2 DEF Places
      <4> QED
        BY <1>0, <2>3, <3>2, <4>1, AppendFacts DEF QueueTypes
    <3> QED
      BY <3>1, <3>2
  <2>5. Places'
    BY <1>0, <1>4, PutPlaces DEF WriteSlot, Places
  <2>6. Control'
    <3>1. animno' = animno + 1 /\ UNCHANGED <<const, pc, todo, hdr, bc, todoq>>
      BY <1>4 DEF WriteSlot
    <3>2. PICK n \in Nat \ {0} : n = animno
      BY <1>0 DEF Control
    <3>3. animno' \in Nat \ {0}
      BY <3>1, <3>2
    <3> QED
      BY <1>0, <1>1, <3>1, <3>3 DEF Control
  <2>7. QueueTypes'
    BY <1>0, <1>1, <1>4, <2>4 DEF WriteSlot, QueueTypes
  <2> QED
    BY <1>1, <1>4, <2>5, <2>6, <2>7 DEF WriteSlot, Domains
<1>5. CASE SlotsWritten
  BY <1>0, <1>1, <1>5 DEF SlotsWritten, Domains, Places, Control, QueueTypes
<1>6. CASE NextAnim
  <2> DEFINE l == Entries0(hdr)[animno]
  <2>1. l \in DOMAIN label \cup {NULL}
    BY <1>0, <1>6 DEF NextAnim, Control, GraphFacts
  <2>2. todoq' = IF l = NULL THEN <<>> ELSE <<l>>
    BY <1>6 DEF NextAnim
  <2> HIDE DEF l
  <2>3. todoq' \in Seq(DOMAIN label)
    <3>1. CASE l = NULL
      BY <2>2, <3>1
    <3>2. CASE l # NULL
      BY <2>1, <2>2, <3>2
    <3> QED
      BY <3>1, <3>2
  <2> QED
    BY <1>0, <1>1, <1>6, <2>3 DEF NextAnim, Domains, Places, Control, QueueTypes
<1>7. CASE HeaderWritten
  BY <1>0, <1>1, <1>7 DEF HeaderWritten, Domains, Places, Control, QueueTypes
<1>8. CASE NextLabel
  <2>1. CASE todoq = <<>>
    BY <1>0, <1>1, <1>8, <2>1 DEF NextLabel, Domains, Places, Control, QueueTypes
  <2>2. CASE todoq # <<>>
    <3>1. Tail(todoq) \in Seq(DOMAIN label) /\ Head(todoq) \in DOMAIN label
      BY <1>0, <2>2, TailFacts DEF QueueTypes
    <3>2. Rewind(label[Head(todoq)].bc) \in DOMAIN instr
      BY <1>0, <3>1, RewindFacts DEF GraphFacts
    <3> QED
      BY <1>0, <1>1, <1>8, <2>2, <3>1, <3>2
         DEF NextLabel, Domains, Places, Control, QueueTypes
  <2> QED
    BY <2>1, <2>2
<1>9. CASE Loop
  BY <1>0, <1>1, <1>9 DEF Loop, Domains, Places, Control, QueueTypes
<1>10. ASSUME WriteInstr, ~Fail PROVE Domains'
  <2> DEFINE j == instr[bc].jump
             end == pos + Bytes(bc)
  <2>1. bc \in DOMAIN instr /\ Bytes(bc) \in Nat
        /\ (j # NULL => j \in DOMAIN label /\ label[j].id \in Nat /\ Bytes(bc) > 2)
        /\ instr[bc].next \in DOMAIN instr \cup {NULL}
    BY <1>0, <1>10 DEF WriteInstr, Control, GraphFacts
  <2>2. end \in Nat /\ (j # NULL => RelocAt(end) \in Nat)
    BY <1>0, <2>1 DEF RelocAt, Places
  <2>3. /\ relocq' = IF j = NULL THEN relocq
                     ELSE Append(relocq, [id |-> label[j].id, offset |-> RelocAt(end)])
        /\ todoq' = IF j = NULL THEN todoq ELSE Append(todoq, j)
        /\ array' = Put(array, pos, InstrMark(bc)) /\ pos' = end /\ bc' = instr[bc].next
    BY <1>10 DEF WriteInstr
  <2> HIDE DEF j, end
  <2>4. relocq' \in Seq([id : Nat, offset : Nat]) /\ todoq' \in Seq(DOMAIN label)
    <3>1. CASE j = NULL
      BY <1>0, <2>3, <3>1 DEF QueueTypes
    <3>2. CASE j # NULL
      <4>1. [id |-> label[j].id, offset |-> RelocAt(end)] \in [id : Nat, offset : Nat]
        BY <2>1, <2>2, <3>2
      <4> QED
        BY <1>0, <2>1, <2>3, <3>2, <4>1, AppendFacts DEF QueueTypes
    <3> QED
      BY <3>1, <3>2
  <2>5. Places'
    BY <1>0, <1>10, <2>2, <2>3, PutPlaces DEF WriteInstr, Places
  <2>6. Control'
    BY <1>0, <1>1, <1>10, <2>1, <2>3 DEF WriteInstr, Control
  <2>7. QueueTypes'
    BY <1>0, <1>1, <1>10, <2>4 DEF WriteInstr, QueueTypes
  <2> QED
    BY <1>1, <1>10, <2>5, <2>6, <2>7 DEF WriteInstr, Domains
<1>11. CASE SeekTable
  BY <1>0, <1>1, <1>11 DEF SeekTable, Domains, Places, Control, QueueTypes
<1>12. ASSUME WriteEntry, ~Fail PROVE Domains'
  <2>1. idtoheaderq' \in Seq([id : H, offset : Nat])
    <3>1. idtoheaderq # <<>> /\ idtoheaderq' = Tail(idtoheaderq)
      BY <1>12 DEF WriteEntry
    <3>2. idtoheaderq \in Seq([id : H, offset : Nat])
      BY <1>0 DEF QueueTypes
    <3> QED
      BY <3>1, <3>2, TailFacts
  <2>2. Places'
    BY <1>0, <1>12, PutPlaces DEF WriteEntry, Places
  <2>3. QueueTypes'
    BY <1>0, <1>1, <1>12, <2>1 DEF WriteEntry, QueueTypes
  <2>4. Control'
    BY <1>0, <1>1, <1>12 DEF WriteEntry, Control
  <2> QED
    BY <1>1, <1>12, <2>2, <2>3, <2>4 DEF WriteEntry, Domains
<1>13. ASSUME EndTable, ~Fail PROVE Domains'
  <2>1. Places'
    BY <1>0, <1>13, PutPlaces DEF EndTable, Places
  <2>2. QueueTypes' /\ Control'
    BY <1>0, <1>1, <1>13 DEF EndTable, QueueTypes, Control
  <2> QED
    BY <1>1, <1>13, <2>1, <2>2 DEF EndTable, Domains
<1>14. ASSUME Relocate, ~Fail PROVE Domains'
  <2>1. relocq' \in Seq([id : Nat, offset : Nat]) /\ Head(relocq) \in [id : Nat, offset : Nat]
    <3>1. relocq # <<>> /\ relocq' = Tail(relocq)
      BY <1>14 DEF Relocate, Popped
    <3> QED
      BY <1>0, <3>1, TailFacts DEF QueueTypes
  <2>2. Head(relocq).offset \in Nat
    BY <2>1
  <2>3. Places'
    BY <1>0, <1>14, <2>2, PutPlaces DEF Relocate, Places
  <2>4. QueueTypes' /\ Control'
    BY <1>0, <1>1, <1>14, <2>1 DEF Relocate, QueueTypes, Control
  <2> QED
    BY <1>1, <1>14, <2>3, <2>4 DEF Relocate, Domains
<1>15. CASE PointToTable
  <2>1. Places'
    BY <1>0, <1>15, PutPlaces DEF PointToTable, Places
  <2>2. QueueTypes' /\ Control'
    BY <1>0, <1>1, <1>15 DEF PointToTable, QueueTypes, Control
  <2> QED
    BY <1>1, <1>15, <2>1, <2>2 DEF PointToTable, Domains
<1>16. CASE MSave
  <2>1. CASE GiveUp("not saved")
    BY <2>1, DomainsGiveUp
  <2>2. CASE ~GiveUp("not saved")
    BY <1>0, <1>1, <1>16, <2>2 DEF MSave, Domains, Places, Control, QueueTypes
  <2> QED
    BY <2>1, <2>2
<1>17. CASE UNCHANGED vars
  BY <1>0, <1>1, <1>17 DEF vars, Domains, Places, Control, QueueTypes
<1> QED
  BY <1>g, <1>2, <1>3, <1>4, <1>5, <1>6, <1>7, <1>8, <1>9, <1>10, <1>11, <1>12, <1>13, <1>14,
     <1>15, <1>16, <1>17 DEF Next, Stopped, Fail

-----------------------------------------------------------------------------
(* The layout. *)

(* The bytes that a piece takes. *)
Room(v) ==
  IF v.what = "header" THEN 8
  ELSE IF v.what = "instr" THEN Bytes(v.instr)
  ELSE IF v.what = "address" THEN 2 ELSE 4

LEMMA RoomFacts ==
  /\ \A a : Extent(a) = Room(array[a])
  /\ Room(EofMark) = 4 /\ \A x : Room(Address(x)) = 2
  /\ \A h : Room(HeaderMark(h)) = 8
  /\ \A x : Room(InstrMark(x)) = Bytes(x)
<1>1. \A a : Extent(a) = Room(array[a])
  BY DEF Extent, Room
<1> QED
  BY <1>1, MarkFacts DEF Room

LEMMA RoomSame ==
  UNCHANGED const => /\ \A v : Room(v)' = Room(v)
                     /\ \A a : Extent(a)' = Room(array'[a])
<1> SUFFICES ASSUME UNCHANGED const
             PROVE  /\ \A v : Room(v)' = Room(v)
                    /\ \A a : Extent(a)' = Room(array'[a])
  OBVIOUS
<1>1. \A x : Bytes(x)' = Bytes(x)
  BY SameGraph
<1> QED
  BY <1>1 DEF Room, Extent

LEMMA PiecesHaveRoom ==
  ASSUME Domains, NEW a, PieceOK(a)
  PROVE  Extent(a) \in Nat /\ Extent(a) > 0
<1>1. CASE What(a) \in {"eof", "address", "header", "entry"}
  BY <1>1, ExtentFacts
<1>2. CASE What(a) = "instr" /\ array[a].instr \in DOMAIN instr
  BY <1>2, ExtentFacts, GraphIsSound DEF GraphFacts
<1> QED
  BY <1>1, <1>2 DEF PieceOK

(* Steps that leave the file alone. *)
SameArray == DOMAIN array' = DOMAIN array /\ \A a \in DOMAIN array : array'[a] = array[a]

LEMMA SameFile ==
  ASSUME UNCHANGED const, SameArray
  PROVE  /\ \A a \in DOMAIN array : /\ What(a)' = What(a) /\ Extent(a)' = Extent(a)
                                    /\ PieceOK(a)' <=> PieceOK(a)
         /\ \A o : Relocatable(o)' <=> Relocatable(o)
         /\ \A a : IsEof(a)' <=> IsEof(a)
         /\ \A a, x : IsInstrAt(a, x)' <=> IsInstrAt(a, x)
         /\ Apart' <=> Apart
<1>1. /\ instr' = instr /\ \A x : Bytes(x)' = Bytes(x)
      /\ \A a \in DOMAIN array : Extent(a)' = Extent(a)
  BY SameGraph, RoomSame, RoomFacts DEF SameArray
<1>2. \A a \in DOMAIN array : What(a)' = What(a) /\ (PieceOK(a)' <=> PieceOK(a))
  BY <1>1 DEF SameArray, What, PieceOK
<1>3. \A o : Relocatable(o)' <=> Relocatable(o)
  BY <1>1, <1>2 DEF SameArray, Relocatable, IsTail
<1>4. Apart' <=> Apart
  BY <1>1 DEF SameArray, Apart, Ends
<1> QED
  BY <1>1, <1>2, <1>3, <1>4 DEF SameArray, IsEof, IsInstrAt, EofMark, InstrMark

(* Steps that write one piece. *)
LEMMA OtherPieces ==
  ASSUME UNCHANGED const, NEW k, NEW v, array' = Put(array, k, v)
  PROVE  /\ DOMAIN array' = DOMAIN array \cup {k}
         /\ array'[k] = v /\ What(k)' = v.what /\ Extent(k)' = Room(v)
         /\ \A a \in DOMAIN array : a # k =>
              /\ array'[a] = array[a]
              /\ What(a)' = What(a) /\ Extent(a)' = Extent(a) /\ (PieceOK(a)' <=> PieceOK(a))
<1>1. /\ DOMAIN array' = DOMAIN array \cup {k} /\ array'[k] = v
      /\ \A a \in DOMAIN array : a # k => array'[a] = array[a]
  <2> DEFINE new == Put(array, k, v)
  <2>1. /\ DOMAIN new = DOMAIN array \cup {k} /\ new[k] = v
        /\ \A a \in DOMAIN array : a # k => new[a] = array[a]
    BY DEF Put
  <2>2. array' = new
    OBVIOUS
  <2> HIDE DEF new
  <2> QED
    BY <2>1, <2>2
<1>2. /\ \A a \in DOMAIN array : a # k => Extent(a)' = Extent(a)
      /\ Extent(k)' = Room(v)
  BY <1>1, RoomFacts, RoomSame
<1>3. instr' = instr
  BY SameGraph
<1> QED
  BY <1>1, <1>2, <1>3 DEF What, PieceOK

LEMMA FreshPiece ==
  ASSUME UNCHANGED const, NEW k, k \notin DOMAIN array, NEW v, array' = Put(array, k, v)
  PROVE  /\ \A o : Relocatable(o) => Relocatable(o)'
         /\ \A a : IsEof(a) => IsEof(a)'
         /\ \A a, x : IsInstrAt(a, x) => IsInstrAt(a, x)'
         /\ \A a, x : IsInstrAt(a, x)' => IsInstrAt(a, x) \/ (a = k /\ v = InstrMark(x))
<1>1. /\ DOMAIN array' = DOMAIN array \cup {k} /\ array'[k] = v
      /\ \A a \in DOMAIN array : array'[a] = array[a] /\ What(a)' = What(a)
  BY OtherPieces
<1>2. instr' = instr /\ \A x : Bytes(x)' = Bytes(x)
  BY SameGraph
<1>3. ASSUME NEW o, Relocatable(o) PROVE Relocatable(o)'
  BY <1>1, <1>2, <1>3 DEF Relocatable, IsTail
<1> QED
  BY <1>1, <1>3 DEF IsEof, EofMark, IsInstrAt, InstrMark

Writable(v) ==
  v.what \in {"eof", "address", "header", "entry"} \/ (v.what = "instr" /\ v.instr \in DOMAIN instr)

(* A piece written where nothing lies. *)
LEMMA PieceAdded ==
  ASSUME Domains, \A a \in DOMAIN array : PieceOK(a), Apart,
         UNCHANGED const, NEW k \in Nat, NEW v, Writable(v), array' = Put(array, k, v),
         \A a \in DOMAIN array : Ends(a, k) \/ k + Room(v) <= a
  PROVE  /\ k \notin DOMAIN array /\ DOMAIN array' = DOMAIN array \cup {k}
         /\ Apart' /\ \A a \in DOMAIN array' : PieceOK(a)'
         /\ \A a \in DOMAIN array : Extent(a)' = Extent(a)
         /\ Extent(k)' = Room(v) /\ Room(v) \in Nat /\ Room(v) > 0
<1>0. DOMAIN array \subseteq Nat
  BY DEF Domains, Places
<1>1. Room(v) \in Nat /\ Room(v) > 0
  BY GraphIsSound DEF Room, Writable, GraphFacts
<1>2. \A a \in DOMAIN array : Extent(a) \in Nat /\ Extent(a) > 0
  BY PiecesHaveRoom
<1>3. k \notin DOMAIN array
  BY <1>1, <1>2 DEF Ends
<1>4. /\ DOMAIN array' = DOMAIN array \cup {k} /\ What(k)' = v.what /\ Extent(k)' = Room(v)
      /\ array'[k] = v
      /\ \A a \in DOMAIN array : Extent(a)' = Extent(a) /\ (PieceOK(a)' <=> PieceOK(a))
  BY <1>3, OtherPieces
<1>5. PieceOK(k)'
  BY <1>4, SameGraph DEF PieceOK, Writable
<1>6. Apart'
  BY <1>0, <1>1, <1>2, <1>4 DEF Apart, Ends
<1> QED
  BY <1>1, <1>3, <1>4, <1>5, <1>6

(* An address written where the relocation queue says. *)
LEMMA AddressWritten ==
  ASSUME Domains, \A a \in DOMAIN array : PieceOK(a), PiecesDisjoint,
         UNCHANGED const, NEW o, Relocatable(o), NEW w, array' = Put(array, o, Address(w)),
         size' = size
  PROVE  /\ PiecesDisjoint' /\ \A a \in DOMAIN array' : PieceOK(a)'
         /\ \A a \in DOMAIN array : /\ What(a)' = What(a)
                                    /\ What(a) # "address" => a # o /\ array'[a] = array[a]
         /\ \A s : Relocatable(s) => Relocatable(s)'
         /\ \A a, x : IsInstrAt(a, x)' <=> IsInstrAt(a, x)
<1>0. DOMAIN array \subseteq Nat /\ size \in Nat
  BY DEF Domains, Places
<1>1. \A a \in DOMAIN array : Extent(a) \in Nat /\ Extent(a) > 0
  BY PiecesHaveRoom
<1>2. /\ DOMAIN array' = DOMAIN array \cup {o} /\ array'[o] = Address(w)
      /\ What(o)' = "address" /\ Extent(o)' = 2
      /\ \A a \in DOMAIN array : a # o =>
           /\ array'[a] = array[a]
           /\ What(a)' = What(a) /\ Extent(a)' = Extent(a) /\ (PieceOK(a)' <=> PieceOK(a))
  <2>1. PICK v : v = Address(w)
    OBVIOUS
  <2>2. array' = Put(array, o, v) /\ v.what = "address" /\ Room(v) = 2
    BY <2>1, RoomFacts, MarkFacts
  <2>3. /\ DOMAIN array' = DOMAIN array \cup {o} /\ array'[o] = v
        /\ What(o)' = v.what /\ Extent(o)' = Room(v)
        /\ \A a \in DOMAIN array : a # o =>
             /\ array'[a] = array[a]
             /\ What(a)' = What(a) /\ Extent(a)' = Extent(a) /\ (PieceOK(a)' <=> PieceOK(a))
    BY <2>2, OtherPieces
  <2> QED
    BY <2>1, <2>2, <2>3
<1>3. /\ o \in Nat /\ (o \in DOMAIN array => What(o) = "address")
      /\ o + 2 <= size
  <2>1. CASE o \in DOMAIN array /\ What(o) = "address"
    BY <2>1, <1>0, ExtentFacts DEF PiecesDisjoint
  <2>2. CASE IsTail(o)
    <3>1. PICK a \in DOMAIN array : /\ What(a) = "instr" /\ instr[array[a].instr].jump # NULL
                                    /\ o = a + Bytes(array[a].instr) - 2
      BY <2>2 DEF IsTail
    <3>2. Bytes(array[a].instr) \in Nat /\ Bytes(array[a].instr) > 2
      BY <3>1, GraphIsSound DEF GraphFacts, PieceOK
    <3>3. Extent(a) = Bytes(array[a].instr)
      BY <3>1, ExtentFacts
    <3>4. o \in Nat /\ a < o /\ o + 2 = a + Extent(a)
      BY <3>1, <3>2, <3>3, <1>0
    <3>5. a + Extent(a) <= size
      BY DEF PiecesDisjoint
    <3>6. o \in DOMAIN array => What(o) = "address"
      BY <3>4, <1>1, <1>0 DEF PiecesDisjoint, What
    <3> QED
      BY <3>4, <3>5, <3>6
  <2> QED
    BY <2>1, <2>2 DEF Relocatable
<1>4. \A a \in DOMAIN array : What(a)' = What(a) /\ Extent(a)' = Extent(a)
  BY <1>2, <1>3, ExtentFacts
<1>5. \A a \in DOMAIN array' : PieceOK(a)'
  BY <1>2 DEF PieceOK
<1>6. instr' = instr /\ \A x : Bytes(x)' = Bytes(x)
  BY SameGraph
<1>7. ASSUME NEW s, Relocatable(s) PROVE Relocatable(s)'
  <2>1. \A a \in DOMAIN array : What(a) = "instr" => array'[a] = array[a] /\ What(a)' = "instr"
    BY <1>2, <1>3, <1>4
  <2> QED
    BY <1>2, <1>4, <1>6, <1>7, <2>1 DEF Relocatable, IsTail
<1>8. \A a, x : IsInstrAt(a, x)' <=> IsInstrAt(a, x)
  <2>1. \A x : Address(w) # InstrMark(x)
    BY MarkFacts
  <2>2. \A x : o \in DOMAIN array => array[o] # InstrMark(x)
    BY <1>3, MarkFacts DEF What
  <2>3. \A x : InstrMark(x)' = InstrMark(x)
    BY DEF InstrMark
  <2> QED
    BY <1>2, <2>1, <2>2, <2>3 DEF IsInstrAt
<1>9. PiecesDisjoint'
  <2> SUFFICES ASSUME NEW a \in DOMAIN array', NEW b \in DOMAIN array'
               PROVE  /\ a + Extent(a)' <= size'
                      /\ a < b =>
                           \/ a + Extent(a)' <= b
                           \/ /\ What(a)' = "instr" /\ instr'[array'[a].instr].jump # NULL
                              /\ What(b)' = "address" /\ b + 2 = a + Extent(a)'
    BY DEF PiecesDisjoint, What
  <2>1. a + Extent(a)' <= size'
    BY <1>2, <1>3, <1>4 DEF PiecesDisjoint
  <2>2. CASE a \in DOMAIN array /\ b \in DOMAIN array
    <3>1. a < b =>
            \/ a + Extent(a) <= b
            \/ /\ What(a) = "instr" /\ instr[array[a].instr].jump # NULL
               /\ What(b) = "address" /\ b + 2 = a + Extent(a)
      BY <2>2 DEF PiecesDisjoint, What
    <3>2. What(a) = "instr" => array'[a] = array[a]
      BY <2>2, <1>2, <1>3
    <3> QED
      BY <2>1, <2>2, <3>1, <3>2, <1>4, <1>6
  <2>3. CASE o \notin DOMAIN array /\ (a = o \/ b = o)
    <3>1. IsTail(o)
      BY <2>3 DEF Relocatable
    <3>2. PICK c \in DOMAIN array : /\ What(c) = "instr" /\ instr[array[c].instr].jump # NULL
                                    /\ o = c + Bytes(array[c].instr) - 2
      BY <3>1 DEF IsTail
    <3>3. Bytes(array[c].instr) \in Nat /\ Bytes(array[c].instr) > 2
      BY <3>2, GraphIsSound DEF GraphFacts, PieceOK
    <3>4. Extent(c) = Bytes(array[c].instr)
      BY <3>2, ExtentFacts
    <3>5. c < o /\ o + 2 = c + Extent(c)
      BY <3>2, <3>3, <3>4, <1>0, <1>3
    <3>6. CASE a = o /\ b # o
      <4>1. b \in DOMAIN array
        BY <3>6, <1>2
      <4>2. c < b => \/ c + Extent(c) <= b
                     \/ What(b) = "address" /\ b + 2 = c + Extent(c)
        BY <4>1 DEF PiecesDisjoint, What
      <4>3. o < b => o + 2 <= b
        BY <4>1, <4>2, <3>5, <3>6, <1>0, <1>3
      <4> QED
        BY <2>1, <3>6, <4>3, <1>2
    <3>7. CASE b = o /\ a # o
      <4>1. a \in DOMAIN array
        BY <3>7, <1>2
      <4>2. CASE a = c
        <5>1. What(a)' = "instr" /\ array'[a] = array[a]
          BY <4>1, <4>2, <3>7, <3>2, <1>2
        <5> QED
          BY <2>1, <4>1, <4>2, <5>1, <3>2, <3>5, <3>7, <1>2, <1>4, <1>6
      <4>3. CASE a < c
        <5>1. a + Extent(a) <= c
          BY <4>1, <4>3, <3>2 DEF PiecesDisjoint, What
        <5>2. a + Extent(a)' <= b
          BY <5>1, <4>1, <3>5, <3>7, <1>0, <1>1, <1>3, <1>4
        <5> QED
          BY <2>1, <5>2
      <4>4. CASE c < a
        <5>1. c + Extent(c) <= a \/ a + 2 = c + Extent(c)
          BY <4>1, <4>4 DEF PiecesDisjoint
        <5> QED
          BY <2>1, <5>1, <4>1, <3>5, <3>7, <1>0, <1>1, <1>3
      <4> QED
        BY <4>1, <4>2, <4>3, <4>4, <1>0
    <3>8. CASE a = o /\ b = o
      BY <2>1, <3>8, <1>3
    <3> QED
      BY <2>3, <3>6, <3>7, <3>8
  <2> QED
    BY <2>2, <2>3, <1>2
<1> QED
  BY <1>2, <1>3, <1>4, <1>5, <1>7, <1>8, <1>9

LEMMA LaidInit == Init => Laid
<1> SUFFICES ASSUME Init PROVE Laid
  OBVIOUS
<1>1. DOMAIN array = {} /\ pc = "start" /\ DOMAIN relocq = {}
  BY DEF Init
<1>2. iscript.headers = LoadedGraph(program, 0).headers
  BY DEF Init
<1>3. DOMAIN iscript.headers = DOMAIN program.headers
  BY DomainsInit, GraphIsSound DEF GraphFacts
<1>4. size <= MaxSize
  BY SaveAssumption DEF SaveAssumption, Init
<1> QED
  BY <1>1, <1>3, <1>4 DEF Init, Laid, PiecesDisjoint, Writing

LEMMA LaidGiveUp ==
  ASSUME Domains, Laid, NEW why \in Failed, GiveUp(why)
  PROVE  Laid'
<1>1. UNCHANGED const /\ array' = array /\ size' = size /\ pc' \in Failed
  BY DEF GiveUp, mfile
<1>2. SameArray
  BY <1>1 DEF SameArray
<1>3. /\ \A a \in DOMAIN array' : PieceOK(a)'
      /\ \A a \in DOMAIN array : Extent(a)' = Extent(a)
  BY <1>1, <1>2, SameFile DEF SameArray, Laid
<1>4. PiecesDisjoint'
  BY <1>1, <1>3, SameGraph DEF Laid, PiecesDisjoint
<1> QED
  BY <1>1, <1>3, <1>4 DEF Laid, Failed, Writing

(* Steps between two pieces. *)
LEMMA LaidSilent ==
  ASSUME Domains, Laid, pc \in Writing, pc' \in Writing,
         UNCHANGED <<const, array, pos, size, todo, idtoheaderq, relocq>>
  PROVE  Laid'
<1>1. SameArray
  BY DEF SameArray
<1>2. /\ \A a \in DOMAIN array : Extent(a)' = Extent(a) /\ (PieceOK(a)' <=> PieceOK(a))
      /\ \A o : Relocatable(o)' <=> Relocatable(o)
      /\ \A a : IsEof(a)' <=> IsEof(a)
      /\ Apart' <=> Apart
  BY <1>1, SameFile
<1>3. /\ instr' = instr /\ Top' = Top /\ iscript' = iscript
  BY SameGraph
<1>4. PiecesDisjoint'
  BY <1>2, <1>3 DEF Laid, PiecesDisjoint
<1>5. WritingLaid'
  <2>1. WritingLaid
    BY DEF Laid
  <2>2. \A a \in DOMAIN array' : (Top <= a /\ Ends(a, pos))'
    BY <1>2, <1>3, <2>1 DEF WritingLaid, Ends
  <2>3. IsEof(Top)'
    BY <1>2, <1>3, <2>1 DEF WritingLaid, IsEof
  <2> QED
    BY <1>3, <2>1, <2>2, <2>3 DEF WritingLaid
<1>6. \A k \in DOMAIN relocq' : Relocatable(relocq[k].offset)'
  BY <1>2 DEF Laid, Writing, Failed
<1> QED
  BY <1>2, <1>4, <1>5, <1>6 DEF Laid, Writing

(* A piece appended to the file. *)
LEMMA AtTheEnd ==
  ASSUME Domains, Laid, pc \in Writing, NEW k \in Nat, pos <= k
  PROVE  k \notin DOMAIN array /\ \A a \in DOMAIN array : Ends(a, k)
<1>1. \A a \in DOMAIN array : Extent(a) \in Nat /\ Extent(a) > 0 /\ a \in Nat
  BY PiecesHaveRoom DEF Laid, Domains, Places
<1>2. \A a \in DOMAIN array : a + Extent(a) <= pos
  BY DEF Laid, WritingLaid, Ends
<1> QED
  BY <1>1, <1>2 DEF Ends, Domains, Places

LEMMA LaidAtEnd ==
  ASSUME Domains, Laid, pc \in Writing, pc' \in Writing, UNCHANGED <<const, size>>,
         NEW k \in Nat, pos <= k, NEW v, Writable(v), array' = Put(array, k, v),
         pos' = k + Room(v), pos' <= size,
         Cardinality(todo') + Len(idtoheaderq') = Cardinality(DOMAIN iscript.headers),
         \A n \in DOMAIN relocq' : Relocatable(relocq[n].offset)'
  PROVE  Laid'
<1>1. \A a \in DOMAIN array : PieceOK(a)
  BY DEF Laid
<1>2. Apart /\ WritingLaid
  BY DEF Laid
<1>3. k \notin DOMAIN array /\ \A a \in DOMAIN array : Ends(a, k) \/ k + Room(v) <= a
  BY AtTheEnd
<1>4. /\ DOMAIN array' = DOMAIN array \cup {k}
      /\ Apart' /\ \A a \in DOMAIN array' : PieceOK(a)'
      /\ \A a \in DOMAIN array : Extent(a)' = Extent(a)
      /\ Extent(k)' = Room(v) /\ Room(v) \in Nat /\ Room(v) > 0
  BY <1>1, <1>2, <1>3, PieceAdded
<1>5. Top' = Top /\ Top \in Nat /\ pos \in Nat /\ size \in Nat /\ DOMAIN array \subseteq Nat
  BY TopFacts, SameGraph DEF Domains, Places
<1>6. \A a \in DOMAIN array : Extent(a) \in Nat
  BY <1>1, PiecesHaveRoom
<1>7. \A a \in DOMAIN array' : Top <= a /\ a + Extent(a)' <= pos'
  BY <1>2, <1>4, <1>5, <1>6 DEF WritingLaid, Ends
<1>8. PiecesDisjoint'
  BY <1>4, <1>5, <1>6, <1>7 DEF Apart, Ends, PiecesDisjoint
<1>9. WritingLaid'
  <2>1. \A a \in DOMAIN array' : (Top <= a /\ Ends(a, pos))'
    BY <1>5, <1>7 DEF Ends
  <2>2. IsEof(Top)'
    <3>1. IsEof(Top)
      BY <1>2 DEF WritingLaid
    <3>2. IsEof(Top)' <=> (Top \in DOMAIN array' /\ array'[Top] = EofMark)
      BY <1>5 DEF IsEof, EofMark
    <3>3. array'[Top] = array[Top]
      BY <1>3, <3>1, OtherPieces DEF IsEof
    <3> QED
      BY <1>4, <3>1, <3>2, <3>3 DEF IsEof
  <2>3. Top + 4 <= pos' /\ iscript' = iscript
    BY <1>2, <1>4, <1>5, SameGraph DEF WritingLaid
  <2> QED
    BY <1>5, <2>1, <2>2, <2>3 DEF WritingLaid
<1>10. size' <= MaxSize
  BY DEF Laid
<1> QED
  BY <1>4, <1>8, <1>9, <1>10 DEF Laid, Writing

LEMMA LaidStart ==
  ASSUME Domains, Laid, Start, ~Fail
  PROVE  Laid'
<1>1. /\ array = <<>> /\ relocq = <<>> /\ idtoheaderq = <<>> /\ todo = DOMAIN iscript.headers
      /\ UNCHANGED <<const, size, todo, idtoheaderq, relocq>>
      /\ array' = Put(array, Top, EofMark) /\ pos' = Top + 4 /\ Top + 4 <= size
      /\ pc' = "headers"
  BY DEF Start, Fits, Laid, coder, queues
<1>2. DOMAIN array = {} /\ DOMAIN relocq = {} /\ Len(idtoheaderq) = 0
  BY <1>1
<1>3. Top \in Nat /\ Top' = Top /\ Cardinality(DOMAIN iscript.headers) \in Nat
      /\ iscript' = iscript
  BY <1>1, TopFacts, SameGraph
<1>4. Writable(EofMark) /\ Room(EofMark) = 4
  BY MarkFacts, RoomFacts DEF Writable
<1>5. /\ DOMAIN array' = {Top} /\ array'[Top] = EofMark
      /\ Apart' /\ (\A a \in DOMAIN array' : PieceOK(a)') /\ Extent(Top)' = 4
  <2>1. PICK v : v = EofMark
    OBVIOUS
  <2>2. Writable(v) /\ Room(v) = 4 /\ array' = Put(array, Top, v)
    BY <1>1, <1>4, <2>1
  <2>3. Apart
    BY <1>2 DEF Apart
  <2>4. /\ DOMAIN array' = DOMAIN array \cup {Top} /\ Apart'
        /\ \A a \in DOMAIN array' : PieceOK(a)'
        /\ Extent(Top)' = Room(v)
    BY <1>1, <1>2, <1>3, <2>2, <2>3, PieceAdded
  <2>5. array'[Top] = v
    BY <1>1, <2>2 DEF Put
  <2> QED
    BY <1>2, <2>1, <2>2, <2>4, <2>5
<1>6. PiecesDisjoint'
  BY <1>1, <1>3, <1>5 DEF PiecesDisjoint
<1>7. WritingLaid'
  <2>1. IsEof(Top)' <=> (Top \in DOMAIN array' /\ array'[Top] = EofMark)
    BY <1>3 DEF IsEof, EofMark
  <2>2. \A a \in DOMAIN array' : (Top <= a /\ Ends(a, pos))'
    BY <1>1, <1>3, <1>5 DEF Ends
  <2>3. Cardinality(todo') + Len(idtoheaderq') = Cardinality(DOMAIN iscript.headers')
    BY <1>1, <1>2, <1>3
  <2> QED
    BY <1>1, <1>3, <1>5, <2>1, <2>2, <2>3 DEF WritingLaid, Domains, Places, IsEof
<1> QED
  BY <1>1, <1>2, <1>5, <1>6, <1>7 DEF Laid, Writing

LEMMA LaidHeader ==
  ASSUME Domains, Laid, NEW h \in todo, WriteHeader(h), ~Fail
  PROVE  Laid'
<1> DEFINE H == DOMAIN program.headers
<1>1. /\ pc \in Writing /\ pc' \in Writing /\ UNCHANGED <<const, size, relocq>>
      /\ array' = Put(array, Aligned, HeaderMark(h)) /\ pos' = Aligned + 8
      /\ pos' <= size /\ todo' = todo \ {h}
      /\ idtoheaderq' = Append(idtoheaderq, [id |-> h, offset |-> Aligned])
  BY DEF WriteHeader, Writing, Fits
<1>2. Aligned \in Nat /\ pos <= Aligned /\ h \in H
  BY AlignedFacts DEF Aligned, Domains, Places, Control
<1>3. PICK v : v = HeaderMark(h)
  OBVIOUS
<1>4. Writable(v) /\ Room(v) = 8
  BY <1>3, MarkFacts, RoomFacts DEF Writable
<1>5. Cardinality(todo') + Len(idtoheaderq') = Cardinality(DOMAIN iscript.headers)
  <2>1. IsFiniteSet(todo)
    BY GraphIsSound, FS_Subset DEF Domains, Control, GraphFacts
  <2>2. Cardinality(todo') = Cardinality(todo) - 1 /\ Cardinality(todo) \in Nat
    BY <1>1, <2>1, FS_RemoveElement, FS_CardinalityType
  <2>3. [id |-> h, offset |-> Aligned] \in [id : H, offset : Nat]
    BY <1>2
  <2>4. Len(idtoheaderq') = Len(idtoheaderq) + 1 /\ Len(idtoheaderq) \in Nat
    BY <1>1, <2>3, AppendFacts DEF Domains, QueueTypes
  <2> QED
    BY <1>1, <2>2, <2>4 DEF Laid, WritingLaid
<1>6. \A n \in DOMAIN relocq' : Relocatable(relocq[n].offset)'
  <2>1. Aligned \notin DOMAIN array
    BY <1>1, <1>2, AtTheEnd
  <2>2. \A o : Relocatable(o) => Relocatable(o)'
    BY <1>1, <1>3, <2>1, FreshPiece
  <2> QED
    BY <1>1, <2>2 DEF Laid, Writing, Failed
<1> QED
  BY <1>1, <1>2, <1>3, <1>4, <1>5, <1>6, LaidAtEnd

LEMMA LaidSlot ==
  ASSUME Domains, Laid, WriteSlot, ~Fail
  PROVE  Laid'
<1> DEFINE l == Entries0(hdr)[animno]
<1>1. /\ pc \in Writing /\ pc' \in Writing /\ UNCHANGED <<const, size, todo, idtoheaderq>>
      /\ array' = Put(array, pos, Address(0)) /\ pos' = pos + 2 /\ pos' <= size
      /\ relocq' = IF l = NULL THEN relocq
                   ELSE Append(relocq, [id |-> label[l].id, offset |-> pos])
  BY DEF WriteSlot, Writing, Fits
<1>2. PICK v : v = Address(0)
  OBVIOUS
<1>3. Writable(v) /\ Room(v) = 2 /\ v.what = "address"
  BY <1>2, MarkFacts, RoomFacts DEF Writable
<1>4. pos \in Nat /\ relocq \in Seq([id : Nat, offset : Nat])
  BY DEF Domains, Places, QueueTypes
<1>5. l # NULL => label[l].id \in Nat
  <2>1. hdr \in DOMAIN program.headers
    BY DEF Domains, Control, WriteSlot, InHeader
  <2>2. l \in DOMAIN label \cup {NULL}
    BY <2>1, GraphIsSound DEF GraphFacts, WriteSlot
  <2> QED
    BY <2>2, GraphIsSound DEF GraphFacts
<1> HIDE DEF l
<1>k. PICK k \in Nat : k = pos
  BY <1>4
<1>6. \A n \in DOMAIN relocq' : Relocatable(relocq[n].offset)'
  <2>1. k \notin DOMAIN array
    BY <1>1, <1>k, <1>4, AtTheEnd
  <2>2. /\ \A o : Relocatable(o) => Relocatable(o)'
        /\ k \in DOMAIN array' /\ What(k)' = "address"
    BY <1>1, <1>k, <1>2, <1>3, <2>1, FreshPiece, OtherPieces, ZenonT(60)
  <2>3. \A o \in {relocq[n].offset : n \in DOMAIN relocq} : Relocatable(o)'
    BY <1>1, <2>2 DEF Laid, Writing, Failed
  <2>4. CASE l = NULL
    <3>1. relocq' = relocq
      BY <1>1, <2>4
    <3> QED
      BY <2>3, <3>1
  <2>5. CASE l # NULL
    <3>1. PICK r \in [id : Nat, offset : Nat] : r = [id |-> label[l].id, offset |-> pos]
      BY <1>4, <1>5, <2>5
    <3>2. relocq' = Append(relocq, r) /\ r.offset = pos
      BY <1>1, <2>5, <3>1
    <3>3. /\ DOMAIN relocq' = DOMAIN relocq \cup {Len(relocq) + 1}
          /\ \A n \in DOMAIN relocq : relocq'[n] = relocq[n]
          /\ relocq'[Len(relocq) + 1] = r
      BY <1>4, <3>1, <3>2, AppendFacts, SMTT(30)
    <3>4. Relocatable(k)'
      BY <2>2 DEF Relocatable
    <3>5. ASSUME NEW n \in DOMAIN relocq', NEW o, o = relocq'[n].offset
          PROVE  Relocatable(o)'
      BY <1>k, <2>3, <3>2, <3>3, <3>4, <3>5
    <3> QED
      BY <3>5
  <2> QED
    BY <2>4, <2>5
<1>7. /\ pos <= k /\ array' = Put(array, k, v) /\ pos' = k + Room(v)
      /\ Cardinality(todo') + Len(idtoheaderq') = Cardinality(DOMAIN iscript.headers)
  BY <1>1, <1>k, <1>2, <1>3, <1>4 DEF Laid, WritingLaid
<1> QED
  BY <1>1, <1>3, <1>6, <1>7, LaidAtEnd

LEMMA LaidInstr ==
  ASSUME Domains, Laid, WriteInstr, ~Fail
  PROVE  Laid'
<1> DEFINE j == instr[bc].jump
           end == pos + Bytes(bc)
<1>1. /\ pc \in Writing /\ pc' \in Writing /\ UNCHANGED <<const, size, todo, idtoheaderq>>
      /\ array' = Put(array, pos, InstrMark(bc)) /\ pos' = end /\ pos' <= size
      /\ relocq' = IF j = NULL THEN relocq
                   ELSE Append(relocq, [id |-> label[j].id, offset |-> RelocAt(end)])
  BY DEF WriteInstr, Writing, Fits
<1>2. bc \in DOMAIN instr
  BY DEF WriteInstr, Domains, Control
<1>3. PICK v : v = InstrMark(bc)
  OBVIOUS
<1>4. Writable(v) /\ Room(v) = Bytes(bc) /\ v.what = "instr" /\ v.instr = bc
  BY <1>2, <1>3, MarkFacts, RoomFacts DEF Writable
<1>5. pos \in Nat /\ relocq \in Seq([id : Nat, offset : Nat])
  BY DEF Domains, Places, QueueTypes
<1>6. /\ Bytes(bc) \in Nat
      /\ j # NULL => label[j].id \in Nat /\ Bytes(bc) > 2
  BY <1>2, GraphIsSound DEF GraphFacts
<1>7. j # NULL => RelocAt(end) \in Nat /\ RelocAt(end) = pos + Bytes(bc) - 2
  BY <1>5, <1>6 DEF RelocAt
<1>k. PICK k \in Nat : k = pos
  BY <1>5
<1>8. \A n \in DOMAIN relocq' : Relocatable(relocq[n].offset)'
  <2>1. k \notin DOMAIN array
    BY <1>1, <1>k, <1>5, AtTheEnd
  <2>2. /\ \A o : Relocatable(o) => Relocatable(o)'
        /\ k \in DOMAIN array' /\ What(k)' = "instr" /\ array'[k] = v
    BY <1>1, <1>k, <1>3, <1>4, <2>1, FreshPiece, OtherPieces, ZenonT(60)
  <2>3. \A o \in {relocq[n].offset : n \in DOMAIN relocq} : Relocatable(o)'
    BY <1>1, <2>2 DEF Laid, Writing, Failed
  <2>4. CASE j = NULL
    <3>1. relocq' = relocq
      BY <1>1, <2>4
    <3> QED
      BY <2>3, <3>1
  <2>5. CASE j # NULL
    <3>1. PICK r \in [id : Nat, offset : Nat] : r = [id |-> label[j].id, offset |-> RelocAt(end)]
      BY <1>6, <1>7, <2>5
    <3>2. relocq' = Append(relocq, r) /\ r.offset = pos + Bytes(bc) - 2
      BY <1>1, <1>7, <2>5, <3>1
    <3>3. /\ DOMAIN relocq' = DOMAIN relocq \cup {Len(relocq) + 1}
          /\ \A n \in DOMAIN relocq : relocq'[n] = relocq[n]
          /\ relocq'[Len(relocq) + 1] = r
      BY <1>5, <3>1, <3>2, AppendFacts, SMTT(30)
    <3>4. Relocatable(r.offset)'
      <4>1. instr' = instr /\ \A x : Bytes(x)' = Bytes(x)
        BY <1>1, SameGraph
      <4>2. PICK x : x = bc
        OBVIOUS
      <4>3. v.instr = x /\ instr[x].jump # NULL /\ r.offset = k + Bytes(x) - 2
        BY <1>k, <1>4, <2>5, <3>2, <4>2
      <4>4. \E a \in DOMAIN array' :
              /\ What(a)' = "instr" /\ instr'[array'[a].instr].jump # NULL
              /\ r.offset = a + Bytes(x) - 2 /\ array'[a].instr = x
        BY <2>2, <4>1, <4>3
      <4> QED
        BY <4>1, <4>4 DEF Relocatable, IsTail
    <3>5. ASSUME NEW n \in DOMAIN relocq', NEW o, o = relocq'[n].offset
          PROVE  Relocatable(o)'
      BY <2>3, <3>3, <3>4, <3>5
    <3> QED
      BY <3>5
  <2> QED
    BY <2>4, <2>5
<1>9. /\ pos <= k /\ array' = Put(array, k, v) /\ pos' = k + Room(v)
      /\ Cardinality(todo') + Len(idtoheaderq') = Cardinality(DOMAIN iscript.headers)
  BY <1>1, <1>k, <1>3, <1>4, <1>5 DEF Laid, WritingLaid
<1> QED
  BY <1>1, <1>4, <1>8, <1>9, LaidAtEnd

LEMMA LaidSeekTable ==
  ASSUME Domains, Laid, SeekTable
  PROVE  Laid'
<1>1. /\ pc = "headers" /\ pc' = "table" /\ todo = {}
      /\ UNCHANGED <<const, array, size, todo, idtoheaderq, relocq>>
      /\ IF version = "STARCRAFT" THEN end_of_file' = pos /\ pos' = 0 ELSE pos' = pos
  BY DEF SeekTable
<1>2. SameArray
  BY <1>1 DEF SameArray
<1>3. /\ \A a \in DOMAIN array : Extent(a)' = Extent(a) /\ (PieceOK(a)' <=> PieceOK(a))
      /\ \A o : Relocatable(o)' <=> Relocatable(o)
      /\ \A a : IsEof(a)' <=> IsEof(a)
      /\ Apart' <=> Apart
  BY <1>1, <1>2, SameFile
<1>4. /\ instr' = instr /\ Top' = Top /\ iscript' = iscript /\ version' = version
      /\ Top \in Nat
  BY <1>1, SameGraph, TopFacts
<1>5. PiecesDisjoint'
  BY <1>1, <1>3, <1>4 DEF Laid, PiecesDisjoint
<1>6. WritingLaid /\ Apart
  BY <1>1 DEF Laid, Writing
<1>7. TableLaid'
  <2>1. CASE version = "STARCRAFT"
    <3>1. Top = 4 * Cardinality(DOMAIN iscript.headers)
      BY <2>1 DEF Top
    <3>2. Cardinality(todo) = 0
      BY <1>1, FS_EmptySet
    <3>3. Len(idtoheaderq') = Len(idtoheaderq) /\ Len(idtoheaderq) \in Nat
      BY <1>1, SeqIsFunction DEF Domains, QueueTypes
    <3>4. pos' + 4 * Len(idtoheaderq') = Top
      BY <1>1, <1>6, <2>1, <3>1, <3>2, <3>3, TopFacts DEF WritingLaid
    <3>5. Top + 4 <= end_of_file' /\ end_of_file' <= size' /\ pos' <= size'
      BY <1>1, <1>4, <1>6, <2>1 DEF WritingLaid, Domains, Places
    <3>6. IsEof(Top)'
      BY <1>3, <1>4, <1>6 DEF WritingLaid, IsEof
    <3>7. \A a \in DOMAIN array' : (Top <= a /\ Ends(a, end_of_file))'
      BY <1>1, <1>3, <1>4, <1>6, <2>1 DEF WritingLaid, Ends
    <3> QED
      BY <1>4, <2>1, <3>4, <3>5, <3>6, <3>7 DEF TableLaid
  <2>2. CASE version # "STARCRAFT"
    <3>1. \A a \in DOMAIN array' : (Top <= a /\ Ends(a, pos))'
      BY <1>1, <1>3, <1>4, <1>6, <2>2 DEF WritingLaid, Ends
    <3>2. Top <= pos' /\ pos' <= size'
      BY <1>1, <1>4, <1>6, <2>2 DEF WritingLaid, Domains, Places
    <3> QED
      BY <1>4, <2>2, <3>1, <3>2 DEF TableLaid
  <2> QED
    BY <2>1, <2>2
<1>8. \A k \in DOMAIN relocq' : Relocatable(relocq[k].offset)'
  BY <1>1, <1>3 DEF Laid, Failed
<1> QED
  BY <1>1, <1>3, <1>5, <1>6, <1>7, <1>8 DEF Laid, Writing

LEMMA LaidEntry ==
  ASSUME Domains, Laid, WriteEntry, ~Fail
  PROVE  Laid'
<1>1. PICK v : v = [what |-> "entry", id |-> Head(idtoheaderq).id,
                    offset |-> Head(idtoheaderq).offset]
  OBVIOUS
<1>2. /\ pc = "table" /\ pc' = "table" /\ UNCHANGED <<const, size, relocq, end_of_file>>
      /\ idtoheaderq # <<>> /\ idtoheaderq' = Tail(idtoheaderq)
      /\ array' = Put(array, pos, v) /\ pos' = pos + 4 /\ pos' <= size
  BY <1>1 DEF WriteEntry, Fits
<1>3. Writable(v) /\ Room(v) = 4
  BY <1>1 DEF Writable, Room
<1>4. Apart /\ TableLaid /\ \A a \in DOMAIN array : PieceOK(a)
  BY <1>2 DEF Laid
<1>5. PICK k \in Nat : k = pos
  BY DEF Domains, Places
<1>6. Top \in Nat /\ Top' = Top /\ size \in Nat /\ DOMAIN array \subseteq Nat
      /\ end_of_file \in Nat /\ version' = version
  BY <1>2, TopFacts, SameGraph DEF Domains, Places
<1>7. Len(idtoheaderq) \in Nat \ {0} /\ Len(idtoheaderq') = Len(idtoheaderq) - 1
  BY <1>2, TailFacts DEF Domains, QueueTypes
<1>8. version = "STARCRAFT" => k + 4 <= Top
  BY <1>4, <1>5, <1>6, <1>7 DEF TableLaid
<1>9. \A a \in DOMAIN array : Extent(a) \in Nat /\ Extent(a) > 0
  BY <1>4, PiecesHaveRoom
<1>10. \A a \in DOMAIN array : Ends(a, k) \/ k + Room(v) <= a
  BY <1>3, <1>4, <1>5, <1>6, <1>8 DEF TableLaid, Ends
<1>11. /\ k \notin DOMAIN array /\ DOMAIN array' = DOMAIN array \cup {k}
       /\ Apart' /\ \A a \in DOMAIN array' : PieceOK(a)'
       /\ \A a \in DOMAIN array : Extent(a)' = Extent(a)
       /\ Extent(k)' = 4
  BY <1>2, <1>3, <1>4, <1>5, <1>10, PieceAdded
<1>12. /\ \A o : Relocatable(o) => Relocatable(o)'
       /\ \A a : IsEof(a) => IsEof(a)'
  BY <1>2, <1>5, <1>11, FreshPiece
<1>13. TableLaid'
  <2>1. CASE version = "STARCRAFT"
    <3>1. pos' + 4 * Len(idtoheaderq') = Top
      BY <1>2, <1>4, <1>5, <1>6, <1>7, <2>1 DEF TableLaid
    <3>2. IsEof(Top)'
      BY <1>4, <1>6, <1>12, <2>1 DEF TableLaid, IsEof
    <3>3. \A a \in DOMAIN array' : \/ a + Extent(a)' <= pos'
                                   \/ Top <= a /\ a + Extent(a)' <= end_of_file'
      BY <1>2, <1>4, <1>5, <1>6, <1>9, <1>11, <2>1 DEF TableLaid, Ends
    <3>4. \A a \in DOMAIN array' : (Ends(a, pos) \/ (Top <= a /\ Ends(a, end_of_file)))'
      BY <1>6, <3>3 DEF Ends
    <3> QED
      BY <1>2, <1>4, <1>6, <2>1, <3>1, <3>2, <3>4 DEF TableLaid
  <2>2. CASE version # "STARCRAFT"
    <3>0. Top <= k
      BY <1>4, <1>5, <2>2 DEF TableLaid
    <3>1. \A a \in DOMAIN array' : Top <= a /\ a + Extent(a)' <= pos'
      BY <1>2, <1>4, <1>5, <1>6, <1>9, <1>11, <2>2, <3>0 DEF TableLaid, Ends
    <3>2. \A a \in DOMAIN array' : (Top <= a /\ Ends(a, pos))'
      BY <1>6, <3>1 DEF Ends
    <3> QED
      BY <1>2, <1>5, <1>6, <2>2, <3>0, <3>2 DEF TableLaid
  <2> QED
    BY <2>1, <2>2
<1>14. PiecesDisjoint'
  <2>1. \A a \in DOMAIN array' : a + Extent(a)' <= size'
    BY <1>2, <1>5, <1>6, <1>11 DEF Laid, PiecesDisjoint
  <2> QED
    BY <1>11, <2>1 DEF Apart, Ends, PiecesDisjoint
<1>15. \A n \in DOMAIN relocq' : Relocatable(relocq[n].offset)'
  BY <1>2, <1>12 DEF Laid, Failed
<1> QED
  BY <1>2, <1>11, <1>13, <1>14, <1>15 DEF Laid, Writing

LEMMA LaidEndTable ==
  ASSUME Domains, Laid, EndTable, ~Fail
  PROVE  Laid'
<1>1. PICK v : v = EofMark
  OBVIOUS
<1>2. /\ pc = "table" /\ pc' = "relocate" /\ UNCHANGED <<const, relocq, idtoheaderq>>
      /\ idtoheaderq = <<>> /\ array' = Put(array, pos, v) /\ pos + 4 <= size
      /\ size' = IF version = "STARCRAFT" THEN end_of_file ELSE pos + 4
  BY <1>1 DEF EndTable, Fits, queues
<1>3. Writable(v) /\ Room(v) = 4
  BY <1>1, MarkFacts, RoomFacts DEF Writable
<1>4. Apart /\ TableLaid /\ (\A a \in DOMAIN array : PieceOK(a)) /\ size <= MaxSize
  BY <1>2 DEF Laid
<1>5. PICK k \in Nat : k = pos
  BY DEF Domains, Places
<1>6. Top \in Nat /\ Top' = Top /\ size \in Nat /\ DOMAIN array \subseteq Nat
      /\ end_of_file \in Nat /\ version' = version /\ instr' = instr /\ MaxSize \in Nat
  BY <1>2, TopFacts, SameGraph, SaveAssumption DEF Domains, Places, SaveAssumption
<1>7. \A a \in DOMAIN array : Extent(a) \in Nat /\ Extent(a) > 0
  BY <1>4, PiecesHaveRoom
<1>8. CASE version = "STARCRAFT"
  <2>1. k = Top /\ IsEof(k) /\ Top + 4 <= end_of_file /\ end_of_file <= size
    BY <1>2, <1>4, <1>5, <1>6, <1>8 DEF TableLaid
  <2>2. SameArray
    BY <1>1, <1>2, <1>5, <2>1 DEF SameArray, IsEof, Put
  <2>3. /\ \A a \in DOMAIN array : Extent(a)' = Extent(a) /\ (PieceOK(a)' <=> PieceOK(a))
        /\ \A o : Relocatable(o)' <=> Relocatable(o)
        /\ Apart'
    BY <1>2, <1>4, <2>2, SameFile
  <2>4. \A a \in DOMAIN array' : a + Extent(a)' <= size'
    BY <1>2, <1>4, <1>5, <1>6, <1>7, <1>8, <2>1, <2>2, <2>3 DEF TableLaid, Ends, SameArray
  <2>5. PiecesDisjoint'
    BY <2>3, <2>4 DEF PiecesDisjoint, Apart, Ends
  <2>6. \A a \in DOMAIN array' : PieceOK(a)'
    BY <1>4, <2>2, <2>3 DEF SameArray
  <2>7. \A n \in DOMAIN relocq' : Relocatable(relocq[n].offset)'
    BY <1>2, <2>3 DEF Laid, Failed
  <2>8. size' <= MaxSize
    BY <1>2, <1>4, <1>6, <1>8, <2>1
  <2> QED
    BY <1>2, <1>6, <1>8, <2>5, <2>6, <2>7, <2>8 DEF Laid, Writing
<1>9. CASE version # "STARCRAFT"
  <2>1. Top <= k /\ \A a \in DOMAIN array : Top <= a /\ Ends(a, k)
    BY <1>4, <1>5, <1>9 DEF TableLaid
  <2>2. /\ k \notin DOMAIN array /\ DOMAIN array' = DOMAIN array \cup {k}
        /\ Apart' /\ (\A a \in DOMAIN array' : PieceOK(a)')
        /\ \A a \in DOMAIN array : Extent(a)' = Extent(a)
        /\ Extent(k)' = 4
    BY <1>2, <1>3, <1>4, <1>5, <2>1, PieceAdded
  <2>3. \A o : Relocatable(o) => Relocatable(o)'
    BY <1>2, <1>5, <2>2, FreshPiece
  <2>4. \A a \in DOMAIN array' : Top <= a /\ a + Extent(a)' <= size'
    BY <1>2, <1>5, <1>6, <1>7, <1>9, <2>1, <2>2 DEF Ends
  <2>5. PiecesDisjoint'
    BY <2>2, <2>4 DEF PiecesDisjoint, Apart, Ends
  <2>6. \A n \in DOMAIN relocq' : Relocatable(relocq[n].offset)'
    BY <1>2, <2>3 DEF Laid, Failed
  <2>7. size' <= MaxSize /\ Top <= size'
    BY <1>2, <1>4, <1>5, <1>6, <1>9, <2>1
  <2> QED
    BY <1>2, <1>6, <2>2, <2>4, <2>5, <2>6, <2>7 DEF Laid, Writing
<1> QED
  BY <1>8, <1>9

LEMMA LaidRelocate ==
  ASSUME Domains, Laid, Relocate, ~Fail
  PROVE  Laid'
<1> DEFINE r == Head(relocq)
<1>1. /\ pc = "relocate" /\ pc' = "relocate" /\ UNCHANGED <<const, size>>
      /\ relocq # <<>> /\ relocq' = Tail(relocq)
      /\ array' = Put(array, r.offset, Address(Lookup(r.id)))
  BY DEF Relocate, Popped
<1>2. /\ r = relocq[1] /\ 1 \in DOMAIN relocq
      /\ \A n \in DOMAIN relocq' : n + 1 \in DOMAIN relocq /\ relocq'[n] = relocq[n + 1]
  BY <1>1, TailFacts DEF Domains, QueueTypes
<1>3. PICK o : o = r.offset
  OBVIOUS
<1>4. PICK w : w = Lookup(r.id)
  OBVIOUS
<1>5. Relocatable(o) /\ array' = Put(array, o, Address(w))
  BY <1>1, <1>2, <1>3, <1>4 DEF Laid, Failed
<1>6. /\ PiecesDisjoint' /\ (\A a \in DOMAIN array' : PieceOK(a)')
      /\ \A s : Relocatable(s) => Relocatable(s)'
  BY <1>1, <1>5, AddressWritten DEF Laid
<1>7. \A s \in {relocq[n].offset : n \in DOMAIN relocq} : Relocatable(s)'
  BY <1>1, <1>6 DEF Laid, Failed
<1>8. \A n \in DOMAIN relocq' : Relocatable(relocq[n].offset)'
  <2> SUFFICES ASSUME NEW n \in DOMAIN relocq', NEW s, s = relocq'[n].offset
               PROVE  Relocatable(s)'
    OBVIOUS
  <2> QED
    BY <1>2, <1>7
<1>9. version = "BROODWAR" => Top <= o
  <2> SUFFICES ASSUME version = "BROODWAR" PROVE Top <= o
    OBVIOUS
  <2>1. \A a \in DOMAIN array : Top <= a /\ a \in Nat
    BY <1>1 DEF Laid, Domains, Places
  <2>2. CASE IsTail(o)
    <3>1. PICK a \in DOMAIN array : /\ What(a) = "instr" /\ instr[array[a].instr].jump # NULL
                                    /\ o = a + Bytes(array[a].instr) - 2
      BY <2>2 DEF IsTail
    <3>2. Bytes(array[a].instr) \in Nat /\ Bytes(array[a].instr) > 2
      BY <3>1, GraphIsSound DEF GraphFacts, PieceOK, Laid
    <3> QED
      BY <2>1, <3>1, <3>2, TopFacts
  <2> QED
    BY <1>5, <2>1, <2>2 DEF Relocatable
<1>10. DOMAIN array' = DOMAIN array \cup {o} /\ Top' = Top /\ version' = version
  BY <1>1, <1>5, SameGraph DEF Put
<1>11. version' = "BROODWAR" => Top' <= size' /\ \A a \in DOMAIN array' : Top' <= a
  BY <1>1, <1>9, <1>10 DEF Laid
<1> QED
  BY <1>1, <1>6, <1>8, <1>11 DEF Laid, Writing

LEMMA LaidStill ==
  ASSUME Domains, Laid,
         UNCHANGED <<const, array, pos, size, idtoheaderq, relocq, end_of_file>>,
         UNCHANGED <<pc, todo>> \/ (pc = "msave" /\ pc' = "saved")
  PROVE  Laid'
<1>1. SameArray
  BY DEF SameArray
<1>2. /\ \A a \in DOMAIN array : Extent(a)' = Extent(a) /\ (PieceOK(a)' <=> PieceOK(a))
      /\ \A o : Relocatable(o)' <=> Relocatable(o)
      /\ \A a : IsEof(a)' <=> IsEof(a)
      /\ Apart' <=> Apart
  BY <1>1, SameFile
<1>3. instr' = instr /\ Top' = Top /\ iscript' = iscript /\ version' = version
  BY SameGraph
<1>4. PiecesDisjoint'
  BY <1>2, <1>3 DEF Laid, PiecesDisjoint
<1>5. \A a, b : Ends(a, b) /\ a \in DOMAIN array => Ends(a, b)'
  BY <1>2 DEF Ends
<1>6. pc' \notin Failed => \A k \in DOMAIN relocq' : Relocatable(relocq[k].offset)'
  BY <1>2 DEF Laid, Failed
<1>7. pc' \in Writing => WritingLaid'
  <2> SUFFICES ASSUME pc' \in Writing PROVE WritingLaid'
    OBVIOUS
  <2>1. WritingLaid /\ UNCHANGED todo
    BY DEF Laid, Writing
  <2>2. IsEof(Top)'
    BY <1>2, <1>3, <2>1 DEF WritingLaid, IsEof
  <2>3. \A a \in DOMAIN array' : (Top <= a /\ Ends(a, pos))'
    BY <1>2, <1>3, <2>1 DEF WritingLaid, Ends
  <2> QED
    BY <1>3, <2>1, <2>2, <2>3 DEF WritingLaid
<1>8. pc' = "table" => TableLaid'
  <2> SUFFICES ASSUME pc' = "table" PROVE TableLaid'
    OBVIOUS
  <2>1. TableLaid
    BY DEF Laid
  <2>2. IsEof(Top) => IsEof(Top)'
    BY <1>2, <1>3 DEF IsEof
  <2>3. /\ \A a \in DOMAIN array' : Ends(a, pos)' <=> Ends(a, pos)
        /\ \A a \in DOMAIN array' : Ends(a, end_of_file)' <=> Ends(a, end_of_file)
    BY <1>2 DEF Ends
  <2> QED
    BY <1>3, <2>1, <2>2, <2>3 DEF TableLaid
<1> QED
  BY <1>2, <1>3, <1>4, <1>6, <1>7, <1>8 DEF Laid, Writing

LEMMA LaidPointToTable ==
  ASSUME Domains, Laid, PointToTable
  PROVE  Laid'
<1>1. /\ pc = "relocate" /\ relocq = <<>> /\ pc' = "msave" /\ UNCHANGED <<const, size, relocq>>
      /\ IF version = "BROODWAR" THEN array' = Put(array, 0, Address(header_table_offset))
         ELSE array' = array
  BY DEF PointToTable, queues
<1>2. DOMAIN relocq = {}
  BY <1>1
<1>3. (\A a \in DOMAIN array : PieceOK(a)) /\ PiecesDisjoint /\ size <= MaxSize
  BY DEF Laid
<1>4. DOMAIN array \subseteq Nat /\ size \in Nat /\ instr' = instr
  BY <1>1, SameGraph DEF Domains, Places
<1>5. PiecesDisjoint' /\ \A a \in DOMAIN array' : PieceOK(a)'
  <2>1. CASE version = "BROODWAR"
    <3>1. \A a \in DOMAIN array : 2 <= a
      BY <1>1, <1>4, <2>1, SaveAssumption DEF Laid, Top, SaveAssumption
    <3>2. PICK v : v = Address(header_table_offset)
      OBVIOUS
    <3>3. v.what = "address" /\ Room(v) = 2 /\ array' = Put(array, 0, v)
      BY <1>1, <2>1, <3>2, MarkFacts, RoomFacts
    <3>4. 0 \notin DOMAIN array
      BY <3>1
    <3>5. /\ DOMAIN array' = DOMAIN array \cup {0} /\ What(0)' = "address" /\ Extent(0)' = 2
          /\ \A a \in DOMAIN array :
               /\ array'[a] = array[a] /\ What(a)' = What(a)
               /\ Extent(a)' = Extent(a) /\ (PieceOK(a)' <=> PieceOK(a))
      <4>1. PICK k : k = 0
        OBVIOUS
      <4>2. /\ DOMAIN array' = DOMAIN array \cup {k}
            /\ What(k)' = v.what /\ Extent(k)' = Room(v)
            /\ \A a \in DOMAIN array : a # k =>
                 /\ array'[a] = array[a] /\ What(a)' = What(a)
                 /\ Extent(a)' = Extent(a) /\ (PieceOK(a)' <=> PieceOK(a))
        BY <1>1, <3>3, <4>1, OtherPieces
      <4> QED
        BY <3>3, <3>4, <4>1, <4>2
    <3>6. \A a \in DOMAIN array' : PieceOK(a)'
      BY <1>3, <3>5 DEF PieceOK
    <3>7. 2 <= size
      BY <1>1, <1>4, <2>1, SaveAssumption DEF Laid, Top, SaveAssumption
    <3>8. ASSUME NEW a \in DOMAIN array', NEW b \in DOMAIN array'
          PROVE  /\ a + Extent(a)' <= size'
                 /\ a < b =>
                      \/ a + Extent(a)' <= b
                      \/ /\ What(a)' = "instr" /\ instr'[array'[a].instr].jump # NULL
                         /\ What(b)' = "address" /\ b + 2 = a + Extent(a)'
      <4>1. a = 0 => 2 <= size /\ Extent(a)' = 2 /\ (a < b => 2 <= b)
        BY <1>4, <3>1, <3>5, <3>7
      <4>2. a \in DOMAIN array /\ b \in DOMAIN array =>
              /\ a + Extent(a) <= size
              /\ a < b =>
                   \/ a + Extent(a) <= b
                   \/ /\ What(a) = "instr" /\ instr[array[a].instr].jump # NULL
                      /\ What(b) = "address" /\ b + 2 = a + Extent(a)
        BY <1>3 DEF PiecesDisjoint, What
      <4>3. a \in DOMAIN array => a + Extent(a) <= size
        BY <1>3 DEF PiecesDisjoint
      <4>4. a \in DOMAIN array /\ b = 0 => ~(a < b)
        BY <1>4
      <4> QED
        BY <1>1, <1>4, <3>5, <4>1, <4>2, <4>3, <4>4
    <3> QED
      BY <3>6, <3>8 DEF PiecesDisjoint, What
  <2>2. CASE version # "BROODWAR"
    <3>1. SameArray /\ array' = array /\ size' = size
      BY <1>1, <2>2 DEF SameArray
    <3>2. \A a \in DOMAIN array : Extent(a)' = Extent(a) /\ (PieceOK(a)' <=> PieceOK(a))
      BY <1>1, <3>1, SameFile
    <3> QED
      BY <1>3, <1>4, <3>1, <3>2 DEF PiecesDisjoint
  <2> QED
    BY <2>1, <2>2
<1> QED
  BY <1>1, <1>2, <1>3, <1>5 DEF Laid, Writing

LEMMA LaidNext ==
  ASSUME Domains, Laid, [Next]_vars
  PROVE  Laid'
<1> USE DEF Writing
<1>1. CASE Fail
  BY <1>1, LaidGiveUp DEF Fail, Failed
<1>2. CASE GiveUp("not saved")
  BY <1>2, LaidGiveUp DEF Failed
<1>3. CASE SlotsWritten
  BY <1>3, LaidSilent DEF SlotsWritten, mfile, queues
<1>4. CASE NextAnim
  BY <1>4, LaidSilent DEF NextAnim, mfile, queues
<1>5. CASE HeaderWritten
  BY <1>5, LaidSilent DEF HeaderWritten, mfile, queues
<1>6. CASE NextLabel
  BY <1>6, LaidSilent DEF NextLabel, mfile, queues
<1>7. CASE Loop
  BY <1>7, LaidSilent DEF Loop, mfile, queues
<1>8. CASE MSave /\ ~GiveUp("not saved")
  <2>1. pc' = "saved" /\ UNCHANGED <<const, mfile, queues>> /\ pc = "msave"
    BY <1>8 DEF MSave
  <2> QED
    BY <2>1, LaidStill DEF mfile, queues
<1>9. CASE UNCHANGED vars
  <2>1. UNCHANGED <<const, array, pos, size, idtoheaderq, relocq, end_of_file, pc, todo>>
    BY <1>9 DEF vars, mfile, queues
  <2> QED
    BY <2>1, LaidStill
<1> QED
  BY <1>1, <1>2, <1>3, <1>4, <1>5, <1>6, <1>7, <1>8, <1>9, LaidStart, LaidHeader, LaidSlot,
     LaidInstr, LaidSeekTable, LaidEntry, LaidEndTable, LaidRelocate, LaidPointToTable
     DEF Next, Stopped

-----------------------------------------------------------------------------
(* The code. *)

SameCode == \A a, x : IsInstrAt(a, x)' <=> IsInstrAt(a, x)

LEMMA PlacedSame ==
  ASSUME SameCode
  PROVE  \A x : Placed(x)' <=> Placed(x)
BY DEF SameCode, Placed, IsInstrAt

(* Steps that write no instruction. *)
LEMMA CodeStill ==
  ASSUME Domains, CodeInv, pc \notin Failed, SameCode,
         UNCHANGED <<const, symtbl_done, offsets>>,
         \/ UNCHANGED <<bc, pos>>
         \/ bc = NULL /\ (bc' # NULL => instr[bc'].prev = NULL)
  PROVE  Once' /\ PlacedAreDone' /\ OffsetsKept' /\ PrevPlaced' /\ Follows' /\ Cursor'
<1>1. /\ instr' = instr /\ label' = label /\ program' = program
      /\ \A x : Bytes(x)' = Bytes(x)
      /\ \A x : Placed(x)' <=> Placed(x)
      /\ \A a, x : IsInstrAt(a, x)' <=> IsInstrAt(a, x)
  BY SameGraph, PlacedSame DEF SameCode
<1>2. /\ Once /\ PlacedAreDone /\ OffsetsKept /\ PrevPlaced /\ Follows /\ Cursor
  BY DEF CodeInv
<1>3. \A a, x : IsInstrAt(a, x) => a \in DOMAIN array /\ a \in DOMAIN array'
  BY <1>1 DEF IsInstrAt
<1>4. Once'
  BY <1>1, <1>2, <1>3 DEF Once
<1>5. PlacedAreDone'
  BY <1>1, <1>2 DEF PlacedAreDone
<1>6. OffsetsKept'
  <2> SUFFICES ASSUME Small', NEW l \in DOMAIN label, NEW a, IsInstrAt(a, label[l].bc)
               PROVE  Key(label[l].id) \in DOMAIN offsets /\ offsets[Key(label[l].id)] = a
    BY <1>1 DEF OffsetsKept, Key
  <2>1. Small
    BY <1>1 DEF Small
  <2> QED
    BY <1>2, <1>3, <2>1 DEF OffsetsKept
<1>7. PrevPlaced'
  BY <1>1, <1>2 DEF PrevPlaced
<1>8. Follows'
  <2> SUFFICES ASSUME NEW x \in DOMAIN instr, NEW a, IsInstrAt(a, x), instr[x].next # NULL,
                      NEW y, y = instr[x].next, NEW b, b = a + Bytes(x)
               PROVE  IsInstrAt(b, y)' \/ (bc' = y /\ pos' = b)
    BY <1>1 DEF Follows
  <2>1. IsInstrAt(b, y) \/ (bc = y /\ pos = b)
    BY <1>2, <1>3 DEF Follows
  <2> QED
    BY <1>1, <2>1
<1>9. Cursor'
  <2> SUFFICES ASSUME bc' # NULL, NEW x, x = bc', instr[x].prev # NULL, NEW y, y = instr[x].prev
               PROVE  Placed(y)' /\ ~Placed(x)'
    BY <1>1 DEF Cursor
  <2>1. bc = x
    OBVIOUS
  <2> QED
    BY <1>1, <1>2, <2>1 DEF Cursor
<1> QED
  BY <1>4, <1>5, <1>6, <1>7, <1>8, <1>9

LEMMA OwedStill ==
  ASSUME Domains, CodeInv, pc \notin Failed, SameCode, UNCHANGED <<const, bc, todoq>>
  PROVE  (\A l : Owed(l)' <=> Owed(l)) /\ JumpsOwed'
<1>1. instr' = instr /\ label' = label /\ \A x : Placed(x)' <=> Placed(x)
  BY SameGraph, PlacedSame
<1>2. \A l : Owed(l)' <=> Owed(l)
  BY <1>1 DEF Owed, Ahead
<1>3. JumpsOwed'
  BY <1>1, <1>2 DEF JumpsOwed, CodeInv
<1> QED
  BY <1>2, <1>3

LEMMA CodeInit == Init => CodeInv
<1> SUFFICES ASSUME Init PROVE CodeInv
  OBVIOUS
<1>1. DOMAIN array = {} /\ symtbl_done = {} /\ bc = NULL /\ pc = "start"
      /\ todo = DOMAIN program.headers
  BY DEF Init
<1>2. \A x, a : ~Placed(x) /\ ~IsInstrAt(a, x)
  BY <1>1 DEF Placed, IsInstrAt
<1> QED
  BY <1>1, <1>2 DEF CodeInv, Once, PlacedAreDone, OffsetsKept, PrevPlaced, Follows, Cursor,
                    JumpsOwed, EntriesOwed, Due

LEMMA AheadStep ==
  ASSUME Domains, NEW x \in DOMAIN instr, NEW z \in DOMAIN instr, x # z, Ahead(x, z)
  PROVE  instr[x].next # NULL /\ Ahead(instr[x].next, z)
<1>1. DOMAIN instr = {0} \X CodeOf(program) /\ CodeOf(program) \subseteq Nat
  BY TheGraph, SaveAssumption, ProgramFacts DEF Domains, Chosen, InstrsOf
<1>2. PICK a \in Nat : x = <<0, a>>
  BY <1>1
<1>3. PICK b \in Nat : z = <<0, b>>
  BY <1>1
<1>4. a + 1 \in Nat /\ a + 1 <= b /\ a + 1 \in a + 1 .. b
  BY <1>2, <1>3 DEF Ahead
<1>5. <<0, a + 1>> \in DOMAIN instr /\ instr[<<0, a + 1>>].prev = <<0, a>>
  BY <1>2, <1>3, <1>4 DEF Ahead
<1>6. instr[x].next = <<0, a + 1>>
  <2>1. PICK y \in DOMAIN instr : y = <<0, a + 1>>
    BY <1>5
  <2>2. instr[y].prev = x /\ x # NULL
    BY <1>2, <1>5, <2>1, GraphIsSound, ZenonT(60) DEF GraphFacts
  <2>3. instr[y].prev # NULL => instr[instr[y].prev].next = y
    BY GraphIsSound DEF GraphFacts
  <2> QED
    BY <2>1, <2>2, <2>3
<1>7. instr[x].next # NULL
  BY <1>5, <1>6, GraphIsSound, SMTT(30) DEF GraphFacts
<1>8. Ahead(<<0, a + 1>>, z)
  BY <1>2, <1>3, <1>4 DEF Ahead
<1> QED
  BY <1>6, <1>7, <1>8

(* A chain all of whose links are followed is written to its end.          *)
LEMMA ChainPlaced ==
  ASSUME Domains, NEW x \in DOMAIN instr, NEW z \in DOMAIN instr, Ahead(x, z), Placed(x),
         \A y \in DOMAIN instr :
           Placed(y) /\ instr[y].next # NULL => Placed(instr[y].next)
  PROVE  Placed(z)
<1>1. DOMAIN instr = {0} \X CodeOf(program) /\ CodeOf(program) \subseteq Nat
  BY TheGraph, SaveAssumption, ProgramFacts DEF Domains, Chosen, InstrsOf
<1>2. PICK a \in Nat : x = <<0, a>>
  BY <1>1
<1>3. PICK b \in Nat : z = <<0, b>>
  BY <1>1
<1>4. a <= b
  BY <1>2, <1>3 DEF Ahead
<1> DEFINE Bad == {c \in a .. b : ~Placed(<<0, c>>)}
<1> SUFFICES ASSUME Bad # {} PROVE FALSE
  BY <1>3, <1>4
<1>5. PICK c \in Bad : \A d \in Bad : c <= d
  <2>1. Bad \subseteq Nat
    OBVIOUS
  <2> HIDE DEF Bad
  <2> QED
    BY <2>1, LeastNumber
<1>6. c \in Nat /\ c # a /\ c \in a + 1 .. b
  BY <1>2, <1>5
<1>7. <<0, c>> \in DOMAIN instr /\ instr[<<0, c>>].prev = <<0, c - 1>>
  BY <1>2, <1>3, <1>6 DEF Ahead
<1>8. Placed(<<0, c - 1>>)
  BY <1>5, <1>6
<1>9. <<0, c - 1>> \in DOMAIN instr /\ instr[<<0, c - 1>>].next = <<0, c>>
  <2>1. PICK y \in DOMAIN instr : y = <<0, c>>
    BY <1>7
  <2>2. PICK w : w = <<0, c - 1>>
    OBVIOUS
  <2>3. c - 1 \in Nat /\ w # NULL
    BY <1>2, <1>6, <2>2, NullAssumption
  <2>4. instr[y].prev = w
    BY <1>7, <2>1, <2>2
  <2>5. instr[y].prev # NULL => w \in DOMAIN instr /\ instr[w].next = y
    BY <2>4, GraphIsSound DEF GraphFacts
  <2> QED
    BY <2>1, <2>2, <2>3, <2>4, <2>5
<1>10. <<0, c>> # NULL
  BY <1>6, NullAssumption
<1>11. Placed(<<0, c>>)
  BY <1>8, <1>9, <1>10
<1> QED
  BY <1>5, <1>11

(* Where the steps that link the file write. *)
LEMMA EntryIsFresh ==
  ASSUME Domains, Laid, WriteEntry, ~Fail
  PROVE  pos \notin DOMAIN array
<1>1. TableLaid /\ \A a \in DOMAIN array : PieceOK(a)
  BY DEF Laid, WriteEntry
<1>2. /\ Top \in Nat /\ pos \in Nat /\ DOMAIN array \subseteq Nat
      /\ Len(idtoheaderq) \in Nat \ {0}
  BY TopFacts, TailFacts DEF Domains, Places, QueueTypes, WriteEntry
<1>3. version = "STARCRAFT" => pos < Top
  BY <1>1, <1>2 DEF TableLaid
<1>4. \A a \in DOMAIN array : Extent(a) \in Nat /\ Extent(a) > 0
  BY <1>1, PiecesHaveRoom
<1> QED
  BY <1>1, <1>2, <1>3, <1>4 DEF TableLaid, Ends

LEMMA EndIsFresh ==
  ASSUME Domains, Laid, EndTable, ~Fail
  PROVE  IF version = "STARCRAFT" THEN IsEof(pos) ELSE pos \notin DOMAIN array
<1>1. TableLaid /\ (\A a \in DOMAIN array : PieceOK(a)) /\ Len(idtoheaderq) = 0
  BY DEF Laid, EndTable
<1>2. Top \in Nat /\ pos \in Nat /\ DOMAIN array \subseteq Nat
  BY TopFacts DEF Domains, Places
<1>3. \A a \in DOMAIN array : Extent(a) \in Nat /\ Extent(a) > 0
  BY <1>1, PiecesHaveRoom
<1>4. version = "STARCRAFT" => pos = Top /\ IsEof(Top)
  BY <1>1, <1>2 DEF TableLaid
<1> QED
  BY <1>1, <1>2, <1>3, <1>4 DEF TableLaid, Ends

LEMMA PointerIsFresh ==
  ASSUME Domains, Laid, PointToTable, version = "BROODWAR"
  PROVE  0 \notin DOMAIN array
BY SaveAssumption DEF Laid, Top, SaveAssumption, PointToTable, Domains, Places

LEMMA HeadIsRelocatable ==
  ASSUME Domains, Laid, Relocate, ~Fail
  PROVE  /\ 1 \in DOMAIN relocq /\ Head(relocq) = relocq[1] /\ relocq' = Tail(relocq)
         /\ Relocatable(Head(relocq).offset)
         /\ array' = Put(array, Head(relocq).offset, Address(Lookup(Head(relocq).id)))
<1>1. /\ relocq # <<>> /\ relocq' = Tail(relocq) /\ pc = "relocate"
      /\ array' = Put(array, Head(relocq).offset, Address(Lookup(Head(relocq).id)))
  BY DEF Relocate, Popped
<1>2. 1 \in DOMAIN relocq /\ Head(relocq) = relocq[1]
  BY <1>1, TailFacts DEF Domains, QueueTypes
<1> QED
  BY <1>1, <1>2 DEF Laid, Failed

(* Nothing that has been written changes, but for the addresses. *)
Kept == \A a \in DOMAIN array : a \in DOMAIN array' /\ array'[a] = array[a]
NoInstr(v) == \A x : v # InstrMark(x)

LEMMA FreshIsKept ==
  ASSUME NEW k, k \notin DOMAIN array, NEW v, array' = Put(array, k, v)
  PROVE  Kept /\ DOMAIN array' = DOMAIN array \cup {k} /\ array'[k] = v
<1> DEFINE new == Put(array, k, v)
<1>1. /\ DOMAIN new = DOMAIN array \cup {k} /\ new[k] = v
      /\ \A a \in DOMAIN array : new[a] = array[a]
  BY DEF Put
<1>2. array' = new
  OBVIOUS
<1> HIDE DEF new
<1> QED
  BY <1>1, <1>2 DEF Kept

LEMMA FreshCode ==
  ASSUME UNCHANGED const, NEW k, k \notin DOMAIN array, NEW v, array' = Put(array, k, v),
         NoInstr(v)
  PROVE  SameCode
BY FreshPiece DEF SameCode, NoInstr

LEMMA EntriesKept ==
  ASSUME Domains, CodeInv, pc \notin Failed, UNCHANGED const,
         \A l \in DOMAIN label : Owed(l) => Owed(l)',
         \A h \in DOMAIN program.headers : \A i \in DOMAIN Entries0(h) :
           Due(h, i)' => Due(h, i)
  PROVE  EntriesOwed'
<1> SUFFICES ASSUME NEW h \in DOMAIN program.headers, NEW i \in DOMAIN Entries0(h), Due(h, i)'
             PROVE  Owed(Entries0(h)[i])'
  BY SameGraph DEF EntriesOwed
<1>1. PICK l : l = Entries0(h)[i]
  OBVIOUS
<1>2. Due(h, i) /\ l # NULL /\ l \in DOMAIN label
  BY <1>1, GraphIsSound DEF GraphFacts, Due
<1>3. Owed(l)
  BY <1>1, <1>2 DEF CodeInv, EntriesOwed
<1>4. Owed(l)'
  BY <1>2, <1>3
<1>5. l = Entries0(h)[i]'
  BY <1>1, SameGraph
<1> QED
  BY <1>4, <1>5

(* Steps that write no instruction and do not move in the code. *)
LEMMA CodeQuiet ==
  ASSUME Domains, CodeInv, pc \notin Failed, SameCode,
         UNCHANGED <<const, symtbl_done, offsets, bc, todoq>>,
         pos' = pos \/ bc = NULL,
         \A h \in DOMAIN program.headers : \A i \in DOMAIN Entries0(h) :
           Due(h, i)' => Due(h, i)
  PROVE  CodeInv'
<1>1. Once' /\ PlacedAreDone' /\ OffsetsKept' /\ PrevPlaced' /\ Follows' /\ Cursor'
  BY CodeStill
<1>2. (\A l : Owed(l)' <=> Owed(l)) /\ JumpsOwed'
  BY OwedStill
<1>3. EntriesOwed'
  BY <1>2, EntriesKept
<1> QED
  BY <1>1, <1>2, <1>3 DEF CodeInv

LEMMA CodeFailed ==
  ASSUME NEW why \in Failed, GiveUp(why)
  PROVE  CodeInv'
BY DEF GiveUp, CodeInv

LEMMA AnimsCounted ==
  ASSUME Domains, NEW h \in DOMAIN program.headers, NEW i \in DOMAIN Entries0(h)
  PROVE  i \in Nat /\ i >= 1 /\ (animno \notin DOMAIN Entries0(h) => i < animno)
<1>1. PICK n \in Nat : DOMAIN Entries0(h) = 1 .. n
  BY GraphIsSound DEF GraphFacts
<1> QED
  BY <1>1 DEF Domains, Control

LEMMA CodeHeaders ==
  ASSUME Domains, Laid, CodeInv
  PROVE  /\ Start /\ ~Fail => CodeInv'
         /\ \A h \in todo : WriteHeader(h) /\ ~Fail => CodeInv'
         /\ WriteSlot /\ ~Fail => CodeInv'
         /\ SlotsWritten \/ HeaderWritten => CodeInv'
<1> USE DEF Failed, Writing, InHeader
<1>0. pos \in Nat /\ Aligned \in Nat /\ pos <= Aligned
  BY AlignedFacts DEF Domains, Places, Aligned
<1>1. ASSUME Start, ~Fail PROVE CodeInv'
  <2>1. /\ pc = "start" /\ pc' = "headers"
        /\ UNCHANGED <<const, symtbl_done, offsets, bc, todoq, todo, hdr, animno>>
        /\ array' = Put(array, Top, EofMark) /\ array = <<>>
    BY <1>1 DEF Start, coder, Laid
  <2>2. Top \notin DOMAIN array
    BY <2>1
  <2>3. PICK v : v = EofMark
    OBVIOUS
  <2>4. NoInstr(v)
    BY <2>3, MarkFacts DEF NoInstr
  <2>5. PICK k : k = Top
    OBVIOUS
  <2>6. SameCode
    BY <2>1, <2>2, <2>3, <2>4, <2>5, FreshCode
  <2>7. \A h, i : Due(h, i)' => Due(h, i)
    BY <2>1, SameGraph DEF Due
  <2>8. bc = NULL
    BY <2>1 DEF Domains, Control
  <2> QED
    BY <2>1, <2>6, <2>7, <2>8, CodeQuiet
<1>2. ASSUME NEW h \in todo, WriteHeader(h), ~Fail PROVE CodeInv'
  <2>1. /\ pc = "headers" /\ pc' = "slots" /\ hdr' = h /\ todo' = todo \ {h}
        /\ UNCHANGED <<const, symtbl_done, offsets, bc, todoq>>
        /\ array' = Put(array, Aligned, HeaderMark(h))
    BY <1>2 DEF WriteHeader
  <2>2. PICK k \in Nat : k = Aligned
    BY <1>0
  <2>3. PICK v : v = HeaderMark(h)
    OBVIOUS
  <2>4. NoInstr(v)
    BY <2>3, MarkFacts DEF NoInstr
  <2>5. k \notin DOMAIN array
    BY <1>0, <2>1, <2>2, AtTheEnd
  <2>6. SameCode
    BY <2>1, <2>2, <2>3, <2>4, <2>5, FreshCode
  <2>7. \A g, i : Due(g, i)' => Due(g, i)
    BY <2>1, SameGraph DEF Due
  <2>8. bc = NULL
    BY <2>1 DEF Domains, Control
  <2> QED
    BY <2>1, <2>6, <2>7, <2>8, CodeQuiet
<1>3. ASSUME WriteSlot, ~Fail PROVE CodeInv'
  <2>1. /\ pc = "slots" /\ pc' = pc
        /\ UNCHANGED <<const, symtbl_done, offsets, bc, todoq, todo, hdr>>
        /\ array' = Put(array, pos, Address(0))
    BY <1>3 DEF WriteSlot
  <2>2. PICK k \in Nat : k = pos
    BY <1>0
  <2>3. PICK v : v = Address(0)
    OBVIOUS
  <2>4. NoInstr(v)
    BY <2>3, MarkFacts DEF NoInstr
  <2>5. k \notin DOMAIN array
    BY <1>0, <2>1, <2>2, AtTheEnd
  <2>6. SameCode
    BY <2>1, <2>2, <2>3, <2>4, <2>5, FreshCode
  <2>7. \A g, i : Due(g, i)' => Due(g, i)
    BY <2>1, SameGraph DEF Due
  <2>8. bc = NULL
    BY <2>1 DEF Domains, Control
  <2> QED
    BY <2>1, <2>6, <2>7, <2>8, CodeQuiet
<1>4. ASSUME SlotsWritten \/ HeaderWritten PROVE CodeInv'
  <2>1. /\ pc \in {"slots", "anims"} /\ animno \notin DOMAIN Entries0(hdr)
        /\ UNCHANGED <<const, symtbl_done, offsets, bc, todoq, todo, hdr, pos, array>>
        /\ \/ pc = "slots" /\ pc' = "anims" /\ animno' = 1
           \/ pc = "anims" /\ pc' = "headers"
    BY <1>4 DEF SlotsWritten, HeaderWritten, mfile, coder
  <2>2. SameCode
    BY <2>1, SameFile DEF SameArray, SameCode
  <2>3. ASSUME NEW h \in DOMAIN program.headers, NEW i \in DOMAIN Entries0(h), Due(h, i)'
        PROVE  Due(h, i)
    <3>1. i \in Nat /\ i >= 1 /\ (h = hdr => i < animno)
      BY <2>1, AnimsCounted
    <3> QED
      BY <2>1, <2>3, <3>1, SameGraph DEF Due
  <2> QED
    BY <2>1, <2>2, <2>3, CodeQuiet
<1> QED
  BY <1>1, <1>2, <1>3, <1>4

LEMMA CodeLinking ==
  ASSUME Domains, Laid, CodeInv,
         \/ SeekTable
         \/ (WriteEntry \/ EndTable \/ Relocate) /\ ~Fail
         \/ PointToTable
         \/ MSave /\ ~GiveUp("not saved")
  PROVE  CodeInv'
<1>1. /\ pc \notin InHeader \cup Failed /\ pc' \notin InHeader \cup Failed
      /\ UNCHANGED <<const, symtbl_done, offsets, bc, todoq, todo>>
      /\ bc = NULL
  BY DEF SeekTable, WriteEntry, EndTable, Relocate, PointToTable, MSave, coder, InHeader,
         Failed, Domains, Control
<1>2. \A h, i : Due(h, i)' => Due(h, i)
  BY <1>1, SameGraph DEF Due
<1>3. SameCode
  <2>1. CASE SeekTable \/ (MSave /\ ~GiveUp("not saved"))
    BY <1>1, <2>1, SameFile DEF SeekTable, MSave, mfile, SameArray, SameCode
  <2>2. CASE WriteEntry /\ ~Fail
    <3>1. PICK v : v = [what |-> "entry", id |-> Head(idtoheaderq).id,
                        offset |-> Head(idtoheaderq).offset]
      OBVIOUS
    <3>2. array' = Put(array, pos, v) /\ v.what = "entry"
      BY <2>2, <3>1 DEF WriteEntry
    <3>3. NoInstr(v)
      BY <3>2, MarkFacts DEF NoInstr
    <3>4. PICK k : k = pos
      OBVIOUS
    <3> QED
      BY <1>1, <2>2, <3>2, <3>3, <3>4, EntryIsFresh, FreshCode
  <2>3. CASE EndTable /\ ~Fail
    <3>1. PICK v : v = EofMark
      OBVIOUS
    <3>2. array' = Put(array, pos, v) /\ NoInstr(v)
      BY <2>3, <3>1, MarkFacts DEF EndTable, NoInstr
    <3>3. PICK k : k = pos
      OBVIOUS
    <3>4. CASE version = "STARCRAFT"
      <4>1. SameArray
        BY <2>3, <3>1, <3>2, <3>4, EndIsFresh DEF SameArray, IsEof, Put
      <4> QED
        BY <1>1, <4>1, SameFile DEF SameCode
    <3>5. CASE version # "STARCRAFT"
      BY <1>1, <2>3, <3>2, <3>3, <3>5, EndIsFresh, FreshCode
    <3> QED
      BY <3>4, <3>5
  <2>4. CASE Relocate /\ ~Fail
    <3>1. PICK o : o = Head(relocq).offset
      OBVIOUS
    <3>2. PICK w : w = Lookup(Head(relocq).id)
      OBVIOUS
    <3>3. Relocatable(o) /\ array' = Put(array, o, Address(w)) /\ size' = size
      BY <2>4, <3>1, <3>2, HeadIsRelocatable DEF Relocate
    <3> QED
      BY <1>1, <3>3, AddressWritten DEF Laid, SameCode
  <2>5. CASE PointToTable
    <3>1. PICK v : v = Address(header_table_offset)
      OBVIOUS
    <3>2. NoInstr(v)
      BY <3>1, MarkFacts DEF NoInstr
    <3>3. CASE version = "BROODWAR"
      <4>1. array' = Put(array, 0, v) /\ 0 \notin DOMAIN array
        BY <2>5, <3>1, <3>3, PointerIsFresh DEF PointToTable
      <4>2. PICK k : k = 0
        OBVIOUS
      <4> QED
        BY <1>1, <3>2, <4>1, <4>2, FreshCode
    <3>4. CASE version # "BROODWAR"
      BY <1>1, <2>5, <3>4, SameFile DEF PointToTable, SameArray, SameCode
    <3> QED
      BY <3>3, <3>4
  <2> QED
    BY <2>1, <2>2, <2>3, <2>4, <2>5
<1> QED
  BY <1>1, <1>2, <1>3, CodeQuiet

LEMMA CodeNextAnim ==
  ASSUME Domains, CodeInv, NextAnim
  PROVE  CodeInv'
<1> DEFINE e == Entries0(hdr)[animno]
<1>1. /\ pc = "anims" /\ pc' = "code" /\ animno \in DOMAIN Entries0(hdr)
      /\ animno' = animno + 1 /\ todoq' = IF e = NULL THEN <<>> ELSE <<e>>
      /\ UNCHANGED <<const, array, pos, todo, hdr, bc, symtbl_done, offsets>>
  BY DEF NextAnim, mfile
<1>2. bc = NULL /\ todoq = <<>> /\ pc \notin Failed /\ hdr \in DOMAIN program.headers
  BY <1>1 DEF Domains, Control, Failed, InHeader
<1>3. SameCode
  BY <1>1, SameFile DEF SameArray, SameCode
<1>4. Once' /\ PlacedAreDone' /\ OffsetsKept' /\ PrevPlaced' /\ Follows' /\ Cursor'
  BY <1>1, <1>2, <1>3, CodeStill
<1>5. /\ instr' = instr /\ label' = label /\ program' = program
      /\ \A x : Placed(x)' <=> Placed(x)
  BY <1>1, <1>3, SameGraph, PlacedSame
<1>6. \A l : Owed(l) => Owed(l)'
  BY <1>2, <1>5 DEF Owed
<1>7. JumpsOwed'
  BY <1>2, <1>5, <1>6 DEF CodeInv, JumpsOwed
<1>8. EntriesOwed'
  <2> SUFFICES ASSUME NEW h \in DOMAIN program.headers, NEW i \in DOMAIN Entries0(h),
                      Due(h, i)', NEW l, l = Entries0(h)[i]
               PROVE  Owed(l)'
    <3>1. \A h : Entries0(h)' = Entries0(h)
      BY <1>1, SameGraph
    <3> QED
      BY <1>5, <3>1 DEF EntriesOwed
  <2>1. h \notin todo /\ l # NULL /\ (h = hdr => i < animno + 1)
    BY <1>1, SameGraph DEF Due, InHeader
  <2>2. CASE h = hdr /\ i = animno
    <3>1. todoq' = <<l>>
      BY <1>1, <2>1, <2>2
    <3> QED
      BY <3>1 DEF Owed
  <2>3. CASE ~(h = hdr /\ i = animno)
    <3>1. i \in Nat /\ animno \in Nat
      BY AnimsCounted DEF Domains, Control
    <3>2. Due(h, i)
      BY <1>1, <2>1, <2>3, <3>1 DEF Due
    <3> QED
      BY <1>2, <1>6, <3>2 DEF CodeInv, EntriesOwed
  <2> QED
    BY <2>2, <2>3
<1> QED
  BY <1>4, <1>7, <1>8 DEF CodeInv

LEMMA CodeNextLabel ==
  ASSUME Domains, CodeInv, NextLabel
  PROVE  CodeInv'
<1>1. /\ pc = "code" /\ pc \notin Failed /\ bc = NULL
      /\ UNCHANGED <<const, array, pos, todo, hdr, animno, symtbl_done, offsets>>
  BY DEF NextLabel, mfile, Failed
<1>2. SameCode
  BY <1>1, SameFile DEF SameArray, SameCode
<1>3. CASE todoq = <<>>
  <2>1. pc' = "anims" /\ UNCHANGED <<bc, todoq>>
    BY <1>3 DEF NextLabel
  <2>2. \A h, i : Due(h, i)' => Due(h, i)
    BY <1>1, <2>1, SameGraph DEF Due, InHeader
  <2> QED
    BY <1>1, <1>2, <2>1, <2>2, CodeQuiet
<1>4. CASE todoq # <<>>
  <2>1. bc' = Rewind(label[Head(todoq)].bc) /\ todoq' = Tail(todoq) /\ pc' = pc
    BY <1>4 DEF NextLabel
  <2>2. /\ Head(todoq) \in DOMAIN label /\ Head(todoq) = todoq[1]
        /\ Len(todoq) \in Nat /\ DOMAIN todoq = 1 .. Len(todoq)
        /\ DOMAIN Tail(todoq) = 1 .. Len(todoq) - 1
        /\ \A k \in DOMAIN Tail(todoq) : Tail(todoq)[k] = todoq[k + 1]
    BY <1>4, TailFacts DEF Domains, QueueTypes
  <2>3. PICK t : t = Head(todoq)
    OBVIOUS
  <2>4. label[t].bc \in DOMAIN instr
    BY <2>2, <2>3, GraphIsSound DEF GraphFacts
  <2>5. bc' \in DOMAIN instr /\ instr[bc'].prev = NULL /\ Ahead(bc', label[t].bc)
    BY <2>1, <2>3, <2>4, RewindFacts
  <2>6. Once' /\ PlacedAreDone' /\ OffsetsKept' /\ PrevPlaced' /\ Follows' /\ Cursor'
    BY <1>1, <1>2, <2>5, CodeStill
  <2>7. /\ instr' = instr /\ label' = label /\ program' = program
        /\ \A x : Placed(x)' <=> Placed(x)
    BY <1>1, <1>2, SameGraph, PlacedSame
  <2>8. \A x : Ahead(bc, x)' <=> Ahead(bc', x)
    BY <2>7 DEF Ahead
  <2>9. ASSUME NEW l, Owed(l) PROVE Owed(l)'
    <3>1. CASE Placed(label[l].bc)
      BY <2>7, <3>1 DEF Owed
    <3>2. CASE \E k \in DOMAIN todoq : todoq[k] = l
      <4>1. PICK k \in DOMAIN todoq : todoq[k] = l
        BY <3>2
      <4>2. CASE k = 1
        <5>1. l = t /\ bc' # NULL
          BY <2>2, <2>3, <2>5, <4>1, <4>2, GraphIsSound DEF GraphFacts
        <5> QED
          BY <2>5, <2>7, <2>8, <5>1 DEF Owed
      <4>3. CASE k # 1
        <5>1. k - 1 \in DOMAIN Tail(todoq) /\ Tail(todoq)[k - 1] = l
          BY <2>2, <4>1, <4>3
        <5> QED
          BY <2>1, <5>1 DEF Owed
      <4> QED
        BY <4>2, <4>3
    <3> QED
      BY <1>1, <2>9, <3>1, <3>2 DEF Owed
  <2>10. JumpsOwed'
    BY <1>1, <2>7, <2>9 DEF CodeInv, JumpsOwed
  <2>11. EntriesOwed'
    <3>1. \A h, i : Due(h, i)' => Due(h, i)
      BY <1>1, <2>1, SameGraph DEF Due
    <3> QED
      BY <1>1, <2>9, <3>1, EntriesKept
  <2> QED
    BY <2>6, <2>10, <2>11 DEF CodeInv
<1> QED
  BY <1>3, <1>4

LEMMA CodeLoop ==
  ASSUME Domains, CodeInv, Loop
  PROVE  CodeInv'
<1>1. /\ pc = "code" /\ pc \notin Failed /\ bc # NULL /\ Done(instr[bc].st_entry)
      /\ bc' = NULL /\ UNCHANGED <<const, pc, array, pos, todo, hdr, animno, todoq,
                                   symtbl_done, offsets>>
  BY DEF Loop, mfile, Failed
<1>2. SameCode
  BY <1>1, SameFile DEF SameArray, SameCode
<1>3. /\ Once /\ PlacedAreDone /\ OffsetsKept /\ PrevPlaced /\ Follows /\ Cursor
      /\ JumpsOwed /\ EntriesOwed
  BY <1>1 DEF CodeInv
<1>4. bc \in DOMAIN instr
  BY <1>1 DEF Domains, Control
<1>5. Placed(bc) /\ instr[bc].prev = NULL
  <2>1. PICK l : l = instr[bc].st_entry
    OBVIOUS
  <2>2. l # NULL /\ label[l].id \in symtbl_done
    BY <1>1, <2>1 DEF Done
  <2>3. l \in DOMAIN label /\ label[l].bc = bc
    BY <1>4, <2>1, <2>2, GraphIsSound DEF GraphFacts
  <2> QED
    BY <1>1, <1>3, <2>2, <2>3 DEF PlacedAreDone, Cursor
<1>6. \A x \in DOMAIN instr : instr[x].next # NULL => instr[x].next # bc
  <2> SUFFICES ASSUME NEW x \in DOMAIN instr, instr[x].next = bc PROVE FALSE
    OBVIOUS
  <2>1. instr[bc].prev = x /\ x # NULL
    BY <1>1, GraphIsSound DEF GraphFacts
  <2> QED
    BY <1>5, <2>1
<1>7. \A x \in DOMAIN instr : \A a \in DOMAIN array :
        IsInstrAt(a, x) /\ instr[x].next # NULL => IsInstrAt(a + Bytes(x), instr[x].next)
  BY <1>3, <1>6 DEF Follows
<1>8. \A y \in DOMAIN instr : Placed(y) /\ instr[y].next # NULL => Placed(instr[y].next)
  <2> SUFFICES ASSUME NEW y \in DOMAIN instr, Placed(y), instr[y].next # NULL
               PROVE  Placed(instr[y].next)
    OBVIOUS
  <2>1. PICK a \in DOMAIN array : IsInstrAt(a, y)
    BY DEF Placed
  <2>2. IsInstrAt(a + Bytes(y), instr[y].next)
    BY <1>7, <2>1
  <2> QED
    BY <2>2 DEF Placed, IsInstrAt
<1>9. /\ instr' = instr /\ label' = label /\ program' = program
      /\ \A x : Bytes(x)' = Bytes(x) /\ (Placed(x)' <=> Placed(x))
      /\ \A a, x : IsInstrAt(a, x)' <=> IsInstrAt(a, x)
      /\ \A l \in DOMAIN label : Key(label[l].id)' = Key(label[l].id)
  BY <1>1, <1>2, SameGraph, PlacedSame DEF Key, SameCode
<1>10. Once' /\ PlacedAreDone' /\ PrevPlaced'
  BY <1>1, <1>3, <1>9 DEF Once, PlacedAreDone, PrevPlaced
<1>11. OffsetsKept'
  BY <1>1, <1>3, <1>9 DEF OffsetsKept, Small
<1>12. Follows'
  <2> SUFFICES ASSUME NEW x \in DOMAIN instr, NEW a \in DOMAIN array, IsInstrAt(a, x),
                      instr[x].next # NULL, NEW b, b = a + Bytes(x), NEW y, y = instr[x].next
               PROVE  IsInstrAt(b, y)'
    BY <1>1, <1>9 DEF Follows
  <2> QED
    BY <1>7, <1>9
<1>13. Cursor'
  BY <1>1 DEF Cursor
<1>14. ASSUME NEW l \in DOMAIN label, Owed(l) PROVE Owed(l)'
  <2>1. CASE bc # NULL /\ Ahead(bc, label[l].bc)
    <3>1. label[l].bc \in DOMAIN instr
      BY GraphIsSound DEF GraphFacts
    <3>2. Placed(label[l].bc)
      BY <1>4, <1>5, <1>8, <2>1, <3>1, ChainPlaced
    <3> QED
      BY <1>9, <3>2 DEF Owed
  <2> QED
    BY <1>1, <1>9, <1>14, <2>1 DEF Owed
<1>15. JumpsOwed'
  <2>1. \A x \in DOMAIN instr : instr[x].jump # NULL => instr[x].jump \in DOMAIN label
    BY GraphIsSound DEF GraphFacts
  <2> QED
    BY <1>3, <1>9, <1>14, <2>1 DEF JumpsOwed
<1>16. EntriesOwed'
  <2>1. \A h, i : Due(h, i)' => Due(h, i)
    BY <1>1, SameGraph DEF Due
  <2> QED
    BY <1>1, <1>14, <2>1, EntriesKept
<1> QED
  BY <1>10, <1>11, <1>12, <1>13, <1>15, <1>16 DEF CodeInv

(* The ids are small enough that none loses its upper bits as a key. *)
LEMMA KeyFacts ==
  ASSUME Domains, Small
  PROVE  \A l \in DOMAIN label : Key(label[l].id) = label[l].id
<1>1. \A l \in DOMAIN label : label[l].id \in Nat
                              /\ label[l].id < Cardinality(LabelsOf(program))
  BY TheGraph, SaveAssumption, LabelIdFacts DEF Domains, Chosen
<1>2. IsFiniteSet(LabelsOf(program))
  BY TheGraph, SaveAssumption, LabelFacts DEF Domains, Chosen
<1>3. Cardinality(LabelsOf(program)) \in Nat
  BY <1>2, FS_CardinalityType
<1> SUFFICES ASSUME NEW l \in DOMAIN label
             PROVE  Key(label[l].id) = label[l].id
  OBVIOUS
<1>4. PICK n \in Nat : n = label[l].id
  BY <1>1
<1>5. n < 65536
  BY <1>1, <1>3, <1>4 DEF Small
<1>6. n % 65536 = n
  BY <1>5
<1> QED
  BY <1>4, <1>6 DEF Key

LEMMA CodeInstr ==
  ASSUME Domains, Laid, CodeInv, WriteInstr, ~Fail
  PROVE  CodeInv'
<1> DEFINE st == instr[bc].st_entry
           j == instr[bc].jump
<1>1. /\ pc = "code" /\ pc \notin Failed /\ pc \in Writing /\ bc # NULL /\ ~Done(st)
      /\ IF st = NULL THEN UNCHANGED <<symtbl_done, offsets>>
         ELSE /\ symtbl_done' = symtbl_done \cup {label[st].id}
              /\ offsets' = Put(offsets, Key(label[st].id), pos)
      /\ array' = Put(array, pos, InstrMark(bc)) /\ pos' = pos + Bytes(bc)
      /\ todoq' = IF j = NULL THEN todoq ELSE Append(todoq, j)
      /\ bc' = instr[bc].next
      /\ UNCHANGED <<const, pc, todo, hdr, animno>>
  BY DEF WriteInstr, Failed, Writing
<1>2. PICK x \in DOMAIN instr : x = bc
  BY <1>1 DEF Domains, Control
<1>3. PICK k \in Nat : k = pos
  BY DEF Domains, Places
<1>4. /\ Once /\ PlacedAreDone /\ OffsetsKept /\ PrevPlaced /\ Follows /\ Cursor
      /\ JumpsOwed /\ EntriesOwed
  BY <1>1 DEF CodeInv
<1>5. /\ x # NULL
      /\ st # NULL => st \in DOMAIN label /\ label[st].bc = x
      /\ instr[x].prev = NULL => st # NULL
      /\ instr[x].prev # NULL => instr[x].prev \in DOMAIN instr
      /\ instr[x].next # NULL => instr[x].next \in DOMAIN instr /\ instr[instr[x].next].prev = x
      /\ \A l \in DOMAIN label : label[l].bc = x => l = st
      /\ j # NULL => j \in DOMAIN label
  BY <1>1, <1>2, GraphIsSound DEF GraphFacts
<1>6. ~Placed(x)
  BY <1>1, <1>2, <1>4, <1>5 DEF Cursor, PlacedAreDone, Done
<1> HIDE DEF st, j
<1>7. /\ instr' = instr /\ label' = label /\ program' = program
      /\ \A y : Bytes(y)' = Bytes(y)
      /\ \A l : Key(label[l].id)' = Key(label[l].id)
  BY <1>1, SameGraph DEF Key
<1>8. \A a, y : IsInstrAt(a, y)' <=> IsInstrAt(a, y) \/ (a = k /\ y = x)
  <2>1. k \notin DOMAIN array
    BY <1>1, <1>3, AtTheEnd
  <2>2. PICK v : v = InstrMark(x)
    OBVIOUS
  <2>3. array' = Put(array, k, v)
    BY <1>1, <1>2, <1>3, <2>2
  <2>4. DOMAIN array' = DOMAIN array \cup {k} /\ array'[k] = v
    BY <2>1, <2>3, FreshIsKept
  <2>5. /\ \A a, y : IsInstrAt(a, y) => IsInstrAt(a, y)'
        /\ \A a, y : IsInstrAt(a, y)' => IsInstrAt(a, y) \/ (a = k /\ v = InstrMark(y))
    BY <1>1, <2>1, <2>3, FreshPiece
  <2>6. IsInstrAt(k, x)'
    <3>1. \A a, y : IsInstrAt(a, y)' <=> (a \in DOMAIN array' /\ array'[a] = InstrMark(y))
      BY DEF IsInstrAt, InstrMark
    <3> QED
      BY <2>2, <2>4, <3>1
  <2>7. \A y : v = InstrMark(y) => y = x
    BY <2>2, MarkFacts
  <2> QED
    BY <2>5, <2>6, <2>7
<1>9. \A y : Placed(y)' <=> Placed(y) \/ y = x
  <2>1. \A a, y : IsInstrAt(a, y) => a \in DOMAIN array
    BY DEF IsInstrAt
  <2>2. \A a, y : IsInstrAt(a, y)' => a \in DOMAIN array'
    BY DEF IsInstrAt
  <2>3. \A y : Placed(y) <=> \E a : IsInstrAt(a, y)
    BY <2>1 DEF Placed
  <2>4. \A y : Placed(y)' <=> \E a : IsInstrAt(a, y)'
    BY <2>2 DEF Placed
  <2> QED
    BY <1>8, <2>3, <2>4
<1>10. \A a, y : IsInstrAt(a, y) => Placed(y) /\ a \in DOMAIN array
  BY DEF IsInstrAt, Placed
<1>11. Once'
  <2> SUFFICES ASSUME NEW a, NEW b, NEW y \in DOMAIN instr, IsInstrAt(a, y)', IsInstrAt(b, y)'
               PROVE  a = b
    BY <1>7 DEF Once
  <2> QED
    BY <1>4, <1>6, <1>8, <1>10 DEF Once
<1>12. PlacedAreDone'
  <2> SUFFICES ASSUME NEW l \in DOMAIN label, NEW z, z = label[l].bc
               PROVE  label[l].id \in symtbl_done' <=> Placed(z)'
    BY <1>7 DEF PlacedAreDone
  <2>1. label[l].id \in symtbl_done' <=> label[l].id \in symtbl_done \/ l = st
    <3>1. st # NULL => (label[l].id = label[st].id <=> l = st)
      BY <1>5, GraphIsSound DEF GraphFacts
    <3>2. l # NULL
      BY GraphIsSound DEF GraphFacts
    <3> QED
      BY <1>1, <3>1, <3>2
  <2>2. z = x <=> l = st
    BY <1>5, GraphIsSound DEF GraphFacts
  <2> QED
    BY <1>4, <1>9, <2>1, <2>2 DEF PlacedAreDone
<1>13. OffsetsKept'
  <2> SUFFICES ASSUME Small, NEW l \in DOMAIN label, NEW z, z = label[l].bc,
                      NEW a, IsInstrAt(a, z)'
               PROVE  /\ Key(label[l].id) \in DOMAIN offsets'
                      /\ offsets'[Key(label[l].id)] = a
    BY <1>7 DEF OffsetsKept, Small
  <2>1. PICK key : key = Key(label[l].id)
    OBVIOUS
  <2>2. CASE z = x
    <3>1. a = k /\ l = st /\ st # NULL
      <4>1. a = k
        BY <1>6, <1>8, <1>10, <2>2
      <4>2. l = st /\ l # NULL
        BY <1>5, <2>2, GraphIsSound, ZenonT(60) DEF GraphFacts
      <4> QED
        BY <4>1, <4>2
    <3>2. offsets' = Put(offsets, key, k)
      BY <1>1, <1>3, <2>1, <3>1
    <3> QED
      BY <2>1, <3>1, <3>2 DEF Put
  <2>3. CASE z # x
    <3>1. IsInstrAt(a, z)
      BY <1>8, <2>3
    <3>2. key \in DOMAIN offsets /\ offsets[key] = a
      BY <1>4, <1>10, <2>1, <3>1 DEF OffsetsKept
    <3>3. CASE st = NULL
      BY <1>1, <2>1, <3>2, <3>3
    <3>4. CASE st # NULL
      <4>1. l # st
        BY <1>5, <2>3, <3>4
      <4>2. PICK m : m = Key(label[st].id)
        OBVIOUS
      <4>3. key # m
        BY <1>5, <2>1, <3>4, <4>1, <4>2, KeyFacts, GraphIsSound DEF GraphFacts
      <4>4. offsets' = Put(offsets, m, k)
        BY <1>1, <1>3, <3>4, <4>2
      <4> QED
        BY <2>1, <3>2, <4>3, <4>4 DEF Put
    <3> QED
      BY <3>3, <3>4
  <2> QED
    BY <2>2, <2>3
<1>14. PrevPlaced'
  <2> SUFFICES ASSUME NEW y \in DOMAIN instr, Placed(y)', instr[y].prev # NULL,
                      NEW w, w = instr[y].prev
               PROVE  Placed(w)'
    BY <1>7 DEF PrevPlaced
  <2> QED
    BY <1>2, <1>1, <1>4, <1>9 DEF PrevPlaced, Cursor
<1>15. Follows'
  <2> SUFFICES ASSUME NEW y \in DOMAIN instr, NEW a, IsInstrAt(a, y)', instr[y].next # NULL,
                      NEW w, w = instr[y].next, NEW b, b = a + Bytes(y)
               PROVE  IsInstrAt(b, w)' \/ (bc' = w /\ pos' = b)
    BY <1>7 DEF Follows
  <2>1. CASE IsInstrAt(a, y)
    <3>1. IsInstrAt(b, w) \/ (bc = w /\ pos = b)
      BY <1>4, <1>10, <2>1 DEF Follows
    <3> QED
      BY <1>2, <1>3, <1>8, <3>1
  <2>2. CASE a = k /\ y = x
    BY <1>1, <1>2, <1>3, <2>2
  <2> QED
    BY <1>8, <2>1, <2>2
<1>16. Cursor'
  <2> SUFFICES ASSUME bc' # NULL, NEW y, y = bc', instr[y].prev # NULL,
                      NEW w, w = instr[y].prev
               PROVE  Placed(w)' /\ ~Placed(y)'
    BY <1>7 DEF Cursor
  <2>1. y = instr[x].next /\ y \in DOMAIN instr /\ w = x
    BY <1>1, <1>2, <1>5
  <2>2. Placed(w)'
    BY <1>9, <2>1
  <2>3. y # x
    BY <1>2, <1>4, <1>6, <2>1 DEF Cursor
  <2>4. ~Placed(y)
    BY <1>4, <1>5, <1>6, <2>1 DEF PrevPlaced
  <2> QED
    BY <1>9, <2>2, <2>3, <2>4
<1>17. /\ \A l : (\E n \in DOMAIN todoq : todoq[n] = l) => \E n \in DOMAIN todoq' : todoq'[n] = l
       /\ j # NULL => \E n \in DOMAIN todoq' : todoq'[n] = j
  <2>1. CASE j = NULL
    BY <1>1, <2>1
  <2>2. CASE j # NULL
    <3>1. j \in DOMAIN label /\ todoq \in Seq(DOMAIN label) /\ todoq' = Append(todoq, j)
      BY <1>1, <1>5, <2>2 DEF Domains, QueueTypes
    <3>2. /\ DOMAIN todoq = 1 .. Len(todoq) /\ DOMAIN todoq' = 1 .. Len(todoq) + 1
          /\ Len(todoq) \in Nat /\ todoq'[Len(todoq) + 1] = j
          /\ \A n \in DOMAIN todoq : todoq'[n] = todoq[n]
      BY <3>1, AppendFacts
    <3>3. DOMAIN todoq \subseteq DOMAIN todoq' /\ Len(todoq) + 1 \in DOMAIN todoq'
      BY <3>2
    <3> QED
      BY <3>2, <3>3
  <2> QED
    BY <2>1, <2>2
<1>18. ASSUME NEW l \in DOMAIN label, Owed(l) PROVE Owed(l)'
  <2>1. CASE bc # NULL /\ Ahead(bc, label[l].bc)
    <3>1. PICK z : z = label[l].bc
      OBVIOUS
    <3>2. z \in DOMAIN instr
      BY <3>1, GraphIsSound DEF GraphFacts
    <3>3. CASE z = x
      BY <1>7, <1>9, <3>1, <3>3 DEF Owed
    <3>4. CASE z # x
      <4>1. instr[x].next # NULL /\ Ahead(instr[x].next, z)
        BY <1>2, <2>1, <3>1, <3>2, <3>4, AheadStep
      <4>2. PICK y : y = bc'
        OBVIOUS
      <4>3. y # NULL /\ Ahead(y, z)
        BY <1>1, <1>2, <4>1, <4>2
      <4>4. Ahead(y, z)'
        BY <1>7, <4>3 DEF Ahead
      <4> QED
        BY <1>7, <3>1, <4>2, <4>3, <4>4 DEF Owed
    <3> QED
      BY <3>3, <3>4
  <2> QED
    BY <1>7, <1>9, <1>17, <1>18, <2>1 DEF Owed
<1>19. JumpsOwed'
  <2> SUFFICES ASSUME NEW y \in DOMAIN instr, Placed(y)', NEW l, l = instr[y].jump, l # NULL
               PROVE  Owed(l)'
    BY <1>7 DEF JumpsOwed
  <2>1. l \in DOMAIN label
    BY GraphIsSound DEF GraphFacts
  <2>2. CASE y = x
    BY <1>2, <1>17, <2>2 DEF Owed, j
  <2>3. CASE Placed(y)
    BY <1>4, <1>18, <2>1, <2>3 DEF JumpsOwed
  <2> QED
    BY <1>9, <2>2, <2>3
<1>20. EntriesOwed'
  <2>1. \A h, i : Due(h, i)' => Due(h, i)
    BY <1>1, SameGraph DEF Due
  <2> QED
    BY <1>1, <1>18, <2>1, EntriesKept
<1> QED
  BY <1>11, <1>12, <1>13, <1>14, <1>15, <1>16, <1>19, <1>20 DEF CodeInv

LEMMA CodeNext ==
  ASSUME Domains, Laid, CodeInv, [Next]_vars
  PROVE  CodeInv'
<1>1. CASE Fail
  BY <1>1, CodeFailed DEF Fail, Failed
<1>2. CASE GiveUp("not saved")
  BY <1>2, CodeFailed DEF Failed
<1>3. CASE UNCHANGED vars
  <2>1. /\ UNCHANGED <<const, symtbl_done, offsets, bc, todoq, pos, array, pc, todo, hdr, animno>>
    BY <1>3 DEF vars, mfile, coder
  <2>2. SameCode
    BY <2>1, SameFile DEF SameArray, SameCode
  <2>3. \A h, i : Due(h, i)' => Due(h, i)
    BY <2>1, SameGraph DEF Due
  <2>4. pc \in Failed => CodeInv'
    BY <2>1 DEF CodeInv
  <2> QED
    BY <2>1, <2>2, <2>3, <2>4, CodeQuiet
<1> QED
  BY <1>1, <1>2, <1>3, CodeHeaders, CodeNextAnim, CodeNextLabel, CodeLoop, CodeInstr,
     CodeLinking DEF Next, Stopped

-----------------------------------------------------------------------------
(* The headers, the table and the addresses. *)

LEMMA RelocRecord ==
  ASSUME NEW n \in Nat, NEW o \in Nat
  PROVE  \E r \in [id : Nat, offset : Nat] :
           r = [id |-> n, offset |-> o] /\ r.id = n /\ r.offset = o
<1> DEFINE r == [id |-> n, offset |-> o]
<1>1. r \in [id : Nat, offset : Nat]
  OBVIOUS
<1>2. r.id = n /\ r.offset = o
  OBVIOUS
<1> QED
  BY <1>1, <1>2

LEMMA RelocsAppend ==
  ASSUME Domains, NEW r \in [id : Nat, offset : Nat], relocq' = Append(relocq, r)
  PROVE  Relocs' = Relocs \cup {r}
<1>1. /\ Len(relocq) \in Nat
      /\ DOMAIN relocq = 1 .. Len(relocq) /\ DOMAIN relocq' = 1 .. Len(relocq) + 1
      /\ relocq'[Len(relocq) + 1] = r
      /\ \A k \in DOMAIN relocq : relocq'[k] = relocq[k]
  BY AppendFacts DEF Domains, QueueTypes
<1>2. DOMAIN relocq' = DOMAIN relocq \cup {Len(relocq) + 1}
  BY <1>1
<1> QED
  BY <1>1, <1>2 DEF Relocs

LEMMA RelocsTail ==
  ASSUME Domains, relocq # <<>>, relocq' = Tail(relocq)
  PROVE  Relocs = Relocs' \cup {Head(relocq)}
<1>1. /\ Len(relocq) \in Nat \ {0} /\ DOMAIN relocq = 1 .. Len(relocq)
      /\ Head(relocq) = relocq[1] /\ DOMAIN relocq' = 1 .. Len(relocq) - 1
      /\ \A k \in DOMAIN relocq' : k + 1 \in DOMAIN relocq /\ relocq'[k] = relocq[k + 1]
  BY TailFacts DEF Domains, QueueTypes
<1>2. \A k \in DOMAIN relocq : k = 1 \/ (k - 1 \in DOMAIN relocq' /\ relocq[k] = relocq'[k - 1])
  BY <1>1
<1>3. 1 \in DOMAIN relocq
  BY <1>1
<1>4. {Head(relocq)} \cup Relocs' \subseteq Relocs
  BY <1>1, <1>3 DEF Relocs
<1>5. Relocs \subseteq Relocs' \cup {Head(relocq)}
  BY <1>1, <1>2 DEF Relocs
<1> QED
  BY <1>4, <1>5

LEMMA HeaderRefsAppend ==
  ASSUME Domains, NEW q \in [id : DOMAIN program.headers, offset : Nat],
         idtoheaderq' = Append(idtoheaderq, q)
  PROVE  HeaderRefs' = HeaderRefs \cup {q}
<1>1. /\ Len(idtoheaderq) \in Nat
      /\ DOMAIN idtoheaderq = 1 .. Len(idtoheaderq)
      /\ DOMAIN idtoheaderq' = 1 .. Len(idtoheaderq) + 1
      /\ idtoheaderq'[Len(idtoheaderq) + 1] = q
      /\ \A k \in DOMAIN idtoheaderq : idtoheaderq'[k] = idtoheaderq[k]
  BY AppendFacts DEF Domains, QueueTypes
<1>2. DOMAIN idtoheaderq' = DOMAIN idtoheaderq \cup {Len(idtoheaderq) + 1}
  BY <1>1
<1> QED
  BY <1>1, <1>2 DEF HeaderRefs

LEMMA HeaderRefsTail ==
  ASSUME Domains, idtoheaderq # <<>>, idtoheaderq' = Tail(idtoheaderq)
  PROVE  /\ HeaderRefs = HeaderRefs' \cup {Head(idtoheaderq)}
         /\ Len(idtoheaderq) \in Nat /\ Len(idtoheaderq') = Len(idtoheaderq) - 1
<1>1. /\ Len(idtoheaderq) \in Nat \ {0} /\ DOMAIN idtoheaderq = 1 .. Len(idtoheaderq)
      /\ Head(idtoheaderq) = idtoheaderq[1] /\ DOMAIN idtoheaderq' = 1 .. Len(idtoheaderq) - 1
      /\ Len(idtoheaderq') = Len(idtoheaderq) - 1
      /\ \A k \in DOMAIN idtoheaderq' :
           k + 1 \in DOMAIN idtoheaderq /\ idtoheaderq'[k] = idtoheaderq[k + 1]
  BY TailFacts DEF Domains, QueueTypes
<1>2. \A k \in DOMAIN idtoheaderq :
        k = 1 \/ (k - 1 \in DOMAIN idtoheaderq' /\ idtoheaderq[k] = idtoheaderq'[k - 1])
  BY <1>1
<1>3. 1 \in DOMAIN idtoheaderq
  BY <1>1
<1>4. {Head(idtoheaderq)} \cup HeaderRefs' \subseteq HeaderRefs
  BY <1>1, <1>3 DEF HeaderRefs
<1>5. HeaderRefs \subseteq HeaderRefs' \cup {Head(idtoheaderq)}
  BY <1>1, <1>2 DEF HeaderRefs
<1> QED
  BY <1>4, <1>5, <1>1

(* What a step does to the places in the file that are spoken for. *)
Ours(s) == s \in DOMAIN array \/ IsTail(s)
MarksKept ==
  \A a \in DOMAIN array : /\ a \in DOMAIN array' /\ What(a)' = What(a)
                          /\ What(a) # "address" => array'[a] = array[a]
RefsKept == \A s, l : Ours(s) /\ RefersTo(s, l) => RefersTo(s, l)'
EmptyKept == \A s \in DOMAIN array : Empty(s) => Empty(s)'
FileGrows == MarksKept /\ RefsKept /\ EmptyKept

Untouched(s) ==
  /\ s \in DOMAIN array => s \in DOMAIN array' /\ array'[s] = array[s]
  /\ \A r : r.offset = s => (r \in Relocs' <=> r \in Relocs)

LEMMA UntouchedGrows ==
  ASSUME UNCHANGED const, pc \in Linking => pc' \in Linking /\ offsets' = offsets,
         \A s : Ours(s) => Untouched(s)
  PROVE  FileGrows
<1>1. \A s : s \in DOMAIN array => /\ s \in DOMAIN array' /\ array'[s] = array[s]
                                   /\ What(s)' = What(s)
  BY DEF Ours, Untouched, What
<1>2. MarksKept
  BY <1>1 DEF MarksKept
<1>3. \A s : Ours(s) => \A r : r.offset = s => (r \in Relocs' <=> r \in Relocs)
  BY DEF Untouched
<1>4. \A s : Ours(s) => (Pending(s)' <=> Pending(s))
  BY <1>3 DEF Pending
<1>5. ASSUME NEW s \in DOMAIN array, Empty(s) PROVE Empty(s)'
  BY <1>1, <1>4, <1>5 DEF Empty, Ours, Address
<1>6. ASSUME NEW s, NEW l, Ours(s), RefersTo(s, l) PROVE RefersTo(s, l)'
  <2>1. label' = label
    BY SameGraph
  <2>2. \A r \in Relocs' : r.offset = s => r.id = label[l].id
    BY <1>3, <1>6 DEF RefersTo
  <2>3. Fixed(s, l) => Fixed(s, l)'
    <3> SUFFICES ASSUME Fixed(s, l) PROVE Fixed(s, l)'
      OBVIOUS
    <3>1. pc' \in Linking /\ offsets' = offsets
      BY DEF Fixed
    <3>2. Address(Lookup(label[l].id))' = Address(Lookup(label[l].id))
      BY <2>1, <3>1 DEF Address, Lookup, Key
    <3> QED
      BY <1>1, <3>1, <3>2 DEF Fixed
  <2> QED
    BY <1>4, <1>6, <2>1, <2>2, <2>3 DEF RefersTo
<1> QED
  BY <1>2, <1>5, <1>6 DEF FileGrows, RefsKept, EmptyKept

(* The relocation of an address. *)
LEMMA RelocateGrows ==
  ASSUME Domains, Laid, Relocate, ~Fail
  PROVE  FileGrows
<1> DEFINE r1 == Head(relocq)
<1>1. /\ Relocatable(r1.offset) /\ relocq # <<>> /\ relocq' = Tail(relocq)
      /\ array' = Put(array, r1.offset, Address(Lookup(r1.id)))
      /\ pc = "relocate" /\ pc' = "relocate" /\ UNCHANGED <<const, size, offsets>>
  BY HeadIsRelocatable DEF Relocate, coder
<1>2. Relocs = Relocs' \cup {r1}
  BY <1>1, RelocsTail
<1> HIDE DEF r1
<1>3. PICK o : o = r1.offset
  OBVIOUS
<1>4. PICK w : w = Lookup(r1.id)
  OBVIOUS
<1>5. Relocatable(o) /\ array' = Put(array, o, Address(w))
  BY <1>1, <1>3, <1>4
<1>6. \A a \in DOMAIN array : /\ What(a)' = What(a)
                              /\ What(a) # "address" => a # o /\ array'[a] = array[a]
  BY <1>1, <1>5, AddressWritten DEF Laid
<1>7. /\ DOMAIN array' = DOMAIN array \cup {o} /\ array'[o] = Address(w)
      /\ \A a \in DOMAIN array : a # o => array'[a] = array[a]
  <2>1. PICK v : v = Address(w)
    OBVIOUS
  <2>2. array' = Put(array, o, v)
    BY <1>5, <2>1
  <2> QED
    BY <2>1, <2>2 DEF Put
<1>8. MarksKept
  BY <1>6, <1>7 DEF MarksKept
<1>9. label' = label /\ \A i : Lookup(i)' = Lookup(i)
  BY <1>1, SameGraph DEF Lookup, Key
<1>10. ASSUME NEW s \in DOMAIN array, Empty(s) PROVE Empty(s)'
  <2>1. s # o /\ ~Pending(s)'
    BY <1>2, <1>3, <1>10 DEF Empty, Pending
  <2>2. array'[s] = Address(0)
    BY <1>7, <1>10, <2>1 DEF Empty
  <2> QED
    BY <2>1, <2>2 DEF Empty, Address
<1>11. ASSUME NEW s, NEW l, RefersTo(s, l) PROVE RefersTo(s, l)'
  <2>1. \A r \in Relocs' : r.offset = s => r.id = label[l].id
    BY <1>2, <1>11 DEF RefersTo
  <2>2. PICK w1 : w1 = Lookup(label[l].id)
    OBVIOUS
  <2>3. Fixed(s, l)' <=> (s \in DOMAIN array' /\ array'[s] = Address(w1))
    BY <1>1, <1>9, <2>2 DEF Fixed, Linking, Address
  <2>4. CASE s = o
    <3>1. r1 \in Relocs /\ r1.offset = s
      BY <1>2, <1>3, <2>4
    <3>2. r1.id = label[l].id
      BY <1>11, <3>1 DEF RefersTo
    <3>3. w1 = w
      BY <1>4, <2>2, <3>2
    <3>4. Fixed(s, l)'
      BY <1>7, <2>3, <2>4, <3>3
    <3> QED
      BY <1>9, <2>1, <3>4 DEF RefersTo
  <2>5. CASE s # o
    <3>1. Pending(s) => Pending(s)'
      BY <1>2, <1>3, <2>5 DEF Pending
    <3>2. Fixed(s, l) => Fixed(s, l)'
      BY <1>7, <2>2, <2>3, <2>5 DEF Fixed
    <3> QED
      BY <1>9, <1>11, <2>1, <3>1, <3>2 DEF RefersTo
  <2> QED
    BY <2>4, <2>5
<1> QED
  BY <1>8, <1>10, <1>11 DEF FileGrows, RefsKept, EmptyKept

(* What has been laid stays laid. *)
LEMMA SlotKept ==
  ASSUME UNCHANGED const, FileGrows, NEW s, NEW l, SlotIsFilled(s, l)
  PROVE  SlotIsFilled(s, l)'
<1>1. s \in DOMAIN array /\ Ours(s) /\ What(s) = "address"
  BY DEF SlotIsFilled, Ours
<1>2. s \in DOMAIN array' /\ What(s)' = "address"
  BY <1>1 DEF FileGrows, MarksKept
<1>3. IF l = NULL THEN Empty(s)' ELSE RefersTo(s, l)'
  BY <1>1 DEF FileGrows, EmptyKept, RefsKept, SlotIsFilled
<1> QED
  BY <1>2, <1>3 DEF SlotIsFilled

LEMMA HeaderKept ==
  ASSUME UNCHANGED const, FileGrows, NEW h, NEW o, HeaderAt(h, o),
         InSlots(h)' => InSlots(h) /\ UNCHANGED <<pos, animno>>,
         InSlots(h) => InSlots(h)' \/ \A i \in DOMAIN Entries0(h) : i < animno
  PROVE  HeaderAt(h, o)'
<1>1. o \in DOMAIN array' /\ array'[o] = HeaderMark(h)
  BY MarkFacts DEF HeaderAt, FileGrows, MarksKept, What
<1>2. HeaderMark(h)' = HeaderMark(h) /\ Entries0(h)' = Entries0(h)
  BY SameGraph
<1>3. InSlots(h)' => pos' = Slot(o, animno)'
  BY DEF HeaderAt, Slot
<1>4. ASSUME NEW i \in DOMAIN Entries0(h), InSlots(h)' => i < animno'
      PROVE  SlotIsFilled(Slot(o, i), Entries0(h)[i])'
  <2>1. InSlots(h) => i < animno
    BY <1>4
  <2>2. PICK s : s = Slot(o, i)
    OBVIOUS
  <2>3. PICK l : l = Entries0(h)[i]
    OBVIOUS
  <2>4. SlotIsFilled(s, l)
    BY <2>1, <2>2, <2>3 DEF HeaderAt
  <2>5. SlotIsFilled(s, l)'
    BY <2>4, SlotKept
  <2>6. s = Slot(o, i)' /\ l = Entries0(h)[i]'
    BY <1>2, <2>2, <2>3 DEF Slot
  <2> QED
    BY <2>5, <2>6
<1> QED
  BY <1>1, <1>2, <1>3, <1>4 DEF HeaderAt

LEMMA TailKept ==
  ASSUME FileGrows, TailsLaid, NEW x \in DOMAIN instr, NEW a, IsInstrAt(a, x),
         NEW j, j = instr[x].jump, j # NULL, NEW s, s = a + Bytes(x) - 2
  PROVE  RefersTo(s, j)'
<1>1. a \in DOMAIN array /\ What(a) = "instr" /\ array[a].instr = x
  BY MarkFacts DEF IsInstrAt, What
<1>2. RefersTo(s, j) /\ Ours(s)
  BY <1>1 DEF TailsLaid, Ours, IsTail
<1> QED
  BY <1>2 DEF FileGrows, RefsKept

LEMMA TailsKept ==
  ASSUME UNCHANGED const, FileGrows, TailsLaid, SameCode
  PROVE  TailsLaid'
<1>1. instr' = instr /\ \A x : Bytes(x)' = Bytes(x)
  BY SameGraph
<1> SUFFICES ASSUME NEW x \in DOMAIN instr, NEW a, IsInstrAt(a, x), instr[x].jump # NULL,
                    NEW j, j = instr[x].jump, NEW s, s = a + Bytes(x) - 2
             PROVE  RefersTo(s, j)'
  BY <1>1 DEF TailsLaid, SameCode
<1> QED
  BY TailKept

LEMMA HeadersKept ==
  ASSUME UNCHANGED const, FileGrows, HeadersLaid,
         \A h : InSlots(h)' => InSlots(h) /\ UNCHANGED <<pos, animno>>,
         \A h : InSlots(h) => InSlots(h)' \/ \A i \in DOMAIN Entries0(h) : i < animno
  PROVE  \A q \in HeaderRefs : HeaderAt(q.id, q.offset)'
<1> SUFFICES ASSUME NEW q \in HeaderRefs, NEW h, h = q.id, NEW o, o = q.offset
             PROVE  HeaderAt(h, o)'
  OBVIOUS
<1>1. HeaderAt(h, o)
  BY DEF HeadersLaid
<1> QED
  BY <1>1, HeaderKept

LEMMA OursIsBefore ==
  ASSUME Domains, Laid, pc \in Writing
  PROVE  /\ \A s : Ours(s) => s \in Nat /\ s < pos
         /\ \A r \in Relocs : r.offset < pos
<1>1. \A a \in DOMAIN array : PieceOK(a) /\ a \in Nat /\ a + Extent(a) <= pos
                              /\ Extent(a) \in Nat /\ Extent(a) > 0
  BY PiecesHaveRoom DEF Laid, WritingLaid, Ends, Domains, Places
<1>2. pos \in Nat
  BY DEF Domains, Places
<1>3. ASSUME NEW s, Ours(s) PROVE s \in Nat /\ s < pos
  <2>1. CASE s \in DOMAIN array
    BY <1>1, <1>2, <2>1
  <2>2. CASE IsTail(s)
    <3>1. PICK a \in DOMAIN array : /\ What(a) = "instr" /\ instr[array[a].instr].jump # NULL
                                    /\ s = a + Bytes(array[a].instr) - 2
      BY <2>2 DEF IsTail
    <3>2. Bytes(array[a].instr) \in Nat /\ Bytes(array[a].instr) > 2
      BY <1>1, <3>1, GraphIsSound DEF GraphFacts, PieceOK
    <3>3. Extent(a) = Bytes(array[a].instr)
      BY <3>1, ExtentFacts
    <3> QED
      BY <1>1, <1>2, <3>1, <3>2, <3>3
  <2> QED
    BY <1>3, <2>1, <2>2 DEF Ours
<1>4. ASSUME NEW r \in Relocs PROVE Ours(r.offset)
  <2>1. PICK k \in DOMAIN relocq : r = relocq[k]
    BY DEF Relocs
  <2>2. Relocatable(relocq[k].offset)
    BY DEF Laid, Writing, Failed
  <2> QED
    BY <2>1, <2>2 DEF Relocatable, Ours
<1> QED
  BY <1>3, <1>4

(* A piece at the end of the file touches nothing. *)
LEMMA EndGrows ==
  ASSUME Domains, Laid, pc \in Writing, UNCHANGED const,
         NEW k \in Nat, pos <= k, NEW v, array' = Put(array, k, v),
         Relocs \subseteq Relocs', \A r \in Relocs' \ Relocs : r.offset >= pos
  PROVE  FileGrows /\ DOMAIN array' = DOMAIN array \cup {k} /\ array'[k] = v
<1>1. k \notin DOMAIN array
  BY AtTheEnd
<1>2. Kept /\ DOMAIN array' = DOMAIN array \cup {k} /\ array'[k] = v
  BY <1>1, FreshIsKept
<1>3. pos \in Nat /\ pc \notin Linking
  BY DEF Domains, Places, Writing, Linking
<1>4. ASSUME NEW s, Ours(s) PROVE Untouched(s)
  <2>1. s \in Nat /\ s < pos
    BY <1>4, OursIsBefore
  <2>2. ASSUME NEW r, r.offset = s PROVE r \in Relocs' <=> r \in Relocs
    BY <1>3, <2>1, <2>2
  <2> QED
    BY <1>2, <2>2 DEF Untouched, Kept
<1> QED
  BY <1>2, <1>3, <1>4, UntouchedGrows

(* Steps that leave the file and the relocations alone. *)
LEMMA SameGrows ==
  ASSUME UNCHANGED <<const, array, relocq, offsets>>, pc \in Linking => pc' \in Linking
  PROVE  FileGrows
BY UntouchedGrows DEF Untouched, Relocs

LEMMA FileInit == Init => FileInv
<1> SUFFICES ASSUME Init PROVE FileInv
  OBVIOUS
<1>1. /\ DOMAIN array = {} /\ DOMAIN idtoheaderq = {} /\ pc = "start"
      /\ header_table_offset = 0
  BY DEF Init
<1> QED
  BY <1>1 DEF FileInv, HeadersLaid, HeaderRefs, TailsLaid, Writing, Linking

LEMMA FileStart ==
  ASSUME Domains, Laid, FileInv, Start, ~Fail
  PROVE  FileInv'
<1>1. /\ pc = "start" /\ pc' = "headers" /\ array = <<>> /\ idtoheaderq = <<>>
      /\ UNCHANGED <<const, todo, idtoheaderq, header_table_offset>>
      /\ array' = Put(array, Top, EofMark) /\ header_table_offset = 0
      /\ todo = DOMAIN iscript.headers
  BY DEF Start, Laid, coder, queues, FileInv
<1>2. HeaderRefs' = {} /\ Queued' = {}
  BY <1>1 DEF HeaderRefs, Queued
<1>3. DOMAIN program.headers = todo /\ program' = program
  BY <1>1, SameGraph, GraphIsSound DEF GraphFacts
<1>4. TailsLaid'
  <2>1. PICK v : v = EofMark
    OBVIOUS
  <2>2. PICK k : k = Top
    OBVIOUS
  <2>3. k \notin DOMAIN array /\ array' = Put(array, k, v) /\ \A x : v # InstrMark(x)
    BY <1>1, <2>1, <2>2, MarkFacts
  <2>4. \A a, x : IsInstrAt(a, x)' => IsInstrAt(a, x)
    BY <1>1, <2>3, FreshPiece
  <2>5. \A a, x : ~IsInstrAt(a, x)
    BY <1>1 DEF IsInstrAt
  <2>6. \A a, x : ~IsInstrAt(a, x)'
    BY <2>4, <2>5
  <2> QED
    BY <2>6 DEF TailsLaid
<1> QED
  BY <1>1, <1>2, <1>3, <1>4 DEF FileInv, HeadersLaid, Writing, Linking

LEMMA FileHeader ==
  ASSUME Domains, Laid, FileInv, NEW h \in todo, WriteHeader(h), ~Fail
  PROVE  FileInv'
<1>1. /\ pc = "headers" /\ pc' = "slots" /\ hdr' = h /\ animno' = 1 /\ todo' = todo \ {h}
      /\ pc \in Writing /\ pc' \in Writing /\ pc' \notin {"table"} \cup Linking
      /\ array' = Put(array, Aligned, HeaderMark(h)) /\ pos' = Aligned + 8
      /\ idtoheaderq' = Append(idtoheaderq, [id |-> h, offset |-> Aligned])
      /\ UNCHANGED <<const, relocq, header_table_offset>>
  BY DEF WriteHeader, Writing, Linking
<1>2. PICK k \in Nat : k = Aligned /\ pos <= k
  BY AlignedFacts DEF Domains, Places, Aligned
<1>3. PICK v : v = HeaderMark(h)
  OBVIOUS
<1>4. h \in DOMAIN program.headers
  BY DEF Domains, Control
<1>5. FileGrows /\ DOMAIN array' = DOMAIN array \cup {k} /\ array'[k] = v
  <2>1. Relocs' = Relocs
    BY <1>1 DEF Relocs
  <2> QED
    BY <1>1, <1>2, <1>3, <2>1, EndGrows
<1>6. SameCode
  <2>1. NoInstr(v) /\ k \notin DOMAIN array
    BY <1>1, <1>2, <1>3, MarkFacts, AtTheEnd DEF NoInstr
  <2> QED
    BY <1>1, <1>2, <1>3, <2>1, FreshCode
<1>7. PICK q \in [id : DOMAIN program.headers, offset : Nat] : q.id = h /\ q.offset = k
                                                     /\ q = [id |-> h, offset |-> Aligned]
  BY <1>2, <1>4
<1>8. HeaderRefs' = HeaderRefs \cup {q}
  BY <1>1, <1>7, HeaderRefsAppend
<1>9. /\ Queued = DOMAIN program.headers \ todo /\ HeadersLaid /\ TailsLaid
      /\ header_table_offset = 0
  BY <1>1 DEF FileInv, Failed
<1>10. Queued' = DOMAIN program.headers \ todo' /\ program' = program
  BY <1>1, <1>4, <1>7, <1>8, <1>9, SameGraph DEF Queued
<1>11. TailsLaid'
  BY <1>1, <1>5, <1>6, <1>9, TailsKept
<1>12. ASSUME NEW p \in HeaderRefs, NEW g, g = p.id, NEW o, o = p.offset
       PROVE  HeaderAt(g, o)'
  <2>1. g # h
    BY <1>9, <1>12 DEF Queued
  <2>2. HeaderAt(g, o)
    BY <1>9, <1>12 DEF HeadersLaid
  <2> QED
    BY <1>1, <1>5, <2>1, <2>2, HeaderKept DEF InSlots
<1>13. HeaderAt(h, k)'
  <2>1. array'[k] = HeaderMark(h)' /\ k \in DOMAIN array'
    BY <1>1, <1>3, <1>5, SameGraph
  <2>2. pos' = Slot(k, animno)'
    BY <1>1, <1>2 DEF Slot
  <2>3. \A i \in DOMAIN Entries0(h)' : ~(i < animno')
    <3>1. \A i \in DOMAIN Entries0(h) : i \in Nat /\ i >= 1
      BY <1>4, AnimsCounted
    <3> QED
      BY <1>1, <3>1, SameGraph
  <2>4. InSlots(h)'
    BY <1>1 DEF InSlots
  <2> QED
    BY <2>1, <2>2, <2>3, <2>4 DEF HeaderAt
<1>14. HeadersLaid'
  <2> SUFFICES ASSUME NEW p \in HeaderRefs', NEW g, g = p.id, NEW o, o = p.offset
               PROVE  HeaderAt(g, o)'
    BY DEF HeadersLaid
  <2> QED
    BY <1>7, <1>8, <1>12, <1>13
<1> QED
  BY <1>1, <1>9, <1>10, <1>11, <1>14 DEF FileInv, Linking

(* The new slot of the header that is being written. *)
LEMMA FileSlot ==
  ASSUME Domains, Laid, FileInv, WriteSlot, ~Fail
  PROVE  FileInv'
<1> DEFINE e == Entries0(hdr)[animno]
<1>1. /\ pc = "slots" /\ pc' = pc /\ UNCHANGED <<const, hdr, todo, idtoheaderq,
                                                 header_table_offset>>
      /\ pc \in Writing /\ pc' \notin {"table"} \cup Linking
      /\ array' = Put(array, pos, Address(0)) /\ pos' = pos + 2 /\ animno' = animno + 1
      /\ relocq' = IF e = NULL THEN relocq
                   ELSE Append(relocq, [id |-> label[e].id, offset |-> pos])
      /\ animno \in DOMAIN Entries0(hdr)
  BY DEF WriteSlot, Writing, Linking
<1>2. PICK k \in Nat : k = pos
  BY DEF Domains, Places
<1>3. PICK v : v = Address(0)
  OBVIOUS
<1>4. PICK l : l = e
  OBVIOUS
<1>5. hdr \in DOMAIN program.headers /\ hdr \notin todo
      /\ (l # NULL => l \in DOMAIN label /\ label[l].id \in Nat)
  <2>1. hdr \in DOMAIN program.headers /\ hdr \notin todo
    BY <1>1 DEF Domains, Control, InHeader
  <2> QED
    BY <1>1, <1>4, <2>1, GraphIsSound DEF GraphFacts
<1> HIDE DEF e
<1>6. \/ l = NULL /\ Relocs' = Relocs
      \/ /\ l # NULL
         /\ \E r : r.offset = k /\ r.id = label[l].id /\ Relocs' = Relocs \cup {r}
  <2>1. CASE l = NULL
    BY <1>1, <1>4, <2>1 DEF Relocs
  <2>2. CASE l # NULL
    <3>0. PICK id \in Nat : id = label[l].id
      BY <1>5, <2>2
    <3>1. PICK r \in [id : Nat, offset : Nat] : /\ r = [id |-> id, offset |-> k]
                                                /\ r.id = id /\ r.offset = k
      BY RelocRecord
    <3>2. relocq' = Append(relocq, r)
      BY <1>1, <1>2, <1>4, <2>2, <3>0, <3>1
    <3>3. Relocs' = Relocs \cup {r}
      BY <3>2, RelocsAppend
    <3> QED
      BY <2>2, <3>0, <3>1, <3>3
  <2> QED
    BY <2>1, <2>2
<1>7. FileGrows /\ DOMAIN array' = DOMAIN array \cup {k} /\ array'[k] = v
  <2>1. Relocs \subseteq Relocs' /\ \A r \in Relocs' \ Relocs : r.offset >= pos
    BY <1>2, <1>6
  <2>2. array' = Put(array, k, v) /\ pos <= k
    BY <1>1, <1>2, <1>3
  <2> QED
    BY <1>1, <2>1, <2>2, EndGrows
<1>8. SameCode
  <2>1. NoInstr(v) /\ k \notin DOMAIN array
    BY <1>1, <1>2, <1>3, MarkFacts, AtTheEnd DEF NoInstr
  <2> QED
    BY <1>1, <1>2, <1>3, <2>1, FreshCode
<1>9. /\ Queued = DOMAIN program.headers \ todo /\ HeadersLaid /\ TailsLaid
      /\ header_table_offset = 0
  BY <1>1 DEF FileInv, Failed
<1>10. TailsLaid'
  BY <1>1, <1>7, <1>8, <1>9, TailsKept
<1>11. HeaderRefs' = HeaderRefs /\ Queued' = Queued /\ program' = program
  BY <1>1, SameGraph DEF HeaderRefs, Queued
<1>12. SlotIsFilled(k, l)'
  <2>1. k \in DOMAIN array' /\ What(k)' = "address" /\ array'[k] = Address(0)'
    BY <1>3, <1>7, MarkFacts DEF What, Address
  <2>2. \A r \in Relocs : r.offset # k
    BY <1>1, <1>2, OursIsBefore
  <2>3. CASE l = NULL
    BY <1>6, <2>1, <2>2, <2>3 DEF SlotIsFilled, Empty, Pending
  <2>4. CASE l # NULL
    <3>1. PICK r : r.offset = k /\ r.id = label[l].id /\ Relocs' = Relocs \cup {r}
      BY <1>6, <2>4
    <3>2. label' = label
      BY <1>1, SameGraph
    <3>3. RefersTo(k, l)'
      BY <2>2, <3>1, <3>2 DEF RefersTo, Pending
    <3> QED
      BY <2>1, <2>4, <3>3 DEF SlotIsFilled
  <2> QED
    BY <2>3, <2>4
<1>13. ASSUME NEW h, NEW o, HeaderAt(h, o) PROVE HeaderAt(h, o)'
  <2>1. CASE h # hdr
    BY <1>1, <1>7, <1>13, <2>1, HeaderKept DEF InSlots
  <2>2. CASE h = hdr
    <3>1. InSlots(h) /\ InSlots(h)'
      BY <1>1, <2>2 DEF InSlots
    <3>2. k = Slot(o, animno) /\ o \in DOMAIN array /\ array[o] = HeaderMark(h)
      BY <1>2, <1>13, <3>1 DEF HeaderAt
    <3>3. o \in DOMAIN array' /\ array'[o] = HeaderMark(h)
      BY <1>7, <3>2, MarkFacts DEF FileGrows, MarksKept, What
    <3>4. HeaderMark(h)' = HeaderMark(h) /\ Entries0(h)' = Entries0(h)
      BY <1>1, SameGraph
    <3>5. PICK n \in Nat : n = animno
      BY DEF Domains, Control
    <3>6. o \in Nat
      BY <3>2 DEF Domains, Places
    <3>7. pos' = Slot(o, animno)'
      BY <1>1, <1>2, <3>2, <3>5, <3>6 DEF Slot
    <3>8. ASSUME NEW i \in DOMAIN Entries0(h), i < animno',
                 NEW s, s = Slot(o, i), NEW m, m = Entries0(h)[i]
          PROVE  SlotIsFilled(s, m)'
      <4>1. i \in Nat
        BY <1>5, <2>2, AnimsCounted
      <4>2. CASE i = n
        BY <1>4, <1>12, <2>2, <3>2, <3>5, <3>8, <4>2 DEF e
      <4>3. CASE i # n
        <5>1. i < animno
          BY <1>1, <3>5, <3>8, <4>1, <4>3
        <5>2. SlotIsFilled(s, m)
          BY <1>13, <3>8, <5>1 DEF HeaderAt
        <5> QED
          BY <1>1, <1>7, <5>2, SlotKept
      <4> QED
        BY <4>2, <4>3
    <3>9. \A i \in DOMAIN Entries0(h)' :
            i < animno' => SlotIsFilled(Slot(o, i), Entries0(h)[i])'
      <4> SUFFICES ASSUME NEW i \in DOMAIN Entries0(h), i < animno'
                   PROVE  SlotIsFilled(Slot(o, i), Entries0(h)[i])'
        BY <3>4
      <4>1. PICK s : s = Slot(o, i)
        OBVIOUS
      <4>2. PICK m : m = Entries0(h)[i]
        OBVIOUS
      <4>3. s = Slot(o, i)' /\ m = Entries0(h)[i]'
        BY <3>4, <4>1, <4>2 DEF Slot
      <4> QED
        BY <3>8, <4>1, <4>2, <4>3
    <3> QED
      BY <3>1, <3>3, <3>4, <3>7, <3>9 DEF HeaderAt
  <2> QED
    BY <2>1, <2>2
<1>14. HeadersLaid'
  <2> SUFFICES ASSUME NEW q \in HeaderRefs, NEW h, h = q.id, NEW o, o = q.offset
               PROVE  HeaderAt(h, o)'
    BY <1>11 DEF HeadersLaid
  <2> QED
    BY <1>9, <1>13 DEF HeadersLaid
<1> QED
  BY <1>1, <1>9, <1>10, <1>11, <1>14 DEF FileInv, Linking

(* Steps of the enumeration that write nothing. *)
LEMMA FileSilent ==
  ASSUME Domains, FileInv, pc \in Writing, pc' \in Writing \ {"slots"},
         UNCHANGED <<const, array, todo, hdr, idtoheaderq, relocq, header_table_offset>>,
         pc = "slots" => animno \notin DOMAIN Entries0(hdr)
  PROVE  FileInv'
<1>1. pc \notin Linking /\ pc' \notin {"table"} \cup Linking /\ pc \notin Failed
  BY DEF Writing, Linking, Failed
<1>2. FileGrows /\ SameCode
  <2>1. \A s : Untouched(s)
    BY DEF Untouched, Relocs
  <2>2. FileGrows
    BY <1>1, <2>1, UntouchedGrows
  <2> QED
    BY <2>2, SameFile DEF SameArray, SameCode
<1>3. /\ Queued = DOMAIN program.headers \ todo /\ HeadersLaid /\ TailsLaid
      /\ header_table_offset = 0
  BY <1>1 DEF FileInv
<1>4. HeaderRefs' = HeaderRefs /\ Queued' = Queued /\ program' = program
  BY SameGraph DEF HeaderRefs, Queued
<1>5. ASSUME NEW h, InSlots(h) PROVE \A i \in DOMAIN Entries0(h) : i < animno
  <2>1. h = hdr /\ pc = "slots" /\ h \in DOMAIN program.headers
    BY <1>5 DEF InSlots, Domains, Control, InHeader
  <2> QED
    BY <2>1, AnimsCounted
<1>6. \A h : ~InSlots(h)'
  BY DEF InSlots
<1>7. HeadersLaid'
  <2>1. \A q \in HeaderRefs : HeaderAt(q.id, q.offset)'
    BY <1>2, <1>3, <1>5, <1>6, HeadersKept
  <2> QED
    BY <1>4, <2>1 DEF HeadersLaid
<1>8. TailsLaid'
  BY <1>2, <1>3, TailsKept
<1> QED
  BY <1>1, <1>3, <1>4, <1>7, <1>8 DEF FileInv, Linking

LEMMA FileInstr ==
  ASSUME Domains, Laid, FileInv, WriteInstr, ~Fail
  PROVE  FileInv'
<1> DEFINE e == instr[bc].jump
           end == pos + Bytes(bc)
<1>1. /\ pc = "code" /\ pc' = pc /\ UNCHANGED <<const, hdr, todo, idtoheaderq,
                                                header_table_offset>>
      /\ pc \in Writing /\ pc' \notin {"table"} \cup Linking
      /\ array' = Put(array, pos, InstrMark(bc)) /\ pos' = end
      /\ relocq' = IF e = NULL THEN relocq
                   ELSE Append(relocq, [id |-> label[e].id, offset |-> RelocAt(end)])
  BY DEF WriteInstr, Writing, Linking
<1>2. PICK x \in DOMAIN instr : x = bc
  BY DEF WriteInstr, Domains, Control
<1>3. PICK k \in Nat : k = pos
  BY DEF Domains, Places
<1>4. PICK v : v = InstrMark(x)
  OBVIOUS
<1>5. PICK j : j = instr[x].jump
  OBVIOUS
<1>6. Bytes(x) \in Nat /\ (j # NULL => /\ j \in DOMAIN label /\ label[j].id \in Nat
                                       /\ Bytes(x) > 2)
  BY <1>5, GraphIsSound DEF GraphFacts
<1>7. PICK s : s = k + Bytes(x) - 2
  OBVIOUS
<1>8. j # NULL => s \in Nat /\ s >= k /\ s = RelocAt(end)
  BY <1>2, <1>3, <1>6, <1>7 DEF RelocAt
<1> HIDE DEF e, end
<1>9. e = j
  BY <1>2, <1>5 DEF e
<1>10. \/ j = NULL /\ Relocs' = Relocs
       \/ /\ j # NULL
          /\ \E r : r.offset = s /\ r.id = label[j].id /\ Relocs' = Relocs \cup {r}
  <2>1. CASE j = NULL
    BY <1>1, <1>9, <2>1 DEF Relocs
  <2>2. CASE j # NULL
    <3>0. PICK id \in Nat : id = label[j].id
      BY <1>6, <2>2
    <3>1. s \in Nat
      BY <1>8, <2>2
    <3>2. PICK r \in [id : Nat, offset : Nat] : /\ r = [id |-> id, offset |-> s]
                                                /\ r.id = id /\ r.offset = s
      BY <3>1, RelocRecord
    <3>3. relocq' = Append(relocq, r)
      BY <1>1, <1>8, <1>9, <2>2, <3>0, <3>2
    <3>4. Relocs' = Relocs \cup {r}
      BY <3>3, RelocsAppend
    <3> QED
      BY <2>2, <3>0, <3>2, <3>4
  <2> QED
    BY <2>1, <2>2
<1>11. FileGrows
  <2>1. Relocs \subseteq Relocs' /\ \A r \in Relocs' \ Relocs : r.offset >= pos
    BY <1>3, <1>8, <1>10
  <2>2. array' = Put(array, k, v) /\ pos <= k
    BY <1>1, <1>2, <1>3, <1>4
  <2> QED
    BY <1>1, <2>1, <2>2, EndGrows
<1>12. \A a, y : IsInstrAt(a, y)' => IsInstrAt(a, y) \/ (a = k /\ y = x)
  <2>1. k \notin DOMAIN array
    BY <1>1, <1>3, AtTheEnd
  <2>2. array' = Put(array, k, v)
    BY <1>1, <1>2, <1>3, <1>4
  <2>3. \A a, y : IsInstrAt(a, y)' => IsInstrAt(a, y) \/ (a = k /\ v = InstrMark(y))
    BY <1>1, <2>1, <2>2, FreshPiece
  <2>4. \A y : v = InstrMark(y) => y = x
    BY <1>4, MarkFacts
  <2> QED
    BY <2>3, <2>4
<1>13. /\ Queued = DOMAIN program.headers \ todo /\ HeadersLaid /\ TailsLaid
       /\ header_table_offset = 0
  BY <1>1 DEF FileInv, Failed
<1>14. HeaderRefs' = HeaderRefs /\ Queued' = Queued /\ program' = program
  BY <1>1, SameGraph DEF HeaderRefs, Queued
<1>15. HeadersLaid'
  <2>1. \A h : ~InSlots(h) /\ ~InSlots(h)'
    BY <1>1 DEF InSlots
  <2>2. \A q \in HeaderRefs : HeaderAt(q.id, q.offset)'
    BY <1>1, <1>11, <1>13, <2>1, HeadersKept
  <2> QED
    BY <1>14, <2>2 DEF HeadersLaid
<1>16. TailsLaid'
  <2>1. instr' = instr /\ label' = label /\ \A y : Bytes(y)' = Bytes(y)
    BY <1>1, SameGraph
  <2> SUFFICES ASSUME NEW y \in DOMAIN instr, NEW a, IsInstrAt(a, y)', instr[y].jump # NULL,
                      NEW m, m = instr[y].jump, NEW t, t = a + Bytes(y) - 2
               PROVE  RefersTo(t, m)'
    BY <2>1 DEF TailsLaid
  <2>2. CASE IsInstrAt(a, y)
    BY <1>11, <1>13, <2>2, TailKept
  <2>3. CASE a = k /\ y = x
    <3>1. t = s /\ m = j /\ j # NULL
      BY <1>5, <1>7, <2>3
    <3>2. PICK r : r.offset = s /\ r.id = label[j].id /\ Relocs' = Relocs \cup {r}
      BY <1>10, <3>1
    <3>3. \A p \in Relocs : p.offset # s
      <4>1. \A p \in Relocs : p.offset < pos
        BY <1>1, OursIsBefore
      <4>2. s \in Nat /\ s >= pos /\ pos \in Nat
        BY <1>3, <1>8, <3>1
      <4>3. ASSUME NEW p \in Relocs, p.offset = s PROVE FALSE
        <5>1. s < pos
          BY <4>1, <4>3
        <5> QED
          BY <4>2, <5>1
      <4> QED
        BY <4>3
    <3>4. \A p \in Relocs' : p.offset = s => p.id = label[j].id
      BY <3>2, <3>3
    <3>5. Pending(s)'
      BY <3>2 DEF Pending
    <3> QED
      BY <2>1, <3>1, <3>4, <3>5 DEF RefersTo
  <2> QED
    BY <1>12, <2>2, <2>3
<1> QED
  BY <1>1, <1>13, <1>14, <1>15, <1>16 DEF FileInv, Linking

(* The table. *)
LEMMA EntryKept ==
  ASSUME UNCHANGED const, FileGrows, NEW a, EntryOK(a), pc # "slots", pc' # "slots"
  PROVE  EntryOK(a)' /\ array'[a] = array[a]
<1>1. a \in DOMAIN array' /\ What(a)' = "entry" /\ array'[a] = array[a]
  BY DEF EntryOK, FileGrows, MarksKept
<1>2. PICK h : h = array[a].id
  OBVIOUS
<1>3. PICK o : o = array[a].offset
  OBVIOUS
<1>4. HeaderAt(h, o) /\ h \in DOMAIN program.headers
  BY <1>2, <1>3 DEF EntryOK
<1>5. HeaderAt(h, o)'
  BY <1>4, HeaderKept DEF InSlots
<1>6. h = array'[a].id /\ o = array'[a].offset /\ program' = program
  BY <1>1, <1>2, <1>3, SameGraph
<1> QED
  BY <1>1, <1>4, <1>5, <1>6 DEF EntryOK

LEMMA EofKept ==
  ASSUME FileGrows, NEW a, IsEof(a)
  PROVE  IsEof(a)'
BY MarkFacts DEF FileGrows, MarksKept, IsEof, What, EofMark

LEMMA TableSame ==
  ASSUME UNCHANGED <<const, idtoheaderq, header_table_offset>>
  PROVE  /\ Written' = Written /\ HeaderRefs' = HeaderRefs /\ Queued' = Queued
         /\ \A k : EntryAt(k)' = EntryAt(k)
BY SameGraph DEF Written, HeaderRefs, Queued, EntryAt

LEMMA TableKept ==
  ASSUME UNCHANGED <<const, idtoheaderq, header_table_offset>>, FileGrows, TableInv,
         pc \in {"table"} \cup Linking, pc' \in {"table"} \cup Linking,
         pc' = "table" => pc = "table" /\ pos' = pos, pc' \in Linking => pc \in Linking
  PROVE  TableInv'
<1>1. /\ Written' = Written /\ Queued' = Queued /\ program' = program
      /\ \A k : EntryAt(k)' = EntryAt(k)
  BY TableSame, SameGraph
<1>2. pc # "slots" /\ pc' # "slots"
  BY DEF Linking
<1>3. ASSUME NEW k \in 1 .. Written, NEW a, a = EntryAt(k)
      PROVE  EntryOK(a)' /\ array'[a] = array[a]
  <2>1. EntryOK(a)
    BY <1>3 DEF TableInv
  <2> QED
    BY <1>2, <2>1, EntryKept
<1>4. \A k \in 1 .. Written' : EntryOK(EntryAt(k))'
  <2> SUFFICES ASSUME NEW k \in 1 .. Written, NEW a, a = EntryAt(k)
               PROVE  EntryOK(a)'
    BY <1>1
  <2> QED
    BY <1>3
<1>5. Listed' = Listed
  BY <1>1, <1>3 DEF Listed
<1>6. pc' = "table" => pos' = EntryAt(Written + 1)'
  BY <1>1 DEF TableInv, EntryAt
<1>7. pc' \in Linking => idtoheaderq' = <<>> /\ IsEof(EntryAt(Written + 1))'
  <2>1. PICK a : a = EntryAt(Written + 1)
    OBVIOUS
  <2>2. a = EntryAt(Written + 1)'
    BY <1>1, <2>1 DEF EntryAt
  <2>3. pc' \in Linking => IsEof(a)'
    BY <2>1, EofKept DEF TableInv
  <2> QED
    BY <2>2, <2>3 DEF TableInv
<1> QED
  BY <1>1, <1>4, <1>5, <1>6, <1>7 DEF TableInv

LEMMA HeadersStay ==
  ASSUME UNCHANGED const, FileGrows, HeadersLaid, HeaderRefs' \subseteq HeaderRefs,
         pc # "slots", pc' # "slots"
  PROVE  HeadersLaid'
<1>1. \A q \in HeaderRefs : HeaderAt(q.id, q.offset)'
  BY HeadersKept DEF InSlots
<1> QED
  BY <1>1 DEF HeadersLaid

LEMMA FileSeekTable ==
  ASSUME Domains, Laid, FileInv, SeekTable
  PROVE  FileInv'
<1>1. /\ pc = "headers" /\ pc' = "table" /\ todo = {} /\ todo' = todo
      /\ pc \in Writing /\ pc \notin Linking /\ pc' \notin Writing \cup Linking
      /\ UNCHANGED <<const, array, idtoheaderq, relocq, offsets>>
      /\ IF version = "STARCRAFT" THEN pos' = 0 /\ header_table_offset' = header_table_offset
         ELSE pos' = pos /\ header_table_offset' = pos
  BY DEF SeekTable, Writing, Linking, coder
<1>2. /\ Queued = DOMAIN program.headers \ todo /\ HeadersLaid /\ TailsLaid
      /\ header_table_offset = 0
  BY <1>1 DEF FileInv, Failed
<1>3. FileGrows /\ SameCode
  <2>1. FileGrows
    BY <1>1, SameGrows
  <2> QED
    BY <1>1, <2>1, SameFile DEF SameArray, SameCode
<1>4. HeaderRefs' = HeaderRefs /\ Queued' = Queued /\ program' = program
      /\ version' = version /\ iscript' = iscript
  BY <1>1, SameGraph DEF HeaderRefs, Queued
<1>5. HeadersLaid' /\ TailsLaid'
  BY <1>1, <1>2, <1>3, <1>4, HeadersStay, TailsKept
<1>6. Written' = 0
  <2>1. Cardinality(todo) + Len(idtoheaderq) = Cardinality(DOMAIN iscript.headers)
    BY <1>1 DEF Laid, WritingLaid
  <2>2. Cardinality(todo) = 0
    BY <1>1, FS_EmptySet
  <2>3. Len(idtoheaderq) \in Nat /\ Cardinality(DOMAIN iscript.headers) \in Nat
    BY TopFacts, SeqIsFunction DEF Domains, QueueTypes
  <2>4. Written' = Cardinality(DOMAIN iscript.headers) - Len(idtoheaderq)
    BY <1>1, <1>4 DEF Written
  <2> QED
    BY <2>1, <2>2, <2>3, <2>4
<1>7. TableInv'
  <2>1. pos' = EntryAt(Written + 1)'
    <3>1. header_table_offset' = pos' /\ pos' \in Nat
      BY <1>1, <1>2 DEF Domains, Places
    <3>2. \A k \in Int : EntryAt(k)' = header_table_offset' + 4 * (k - 1)
      BY DEF EntryAt
    <3>3. EntryAt(Written + 1)' = header_table_offset' + 4 * (1 - 1)
      BY <1>6, <3>2
    <3> QED
      BY <3>1, <3>3
  <2>2. 1 .. Written' = {}
    BY <1>6
  <2>3. Listed' = {}
    BY <2>2 DEF Listed
  <2> QED
    BY <1>1, <1>2, <1>4, <1>6, <2>1, <2>2, <2>3 DEF TableInv
<1> QED
  BY <1>1, <1>2, <1>4, <1>5, <1>7 DEF FileInv, Linking

LEMMA FileEntry ==
  ASSUME Domains, Laid, FileInv, WriteEntry, ~Fail
  PROVE  FileInv'
<1> DEFINE p == Head(idtoheaderq)
<1>1. /\ pc = "table" /\ pc' = "table" /\ idtoheaderq # <<>>
      /\ idtoheaderq' = Tail(idtoheaderq) /\ pos' = pos + 4
      /\ array' = Put(array, pos, [what |-> "entry", id |-> p.id, offset |-> p.offset])
      /\ UNCHANGED <<const, todo, relocq, header_table_offset, offsets>>
      /\ pc \notin Linking /\ pc' \notin Writing \cup Linking
  BY DEF WriteEntry, coder, Writing, Linking
<1>2. /\ HeaderRefs = HeaderRefs' \cup {p}
      /\ Len(idtoheaderq) \in Nat /\ Len(idtoheaderq') = Len(idtoheaderq) - 1
  BY <1>1, HeaderRefsTail
<1> HIDE DEF p
<1>3. PICK v : v = [what |-> "entry", id |-> p.id, offset |-> p.offset]
  OBVIOUS
<1>4. PICK k \in Nat : k = pos
  BY DEF Domains, Places
<1>5. v.what = "entry" /\ v.id = p.id /\ v.offset = p.offset /\ array' = Put(array, k, v)
  BY <1>1, <1>3, <1>4
<1>6. k \notin DOMAIN array
  BY <1>4, EntryIsFresh
<1>7. Kept /\ DOMAIN array' = DOMAIN array \cup {k} /\ array'[k] = v
  BY <1>5, <1>6, FreshIsKept
<1>8. SameCode
  <2>1. NoInstr(v)
    BY <1>5, MarkFacts DEF NoInstr
  <2> QED
    BY <1>1, <1>5, <1>6, <2>1, FreshCode
<1>9. FileGrows
  <2>1. \A s : Untouched(s)
    BY <1>1, <1>7 DEF Untouched, Kept, Relocs
  <2> QED
    BY <1>1, <2>1, UntouchedGrows
<1>10. HeadersLaid /\ TailsLaid /\ (version = "STARCRAFT" => header_table_offset = 0)
       /\ todo = {} /\ TableInv
  BY <1>1 DEF FileInv, Failed
<1>11. HeadersLaid' /\ TailsLaid'
  BY <1>1, <1>2, <1>8, <1>9, <1>10, HeadersStay, TailsKept
<1>12. program' = program /\ version' = version /\ iscript' = iscript
       /\ \A n : EntryAt(n)' = EntryAt(n)
  BY <1>1, SameGraph DEF EntryAt
<1>13. PICK w \in Int : w = Written /\ Written' = w + 1
  <2>1. Cardinality(DOMAIN iscript.headers) \in Nat
    BY TopFacts
  <2> QED
    BY <1>2, <1>12, <2>1 DEF Written
<1>14. k = EntryAt(w + 1) /\ header_table_offset \in Nat
  BY <1>1, <1>4, <1>10, <1>13 DEF TableInv, Domains, Places
<1>15. ASSUME NEW n \in 1 .. w, NEW a, a = EntryAt(n)
       PROVE  EntryOK(a)' /\ array'[a] = array[a]
  <2>1. EntryOK(a)
    BY <1>10, <1>13, <1>15 DEF TableInv
  <2> QED
    BY <1>1, <1>9, <2>1, EntryKept
<1>16. p.id \in DOMAIN program.headers /\ HeaderAt(p.id, p.offset)
  <2>1. p \in HeaderRefs
    BY <1>2
  <2>2. Queued \subseteq DOMAIN program.headers
    BY <1>10 DEF TableInv
  <2> QED
    BY <1>10, <2>1, <2>2 DEF HeadersLaid, Queued
<1>17. EntryOK(k)'
  <2>1. PICK h : h = p.id
    OBVIOUS
  <2>2. PICK o : o = p.offset
    OBVIOUS
  <2>3. HeaderAt(h, o)'
    BY <1>1, <1>9, <1>16, <2>1, <2>2, HeaderKept DEF InSlots
  <2>4. array'[k].id = h /\ array'[k].offset = o /\ array'[k].what = "entry"
        /\ k \in DOMAIN array'
    BY <1>5, <1>7, <2>1, <2>2
  <2> QED
    BY <1>12, <1>16, <2>1, <2>3, <2>4 DEF EntryOK, What
<1>18. \A n \in 1 .. Written' : n \in 1 .. w \/ n = w + 1
  BY <1>13
<1>19. \A n \in 1 .. Written' : EntryOK(EntryAt(n))'
  <2> SUFFICES ASSUME NEW n \in 1 .. Written', NEW a, a = EntryAt(n)
               PROVE  EntryOK(a)'
    BY <1>12
  <2> QED
    BY <1>14, <1>15, <1>17, <1>18
<1>20. Listed' \cup Queued' = DOMAIN program.headers
  <2>1. Queued = Queued' \cup {p.id}
    BY <1>2 DEF Queued
  <2>2. ASSUME NEW n \in 1 .. w PROVE array'[EntryAt(n)] = array[EntryAt(n)]
    BY <1>15
  <2>3. array'[EntryAt(w + 1)].id = p.id
    BY <1>5, <1>7, <1>14
  <2>4. Listed \subseteq Listed'
    <3>1. 1 .. w \subseteq 1 .. Written'
      BY <1>13
    <3> QED
      BY <1>12, <1>13, <2>2, <3>1 DEF Listed
  <2>5. w \in Nat => p.id \in Listed'
    <3>1. w \in Nat => w + 1 \in 1 .. Written'
      BY <1>13
    <3> QED
      BY <1>12, <2>3, <3>1 DEF Listed
  <2>6. Listed' \subseteq Listed \cup {p.id}
    BY <1>12, <1>13, <1>18, <2>2, <2>3 DEF Listed
  <2>7. w \in Nat
    BY <1>10, <1>13 DEF TableInv
  <2> QED
    BY <1>10, <2>1, <2>4, <2>5, <2>6, <2>7 DEF TableInv
<1>21. TableInv'
  <2>1. pos' = EntryAt(Written + 1)'
    BY <1>1, <1>4, <1>13, <1>14 DEF EntryAt
  <2> QED
    BY <1>1, <1>10, <1>12, <1>13, <1>19, <1>20, <2>1 DEF TableInv
<1> QED
  BY <1>1, <1>10, <1>11, <1>12, <1>21 DEF FileInv, Linking

LEMMA FileEndTable ==
  ASSUME Domains, Laid, FileInv, EndTable, ~Fail
  PROVE  FileInv'
<1>1. /\ pc = "table" /\ pc' = "relocate" /\ idtoheaderq = <<>>
      /\ array' = Put(array, pos, EofMark)
      /\ UNCHANGED <<const, todo, relocq, idtoheaderq, header_table_offset, offsets>>
      /\ pc \notin Linking /\ pc' \in Linking /\ pc' \notin Writing
  BY DEF EndTable, coder, queues, Writing, Linking
<1>2. PICK v : v = EofMark
  OBVIOUS
<1>3. PICK k \in Nat : k = pos
  BY DEF Domains, Places
<1>4. array' = Put(array, k, v) /\ NoInstr(v)
  BY <1>1, <1>2, <1>3, MarkFacts DEF NoInstr
<1>5. Kept /\ k \in DOMAIN array' /\ array'[k] = v /\ SameCode
  <2>1. CASE version = "STARCRAFT"
    <3>1. k \in DOMAIN array /\ array[k] = v
      BY <1>2, <1>3, <2>1, EndIsFresh DEF IsEof
    <3>2. SameArray
      BY <1>4, <3>1 DEF SameArray, Put
    <3> QED
      BY <1>1, <3>1, <3>2, SameFile DEF SameArray, Kept, SameCode
  <2>2. CASE version # "STARCRAFT"
    <3>1. k \notin DOMAIN array
      BY <1>3, <2>2, EndIsFresh
    <3> QED
      BY <1>1, <1>4, <3>1, FreshIsKept, FreshCode
  <2> QED
    BY <2>1, <2>2
<1>6. FileGrows
  <2>1. \A s : Untouched(s)
    BY <1>1, <1>5 DEF Untouched, Kept, Relocs
  <2> QED
    BY <1>1, <2>1, UntouchedGrows
<1>7. HeadersLaid /\ TailsLaid /\ (version = "STARCRAFT" => header_table_offset = 0)
      /\ todo = {} /\ TableInv
  BY <1>1 DEF FileInv, Failed
<1>8. /\ Written' = Written /\ Queued' = Queued /\ HeaderRefs' = HeaderRefs
      /\ program' = program /\ version' = version /\ \A n : EntryAt(n)' = EntryAt(n)
  BY <1>1, TableSame, SameGraph
<1>9. HeadersLaid' /\ TailsLaid'
  BY <1>1, <1>5, <1>6, <1>7, <1>8, HeadersStay, TailsKept
<1>10. ASSUME NEW n \in 1 .. Written, NEW a, a = EntryAt(n)
       PROVE  EntryOK(a)' /\ array'[a] = array[a]
  <2>1. EntryOK(a)
    BY <1>7, <1>10 DEF TableInv
  <2> QED
    BY <1>1, <1>6, <2>1, EntryKept
<1>11. \A n \in 1 .. Written' : EntryOK(EntryAt(n))'
  <2> SUFFICES ASSUME NEW n \in 1 .. Written, NEW a, a = EntryAt(n)
               PROVE  EntryOK(a)'
    BY <1>8
  <2> QED
    BY <1>10
<1>12. Listed' = Listed
  BY <1>8, <1>10 DEF Listed
<1>13. IsEof(EntryAt(Written + 1))'
  <2>1. k = EntryAt(Written + 1)
    BY <1>1, <1>3, <1>7 DEF TableInv
  <2>2. k = EntryAt(Written + 1)'
    BY <1>8, <2>1 DEF EntryAt
  <2>3. IsEof(k)'
    BY <1>2, <1>5 DEF IsEof, EofMark
  <2> QED
    BY <2>2, <2>3
<1>14. TableInv'
  BY <1>1, <1>7, <1>8, <1>11, <1>12, <1>13 DEF TableInv
<1> QED
  BY <1>1, <1>7, <1>8, <1>9, <1>14 DEF FileInv

LEMMA FileLinking ==
  ASSUME Domains, Laid, FileInv,
         (Relocate /\ ~Fail) \/ PointToTable \/ (MSave /\ ~GiveUp("not saved"))
  PROVE  FileInv'
<1>1. /\ pc \in Linking /\ pc' \in Linking /\ pc' \notin Writing /\ pc # "slots" /\ pc' # "slots"
      /\ pc # "table" /\ pc' # "table" /\ pc' # "start" /\ pc \notin Failed
      /\ UNCHANGED <<const, todo, idtoheaderq, header_table_offset, offsets>>
  BY DEF Relocate, PointToTable, MSave, coder, queues, Writing, Linking, Failed
<1>2. FileGrows /\ SameCode
  <2>1. CASE Relocate /\ ~Fail
    <3>1. FileGrows
      BY <2>1, RelocateGrows
    <3>2. PICK o : o = Head(relocq).offset
      OBVIOUS
    <3>3. PICK w : w = Lookup(Head(relocq).id)
      OBVIOUS
    <3>4. Relocatable(o) /\ array' = Put(array, o, Address(w)) /\ size' = size
      BY <2>1, <3>2, <3>3, HeadIsRelocatable DEF Relocate
    <3> QED
      BY <1>1, <3>1, <3>4, AddressWritten DEF Laid, SameCode
  <2>2. CASE PointToTable /\ version = "BROODWAR"
    <3>1. PICK v : v = Address(header_table_offset)
      OBVIOUS
    <3>2. PICK k : k = 0
      OBVIOUS
    <3>3. /\ array' = Put(array, k, v) /\ k \notin DOMAIN array /\ NoInstr(v)
          /\ relocq' = relocq
      BY <2>2, <3>1, <3>2, PointerIsFresh, MarkFacts DEF PointToTable, NoInstr, queues
    <3>4. Kept /\ SameCode
      BY <1>1, <3>3, FreshIsKept, FreshCode
    <3>5. \A s : Untouched(s)
      BY <3>3, <3>4 DEF Untouched, Kept, Relocs
    <3> QED
      BY <1>1, <3>4, <3>5, UntouchedGrows
  <2>3. CASE (PointToTable /\ version # "BROODWAR") \/ (MSave /\ ~GiveUp("not saved"))
    <3>1. UNCHANGED <<array, relocq>>
      BY <2>3 DEF PointToTable, MSave, mfile, queues
    <3> QED
      BY <1>1, <3>1, SameGrows, SameFile DEF SameArray, SameCode
  <2> QED
    BY <2>1, <2>2, <2>3
<1>3. HeadersLaid /\ TailsLaid /\ (version = "STARCRAFT" => header_table_offset = 0)
      /\ todo = {} /\ TableInv
  BY <1>1 DEF FileInv, Failed
<1>4. HeaderRefs' = HeaderRefs /\ version' = version
  BY <1>1, TableSame, SameGraph
<1>5. HeadersLaid' /\ TailsLaid'
  BY <1>1, <1>2, <1>3, <1>4, HeadersStay, TailsKept
<1>6. TableInv'
  BY <1>1, <1>2, <1>3, TableKept
<1>7. /\ pc' \in {"msave", "saved"} => relocq' = <<>>
      /\ pc' \in {"msave", "saved"} /\ version' = "BROODWAR" =>
           0 \in DOMAIN array' /\ array'[0] = Address(header_table_offset)'
  <2>1. CASE Relocate
    BY <2>1 DEF Relocate, Fail, GiveUp
  <2>2. CASE PointToTable
    <3>1. relocq' = <<>>
      BY <2>2 DEF PointToTable, queues
    <3>2. ASSUME version = "BROODWAR"
          PROVE  0 \in DOMAIN array' /\ array'[0] = Address(header_table_offset)
      <4>1. PICK v : v = Address(header_table_offset)
        OBVIOUS
      <4>2. array' = Put(array, 0, v)
        BY <2>2, <3>2, <4>1 DEF PointToTable
      <4> QED
        BY <4>1, <4>2 DEF Put
    <3> QED
      BY <1>1, <1>4, <3>1, <3>2 DEF Address
  <2>3. CASE MSave /\ ~GiveUp("not saved")
    <3>1. pc = "msave" /\ UNCHANGED <<array, relocq>>
      BY <2>3 DEF MSave, mfile, queues
    <3> QED
      BY <1>1, <1>4, <3>1 DEF FileInv, Address
  <2> QED
    BY <2>1, <2>2, <2>3, <1>1 DEF Failed, Fail
<1> QED
  BY <1>1, <1>3, <1>4, <1>5, <1>6, <1>7 DEF FileInv

LEMMA FileStutters ==
  ASSUME FileInv, UNCHANGED vars
  PROVE  FileInv'
<1>1. UNCHANGED <<program, version, iscript, pc, array, pos, todo, hdr, animno, offsets,
                  idtoheaderq, relocq, header_table_offset>>
  BY DEF vars, const, mfile, coder, queues
<1>2. UNCHANGED const
  BY <1>1 DEF const
<1>3. /\ instr' = instr /\ HeaderRefs' = HeaderRefs /\ Queued' = Queued /\ Written' = Written
      /\ \A h : Entries0(h)' = Entries0(h) /\ HeaderMark(h)' = HeaderMark(h)
      /\ \A x : Bytes(x)' = Bytes(x)
      /\ \A k : EntryAt(k)' = EntryAt(k)
  BY <1>1, <1>2, TableSame, SameGraph
<1>4. FileGrows /\ SameCode
  BY <1>1, <1>2, SameGrows, SameFile DEF SameArray, SameCode
<1>5. HeadersLaid => HeadersLaid'
  BY <1>1, <1>2, <1>3, <1>4, HeadersKept DEF InSlots, HeadersLaid
<1>6. TailsLaid => TailsLaid'
  BY <1>2, <1>4, TailsKept
<1>7. pc \in {"table"} \cup Linking /\ TableInv => TableInv'
  BY <1>1, <1>2, <1>4, TableKept
<1> QED
  BY <1>1, <1>3, <1>5, <1>6, <1>7 DEF FileInv, Address

LEMMA FileGivesUp ==
  ASSUME NEW why \in Failed, GiveUp(why)
  PROVE  FileInv'
BY DEF GiveUp, FileInv, Failed, Writing, Linking

LEMMA FileNext ==
  ASSUME Domains, Laid, FileInv, [Next]_vars
  PROVE  FileInv'
<1>1. CASE Fail
  BY <1>1, FileGivesUp DEF Fail, Failed
<1>2. CASE GiveUp("not saved")
  BY <1>2, FileGivesUp DEF Failed
<1>3. CASE SlotsWritten \/ NextAnim \/ HeaderWritten
  <2>1. /\ pc \in Writing /\ pc' \in Writing \ {"slots"}
        /\ UNCHANGED <<const, array, todo, hdr, idtoheaderq, relocq, header_table_offset>>
        /\ pc = "slots" => animno \notin DOMAIN Entries0(hdr)
    BY <1>3 DEF SlotsWritten, NextAnim, HeaderWritten, mfile, coder, queues, Writing
  <2> QED
    BY <2>1, FileSilent
<1>4. CASE NextLabel \/ Loop
  <2>1. /\ pc \in Writing /\ pc' \in Writing \ {"slots"}
        /\ UNCHANGED <<const, array, todo, hdr, idtoheaderq, relocq, header_table_offset>>
        /\ pc # "slots"
    BY <1>4 DEF NextLabel, Loop, mfile, queues, Writing
  <2> QED
    BY <2>1, FileSilent
<1> QED
  BY <1>1, <1>2, <1>3, <1>4, FileStart, FileHeader, FileSlot, FileInstr, FileSeekTable,
     FileEntry, FileEndTable, FileLinking, FileStutters DEF Next, Stopped

-----------------------------------------------------------------------------
(* The file that is saved. *)

FileIsLinked ==
  /\ bc = NULL /\ todoq = <<>> /\ todo = {} /\ relocq = <<>> /\ idtoheaderq = <<>>
  /\ \A l : Owed(l) <=> Placed(label[l].bc)
  /\ \A s, l : RefersTo(s, l) <=> Fixed(s, l)
  /\ \A s : ~Pending(s)

LEMMA SavedIsLinked ==
  ASSUME Domains, FileInv, pc = "saved"
  PROVE  FileIsLinked
<1>1. bc = NULL /\ todoq = <<>>
  BY DEF Domains, Control, Failed
<1>2. todo = {} /\ relocq = <<>> /\ idtoheaderq = <<>>
  BY DEF FileInv, TableInv, Linking
<1>3. \A s : ~Pending(s)
  BY <1>2 DEF Pending, Relocs
<1>4. Relocs = {}
  BY <1>2 DEF Relocs
<1>5. \A l : Owed(l) <=> Placed(label[l].bc)
  BY <1>1 DEF Owed
<1>6. \A s, l : RefersTo(s, l) <=> Fixed(s, l)
  BY <1>3, <1>4 DEF RefersTo
<1> QED
  BY <1>1, <1>2, <1>3, <1>5, <1>6 DEF FileIsLinked

LEMMA AllPlaced ==
  ASSUME Domains, CodeInv, FileInv, pc = "saved"
  PROVE  \A x \in DOMAIN instr : Placed(x)
<1> DEFINE T == {a \in CodeOf(program) : Placed(<<0, a>>)}
<1>0. /\ IsProgram(program) /\ InstrsOf(program, 0, instr) /\ LabelsIn(program, 0, label)
      /\ HeadersOf(program, 0, iscript.headers)
  BY TheGraph, SaveAssumption DEF Domains, Chosen
<1>1. FileIsLinked
  BY SavedIsLinked
<1>2. Follows /\ JumpsOwed /\ EntriesOwed
  BY DEF CodeInv, Failed
<1>3. ASSUME NEW h \in DOMAIN program.headers PROVE Entries(program, h) \subseteq T
  <2> SUFFICES ASSUME NEW e \in Entries(program, h) PROVE e \in T
    OBVIOUS
  <2>1. PICK i \in DOMAIN program.headers[h] : e = program.headers[h][i] /\ e # 0
    BY DEF Entries
  <2>2. e \in LabelsOf(program) /\ e \in CodeOf(program) /\ e \in Nat
    BY <1>0, <2>1, CodeFacts, LabelFacts, ProgramFacts
  <2>3. i \in DOMAIN Entries0(h) /\ Entries0(h)[i] = <<0, e>>
    BY <1>0, <2>1, <2>2 DEF HeadersOf, Entries0
  <2>4. <<0, e>> # NULL
    BY <2>2, NullAssumption
  <2>5. Due(h, i)
    BY <1>1, <2>3, <2>4 DEF Due, FileIsLinked, InHeader
  <2>6. Owed(<<0, e>>)
    BY <1>2, <2>3, <2>5 DEF EntriesOwed
  <2>7. label[<<0, e>>].bc = <<0, e>>
    BY <1>0, <2>2 DEF LabelsIn
  <2> QED
    BY <1>1, <2>2, <2>6, <2>7 DEF FileIsLinked
<1>4. ASSUME NEW a \in T \cap CodeOf(program) PROVE Succ(program, a) \subseteq T
  <2>1. Succ(program, a) \subseteq CodeOf(program) /\ a \in Nat
    BY <1>0, CodeFacts, ProgramFacts
  <2>2. PICK x \in DOMAIN instr : x = <<0, a>>
    BY <1>0 DEF InstrsOf
  <2>3. Placed(x)
    BY <2>2
  <2>4. FallsThrough(program, a) => a + 1 \in T
    <3> SUFFICES ASSUME FallsThrough(program, a) PROVE a + 1 \in T
      OBVIOUS
    <3>1. PICK y : y = <<0, a + 1>>
      OBVIOUS
    <3>2. instr[x].next = y /\ y # NULL
      <4>1. a + 1 \in Nat /\ y \in Nat \X Nat
        BY <2>1, <3>1
      <4>2. a \in CodeOf(program)
        OBVIOUS
      <4> QED
        BY <1>0, <2>2, <3>1, <4>1, <4>2, NullAssumption DEF InstrsOf
    <3>3. PICK b \in DOMAIN array : IsInstrAt(b, x)
      BY <2>3 DEF Placed
    <3>4. IsInstrAt(b + Bytes(x), y)
      BY <1>1, <1>2, <3>2, <3>3 DEF Follows, FileIsLinked
    <3>5. Placed(y)
      BY <3>4 DEF Placed, IsInstrAt
    <3>6. a + 1 \in CodeOf(program)
      BY <2>1 DEF Succ
    <3> QED
      BY <3>1, <3>5, <3>6
  <2>5. Jumps(program, a) => program.instr[a].target \in T
    <3> SUFFICES ASSUME Jumps(program, a), NEW t, t = program.instr[a].target PROVE t \in T
      OBVIOUS
    <3>1. t \in CodeOf(program) /\ t \in LabelsOf(program) /\ t \in Nat
      BY <1>0, LabelFacts, ProgramFacts DEF JumpsIn
    <3>2. PICK l : l = <<0, t>>
      OBVIOUS
    <3>3. instr[x].jump = l /\ l # NULL /\ label[l].bc = l
      <4>1. l \in Nat \X Nat /\ a \in CodeOf(program)
        BY <3>1, <3>2
      <4>2. instr[x].jump = l
        BY <1>0, <2>2, <3>2, <4>1 DEF InstrsOf
      <4>3. label[l].bc = l
        BY <1>0, <3>1, <3>2 DEF LabelsIn
      <4> QED
        BY <4>1, <4>2, <4>3, NullAssumption
    <3>4. Owed(l)
      BY <1>2, <2>3, <3>3 DEF JumpsOwed
    <3> QED
      BY <1>1, <3>1, <3>2, <3>3, <3>4 DEF FileIsLinked
  <2> QED
    BY <2>4, <2>5 DEF Succ
<1>5. CodeOf(program) \subseteq T
  <2> HIDE DEF T
  <2> QED
    BY <1>0, <1>3, <1>4, CodeFacts
<1> QED
  BY <1>0, <1>5 DEF InstrsOf

LEMMA NoMoreThanPlaces ==
  ASSUME NEW S, IsFiniteSet(S), NEW n \in Nat, NEW f \in [S -> 0 .. n],
         \A l, m \in S : f[l] = f[m] => l = m
  PROVE  Cardinality(S) <= n + 1
<1>1. 0 \in Int /\ n \in Int /\ ~(0 > n) /\ (n - 0) + 1 = n + 1
  OBVIOUS
<1>2. IsFiniteSet(0 .. n) /\ Cardinality(0 .. n) = n + 1
  BY <1>1, FS_Interval
<1>3. ~(Cardinality(0 .. n) < Cardinality(S))
  BY <1>2, FS_PigeonHole
<1>4. Cardinality(S) \in Nat
  BY FS_CardinalityType
<1> QED
  BY <1>2, <1>3, <1>4

(* There are no more labels than places in the file. *)
LEMMA SavedIsSmall ==
  ASSUME Domains, Laid, \A x \in DOMAIN instr : Placed(x)
  PROVE  Small
<1>1. PICK S : S = LabelsOf(program)
  OBVIOUS
<1>2. IsFiniteSet(S) /\ Cardinality(S) \in Nat
  BY <1>1, TheGraph, SaveAssumption, LabelFacts, FS_CardinalityType DEF Domains, Chosen
<1>3. \A l \in S : \E a \in DOMAIN array : IsInstrAt(a, <<0, l>>)
  <2> SUFFICES ASSUME NEW l \in S PROVE Placed(<<0, l>>)
    BY DEF Placed
  <2>1. <<0, l>> \in DOMAIN instr
    BY <1>1, TheGraph, SaveAssumption, LabelFacts DEF Domains, Chosen, InstrsOf
  <2> QED
    BY <2>1
<1>4. MaxSize \in Nat /\ MaxSize <= 65535
  BY SaveAssumption DEF SaveAssumption
<1>5. \A a \in DOMAIN array : a \in 0 .. MaxSize
  <2> SUFFICES ASSUME NEW a \in DOMAIN array PROVE a \in 0 .. MaxSize
    OBVIOUS
  <2>1. a \in Nat /\ Extent(a) \in Nat /\ Extent(a) > 0 /\ size \in Nat
    BY PiecesHaveRoom DEF Laid, Domains, Places
  <2>2. a + Extent(a) <= size /\ size <= MaxSize
    BY DEF Laid, PiecesDisjoint
  <2> QED
    BY <1>4, <2>1, <2>2
<1>6. PICK f : f = [l \in S |-> CHOOSE a \in DOMAIN array : IsInstrAt(a, <<0, l>>)]
  OBVIOUS
<1>7. \A l \in S : f[l] \in DOMAIN array /\ IsInstrAt(f[l], <<0, l>>)
  <2> SUFFICES ASSUME NEW l \in S PROVE f[l] \in DOMAIN array /\ IsInstrAt(f[l], <<0, l>>)
    OBVIOUS
  <2>1. f[l] = CHOOSE a \in DOMAIN array : IsInstrAt(a, <<0, l>>)
    BY <1>6
  <2> QED
    BY <1>3, <2>1, Zenon
<1>8. f \in [S -> 0 .. MaxSize]
  <2>1. \A l \in S : f[l] \in 0 .. MaxSize
    BY <1>5, <1>7
  <2>2. DOMAIN f = S /\ f = [l \in S |-> f[l]]
    BY <1>6
  <2> QED
    BY <2>1, <2>2
<1>9. \A l, m \in S : f[l] = f[m] => l = m
  <2> SUFFICES ASSUME NEW l \in S, NEW m \in S, f[l] = f[m] PROVE l = m
    OBVIOUS
  <2>1. InstrMark(<<0, l>>) = InstrMark(<<0, m>>)
    BY <1>7 DEF IsInstrAt
  <2>2. <<0, l>> = <<0, m>>
    BY <2>1, MarkFacts
  <2> QED
    BY <2>2
<1>10. Cardinality(S) <= MaxSize + 1
  BY <1>2, <1>4, <1>8, <1>9, NoMoreThanPlaces
<1>11. Cardinality(S) <= 2 ^ 16
  BY <1>2, <1>4, <1>10
<1> QED
  BY <1>1, <1>11 DEF Small

(* An address that has been relocated leads to the label's instruction. *)
LEMMA AddressLeads ==
  ASSUME Domains, Small, CodeInv, pc = "saved", NEW l \in DOMAIN label, NEW s, Fixed(s, l),
         Placed(label[l].bc)
  PROVE  IsInstrAt(array[s].value, label[l].bc)
<1>1. PICK b \in DOMAIN array : IsInstrAt(b, label[l].bc)
  BY DEF Placed
<1>2. Key(label[l].id) \in DOMAIN offsets /\ offsets[Key(label[l].id)] = b
  BY <1>1 DEF CodeInv, OffsetsKept, Failed
<1>3. array[s] = Address(b)
  BY <1>2 DEF Fixed, Lookup
<1>4. array[s].value = b
  BY <1>3, MarkFacts
<1> QED
  BY <1>1, <1>4

LEMMA SavedCode ==
  ASSUME Domains, Laid, CodeInv, FileInv, pc = "saved"
  PROVE  CodeIsComplete
<1> SUFFICES ASSUME NEW x \in DOMAIN instr
             PROVE  /\ Cardinality(Offsets(x)) = 1
                    /\ \A a \in Offsets(x) :
                         /\ instr[x].next # NULL => IsInstrAt(a + Bytes(x), instr[x].next)
                         /\ instr[x].jump # NULL =>
                              IsInstrAt(array[a + Bytes(x) - 2].value, label[instr[x].jump].bc)
  BY DEF CodeIsComplete
<1>1. (\A y \in DOMAIN instr : Placed(y)) /\ Small /\ FileIsLinked
  BY AllPlaced, SavedIsSmall, SavedIsLinked
<1>2. PICK b \in DOMAIN array : IsInstrAt(b, x)
  BY <1>1 DEF Placed
<1>3. Offsets(x) = {b}
  BY <1>2 DEF Offsets, CodeInv, Once, Failed
<1>4. Cardinality(Offsets(x)) = 1
  BY <1>3, FS_Singleton
<1>5. instr[x].next # NULL => IsInstrAt(b + Bytes(x), instr[x].next)
  BY <1>1, <1>2 DEF CodeInv, Follows, Failed, FileIsLinked
<1>6. ASSUME instr[x].jump # NULL
      PROVE  IsInstrAt(array[b + Bytes(x) - 2].value, label[instr[x].jump].bc)
  <2>1. PICK j \in DOMAIN label : j = instr[x].jump
    BY <1>6, GraphIsSound DEF GraphFacts
  <2>2. PICK s : s = b + Bytes(x) - 2
    OBVIOUS
  <2>3. RefersTo(s, j)
    BY <1>2, <1>6, <2>1, <2>2 DEF FileInv, TailsLaid, Failed
  <2>4. Fixed(s, j)
    BY <1>1, <2>3 DEF FileIsLinked
  <2>5. Placed(label[j].bc)
    BY <1>1, GraphIsSound DEF GraphFacts
  <2> QED
    BY <1>1, <2>1, <2>2, <2>4, <2>5, AddressLeads
<1> QED
  BY <1>3, <1>4, <1>5, <1>6

LEMMA SavedTable ==
  ASSUME Domains, Laid, CodeInv, FileInv, pc = "saved"
  PROVE  TableIsComplete
<1> DEFINE Entry(k) == array[header_table_offset + 4 * (k - 1)]
           n == Cardinality(DOMAIN iscript.headers)
<1>1. (\A y \in DOMAIN instr : Placed(y)) /\ Small /\ FileIsLinked
  BY AllPlaced, SavedIsSmall, SavedIsLinked
<1>2. TableInv /\ (version = "BROODWAR" => array[0] = Address(header_table_offset))
  BY DEF FileInv, Linking
<1>3. Written = n /\ n \in Nat
  BY <1>1, TopFacts DEF Written, FileIsLinked
<1>4. \A k : Entry(k) = array[EntryAt(k)]
  BY DEF EntryAt
<1>5. Entry(n + 1) = EofMark
  BY <1>2, <1>3, <1>4 DEF TableInv, IsEof, Linking
<1>6. {Entry(k).id : k \in 1 .. n} = DOMAIN iscript.headers
  <2>1. Queued = {}
    BY <1>1 DEF FileIsLinked, Queued, HeaderRefs
  <2>2. Listed = DOMAIN program.headers
    BY <1>2, <2>1 DEF TableInv
  <2>3. {Entry(k).id : k \in 1 .. n} = Listed
    <3>1. \A k \in 1 .. n : Entry(k) = array[EntryAt(k)]
      BY <1>4
    <3> HIDE DEF Entry, n
    <3> QED
      BY <1>3, <3>1 DEF Listed
  <2>4. DOMAIN iscript.headers = DOMAIN program.headers
    BY GraphIsSound DEF GraphFacts
  <2> QED
    BY <2>2, <2>3, <2>4
<1> HIDE DEF Entry, n
<1>7. ASSUME NEW k \in 1 .. n, NEW h, h = Entry(k).id, NEW o, o = Entry(k).offset
      PROVE  /\ Entry(k).what = "entry" /\ array[o] = HeaderMark(h)
             /\ \A i \in DOMAIN Entries0(h) :
                  LET slot == array[o + 8 + 2 * (i - 1)] IN
                  IF Entries0(h)[i] = NULL THEN slot = Address(0)
                  ELSE IsInstrAt(slot.value, label[Entries0(h)[i]].bc)
  <2>1. EntryOK(EntryAt(k))
    BY <1>2, <1>3 DEF TableInv
  <2>2. Entry(k).what = "entry" /\ HeaderAt(h, o) /\ h \in DOMAIN program.headers
    BY <1>4, <1>7, <2>1 DEF EntryOK, What
  <2>3. ASSUME NEW i \in DOMAIN Entries0(h), NEW s, s = o + 8 + 2 * (i - 1),
               NEW l, l = Entries0(h)[i]
        PROVE  IF l = NULL THEN array[s] = Address(0) ELSE IsInstrAt(array[s].value, label[l].bc)
    <3>1. SlotIsFilled(s, l)
      BY <2>2, <2>3 DEF HeaderAt, InSlots, Slot
    <3>2. CASE l = NULL
      BY <3>1, <3>2 DEF SlotIsFilled, Empty
    <3>3. CASE l # NULL
      <4>1. l \in DOMAIN label /\ label[l].bc \in DOMAIN instr
        BY <2>2, <2>3, <3>3, GraphIsSound DEF GraphFacts
      <4>2. Fixed(s, l)
        BY <1>1, <3>1, <3>3 DEF SlotIsFilled, FileIsLinked
      <4> QED
        BY <1>1, <3>3, <4>1, <4>2, AddressLeads
    <3> QED
      BY <3>2, <3>3
  <2> QED
    BY <2>2, <2>3 DEF HeaderAt
<1>8. \A k \in 1 .. n :
        LET slots == Entries0(Entry(k).id) IN
        /\ array[Entry(k).offset] = HeaderMark(Entry(k).id)
        /\ \A i \in DOMAIN slots :
             LET slot == array[Entry(k).offset + 8 + 2 * (i - 1)] IN
             IF slots[i] = NULL THEN slot = Address(0)
             ELSE IsInstrAt(slot.value, label[slots[i]].bc)
  BY <1>7
<1> QED
  BY <1>2, <1>5, <1>6, <1>7, <1>8 DEF TableIsComplete, Entry, n

Inv == Domains /\ Laid /\ CodeInv /\ FileInv

LEMMA InvInit == Init => Inv
BY DomainsInit, LaidInit, CodeInit, FileInit DEF Inv

LEMMA InvNext == Inv /\ [Next]_vars => Inv'
BY DomainsNext, LaidNext, CodeNext, FileNext DEF Inv

(* Nothing that iscript_save writes overwrites something else, and nothing *)
(* lies beyond the end of the file.                                        *)
THEOREM NothingOverwritten == Spec => []PiecesDisjoint
<1>1. Inv => PiecesDisjoint
  BY DEF Inv, Laid
<1> QED
  BY InvInit, InvNext, <1>1, PTL DEF Spec

(* A file that iscript_save saves says what the graph says: its table      *)
(* leads to every header, a header to its animations, an instruction is    *)
(* written once and followed by the one it runs into, and a jump holds the *)
(* offset of its target.                                                   *)
THEOREM SavedFileIsTheProgram == Spec => []SavedIsTheProgram
<1>1. Inv => SavedIsTheProgram
  BY SavedCode, SavedTable DEF Inv, SavedIsTheProgram
<1> QED
  BY InvInit, InvNext, <1>1, PTL DEF Spec
=============================================================================
