---------------------------- MODULE IscriptSave ----------------------------
(***************************************************************************)
(* iscript_save of iscript.c, with the memory mapped file and msave of     *)
(* scdef.c: how the object graph of an Iscript becomes an iscript.bin.     *)
(* Headers and code are written in one pass that leaves the addresses of   *)
(* labels open; a relocation queue fills them in at the end.               *)
(*                                                                         *)
(* The file is a function from offsets to what was written there: an       *)
(* instruction, a header, an entry of the table, or an address.            *)
(***************************************************************************)
EXTENDS IscriptGraph, FiniteSetsExt

CONSTANTS
  Programs,     \* the programs of the Iscripts to save
  Versions,     \* a subset of {"BROODWAR", "STARCRAFT"}
  Length,       \* the bytes of an instruction of each kind
  TableRoom,    \* ORIG_STARCRAFT_HEADER_TABLE_SIZE (0x558 in the source)
  MaxSize       \* MAX_ISCRIPT_FILE_SIZE (0xFFFF in the source)

ASSUME SaveAssumption ==
  /\ \A p \in Programs : IsProgram(p)
  /\ Versions \subseteq {"BROODWAR", "STARCRAFT"}
  /\ Length \in [Kinds -> Nat \ {0}] /\ Length["jmp"] > 2 /\ Length["cond"] > 2
  /\ TableRoom \in Nat /\ TableRoom >= 2 /\ MaxSize \in 0 .. 2^16 - 1

VARIABLES
  program, version,  \* what the Iscript was loaded from
  iscript,           \* the Iscript; it does not change
  pc,
  array, pos, size,  \* the MFILE
  todo,              \* the headers still to be written
  hdr, animno,       \* the header that is written, the animation it is at
  bc,                \* the cursor of the enumeration of instructions
  todoq,             \* the labels whose code is to be written
  symtbl_done,       \* the ids of the labels that have been written
  offsets,           \* symtbl_id_offset_hash
  idtoheaderq, relocq,
  header_table_offset, end_of_file,
  disk               \* the output file

mfile == <<array, pos, size>>
const == <<program, version, iscript>>
coder == <<hdr, animno, bc, todoq, symtbl_done, offsets>>
queues == <<idtoheaderq, relocq, header_table_offset, end_of_file>>
vars == <<const, pc, mfile, todo, coder, queues, disk>>

Init ==
  /\ program \in Programs /\ version \in Versions
  /\ iscript = LoadedGraph(program, 0)
  /\ pc = "start"
  /\ array = <<>> /\ pos = 0 /\ size = MaxSize
  /\ todo = DOMAIN program.headers
  /\ hdr = 0 /\ animno = 1 /\ bc = NULL /\ todoq = <<>>
  /\ symtbl_done = {} /\ offsets = <<>>
  /\ idtoheaderq = <<>> /\ relocq = <<>> /\ header_table_offset = 0
  /\ end_of_file = 0
  /\ disk = "before"

instr == iscript.instr
label == iscript.label
Entries0(h) == iscript.headers[h].st_entries

(* mwrite stops at the end of the file and mseek reports a position beyond *)
(* it; both make iscript_save give up, and icecc removes the output file.  *)
Fits_Short(end) == end + 2 <= size
Fits(end) == end <= size

GiveUp(why) ==
  /\ pc' = why
  /\ disk' = "none"
  /\ UNCHANGED <<const, mfile, todo, coder, queues>>
Fail == GiveUp("too big")

EofMark == [what |-> "eof"]
Address(a) == [what |-> "address", value |-> a]

(* The room for the table at the top and its 0xFFFF0000 terminator. *)
Top == IF version = "STARCRAFT" THEN 4 * Cardinality(DOMAIN iscript.headers) ELSE TableRoom

Start ==
  /\ pc = "start"
  /\ \/ ~Fits(Top + 4) /\ Fail
     \/ /\ Fits(Top + 4)
        /\ array' = Put(array, Top, EofMark)
        /\ pos' = Top + 4
        /\ pc' = "headers"
        /\ UNCHANGED <<const, size, todo, coder, queues, disk>>

Aligned == pos + (pos % 2)
HeaderMark(h) == [what |-> "header", type |-> Len(Entries0(h))]

(* "SCPE", the type and two spare bytes. *)
WriteHeader(h) ==
  /\ pc = "headers"
  /\ h \in todo
  /\ \/ ~Fits(Aligned + 8) /\ Fail
     \/ /\ Fits(Aligned + 8)
        /\ array' = Put(array, Aligned, HeaderMark(h))
        /\ pos' = Aligned + 8
        /\ idtoheaderq' = Append(idtoheaderq, [id |-> h, offset |-> Aligned])
        /\ todo' = todo \ {h}
        /\ hdr' = h /\ animno' = 1
        /\ pc' = "slots"
        /\ UNCHANGED <<const, size, bc, todoq, symtbl_done, offsets, relocq,
                       header_table_offset, end_of_file, disk>>

(* A slot for each animation: zero if there is none, to be relocated       *)
(* otherwise.                                                              *)
WriteSlot ==
  /\ pc = "slots"
  /\ animno \in DOMAIN Entries0(hdr)
  /\ LET l == Entries0(hdr)[animno] IN
     \/ ~Fits(pos + 2) /\ Fail
     \/ /\ Fits(pos + 2)
        /\ array' = Put(array, pos, Address(0))
        /\ pos' = pos + 2
        /\ relocq' = IF l = NULL THEN relocq
                     ELSE Append(relocq, [id |-> label[l].id, offset |-> pos])
        /\ animno' = animno + 1
        /\ UNCHANGED <<const, pc, size, todo, hdr, bc, todoq, symtbl_done, offsets,
                       idtoheaderq, header_table_offset, end_of_file, disk>>

SlotsWritten ==
  /\ pc = "slots"
  /\ animno \notin DOMAIN Entries0(hdr)
  /\ animno' = 1
  /\ pc' = "anims"
  /\ UNCHANGED <<const, mfile, todo, hdr, bc, todoq, symtbl_done, offsets, queues, disk>>

-----------------------------------------------------------------------------
(* The code of the header's animations, each chain of instructions from    *)
(* its absolute start.                                                     *)

NextAnim ==
  /\ pc = "anims"
  /\ animno \in DOMAIN Entries0(hdr)
  /\ animno' = animno + 1
  /\ todoq' = IF Entries0(hdr)[animno] = NULL THEN <<>> ELSE <<Entries0(hdr)[animno]>>
  /\ pc' = "code"
  /\ UNCHANGED <<const, mfile, todo, hdr, bc, symtbl_done, offsets, queues, disk>>

HeaderWritten ==
  /\ pc = "anims"
  /\ animno \notin DOMAIN Entries0(hdr)
  /\ pc' = "headers"
  /\ UNCHANGED <<const, mfile, todo, coder, queues, disk>>

(* isinstrenum_rewind *)
Rewind_Not(i) == i
Rewind(i) ==
  LET back[j \in DOMAIN instr] == IF instr[j].prev = NULL THEN j ELSE back[instr[j].prev]
  IN back[i]

NextLabel ==
  /\ pc = "code" /\ bc = NULL
  /\ IF todoq = <<>>
     THEN pc' = "anims" /\ UNCHANGED <<bc, todoq>>
     ELSE /\ bc' = Rewind(label[Head(todoq)].bc)
          /\ todoq' = Tail(todoq)
          /\ UNCHANGED pc
  /\ UNCHANGED <<const, mfile, todo, hdr, animno, symtbl_done, offsets, queues, disk>>

Done(l) == l # NULL /\ label[l].id \in symtbl_done

(* A label that has been written: the rest is a loop, so we can stop. *)
Loop ==
  /\ pc = "code" /\ bc # NULL
  /\ Done(instr[bc].st_entry)
  /\ bc' = NULL
  /\ UNCHANGED <<const, pc, mfile, todo, hdr, animno, todoq, symtbl_done, offsets, queues,
                 disk>>

(* (uint16)id, the key of symtbl_id_offset_hash *)
Key(id) == id % 2^16

InstrMark(i) == [what |-> "instr", instr |-> i]
Bytes(i) == Length[program.instr[i[2]].kind]
RelocAt_Start(end) == end
RelocAt(end) == end - 2     \* the last argument is the address

WriteInstr ==
  /\ pc = "code" /\ bc # NULL
  /\ ~Done(instr[bc].st_entry)
  /\ LET l == instr[bc].st_entry
         j == instr[bc].jump
         end == pos + Bytes(bc)
     IN \/ ~Fits(end) /\ Fail
        \/ /\ Fits(end)
           /\ IF l = NULL THEN UNCHANGED <<symtbl_done, offsets>>
              ELSE /\ symtbl_done' = symtbl_done \cup {label[l].id}
                   /\ offsets' = Put(offsets, Key(label[l].id), pos)
           /\ array' = Put(array, pos, InstrMark(bc))
           /\ pos' = end
           /\ IF j = NULL THEN UNCHANGED <<todoq, relocq>>
              ELSE /\ todoq' = Append(todoq, j)
                   /\ relocq' = Append(relocq, [id |-> label[j].id, offset |-> RelocAt(end)])
           /\ bc' = instr[bc].next
           /\ UNCHANGED <<const, pc, size, todo, hdr, animno, idtoheaderq,
                          header_table_offset, end_of_file, disk>>

-----------------------------------------------------------------------------
(* The table, the relocations, the pointer at the top and the disk. *)

SeekTable ==
  /\ pc = "headers" /\ todo = {}
  /\ IF version = "STARCRAFT"
     THEN end_of_file' = pos /\ pos' = 0 /\ UNCHANGED header_table_offset
     ELSE header_table_offset' = pos /\ UNCHANGED <<pos, end_of_file>>
  /\ pc' = "table"
  /\ UNCHANGED <<const, array, size, todo, coder, idtoheaderq, relocq, disk>>

WriteEntry ==
  /\ pc = "table" /\ idtoheaderq # <<>>
  /\ LET pair == Head(idtoheaderq) IN
     \/ ~Fits(pos + 4) /\ Fail
     \/ /\ Fits(pos + 4)
        /\ array' = Put(array, pos, [what |-> "entry", id |-> pair.id,
                                     offset |-> pair.offset])
        /\ pos' = pos + 4
        /\ idtoheaderq' = Tail(idtoheaderq)
        /\ UNCHANGED <<const, pc, size, todo, coder, relocq, header_table_offset,
                       end_of_file, disk>>

(* The terminator, back to the end of the code, and the file is cut there. *)
EndTable ==
  /\ pc = "table" /\ idtoheaderq = <<>>
  /\ \/ ~Fits(pos + 4) /\ Fail
     \/ /\ Fits(pos + 4)
        /\ array' = Put(array, pos, EofMark)
        /\ pos' = IF version = "STARCRAFT" THEN end_of_file ELSE pos + 4
        /\ size' = pos'
        /\ pc' = "relocate"
        /\ UNCHANGED <<const, todo, coder, queues, disk>>

Lookup(id) == IF Key(id) \in DOMAIN offsets THEN offsets[Key(id)] ELSE 0

Popped_Peek(q) == q
Popped(q) == Tail(q)

Relocate ==
  /\ pc = "relocate" /\ relocq # <<>>
  /\ LET r == Head(relocq) IN
       IF Fits(r.offset + 2)
       THEN /\ array' = Put(array, r.offset, Address(Lookup(r.id)))
            /\ pos' = r.offset + 2
            /\ relocq' = Popped(relocq)
            /\ UNCHANGED <<const, pc, size, todo, coder, idtoheaderq, header_table_offset,
                           end_of_file, disk>>
       ELSE Fail

PointToTable ==
  /\ pc = "relocate" /\ relocq = <<>>
  /\ IF version = "BROODWAR"
     THEN array' = Put(array, 0, Address(header_table_offset)) /\ pos' = 2
     ELSE UNCHANGED <<array, pos>>
  /\ pc' = "msave"
  /\ UNCHANGED <<const, size, todo, coder, queues, disk>>

(* msave fails if the file cannot be opened or fwrite writes less; what    *)
(* fclose returns, which writes the rest of the buffer, is not looked at.  *)
MSave ==
  /\ pc = "msave"
  /\ \/ GiveUp("not saved")
     \/ /\ disk' \in {"saved", "partial"}
        /\ pc' = "saved"
        /\ UNCHANGED <<const, mfile, todo, coder, queues>>

Stopped == pc \in {"saved", "too big", "not saved"} /\ UNCHANGED vars

Next ==
  \/ Start
  \/ \E h \in todo : WriteHeader(h)
  \/ WriteSlot \/ SlotsWritten
  \/ NextAnim \/ HeaderWritten \/ NextLabel \/ Loop \/ WriteInstr
  \/ SeekTable \/ WriteEntry \/ EndTable \/ Relocate \/ PointToTable \/ MSave \/ Stopped

Spec == Init /\ [][Next]_vars

(* iscript_save is sequential code that runs by itself. *)
FairSpec == Spec /\ WF_vars(Next)

-----------------------------------------------------------------------------
IsInstrAt(a, i) == a \in DOMAIN array /\ array[a] = InstrMark(i)
Offsets(i) == {a \in DOMAIN array : IsInstrAt(a, i)}

TableIsComplete ==
  LET Entry(k) == array[header_table_offset + 4 * (k - 1)]
      n == Cardinality(DOMAIN iscript.headers)
  IN /\ version = "BROODWAR" => array[0] = Address(header_table_offset)
     /\ \A k \in 1 .. n : Entry(k).what = "entry"
     /\ Entry(n + 1) = EofMark
     /\ {Entry(k).id : k \in 1 .. n} = DOMAIN iscript.headers
     /\ \A k \in 1 .. n :
          LET slots == Entries0(Entry(k).id) IN
          /\ array[Entry(k).offset] = HeaderMark(Entry(k).id)
          /\ \A i \in DOMAIN slots :
               LET slot == array[Entry(k).offset + 8 + 2 * (i - 1)] IN
               IF slots[i] = NULL THEN slot = Address(0)
               ELSE IsInstrAt(slot.value, label[slots[i]].bc)

CodeIsComplete ==
  \A i \in DOMAIN instr :
    /\ Cardinality(Offsets(i)) = 1
    /\ \A a \in Offsets(i) :
         /\ instr[i].next # NULL => IsInstrAt(a + Bytes(i), instr[i].next)
         /\ instr[i].jump # NULL =>
              IsInstrAt(array[a + Bytes(i) - 2].value, label[instr[i].jump].bc)

(* The file says what the graph says: the table leads to the headers, a    *)
(* header to its animations; an instruction is written once, is followed   *)
(* by the one it runs into, and a jump holds the offset of its target.     *)
SavedIsTheProgram == pc = "saved" => TableIsComplete /\ CodeIsComplete

Extent(a) ==
  CASE array[a].what = "header"  -> 8
    [] array[a].what = "instr"   -> Bytes(array[a].instr)
    [] array[a].what = "address" -> 2
    [] OTHER                     -> 4

(* Nothing that is written overwrites something else, the address of a     *)
(* jump excepted, and nothing lies beyond the end of the file.             *)
PiecesDisjoint ==
  \A a \in DOMAIN array :
    /\ a + Extent(a) <= size
    /\ \A b \in DOMAIN array : a < b =>
         \/ a + Extent(a) <= b
         \/ /\ array[a].what = "instr" /\ instr[array[a].instr].jump # NULL
            /\ array[b].what = "address" /\ b + 2 = a + Extent(a)

Needed ==
  4 + (IF version = "STARCRAFT" THEN 0 ELSE TableRoom + 4)
    + MapThenSumSet(LAMBDA h : 13 + 2 * Len(Entries0(h)), DOMAIN iscript.headers)
    + MapThenSumSet(Bytes, DOMAIN instr)

(* iscript_save calls a program too big only if it is: with every header   *)
(* aligned it would not fit.                                               *)
SavesWhatFits == pc = "too big" => Needed > MaxSize

(* Saving ends: the queues run empty, also for code that loops. *)
SaveEnds == <>(pc \in {"saved", "too big", "not saved"})
=============================================================================
