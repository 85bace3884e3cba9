---------------------------- MODULE IscriptLoad ----------------------------
(***************************************************************************)
(* iscript_new of iscript.c: how an iscript.bin file becomes a graph of    *)
(* headers, labels (symtbl entries) and instructions.  load_headers reads  *)
(* the header table and every header; init_bytecode_and_symtbl calls       *)
(* read_code for every animation of every header, then links the           *)
(* instructions in file order and rehashes the labels by id.               *)
(*                                                                         *)
(* A byte of the file is abstracted to the instruction that decoding it    *)
(* would give; an instruction and a label are named by their offset.       *)
(* The globals code, symtbl, headers and unique_id keep their names.       *)
(***************************************************************************)
EXTENDS Pointers, Integers, Sequences

CONSTANTS
  Files,            \* the iscript.bin files the loader may be given
  LocalJmpDistance  \* LOCAL_JMP_DISTANCE (0x200 in the source)

(* What a file is: its size, its header table (a table that is "short"     *)
(* lacks the EOF marker; a header that is "bad" cannot be sought to or     *)
(* read), and the instruction each offset decodes to ("bad": no opcode).   *)
IsFile(f) ==
  /\ f.size \in Nat
  /\ f.tableEnd \in {"eof", "short"}
  /\ DOMAIN f.table \subseteq Nat \ {0}
  /\ \A h \in DOMAIN f.table :
       /\ f.table[h].at \in {"ok", "bad"}
       /\ f.table[h].anims \in Nat
       /\ f.table[h].offsets \in [0 .. f.table[h].anims - 1 -> Nat]
  /\ f.instr \in [0 .. f.size - 1 ->
                    [kind : {"normal", "jmp", "cond", "term", "bad"},
                     len : Nat \ {0}, numargs : Nat, target : Nat]]

ASSUME LoadAssumption ==
  /\ NULL \notin Int
  /\ LocalJmpDistance \in Nat
  /\ \A f \in Files : IsFile(f)

VARIABLES
  file,      \* the file being read; never changes
  pc,        \* where iscript_new is
  headers,   \* the offsets array of each header of the table: "unread" and
             \* "none" (NULL), "live", "freed" (dangling), "freed twice"
  st_entries,\* the label of each animation of each header
  cur,       \* hdrptr of the walk over the headers; 0 between two headers
  animno,    \* the animation of cur being walked
  pos,       \* the position of the MFILE
  todo,      \* targets of conditional jumps still to be read
  code,      \* the instructions read, by offset
  symtbl,    \* the labels, by offset
  unique_id, \* the next label id
  li, last,  \* the link loop: its index, and the instruction that runs into it
  byid       \* the labels, by id: the table the Iscript keeps

hdrVars == <<headers, st_entries>>
walk    == <<cur, animno>>
reader  == <<pos, todo>>
graph   == <<code, symtbl, unique_id>>
links   == <<li, last, byid>>
vars    == <<file, pc, hdrVars, walk, reader, graph, links>>

PENDING == -1    \* (IsInstr *)-1, the placeholder for a next pointer

Put(f, k, v) == [x \in DOMAIN f \cup {k} |-> IF x = k THEN v ELSE f[x]]
Empty == [x \in {} |-> NULL]

Ins(a) == file.instr[a]
CanSeek_Always(a) == TRUE
CanSeek(a) == a <= file.size
Readable(a) == a < file.size /\ Ins(a).kind # "bad" /\ a + Ins(a).len <= file.size
AnimsOf(h) == 0 .. file.table[h].anims - 1
Offset(h, i) == file.table[h].offsets[i]
HasAnim_Always(h, i) == TRUE
HasAnim(h, i) == Offset(h, i) # NULL_UINT16

Init ==
  /\ file \in Files
  /\ pc = "table"
  /\ headers = [h \in DOMAIN file.table |-> "unread"]
  /\ st_entries = [h \in DOMAIN file.table |-> [i \in AnimsOf(h) |-> NULL]]
  /\ cur = 0 /\ animno = 0 /\ pos = 0
  /\ todo = <<>>
  /\ code = Empty /\ symtbl = Empty
  /\ unique_id = 0
  /\ li = 0 /\ last = NULL
  /\ byid = Empty

-----------------------------------------------------------------------------
(* load_headers.  The two loops over the headers enumerate a hash table:   *)
(* the order is left open.                                                 *)

ReadTableEntry(h) ==
  /\ pc = "table"
  /\ headers[h] = "unread"
  /\ \A g \in DOMAIN headers : g < h => headers[g] # "unread"
  /\ headers' = [headers EXCEPT ![h] = "none"]
  /\ UNCHANGED <<file, pc, st_entries, walk, reader, graph, links>>

(* err_free_headers frees every offsets array that is not NULL, which      *)
(* includes those init_bytecode_and_symtbl has freed already;              *)
(* err_free_symtbl and err_free_code free the labels and the instructions. *)
Fail ==
  /\ pc' = "error"
  /\ headers' = [h \in DOMAIN headers |-> CASE headers[h] = "live"  -> "freed"
                                            [] headers[h] = "freed" -> "freed twice"
                                            [] OTHER -> headers[h]]
  /\ symtbl' = Empty
  /\ code' = Empty
  /\ UNCHANGED <<file, st_entries, walk, reader, unique_id, links>>

TableEnd ==
  /\ pc = "table"
  /\ \A h \in DOMAIN headers : headers[h] # "unread"
  /\ \/ file.tableEnd = "short" /\ Fail
     \/ /\ file.tableEnd = "eof"
        /\ pc' = "headers"
        /\ UNCHANGED <<file, hdrVars, walk, reader, graph, links>>

ReadHeader(h) ==
  /\ pc = "headers"
  /\ headers[h] = "none"
  /\ \/ file.table[h].at = "bad" /\ Fail
     \/ /\ file.table[h].at = "ok"
        /\ headers' = [headers EXCEPT ![h] = "live"]
        /\ UNCHANGED <<file, pc, st_entries, walk, reader, graph, links>>

HeadersRead ==
  /\ pc = "headers"
  /\ \A h \in DOMAIN headers : headers[h] # "none"
  /\ pc' = "anims"
  /\ UNCHANGED <<file, hdrVars, walk, reader, graph, links>>

-----------------------------------------------------------------------------
(* new_symtbl_entry and add_to_symtbl_entry: a reference to offset a from  *)
(* an animation (anim) and, for a jump, from the instructions of jumps.    *)

AddReference_ForgetJumps(label, anim, jumps) ==
  [label EXCEPT !.anims = @ \cup {anim}]
AddReference(label, anim, jumps) ==
  [label EXCEPT !.anims = @ \cup {anim}, !.jumps = @ \cup jumps]

NewLabel(anim, jumps) ==
  [id |-> unique_id, bc |-> NULL, anims |-> {anim}, jumps |-> jumps]

NextId(a) == IF a \in DOMAIN symtbl THEN unique_id ELSE unique_id + 1

Refer(a, anim, jumps) ==
  /\ symtbl' = IF a \in DOMAIN symtbl
               THEN [symtbl EXCEPT ![a] = AddReference(@, anim, jumps)]
               ELSE Put(symtbl, a, NewLabel(anim, jumps))
  /\ unique_id' = NextId(a)

JumpType(start, a) ==
  IF a - start > LocalJmpDistance \/ start - a > LocalJmpDistance
  THEN "LONGJMP" ELSE "LOCALJMP"

Anim(n, type) == [header |-> cur, animno |-> n, type |-> type]

(* The outer loops of init_bytecode_and_symtbl. *)

EnterHeader(h) ==
  /\ pc = "anims" /\ cur = 0
  /\ headers[h] = "live"
  /\ cur' = h
  /\ animno' = 0
  /\ UNCHANGED <<file, pc, hdrVars, reader, graph, links>>

SkipAnim ==
  /\ pc = "anims" /\ cur # 0
  /\ animno \in AnimsOf(cur)
  /\ ~HasAnim(cur, animno)
  /\ animno' = animno + 1
  /\ UNCHANGED <<file, pc, hdrVars, cur, reader, graph, links>>

EnterAnim ==
  /\ pc = "anims" /\ cur # 0
  /\ animno \in AnimsOf(cur)
  /\ HasAnim(cur, animno)
  /\ LET a == Offset(cur, animno) IN
        \/ ~CanSeek(a) /\ Fail
        \/ /\ CanSeek(a)
           /\ pos' = a
           /\ todo' = <<>>
           /\ Refer(a, Anim(animno, "HEADER"), {})
           /\ st_entries' = [st_entries EXCEPT ![cur] = [@ EXCEPT ![animno] = a]]
           /\ pc' = "read"
           /\ UNCHANGED <<file, headers, walk, code, links>>

(* The offsets array of the header is freed, the pointer to it is kept. *)
LeaveHeader ==
  /\ pc = "anims" /\ cur # 0
  /\ animno \notin AnimsOf(cur)
  /\ headers' = [headers EXCEPT ![cur] = "freed"]
  /\ cur' = 0
  /\ UNCHANGED <<file, pc, st_entries, animno, reader, graph, links>>

-----------------------------------------------------------------------------
(* read_code.  Either it returns, or it continues at the next offset of    *)
(* its queue.                                                              *)

Return_Early ==
  /\ pc' = "anims"
  /\ animno' = animno + 1
  /\ todo' = <<>>
  /\ UNCHANGED pos

Return ==
  /\ todo = <<>>
  /\ pc' = "anims"
  /\ animno' = animno + 1
  /\ UNCHANGED reader

Pluck_NoSeek ==
  /\ todo # <<>>
  /\ pos' = pos + Ins(pos).len
  /\ todo' = Tail(todo)
  /\ UNCHANGED <<pc, animno>>

Pluck ==
  /\ todo # <<>>
  /\ CanSeek(Head(todo))
  /\ pos' = Head(todo)
  /\ todo' = Tail(todo)
  /\ UNCHANGED <<pc, animno>>

PluckFails == todo # <<>> /\ ~CanSeek(Head(todo))

(* Code that has been read already is not read again. *)
SeenBefore ==
  /\ pc = "read"
  /\ pos \in DOMAIN code
  /\ \/ PluckFails /\ Fail
     \/ /\ Return \/ Pluck
        /\ UNCHANGED <<file, hdrVars, cur, graph, links>>

ReadFails ==
  /\ pc = "read"
  /\ pos \notin DOMAIN code
  /\ ~Readable(pos)
  /\ Fail

Reading_Again(kind) ==
  /\ pc = "read"
  /\ Readable(pos)
  /\ Ins(pos).kind = kind

Reading(kind) ==
  /\ pc = "read"
  /\ pos \notin DOMAIN code
  /\ Readable(pos)
  /\ Ins(pos).kind = kind

(* code[start] = bc *)
Store(next) ==
  code' = Put(code, pos, [next |-> next, prev |-> NULL, st_entry |-> NULL,
                          jump |-> NULL])

ReadNormal ==
  /\ Reading("normal")
  /\ Store(PENDING)
  /\ pos' = pos + Ins(pos).len
  /\ UNCHANGED <<file, pc, hdrVars, walk, todo, symtbl, unique_id, links>>

ReadJmp ==
  /\ Reading("jmp")
  /\ LET a == Ins(pos).target IN
     \/ ~CanSeek(a) /\ Fail
     \/ /\ CanSeek(a)
        /\ Store(NULL)
        /\ pos' = a
        /\ Refer(a, Anim(animno, JumpType(pos, a)), {pos})
        /\ UNCHANGED <<file, pc, hdrVars, walk, todo, links>>

(* The animation recorded for the label is i, the number of arguments that *)
(* the loop above it has left there, not animno.                           *)
ReadCondJmp ==
  /\ Reading("cond")
  /\ LET a == Ins(pos).target IN
     /\ Store(PENDING)
     /\ todo' = Append(todo, a)
     /\ pos' = pos + Ins(pos).len
     /\ Refer(a, Anim(Ins(pos).numargs, JumpType(pos, a)), {pos})
     /\ UNCHANGED <<file, pc, hdrVars, walk, links>>

ReadTerm ==
  /\ Reading("term")
  /\ \/ PluckFails /\ Fail
     \/ /\ Store(NULL)
        /\ Return \/ Pluck
        /\ UNCHANGED <<file, hdrVars, cur, symtbl, unique_id, links>>

-----------------------------------------------------------------------------
(* The link pass over 0 .. codesize - 1 and the rehash.                    *)

CodeRead ==
  /\ pc = "anims" /\ cur = 0
  /\ \A h \in DOMAIN headers : headers[h] # "live"
  /\ pc' = "link"
  /\ UNCHANGED <<file, hdrVars, walk, reader, graph, links>>

LinkSkip ==
  /\ pc = "link" /\ li <= file.size
  /\ li \notin DOMAIN code
  /\ li' = li + 1
  /\ UNCHANGED <<file, pc, hdrVars, walk, reader, graph, last, byid>>

(* The instruction that runs into the next one, if a does. *)
RunsOn_Always(a) == a
RunsOn(a) == IF code[a].next # NULL THEN a ELSE NULL

IsJump(a) == Ins(a).kind \in {"jmp", "cond"}

LinkInstr ==
  /\ pc = "link" /\ li <= file.size
  /\ li \in DOMAIN code
  /\ code' = [a \in DOMAIN code |->
       IF a = li
       THEN [next     |-> code[li].next,
             prev     |-> last,
             st_entry |-> IF li \in DOMAIN symtbl THEN li ELSE NULL,
             jump     |-> IF IsJump(li) /\ Ins(li).target \in DOMAIN symtbl
                          THEN Ins(li).target ELSE NULL]
       ELSE IF a = last /\ code[a].next = PENDING
            THEN [code[a] EXCEPT !.next = li]
            ELSE code[a]]
  /\ symtbl' = IF li \in DOMAIN symtbl
               THEN [symtbl EXCEPT ![li] = [@ EXCEPT !.bc = li]]
               ELSE symtbl
  /\ last' = RunsOn(li)
  /\ li' = li + 1
  /\ UNCHANGED <<file, pc, hdrVars, walk, reader, unique_id, byid>>

Rehash ==
  /\ pc = "link" /\ li > file.size
  /\ byid' = [i \in {symtbl[a].id : a \in DOMAIN symtbl} |->
                CHOOSE a \in DOMAIN symtbl : symtbl[a].id = i]
  /\ pc' = "done"
  /\ UNCHANGED <<file, hdrVars, walk, reader, graph, li, last>>

(* iscript_new has returned an Iscript, or NULL. *)
Stopped ==
  /\ pc \in {"done", "error"}
  /\ UNCHANGED vars

Next ==
  \/ \E h \in DOMAIN headers : ReadTableEntry(h) \/ ReadHeader(h) \/ EnterHeader(h)
  \/ TableEnd \/ HeadersRead
  \/ SkipAnim \/ EnterAnim \/ LeaveHeader
  \/ SeenBefore \/ ReadFails \/ ReadNormal \/ ReadJmp \/ ReadCondJmp \/ ReadTerm
  \/ CodeRead \/ LinkSkip \/ LinkInstr \/ Rehash
  \/ Stopped

Spec == Init /\ [][Next]_vars

(* iscript_new is sequential code that runs to its end by itself. *)
FairSpec == Spec /\ WF_vars(Next)

-----------------------------------------------------------------------------
(* What the loader has to get right. *)

Addr == 0 .. file.size

(* Where control can go from the instruction at a. *)
Succ(a) ==
  IF ~Readable(a) THEN {}
  ELSE CASE Ins(a).kind = "normal" -> {a + Ins(a).len}
         [] Ins(a).kind = "cond"   -> {a + Ins(a).len, Ins(a).target}
         [] Ins(a).kind = "jmp"    -> {Ins(a).target}
         [] OTHER                  -> {}

Roots == (UNION {{Offset(h, i) : i \in AnimsOf(h)} : h \in DOMAIN file.table})
           \ {NULL_UINT16}

Closed(S) == Roots \cap Addr \subseteq S /\ \A a \in S : Succ(a) \cap Addr \subseteq S

Pointer == Nat \cup {NULL}

IsInstr == [next : Pointer \cup {PENDING}, prev : Pointer, st_entry : Pointer,
            jump : Pointer]
IsAnim == [header : Nat, animno : Nat, type : {"HEADER", "LOCALJMP", "LONGJMP"}]
IsSymTblEnt == [id : Nat, bc : Pointer, anims : SUBSET IsAnim, jumps : SUBSET Addr]

(* Types of the loader's state. *)
TypeOK ==
  /\ IsFile(file)
  /\ pc \in {"table", "headers", "anims", "read", "link", "done", "error"}
  /\ headers \in [DOMAIN file.table ->
                   {"unread", "none", "live", "freed", "freed twice"}]
  /\ DOMAIN st_entries = DOMAIN headers
  /\ \A h \in DOMAIN headers : st_entries[h] \in [AnimsOf(h) -> Pointer]
  /\ cur \in {0} \cup DOMAIN headers
  /\ animno \in Nat /\ pos \in Addr /\ todo \in Seq(Nat)
  /\ DOMAIN code \subseteq Addr /\ code \in [DOMAIN code -> IsInstr]
  /\ DOMAIN symtbl \subseteq Nat /\ symtbl \in [DOMAIN symtbl -> IsSymTblEnt]
  /\ unique_id \in Nat
  /\ li \in 0 .. file.size + 1 /\ last \in Addr \cup {NULL}
  /\ DOMAIN byid \subseteq Nat /\ byid \in [DOMAIN byid -> Nat]

(* read_code stays on the code of the animations: an instruction is read   *)
(* only if every set of offsets that holds the animations and is closed    *)
(* under control flow holds it too.                                        *)
NothingUnreachable ==
  \A S \in SUBSET Addr : Closed(S) => DOMAIN code \subseteq S

(* When the walk over the animations is over nothing is missing: every     *)
(* animation and every successor of an instruction that was read has been  *)
(* read, through the queue of conditional jumps, through jump cycles and   *)
(* where two animations share code.                                        *)
NothingMissed ==
  pc \in {"link", "done"} =>
    /\ Roots \subseteq DOMAIN code
    /\ \A a \in DOMAIN code : Readable(a) /\ Succ(a) \subseteq DOMAIN code

(* Why these two hold: the parts of the inductive invariant of the walk.   *)
(* Queued offsets and the position are what is left to read.               *)
Queued(a) == \E k \in DOMAIN todo : todo[k] = a
Ahead(a) == pc = "read" /\ (a = pos \/ Queued(a))

WithinReach ==
  \A S \in SUBSET Addr : Closed(S) =>
    /\ DOMAIN code \subseteq S
    /\ \A a \in Addr : Ahead(a) => a \in S

Frontier ==
  \A a \in DOMAIN code :
    Readable(a) /\ \A b \in Succ(a) : b \in DOMAIN code \/ Ahead(b)

HeadersWalked ==
  /\ pc \in {"table", "headers"} =>
       /\ cur = 0
       /\ \A h \in DOMAIN headers :
            headers[h] \in {"none", IF pc = "table" THEN "unread" ELSE "live"}
  /\ pc \in {"anims", "read", "link", "done"} =>
       \A h \in DOMAIN headers :
         /\ headers[h] \in {"live", "freed"}
         /\ h = cur => headers[h] = "live"
         /\ pc \in {"link", "done"} => headers[h] = "freed"
         /\ \A i \in AnimsOf(h) : headers[h] = "freed" \/ (h = cur /\ i < animno) =>
              Offset(h, i) \in DOMAIN code \cup {NULL_UINT16}
  /\ pc = "read" => /\ cur # 0 /\ animno \in AnimsOf(cur)
                    /\ Offset(cur, animno) \in DOMAIN code \cup {pos}

WalkInv == WithinReach /\ Frontier /\ HeadersWalked

(* A file is well formed when its table and headers can be read and some   *)
(* set of readable offsets holds the animations and their successors.      *)
WellFormed ==
  /\ file.tableEnd = "eof"
  /\ \A h \in DOMAIN file.table : file.table[h].at = "ok"
  /\ \E S \in SUBSET Addr :
       /\ Roots \subseteq S
       /\ \A a \in S : Readable(a) /\ Succ(a) \subseteq S

(* The loader gives up on a file only if the file is not well formed.      *)
LoadsWellFormed == pc = "error" => ~WellFormed

(* The pointers between headers, labels and jumps agree in both directions *)
(* (the sanity checks of init_bytecode_and_symtbl, and what the rest of    *)
(* iscript.c relies on).                                                   *)
JumpsHaveLabels ==
  \A a \in DOMAIN code : IsJump(a) =>
    /\ Ins(a).target \in DOMAIN symtbl
    /\ a \in symtbl[Ins(a).target].jumps

LabelsHaveReferences ==
  \A l \in DOMAIN symtbl :
    /\ l \in DOMAIN code
    /\ \A j \in symtbl[l].jumps :
         j \in DOMAIN code /\ IsJump(j) /\ Ins(j).target = l
    /\ \/ symtbl[l].jumps # {}
       \/ \E an \in symtbl[l].anims :
            /\ an.type = "HEADER"
            /\ st_entries[an.header][an.animno] = l

AnimsHaveLabels ==
  \A h \in DOMAIN headers : \A i \in AnimsOf(h) :
    IF Offset(h, i) = NULL_UINT16
    THEN st_entries[h][i] = NULL
    ELSE /\ st_entries[h][i] = Offset(h, i)
         /\ Offset(h, i) \in DOMAIN symtbl
         /\ [header |-> h, animno |-> i, type |-> "HEADER"]
              \in symtbl[Offset(h, i)].anims

LabelsFoundById ==
  \A l \in DOMAIN symtbl :
    /\ symtbl[l].id < unique_id
    /\ byid[symtbl[l].id] = l

(* From the link pass on every jump and every animation of a header has    *)
(* its label, which lists it, also if the label was found more than once;  *)
(* the jumps that a label lists lead to it, and a label has one, or an     *)
(* animation; and no label gets lost when the table by offset is rehashed  *)
(* by id.                                                                  *)
PointersAgree ==
  /\ pc \in {"link", "done"} =>
       JumpsHaveLabels /\ LabelsHaveReferences /\ AnimsHaveLabels
  /\ pc = "done" => LabelsFoundById

NoOverlap ==
  \A a, b \in DOMAIN code : a < b => a + Ins(a).len <= b

(* The list that the link pass builds is the order of execution, when no   *)
(* two instructions overlap: next is the instruction that control falls    *)
(* into, prev is its inverse.                                              *)
LinkedAsExecuted ==
  pc = "done" /\ NoOverlap =>
    \A a \in DOMAIN code :
      /\ code[a].next = IF Ins(a).kind \in {"normal", "cond"}
                        THEN a + Ins(a).len ELSE NULL
      /\ code[a].next # NULL => code[code[a].next].prev = a
      /\ code[a].prev # NULL => code[code[a].prev].next = a

(* Loading ends, whatever cycles the jumps of the file make. *)
LoadEnds == <>(pc \in {"done", "error"})

(* scdef.c:496 stops with "free called but memory already freed!": no      *)
(* array is freed twice.                                                   *)
FreedOnce ==
  \A h \in DOMAIN headers : headers[h] # "freed twice"
=============================================================================
