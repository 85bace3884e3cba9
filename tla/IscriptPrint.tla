---------------------------- MODULE IscriptPrint ----------------------------
(***************************************************************************)
(* iscript_printer of icedc.c: every label gets a name, then the headers   *)
(* are printed, each with the code its animations lead to, and at the end  *)
(* the routines that something far away jumps to.                          *)
(*                                                                         *)
(* What is printed is a source in the sense of IscriptSource, so that what *)
(* it says can be read off with the definitions given there.  A name       *)
(* is <<base, part, number, copy>>: "long07" is <<"", "long", 7, 1>>, the  *)
(* second label for animation 3 of Marine <<"Marine", "", 3, 2>>.          *)
(* A program has gaps: g is one if more than LOCAL_JMP_DISTANCE lies       *)
(* between instructions g and g + 1.  A jump over a gap is long.           *)
(***************************************************************************)
EXTENDS IscriptGraph

CONSTANTS
  Programs,        \* the programs to decompile
  ScriptName(_),   \* iscriptent_to_name: several headers may have one name
  MaxAnims         \* the most animations a header has

(* The names: no label has one of the tags, see FirstName. *)
Tags == {"[NONE]", "none", ".headerstart", ".headerend"}
Bases == {""} \cup {ScriptName(h) : h \in UNION {DOMAIN p.headers : p \in Programs}}
AnyName == Bases \X ({"", "long", "Local"} \cup Tags) \X Nat \X Nat
Tag(tag) == <<"", tag, 0, 1>>
NoLabel == Tag("[NONE]")
NoName == Tag("none")

ASSUME PrintAssumption ==
  /\ NULL \notin Nat \cup AnyName
  /\ \A p \in Programs :
       /\ IsProgram(p) /\ p.gaps \subseteq DOMAIN p.instr
       /\ \A h \in DOMAIN p.headers : Len(p.headers[h]) \in 1 .. MaxAnims

VARIABLES
  program, iscript,            \* the Iscript, loaded from program
  pc,
  names,                       \* table_symtbl_id_to_name: the labels named
  types,                       \* and their types
  uniq_long_id,
  ids, id, animno,             \* the headers left, the one printed, its next animation
  todo, longjmps, done, bc,
  out,                         \* the lines printed
  at                           \* for each of them, the instruction it prints

naming == <<names, types, uniq_long_id>>
headers == <<ids, id, animno>>
printed == <<out, at>>
vars == <<program, iscript, pc, naming, headers, todo, longjmps, done, bc, printed>>

Long(p, j) == \E g \in p.gaps : (g < j) # (g < p.instr[j].target)

(* The back pointers of the label at a: to the header of an animation, and *)
(* for a jump to one that brought the loader there.                        *)
Anims(p, a) ==
  {[id |-> x[1], animno |-> x[2] - 1, type |-> "HEADER"] :
     x \in {y \in UNION {{h} \X DOMAIN p.headers[h] : h \in DOMAIN p.headers} :
              p.headers[y[1]][y[2]] = a}}
  \cup {[id     |-> CHOOSE h \in DOMAIN p.headers : j \in ReachIn(p, h),
         animno |-> 0,
         type   |-> IF Long(p, j) THEN "LONGJMP" ELSE "LOCALJMP"] :
          j \in {k \in CodeOf(p) : Jumps(p, k) /\ p.instr[k].target = a}}

Loaded(p) ==
  LET graph == LoadedGraph(p, 0)
  IN [graph EXCEPT !.label = [st \in DOMAIN @ |-> [@[st] EXCEPT !.anims = Anims(p, st[2])]]]

Init ==
  /\ program \in Programs
  /\ iscript = Loaded(program)
  /\ pc = "name"
  /\ names = <<>> /\ types = <<>> /\ uniq_long_id = 0
  /\ ids = DOMAIN program.headers /\ id = 0 /\ animno = 1
  /\ todo = <<>> /\ longjmps = <<>> /\ done = {} /\ bc = NULL
  /\ out = <<>> /\ at = <<>>

-----------------------------------------------------------------------------
(* init_symtbl_names *)

(* animtype_gte_comparator; the winner is the last of the greatest in the  *)
(* list, here any of them.  (A label without back pointers, which no       *)
(* loaded Iscript has, would be called jumpNN.)                            *)
Gte(t, u) == t = "LONGJMP" \/ (u # "LONGJMP" /\ (t = "HEADER" \/ u # "HEADER"))
Winners(anims) == {an \in anims : \A other \in anims : Gte(an.type, other.type)}

used_names == {names[st] : st \in DOMAIN names}
Taken(name) == name \in used_names
FirstFree(name, k) ==
  CHOOSE n \in k .. k + Cardinality(used_names) :
    ~Taken(name[n]) /\ \A m \in k .. n - 1 : Taken(name[m])

Far == [n \in Nat |-> <<"", "long", n, 1>>]
Anim(an) == [n \in Nat |-> <<ScriptName(an.id), "", an.animno, n>>]
Local(an) == [n \in Nat |-> <<ScriptName(an.id), "Local", n, 1>>]
FirstName(an) ==
  CASE an.type = "LONGJMP" -> Far[FirstFree(Far, uniq_long_id)]
    [] an.type = "HEADER"  -> Anim(an)[FirstFree(Anim(an), 1)]
    [] OTHER               -> Local(an)[FirstFree(Local(an), 0)]

NameLabel(st) ==
  /\ pc = "name"
  /\ st \in DOMAIN iscript.label \ DOMAIN names
  /\ \E an \in Winners(iscript.label[st].anims) :
       /\ names' = Put(names, st, FirstName(an))
       /\ types' = Put(types, st, an.type)
       /\ uniq_long_id' = IF an.type = "LONGJMP" THEN FirstName(an)[3] + 1 ELSE uniq_long_id
  /\ UNCHANGED <<program, iscript, pc, headers, todo, longjmps, done, bc,
                 printed>>

Named ==
  /\ pc = "name" /\ DOMAIN names = DOMAIN iscript.label
  /\ pc' = "header"
  /\ UNCHANGED <<program, iscript, naming, headers, todo, longjmps, done, bc, printed>>

-----------------------------------------------------------------------------
(* print_iscript *)

Var(kind, n, val) == [is |-> "var", var |-> <<kind, n>>, val |-> val]

HeaderLines(h) ==
  LET anims == iscript.headers[h].st_entries
  IN <<[is |-> "start"], Var("id", 0, h), Var("type", 0, Len(anims))>>
     \o [i \in DOMAIN anims |->
           Var("anim", i - 1, IF anims[i] = NULL THEN NoLabel ELSE names[anims[i]])]
     \o <<[is |-> "end"]>>

LabelLine(st) == [is |-> "code", names |-> <<names[st]>>, op |-> "none", label |-> NoName]
InstrLine(i) ==
  [is |-> "code", names |-> <<>>, op |-> program.instr[i[2]].kind,
   label |-> IF iscript.instr[i].jump = NULL THEN NoName ELSE names[iscript.instr[i].jump]]

PrintHeader(h) ==
  /\ pc = "header"
  /\ h \in ids
  /\ ids' = ids \ {h} /\ id' = h /\ animno' = 1
  /\ out' = out \o HeaderLines(h)
  /\ at' = at \o [k \in DOMAIN HeaderLines(h) |-> NULL]
  /\ pc' = "anim"
  /\ UNCHANGED <<program, iscript, naming, todo, longjmps, done, bc>>

(* An animation that a long jump leads to as well is left for later. *)
NextAnim ==
  /\ pc = "anim"
  /\ animno \in DOMAIN iscript.headers[id].st_entries
  /\ animno' = animno + 1
  /\ LET st == iscript.headers[id].st_entries[animno] IN
       \/ st = NULL /\ UNCHANGED <<pc, todo, longjmps>>
       \/ /\ st # NULL /\ types[st] = "LONGJMP"
          /\ longjmps' = Append(longjmps, st)
          /\ UNCHANGED <<pc, todo>>
       \/ /\ st # NULL /\ types[st] # "LONGJMP"
          /\ todo' = Append(todo, st)
          /\ pc' = "todo"
          /\ UNCHANGED longjmps
  /\ UNCHANGED <<program, iscript, naming, ids, id, done, bc, printed>>

NextHeader ==
  /\ pc = "anim"
  /\ animno \notin DOMAIN iscript.headers[id].st_entries
  /\ pc' = "header"
  /\ UNCHANGED <<program, iscript, naming, headers, todo, longjmps, done, bc, printed>>

(* isinstrenum_rewind: to the start of the chain. *)
Rewind_Not(i) == i
Rewind(i) ==
  LET Start[k \in 0 .. Cardinality(DOMAIN iscript.instr)] ==
        IF k = 0 THEN i
        ELSE LET x == Start[k - 1] IN
             IF iscript.instr[x].prev = NULL THEN x ELSE iscript.instr[x].prev
  IN Start[Cardinality(DOMAIN iscript.instr)]

Popped_Peek(q) == q
Popped(q) == Tail(q)

Start(st) == bc' = Rewind(iscript.label[st].bc)

NextTodo ==
  /\ pc = "todo" /\ todo # <<>>
  /\ Start(Head(todo)) /\ todo' = Popped(todo)
  /\ pc' = "code"
  /\ UNCHANGED <<program, iscript, naming, headers, longjmps, done, printed>>

TodoEmpty ==
  /\ pc = "todo" /\ todo = <<>>
  /\ pc' = "anim"
  /\ UNCHANGED <<program, iscript, naming, headers, todo, longjmps, done, bc, printed>>

(* A jump in the code of an animation leads to more code now or, if it is  *)
(* long, later; a jump in a long routine is queued in todo, always.        *)
QueueJump(jump) ==
  IF jump = NULL THEN UNCHANGED <<todo, longjmps>>
  ELSE IF pc = "code" /\ types[jump] = "LONGJMP"
  THEN longjmps' = Append(longjmps, jump) /\ UNCHANGED todo
  ELSE todo' = Append(todo, jump) /\ UNCHANGED longjmps

Back == [code |-> "todo", longcode |-> "longjmps"]
Done(st) == st \in done

PrintInstr ==
  /\ pc \in {"code", "longcode"}
  /\ LET st == iscript.instr[bc].st_entry IN
       \/ /\ st # NULL /\ Done(st)
          /\ bc' = NULL
          /\ UNCHANGED <<todo, longjmps, done, printed>>
       \/ /\ st = NULL \/ ~Done(st)
          /\ done' = done \cup ({st} \ {NULL})
          /\ out' = out \o (IF st = NULL THEN <<>> ELSE <<LabelLine(st)>>)
                        \o <<InstrLine(bc)>>
          /\ at' = at \o (IF st = NULL THEN <<>> ELSE <<NULL>>) \o <<bc>>
          /\ QueueJump(iscript.instr[bc].jump)
          /\ bc' = iscript.instr[bc].next
  /\ pc' = IF bc' = NULL THEN Back[pc] ELSE pc
  /\ UNCHANGED <<program, iscript, naming, headers>>

LongJumps ==
  /\ pc = "header" /\ ids = {}
  /\ pc' = "longjmps"
  /\ UNCHANGED <<program, iscript, naming, headers, todo, longjmps, done, bc, printed>>

NextLong ==
  /\ pc = "longjmps" /\ longjmps # <<>>
  /\ Start(Head(longjmps)) /\ longjmps' = Popped(longjmps)
  /\ pc' = "longcode"
  /\ UNCHANGED <<program, iscript, naming, headers, todo, done, printed>>

Finish ==
  /\ pc = "longjmps" /\ longjmps = <<>>
  /\ pc' = "done"
  /\ UNCHANGED <<program, iscript, naming, headers, todo, longjmps, done, bc, printed>>

Stopped == pc = "done" /\ UNCHANGED vars

Next ==
  \/ \E st \in DOMAIN iscript.label : NameLabel(st)
  \/ Named
  \/ \E h \in ids : PrintHeader(h)
  \/ NextAnim \/ NextHeader \/ NextTodo \/ TodoEmpty \/ PrintInstr
  \/ LongJumps \/ NextLong \/ Finish \/ Stopped

Spec == Init /\ [][Next]_vars

(* icedc is sequential code that runs by itself. *)
FairSpec == Spec /\ WF_vars(Next)

-----------------------------------------------------------------------------
(* What is printed, read as icecc reads it. *)

Source ==
  INSTANCE IscriptSource WITH
    NumAnims <- [n \in 1 .. MaxAnims |-> n],
    Illegal <- {Tag(".headerstart"), Tag(".headerend")}

(* No two labels get one name, whatever the headers are called and in      *)
(* whatever order the labels are named.                                    *)
NamesUnique ==
  \A st, other \in DOMAIN names : names[st] = names[other] => st = other

(* The code a routine of a long jump leads to, and nothing else does, is   *)
(* what the program loses.                                                 *)
NothingLost == \A k \in DOMAIN todo : todo[k] \in done

Executed == UNION {Executes(iscript.instr, iscript.label, iscript.headers[h]) :
                     h \in DOMAIN iscript.headers}
Follows(i) == ({iscript.instr[i].next} \ {NULL}) \cup
              {iscript.label[st].bc : st \in {iscript.instr[i].jump} \ {NULL}}

(* The text is a source that icecc accepts and that says what the Iscript  *)
(* says: the same headers with the same animations, the same instructions, *)
(* each leading to the same ones and printed once, whichever way the       *)
(* queues lead to it.  Unless something is lost.                           *)
PrintedIsTheProgram ==
  pc = "done" /\ NothingLost =>
    /\ Source!WellFormed(out)
    /\ {Source!Value(out, b, Source!Id) : b \in Source!Blocks(out)} = DOMAIN iscript.headers
    /\ \A b \in Source!Blocks(out) :
         LET h == Source!Value(out, b, Source!Id)
             anims == iscript.headers[h].st_entries
         IN /\ Source!Named(out, b) = {i - 1 : i \in {k \in DOMAIN anims : anims[k] # NULL}}
            /\ \A i \in Source!Named(out, b) :
                 at[Source!Target(out, Source!Value(out, b, Source!Anim(i)))] =
                   iscript.label[anims[i + 1]].bc
    /\ {at[k] : k \in Source!Executed(out)} = Executed
    /\ \A k \in Source!Executed(out) : {at[m] : m \in Source!Flows(out, k)} = Follows(at[k])
    /\ \A k, m \in DOMAIN at : (at[k] # NULL /\ at[k] = at[m]) => k = m

(* Decompiling ends. *)
PrintEnds == <>(pc = "done")

(* NOTES.txt:110: icedc and icecc "decompile and compile the iscript.bin   *)
(* (...) into human readable text (...) and back".                         *)
Recompiles == pc = "done" => Source!WellFormed(out)
=============================================================================
