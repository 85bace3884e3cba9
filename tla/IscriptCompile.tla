--------------------------- MODULE IscriptCompile ---------------------------
(***************************************************************************)
(* iscript_compile of icecc.c: how source text becomes the object graph of *)
(* an Iscript.  The parser reads headers, labels and instructions line by  *)
(* line and queues every use of a label name; the relocation loop connects *)
(* the uses to the labels; labels that nothing leads to are removed.       *)
(*                                                                         *)
(* An instruction, and the label before it, are named by their line.       *)
(***************************************************************************)
EXTENDS IscriptSource

CONSTANT Sources   \* the sources to compile

ASSUME CompileAssumption == NULL \notin Nat /\ \A s \in Sources : IsSource(s)

VARIABLES
  src, lineno,       \* the source, and the number of lines read
  pc, error,
  htok,              \* the header being read: [id, type, labels]
  names,             \* the labels read before an instruction
  instr, label,      \* the heap
  table_headers, table_symtbl, uniqid,
  table_names,       \* the names defined: [name, st]; one entry for each definition
  current_instr, relocq,
  todo,              \* the entries of table_names still to be looked at
  bad_labels, freeinstrs,
  misread            \* the id read in a freed label was that of another

parsing == <<htok, names, current_instr>>
tables  == <<table_headers, table_symtbl, uniqid, table_names>>
badness == <<todo, bad_labels, freeinstrs, misread>>
vars == <<src, lineno, pc, error, parsing, instr, label, tables, relocq, badness>>

Init ==
  /\ src \in Sources
  /\ lineno = 0 /\ pc = "next" /\ error = FALSE
  /\ htok = NULL /\ names = <<>> /\ current_instr = NULL
  /\ instr = <<>> /\ label = <<>>
  /\ table_headers = <<>> /\ table_symtbl = <<>> /\ uniqid = 0 /\ table_names = {}
  /\ relocq = <<>>
  /\ todo = {} /\ bad_labels = <<>> /\ freeinstrs = {} /\ misread = FALSE

Line == src[lineno + 1]
ReadsLine(mode) == pc = mode /\ lineno < Len(src) /\ lineno' = lineno + 1

-----------------------------------------------------------------------------
(* parse_header, verify_headertok and read_headertok. *)

EmptyHeader == [id |-> NULL, type |-> NULL, labels |-> [i \in AnimNos |-> NULL], bad |-> FALSE]

HeaderStart ==
  /\ ReadsLine("next")
  /\ Line.is = "start"
  /\ htok' = EmptyHeader
  /\ pc' = "header"
  /\ UNCHANGED <<src, error, names, current_instr, instr, label, tables, relocq, badness>>

HeaderVar ==
  /\ ReadsLine("header")
  /\ Line.is # "end"
  /\ htok' =
       CASE Line.is = "var" /\ Line.var = Id       -> [htok EXCEPT !.id = Line.val]
         [] Line.is = "var" /\ Line.var = Type     -> [htok EXCEPT !.type = Line.val]
         [] Line.is = "var" /\ Line.var[1] = "anim"  ->
              [htok EXCEPT !.labels[Line.var[2]] = Line.val]
         [] OTHER                                    -> [htok EXCEPT !.bad = TRUE]
  /\ UNCHANGED <<src, pc, error, names, current_instr, instr, label, tables, relocq, badness>>

HeaderOk ==
  /\ ~htok.bad /\ htok.id # NULL /\ htok.type # NULL
  /\ htok.id \notin DOMAIN table_headers
  /\ htok.type \in DOMAIN NumAnims
  /\ \A i \in AnimNos : i <= NumAnims[htok.type] => htok.labels[i] \notin Illegal

(* The animations the header has, in order.  A label beyond the last one   *)
(* is discarded.                                                           *)
Used(i) == htok.labels[i] \notin {NULL, NoLabel}
HeaderUses ==
  LET Uses[k \in 0 .. NumAnims[htok.type]] ==
        IF k = 0 THEN <<>>
        ELSE IF Used(k - 1)
        THEN Append(Uses[k - 1],
                    [hp |-> htok.id, animno |-> k - 1, jump |-> NULL, name |-> htok.labels[k - 1]])
        ELSE Uses[k - 1]
  IN Uses[NumAnims[htok.type]]

HeaderEnd ==
  /\ ReadsLine("header")
  /\ Line.is = "end"
  /\ IF HeaderOk
     THEN /\ table_headers' = Put(table_headers, htok.id,
               [ptr |-> <<0, htok.id>>,
                st_entries |-> [i \in 0 .. NumAnims[htok.type] - 1 |-> NULL]])
          /\ relocq' = relocq \o HeaderUses
          /\ UNCHANGED error
     ELSE error' = TRUE /\ UNCHANGED <<table_headers, relocq>>
  /\ pc' = "next"
  /\ UNCHANGED <<src, parsing, instr, label, table_symtbl, uniqid, table_names, badness>>

-----------------------------------------------------------------------------
(* parse_symtblent, parse_instr, and what verifies and reads their tokens. *)

(* Only labels: the rest of the label is on the next line. *)
ReadNames ==
  /\ ReadsLine("next") \/ ReadsLine("label")
  /\ Line.is = "code" /\ Line.op = "none"
  /\ names' = names \o Line.names
  /\ pc' = "label"
  /\ UNCHANGED <<src, error, htok, current_instr, instr, label, tables, relocq, badness>>

InstrOk ==
  /\ Line.is = "code" /\ Line.op # "bad"
  /\ Line.op \in {"jmp", "cond"} => Line.label \notin {NoLabel} \cup Illegal
NamesOk(ns) ==
  \A k \in DOMAIN ns : /\ ns[k] \notin {NoLabel} \cup Illegal
                       /\ \A e \in table_names : e.name # ns[k]

CurrentInstr_Keep(i) == i
CurrentInstr(i) == IF Line.op \in {"term", "jmp"} THEN NULL ELSE i

(* read_instrtok: the instruction i, with its label if it has one. *)
ReadInstrTok(i, st) ==
  /\ instr' = [x \in DOMAIN instr \cup {i} |->
                 IF x = i THEN [op |-> i, next |-> NULL, prev |-> current_instr,
                                st_entry |-> st, jump |-> NULL]
                 ELSE [instr[x] EXCEPT !.next = IF x = current_instr THEN i ELSE @]]
  /\ relocq' = IF Line.op \in {"jmp", "cond"}
               THEN Append(relocq, [hp |-> NULL, animno |-> NULL, jump |-> i,
                                    name |-> Line.label])
               ELSE relocq
  /\ current_instr' = CurrentInstr(i)

ReadInstr ==
  /\ ReadsLine("next")
  /\ Line.is \notin {"start"} /\ (Line.is = "code" => Line.names = <<>>)
  /\ IF InstrOk /\ current_instr # NULL
     THEN ReadInstrTok(lineno + 1, NULL) /\ UNCHANGED error
     ELSE error' = TRUE /\ UNCHANGED <<instr, relocq, current_instr>>
  /\ UNCHANGED <<src, pc, htok, names, label, tables, badness>>

ReadSymTblEnt ==
  /\ \/ ReadsLine("next") /\ Line.is = "code" /\ Line.names # <<>>
     \/ ReadsLine("label")
  /\ Line.is = "code" => Line.op # "none"
  /\ LET all == names \o IF Line.is = "code" THEN Line.names ELSE <<>>
         i == lineno + 1
     IN IF InstrOk /\ NamesOk(all)
        THEN /\ ReadInstrTok(i, i)
             /\ label' = Put(label, i, [id |-> uniqid, bc |-> i, anims |-> {}, jumps |-> {}])
             /\ table_names' = table_names \cup
                  {[name |-> all[k], at |-> <<i, k>>, st |-> i] : k \in DOMAIN all}
             /\ table_symtbl' = Put(table_symtbl, uniqid, i)
             /\ uniqid' = uniqid + 1
             /\ UNCHANGED error
        ELSE /\ error' = TRUE
             /\ UNCHANGED <<instr, label, relocq, current_instr, table_names, table_symtbl,
                            uniqid>>
  /\ names' = <<>>
  /\ pc' = "next"
  /\ UNCHANGED <<src, htok, table_headers, badness>>

(* The end of the source, in a header or a label or where it should be.    *)
EndOfSource ==
  /\ pc \in {"next", "header", "label"} /\ lineno = Len(src)
  /\ error' = (error \/ pc # "next" \/ current_instr # NULL)
  /\ pc' = "relocate"
  /\ UNCHANGED <<src, lineno, parsing, instr, label, tables, relocq, badness>>

-----------------------------------------------------------------------------
(* The rest of parser: relocation, and the removal of labels. *)

Defined(name) == \E e \in table_names : e.name = name
Lookup(name) == (CHOOSE e \in table_names : e.name = name).st

HeaderAnim(h) == [header |-> <<0, h>>, type |-> "HEADER"]
Connected(st, use) ==
  IF use.hp # NULL THEN [st EXCEPT !.anims = @ \cup {HeaderAnim(use.hp)}]
                   ELSE [st EXCEPT !.jumps = @ \cup {use.jump}]

Relocate ==
  /\ pc = "relocate" /\ relocq # <<>>
  /\ relocq' = Tail(relocq)
  /\ LET use == Head(relocq)
         st  == Lookup(use.name)
     IN \/ /\ ~Defined(use.name)
           /\ error' = TRUE
           /\ UNCHANGED <<label, table_headers, instr>>
        \/ /\ Defined(use.name)
           /\ label' = [label EXCEPT ![st] = Connected(@, use)]
           /\ IF use.hp # NULL
              THEN /\ table_headers' = [table_headers EXCEPT
                                        ![use.hp].st_entries[use.animno] = st]
                   /\ UNCHANGED instr
              ELSE /\ instr' = [instr EXCEPT ![use.jump].jump = st]
                   /\ UNCHANGED table_headers
           /\ UNCHANGED error
  /\ UNCHANGED <<src, lineno, pc, parsing, table_symtbl, uniqid, table_names, badness>>

Relocated ==
  /\ pc = "relocate" /\ relocq = <<>>
  /\ todo' = table_names
  /\ pc' = "check"
  /\ UNCHANGED <<src, lineno, error, parsing, instr, label, tables, relocq, bad_labels,
                 freeinstrs, misread>>

(* A label nothing refers to, or that no header leads to.  One that is     *)
(* both, or that has two names, is queued twice.                           *)
Unreferenced(st) == label[st].anims = {} /\ label[st].jumps = {}
Unreachable(st) == label[st].anims = {} /\ ReachedBy(instr, label, label[st].bc) = {}

CheckLabel(e) ==
  /\ pc = "check"
  /\ e \in todo
  /\ todo' = todo \ {e}
  /\ bad_labels' = bad_labels \o (IF Unreferenced(e.st) THEN <<e.st>> ELSE <<>>)
                              \o (IF Unreachable(e.st) THEN <<e.st>> ELSE <<>>)
  /\ UNCHANGED <<src, lineno, pc, error, parsing, instr, label, tables, relocq, freeinstrs,
                 misread>>

GiveUp ==
  /\ pc = "check" /\ todo = {} /\ error
  /\ pc' = "error"
  /\ instr' = <<>> /\ label' = <<>>
  /\ table_headers' = <<>> /\ table_symtbl' = <<>> /\ table_names' = {} /\ uniqid' = 0
  /\ bad_labels' = <<>> /\ current_instr' = NULL
  /\ UNCHANGED <<src, lineno, error, htok, names, relocq, todo, freeinstrs, misread>>

Checked ==
  /\ pc = "check" /\ todo = {} /\ ~error
  /\ pc' = "remove"
  /\ UNCHANGED <<src, lineno, error, parsing, instr, label, tables, relocq, badness>>

(* err_remove_label: the label goes, and the instructions from it on, up   *)
(* to one that a header leads to.  IscriptCompileSteps has its loop, and   *)
(* the searches in it, step by step.                                       *)
Doomed(heap, labels, i) ==
  LET Run[x \in DOMAIN heap] ==
        IF x \in freeinstrs \/ ReachedBy(heap, labels, x) # {} THEN {}
        ELSE {x} \cup IF heap[x].next = NULL THEN {} ELSE Run[heap[x].next]
  IN Run[i]

ErrRemoveLabel(id) ==
  IF id \notin DOMAIN table_symtbl
  THEN UNCHANGED <<instr, label, table_symtbl, freeinstrs>>
  ELSE LET st   == table_symtbl[id]
           heap == [instr EXCEPT ![label[st].bc].st_entry = NULL]
       IN /\ table_symtbl' = Drop(table_symtbl, {id})
          /\ label' = Drop(label, {st})
          /\ instr' = heap
          /\ freeinstrs' = freeinstrs \cup Doomed(heap, label', label[st].bc)

(* The id of a label that has been freed: what the allocator has put there *)
(* is NULL or the address of another block, which is no label's id.        *)
IdRead(st) == IF st \in DOMAIN label THEN {label[st].id} ELSE {0, uniqid}

RemoveLabel ==
  /\ pc = "remove" /\ bad_labels # <<>>
  /\ LET st == Head(bad_labels) IN
       \E id \in IdRead(st) :
         /\ ErrRemoveLabel(id)
         /\ misread' = (misread \/ (st \notin DOMAIN label /\ id \in DOMAIN table_symtbl))
  /\ bad_labels' = Tail(bad_labels)
  /\ UNCHANGED <<src, lineno, pc, error, parsing, table_headers, uniqid, table_names, relocq,
                 todo>>

Kept_Linked == [x \in DOMAIN instr \ freeinstrs |-> instr[x]]
Kept ==
  LET Ptr(x) == IF x \in freeinstrs THEN NULL ELSE x
  IN [x \in DOMAIN instr \ freeinstrs |->
        [instr[x] EXCEPT !.next = Ptr(@), !.prev = Ptr(@)]]

FreeInstrs ==
  /\ pc = "remove" /\ bad_labels = <<>>
  /\ instr' = Kept
  /\ freeinstrs' = {} /\ table_names' = {}
  /\ pc' = "compiled"
  /\ UNCHANGED <<src, lineno, error, parsing, label, table_headers, table_symtbl, uniqid,
                 relocq, todo, bad_labels, misread>>

Stopped == pc \in {"compiled", "error"} /\ UNCHANGED vars

Next ==
  \/ HeaderStart \/ HeaderVar \/ HeaderEnd
  \/ ReadNames \/ ReadInstr \/ ReadSymTblEnt \/ EndOfSource
  \/ Relocate \/ Relocated
  \/ \E e \in todo : CheckLabel(e)
  \/ GiveUp \/ Checked \/ RemoveLabel \/ FreeInstrs \/ Stopped

Spec == Init /\ [][Next]_vars

-----------------------------------------------------------------------------
(* The compiler refuses a source if and only if it has an error.           *)
RefusesErrors ==
  /\ pc = "compiled" => WellFormed(src)
  /\ pc = "error" => ~WellFormed(src)

Leads(st, k) == st \in DOMAIN label /\ label[st].bc = k

(* Relocation and the removal of bad labels keep the program: every header *)
(* leads where the source says, through the same instructions in the same  *)
(* order.  Unless the id read in a freed label (IdRead) was another's.     *)
CompiledIsTheSource ==
  pc = "compiled" /\ ~misread =>
    /\ DOMAIN table_headers = {Value(src, b, Id) : b \in Blocks(src)}
    /\ \A b \in Blocks(src) : \A i \in 0 .. LastAnim(src, b) - 1 :
         LET st == table_headers[Value(src, b, Id)].st_entries[i] IN
         IF i \in Named(src, b) THEN Leads(st, Target(src, Value(src, b, Anim(i))))
                                ELSE st = NULL
    /\ Executed(src) \subseteq DOMAIN instr
    /\ \A k \in Executed(src) :
         /\ {instr[k].next} \ {NULL} = IF Ends(src, k) THEN {} ELSE After(src, k)
         /\ IF Jumping(src, k) THEN Leads(instr[k].jump, Target(src, src[k].label))
                               ELSE instr[k].jump = NULL

(* Removing labels removes the code that no header executes, all of it: of *)
(* chains that jump to each other, or fall into code that stays, too.      *)
(* Unless the id read in a freed label was another's.                      *)
NoDeadCode == pc = "compiled" /\ ~misread => DOMAIN instr = Executed(src)

(* What the removal of labels leaves hangs together: prev and next, labels *)
(* and instructions, headers and labels point at each other, and every id  *)
(* is that of one label.  Jumps that were freed may still be listed in the *)
(* label they jumped to.  Unless the id read in a freed label was          *)
(* another's.                                                              *)
CompiledAgree ==
  pc = "compiled" /\ ~misread =>
    /\ InstrsAgree(instr, label)
    /\ \A st \in DOMAIN label : label[st].bc \in DOMAIN instr /\ instr[label[st].bc].st_entry = st
    /\ HeadersAgree(table_headers, label)
    /\ SymTblAgrees(table_symtbl, uniqid, label)
=============================================================================
