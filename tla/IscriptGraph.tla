---------------------------- MODULE IscriptGraph ----------------------------
(***************************************************************************)
(* The object graph of an Iscript (iscript.h): headers point to labels     *)
(* (symtbl entries), labels to the instruction they mark and back to the   *)
(* animations and jumps that refer to them, instructions to their          *)
(* neighbours, to their own label and to the label they jump to.           *)
(*                                                                         *)
(* An object is named by the Iscript that allocated it and the offset (or  *)
(* header id) it was made from: <<n, a>>.  A pointer is a name or NULL.    *)
(* What is not in the domain of the heap has been freed.                   *)
(***************************************************************************)
EXTENDS Pointers, Integers, Sequences, FiniteSets

ASSUME NullAssumption == NULL \notin Nat \X Nat

Put(f, k, v) == [x \in DOMAIN f \cup {k} |-> IF x = k THEN v ELSE f[x]]
Drop(f, S) == [x \in DOMAIN f \ S |-> f[x]]

(* What S leads to, when x leads to the elements of next[x]. *)
Closure(S, next) ==
  LET After[k \in 0 .. Cardinality(DOMAIN next)] ==
        IF k = 0 THEN S
        ELSE LET T == After[k - 1] IN T \cup UNION {next[x] : x \in T \cap DOMAIN next}
  IN After[Cardinality(DOMAIN next)]

-----------------------------------------------------------------------------
(* A program: what an iscript.bin or a source file says, as a sequence of  *)
(* instructions and, for each header id, the offsets of its animations (0  *)
(* for one the header does not have).                                      *)

Kinds == {"normal", "jmp", "cond", "term"}

FallsThrough(p, a) == p.instr[a].kind \in {"normal", "cond"}
Jumps(p, a) == p.instr[a].kind \in {"jmp", "cond"}

Succ(p, a) == (IF FallsThrough(p, a) THEN {a + 1} ELSE {}) \cup
              (IF Jumps(p, a) THEN {p.instr[a].target} ELSE {})

Entries(p, h) == {p.headers[h][i] : i \in DOMAIN p.headers[h]} \ {0}
ReachIn(p, h) ==
  Closure(Entries(p, h), [a \in DOMAIN p.instr |-> Succ(p, a) \cap DOMAIN p.instr])
CodeOf(p) == UNION {ReachIn(p, h) : h \in DOMAIN p.headers}

(* A program that iscript_new and iscript_compile accept. *)
IsProgram(p) ==
  /\ p.instr \in Seq([kind : Kinds, target : Nat])
  /\ IsFiniteSet(DOMAIN p.headers) /\ DOMAIN p.headers \subseteq Nat
  /\ \A h \in DOMAIN p.headers : p.headers[h] \in Seq(Nat)
  /\ \A a \in CodeOf(p) : a \in DOMAIN p.instr /\ Succ(p, a) \subseteq DOMAIN p.instr

(* The graph the loader builds for a program, as its nth Iscript.  A jump  *)
(* label remembers one header that brought the reader there.               *)
LoadedGraph(p, n) ==
  LET code    == CodeOf(p)
      jumps   == {a \in code : Jumps(p, a)}
      labels  == (UNION {Entries(p, h) : h \in DOMAIN p.headers})
                   \cup {p.instr[a].target : a \in jumps}
      Id(l)   == Cardinality({k \in labels : k < l})
      Ptr(a, S)  == IF a \in S THEN <<n, a>> ELSE NULL
      First(a) == CHOOSE h \in DOMAIN p.headers :
                    /\ a \in ReachIn(p, h)
                    /\ \A g \in DOMAIN p.headers : a \in ReachIn(p, g) => h <= g
      JumpsTo(l) == {a \in jumps : p.instr[a].target = l}
      Instr(a) ==
        [op       |-> <<n, a>>,
         next     |-> IF FallsThrough(p, a) THEN <<n, a + 1>> ELSE NULL,
         prev     |-> Ptr(a - 1, {b \in code : FallsThrough(p, b)}),
         st_entry |-> Ptr(a, labels),
         jump     |-> IF Jumps(p, a) THEN <<n, p.instr[a].target>> ELSE NULL]
      SymTblEnt(l) ==
        [id    |-> Id(l),
         bc    |-> <<n, l>>,
         anims |-> {[header |-> <<n, h>>, type |-> "HEADER"] :
                      h \in {g \in DOMAIN p.headers : l \in Entries(p, g)}}
                   \cup {[header |-> <<n, First(a)>>, type |-> "JUMP"] :
                           a \in JumpsTo(l)},
         jumps |-> {n} \X JumpsTo(l)]
  IN [instr   |-> [x \in {n} \X code |-> Instr(x[2])],
      label   |-> [x \in {n} \X labels |-> SymTblEnt(x[2])],
      headers |-> [h \in DOMAIN p.headers |->
                     [ptr |-> <<n, h>>,
                      st_entries |-> [i \in DOMAIN p.headers[h] |->
                                        Ptr(p.headers[h][i], labels)]]],
      symtbl  |-> [k \in {Id(l) : l \in labels} |->
                     CHOOSE x \in {n} \X labels : Id(x[2]) = k],
      uniq_id |-> Cardinality(labels)]

-----------------------------------------------------------------------------
(* Over a heap of instructions and labels. *)

(* isinstr_reached_by: the headers whose animations lead to instruction i, *)
(* found by following prev and the jumps back.                             *)
ReachedBy_OwnLabel(instr, label, i) ==
  {an.header[2] : an \in UNION {label[l].anims : l \in
                      {instr[x].st_entry : x \in {i} \ {NULL}} \cap DOMAIN label}}
ReachedBy(instr, label, i) ==
  LET Back(x) == (({instr[x].prev} \ {NULL}) \cup
                  UNION {label[l].jumps : l \in {instr[x].st_entry} \cap DOMAIN label})
                 \cap DOMAIN instr
      back == Closure({i} \ {NULL}, [x \in DOMAIN instr |-> Back(x)])
      labels == {instr[x].st_entry : x \in back} \cap DOMAIN label
  IN {an.header[2] : an \in {b \in UNION {label[l].anims : l \in labels} :
                               b.type = "HEADER"}}

(* What it should find: the headers from which execution gets to i.        *)
Executes(instr, label, header) ==
  LET Marked(l) == {label[k].bc : k \in {l} \cap DOMAIN label}
      Step(x) == ({instr[x].next} \cup Marked(instr[x].jump)) \cap DOMAIN instr
      starts == UNION {Marked(header.st_entries[i]) : i \in DOMAIN header.st_entries}
  IN Closure(starts \cap DOMAIN instr, [x \in DOMAIN instr |-> Step(x)])

(* What a header says: where its animations start and, for every           *)
(* instruction execution gets to, what follows it and where it jumps.      *)
Script(instr, label, header) ==
  LET Op(x)   == IF x \in DOMAIN instr THEN instr[x].op ELSE NULL
      Mark(l) == IF l \in DOMAIN label THEN Op(label[l].bc) ELSE NULL
  IN [entries |-> [i \in DOMAIN header.st_entries |-> Mark(header.st_entries[i])],
      code    |-> {[op |-> Op(x), next |-> Op(instr[x].next), jump |-> Mark(instr[x].jump)] :
                     x \in Executes(instr, label, header)}]

(* The same for header h of a program, loaded as the nth Iscript. *)
ProgramScript(p, n, h) ==
  LET Op(a) == IF a = 0 THEN NULL ELSE <<n, a>>
  IN [entries |-> [i \in DOMAIN p.headers[h] |-> Op(p.headers[h][i])],
      code    |-> {[op   |-> Op(a),
                    next |-> Op(IF FallsThrough(p, a) THEN a + 1 ELSE 0),
                    jump |-> Op(IF Jumps(p, a) THEN p.instr[a].target ELSE 0)] :
                     a \in ReachIn(p, h)}]

(* The pointers of a graph agree in both directions and none of them       *)
(* points to something that has been freed.                                *)
InstrsAgree(instr, label) ==
  \A x \in DOMAIN instr :
    /\ instr[x].next # NULL =>
         instr[x].next \in DOMAIN instr /\ instr[instr[x].next].prev = x
    /\ instr[x].prev # NULL =>
         instr[x].prev \in DOMAIN instr /\ instr[instr[x].prev].next = x
    /\ instr[x].st_entry # NULL =>
         instr[x].st_entry \in DOMAIN label /\ label[instr[x].st_entry].bc = x
    /\ instr[x].jump # NULL =>
         instr[x].jump \in DOMAIN label /\ x \in label[instr[x].jump].jumps

LabelsAgree(instr, label) ==
  \A l \in DOMAIN label :
    /\ label[l].bc \in DOMAIN instr /\ instr[label[l].bc].st_entry = l
    /\ \A j \in label[l].jumps : j \in DOMAIN instr /\ instr[j].jump = l

HeadersAgree(headers, label) ==
  /\ \A h \in DOMAIN headers : \A i \in DOMAIN headers[h].st_entries :
       LET l == headers[h].st_entries[i] IN
       l # NULL => /\ l \in DOMAIN label
                   /\ [header |-> headers[h].ptr, type |-> "HEADER"] \in label[l].anims
  /\ \A l \in DOMAIN label : \A an \in label[l].anims :
       \E h \in DOMAIN headers :
         /\ an.header = headers[h].ptr
         /\ an.type = "HEADER" =>
              \E i \in DOMAIN headers[h].st_entries : headers[h].st_entries[i] = l

(* The symbol table holds exactly the labels there are, under their ids,   *)
(* and the counter is past every one of them.                              *)
SymTblAgrees(symtbl, uniq_id, label) ==
  /\ {symtbl[k] : k \in DOMAIN symtbl} = DOMAIN label
  /\ \A k \in DOMAIN symtbl : k < uniq_id /\ label[symtbl[k]].id = k
=============================================================================
