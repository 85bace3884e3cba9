-------------------------- MODULE IscriptSeparate --------------------------
(***************************************************************************)
(* iscript_separate_headers of iscript.c (icedc -s): every header of an    *)
(* Iscript is extracted, with a copy of the code it can reach, into an     *)
(* Iscript of its own, which iscript_merge adds to the result.  icedc does *)
(* the same with the headers of its command line.                          *)
(*                                                                         *)
(* The recursion of __iscript_copy_symtblent is a stack of frames.  The    *)
(* copy made for header h of an object <<0, a>> is named <<h, a>>.         *)
(***************************************************************************)
EXTENDS IscriptGraph

CONSTANT Programs   \* the programs of the Iscripts to separate

ASSUME SeparateAssumption == \A p \in Programs : IsProgram(p)

VARIABLES
  program,        \* what the Iscript ip was loaded from
  ip,             \* the Iscript to separate, its instructions and labels
  pc,
  ids,            \* the headers still to be extracted
  id,             \* the header that is extracted
  instr, label,   \* the heap of the copies
  ip_rest,        \* the result
  st_entries,     \* the animations of the new header
  animno,
  unique_id,      \* the global label counter
  visited,        \* old label -> its copy
  visited_instrs, \* old instruction -> its copy
  stack           \* the activations of __iscript_copy_symtblent

copying == <<id, st_entries, animno, unique_id, visited, visited_instrs, stack>>
vars == <<program, ip, pc, ids, instr, label, ip_rest, copying>>

Init ==
  /\ program \in Programs
  /\ ip = LoadedGraph(program, 0)
  /\ pc = "separate"
  /\ ids = DOMAIN program.headers
  /\ instr = <<>> /\ label = <<>>
  /\ ip_rest = [headers |-> <<>>, symtbl |-> <<>>, uniq_id |-> 0]
  /\ id = 0 /\ st_entries = <<>> /\ animno = 1 /\ unique_id = 0
  /\ visited = <<>> /\ visited_instrs = <<>> /\ stack = <<>>

ExtractHeader(h) ==
  /\ pc = "separate"
  /\ h \in ids
  /\ pc' = "copy"
  /\ ids' = ids \ {h}
  /\ id' = h
  /\ st_entries' = <<>> /\ animno' = 1
  /\ unique_id' = 0
  /\ visited' = <<>> /\ visited_instrs' = <<>> /\ stack' = <<>>
  /\ UNCHANGED <<program, ip, instr, label, ip_rest>>

-----------------------------------------------------------------------------
(* __iscript_copy_symtblent *)

Copy(x) == <<id, x[2]>>
IsAnim(type) == [header |-> <<id, id>>, type |-> type]

(* An activation: the old label and its copy, the cursor of the            *)
(* enumeration, the old instruction it is at, the copy made last.          *)
Frame(old) == [old |-> old, new |-> Copy(old), next |-> ip.label[old].bc,
               instr |-> NULL, prev |-> NULL, at |-> "next"]
Top == Head(stack)
At(where) == pc = "copy" /\ stack # <<>> /\ Top.at = where

(* The caller gets its result: the header, for an animation, or the copy   *)
(* of the jump that the caller is at.                                      *)
Return(new, heap, frames) ==
  /\ stack' = frames
  /\ IF frames = <<>>
     THEN /\ st_entries' = Append(st_entries, new)
          /\ animno' = animno + 1
          /\ instr' = heap
     ELSE /\ instr' = [heap EXCEPT ![Head(frames).prev].jump = new]
          /\ UNCHANGED <<st_entries, animno>>

AddJump_Never(jumps, jump) == jumps
AddJump(jumps, jump) == jumps \cup ({jump} \ {NULL})

(* A call with an old label: it has a copy already, or it gets one, which  *)
(* is hooked up to the copy of its instruction if there is one, and else   *)
(* starts a chain.                                                         *)
CopyAgain(old, type, jump, frames) ==
  /\ old \in DOMAIN visited
  /\ label' = [label EXCEPT ![visited[old]].anims = @ \cup {IsAnim(type)},
                            ![visited[old]].jumps = AddJump(@, jump)]
  /\ Return(visited[old], instr, frames)
  /\ UNCHANGED <<unique_id, visited>>

CopyNew(old, type, jump, frames) ==
  /\ old \notin DOMAIN visited
  /\ unique_id' = unique_id + 1
  /\ visited' = Put(visited, old, Copy(old))
  /\ LET bc  == ip.label[old].bc
         new == [id |-> unique_id, bc |-> NULL, anims |-> {IsAnim(type)},
                 jumps |-> AddJump({}, jump)]
     IN IF bc \in DOMAIN visited_instrs
        THEN LET i == visited_instrs[bc] IN
               /\ label' = Put(label, Copy(old), [new EXCEPT !.bc = i])
               /\ Return(Copy(old), [instr EXCEPT ![i].st_entry = Copy(old)], frames)
        ELSE /\ label' = Put(label, Copy(old), new)
             /\ stack' = <<Frame(old)>> \o frames
             /\ UNCHANGED <<instr, st_entries, animno>>

CopySymTblEnt(old, type, jump, frames) ==
  CopyAgain(old, type, jump, frames) \/ CopyNew(old, type, jump, frames)

CopyEntry ==
  /\ pc = "copy" /\ stack = <<>>
  /\ animno \in DOMAIN ip.headers[id].st_entries
  /\ LET old == ip.headers[id].st_entries[animno] IN
       \/ /\ old = NULL
          /\ st_entries' = Append(st_entries, NULL)
          /\ animno' = animno + 1
          /\ UNCHANGED <<instr, label, unique_id, visited, stack>>
       \/ old # NULL /\ CopySymTblEnt(old, "HEADER", NULL, <<>>)
  /\ UNCHANGED <<program, ip, pc, ids, id, ip_rest, visited_instrs>>

(* "hook us up to our label" and "link us up to the guy before us": what   *)
(* becomes of the heap when the chain arrives at new, the copy of old.     *)
Link_PrevOnly(heap, new) == [heap EXCEPT ![new].prev = Top.prev]
Link_NextOnly(heap, new) ==
  [x \in DOMAIN heap |-> [heap[x] EXCEPT !.next = IF x = Top.prev THEN new ELSE @]]
Link(heap, new) ==
  [x \in DOMAIN heap |->
     [heap[x] EXCEPT !.prev = IF x = new THEN Top.prev ELSE @,
                     !.next = IF x = Top.prev THEN new ELSE @]]
Hook(heap, old, new) ==
  IF ip.instr[old].st_entry = Top.old
  THEN [heap EXCEPT ![new].st_entry = Top.new]
  ELSE heap
HookLabel(old, new) ==
  IF ip.instr[old].st_entry = Top.old
  THEN [label EXCEPT ![Top.new].bc = new]
  ELSE label

Copied(i) == i \in DOMAIN visited_instrs

(* The chain of the label ends, or runs into instructions copied before.   *)
ChainEnds ==
  /\ At("next")
  /\ Top.next = NULL
  /\ Return(Top.new, instr, Tail(stack))
  /\ UNCHANGED <<program, ip, pc, ids, id, label, ip_rest, unique_id, visited,
                 visited_instrs>>

ChainJoins ==
  /\ At("next")
  /\ Top.next # NULL /\ Copied(Top.next)
  /\ LET new == visited_instrs[Top.next] IN
       /\ label' = HookLabel(Top.next, new)
       /\ Return(Top.new, Link(Hook(instr, Top.next, new), new), Tail(stack))
  /\ UNCHANGED <<program, ip, pc, ids, id, ip_rest, unique_id, visited, visited_instrs>>

CopyInstr ==
  /\ At("next")
  /\ Top.next # NULL /\ ~Copied(Top.next)
  /\ LET old == ip.instr[Top.next]
         new == Copy(Top.next)
         made == [op |-> old.op, next |-> NULL, prev |-> NULL, st_entry |-> NULL,
                  jump |-> NULL]
     IN /\ visited_instrs' = Put(visited_instrs, Top.next, new)
        /\ label' = HookLabel(Top.next, new)
        /\ instr' = Link(Hook(Put(instr, new, made), Top.next, new), new)
        /\ stack' = <<[Top EXCEPT !.next = old.next, !.instr = Top.next, !.prev = new,
                                  !.at = IF old.jump = NULL THEN "next" ELSE "jump"]>>
                      \o Tail(stack)
  /\ UNCHANGED <<program, ip, pc, ids, id, ip_rest, st_entries, animno, unique_id, visited>>

Returned_AtJump(frame) == frame
Returned(frame) == [frame EXCEPT !.at = "next"]

CopyJump ==
  /\ At("jump")
  /\ CopySymTblEnt(ip.instr[Top.instr].jump, "JUMP", Top.prev,
                   <<Returned(Top)>> \o Tail(stack))
  /\ UNCHANGED <<program, ip, pc, ids, id, ip_rest, visited_instrs>>

-----------------------------------------------------------------------------
(* The new Iscript holds the one header and the labels visited, under      *)
(* their ids.  iscript_merge finds no header of that id in ip_rest and     *)
(* gives the labels new ids, in the order of the old ones.                 *)
NewId(k) == ip_rest.uniq_id + k

MergeSingle ==
  /\ pc = "copy" /\ stack = <<>>
  /\ animno \notin DOMAIN ip.headers[id].st_entries
  /\ LET new == {visited[l] : l \in DOMAIN visited} IN
       /\ label' = [l \in DOMAIN label |->
                      IF l \in new THEN [label[l] EXCEPT !.id = NewId(@)] ELSE label[l]]
       /\ ip_rest' =
            [headers |-> Put(ip_rest.headers, id, [ptr |-> <<id, id>>, st_entries |-> st_entries]),
             symtbl  |-> [k \in DOMAIN ip_rest.symtbl \cup {NewId(label[l].id) : l \in new} |->
                            IF k \in {NewId(label[l].id) : l \in new}
                            THEN CHOOSE l \in new : NewId(label[l].id) = k
                            ELSE ip_rest.symtbl[k]],
             uniq_id |-> ip_rest.uniq_id + Cardinality(new)]
  /\ pc' = "separate"
  /\ UNCHANGED <<program, ip, ids, instr, copying>>

Separated == pc = "separate" /\ ids = {} /\ UNCHANGED vars

Next ==
  \/ \E h \in ids : ExtractHeader(h)
  \/ CopyEntry \/ ChainEnds \/ ChainJoins \/ CopyInstr \/ CopyJump
  \/ MergeSingle \/ Separated

Spec == Init /\ [][Next]_vars

(* icedc is sequential code that runs by itself. *)
FairSpec == Spec /\ WF_vars(Next)

-----------------------------------------------------------------------------
Between == pc = "separate"   \* no header is being extracted

(* Nothing has been extracted in the initial state; the input is read when *)
(* the first header is.                                                    *)
Begun == pc = "copy" \/ ids # DOMAIN program.headers

SeparatedArchive ==
  INSTANCE Archive WITH
    inputs  <- <<[h \in DOMAIN program.headers |-> ProgramScript(program, 0, h)]>>,
    read    <- IF Begun THEN 1 ELSE 0,
    todo    <- IF Begun THEN ids \cup (IF pc = "copy" THEN {id} ELSE {}) ELSE {},
    archive <- [h \in DOMAIN ip_rest.headers |-> Script(instr, label, ip_rest.headers[h])]

(* Separating the headers fills an archive with what they said before: the *)
(* same animations, the same instructions in the same order with the same  *)
(* jumps; and no step of a copy changes a header that has been copied.     *)
ImplementsArchive == SeparatedArchive!Spec

(* The copies form a graph of their own: no pointer leads back into the    *)
(* old one, and pointers and back pointers agree.                          *)
SeparatedAgree ==
  Between =>
    /\ InstrsAgree(instr, label)
    /\ LabelsAgree(instr, label)
    /\ HeadersAgree(ip_rest.headers, label)
    /\ SymTblAgrees(ip_rest.symtbl, ip_rest.uniq_id, label)

(* iscript.c:1204: "separates all the headers so that no two share any     *)
(* instructions".                                                          *)
NothingShared ==
  Between => \A x \in DOMAIN instr : Cardinality(ReachedBy(instr, label, x)) = 1

(* Copying ends, whatever loops the code has. *)
SeparationEnds == <>(Between /\ ids = {})
=============================================================================
