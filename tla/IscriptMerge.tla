---------------------------- MODULE IscriptMerge ----------------------------
(***************************************************************************)
(* main of icecc.c as far as it works on object graphs: every input file   *)
(* becomes an Iscript that iscript_merge merges into the first, empty one, *)
(* where a header of the input replaces the header of the same id:         *)
(* iscript_remove_header walks the code of the old header and frees what   *)
(* no other header uses.  At the end iscript_free frees the Iscript.       *)
(*                                                                         *)
(* The recursion of __iscript_remove_symtblent is a stack of frames.       *)
(***************************************************************************)
EXTENDS IscriptGraph

CONSTANT Inputs   \* the sequences of programs icecc may be given

ASSUME MergeAssumption ==
  \A in \in Inputs : /\ in \in Seq({in[k] : k \in DOMAIN in})
                    /\ \A k \in DOMAIN in : IsProgram(in[k])

VARIABLES
  inputs,   \* the programs, in the order of the command line
  n,        \* how many of them have been read
  pc,
  instr, label,   \* the heap
  dest, source,   \* the Iscripts: [headers, symtbl, uniq_id]
  todo,     \* the headers, then the labels, of source still to be merged
  id,       \* the header being merged (hp, when it is being removed)
  animno,   \* the animation of hp the removal is at
  stack,    \* the activations of __iscript_remove_symtblent
  visited, visitedinstrs,   \* the labels and instructions it has been to
  freeinstrs, disconnect,   \* its two queues
  stale     \* the freed instructions that have been written to

removal == <<animno, stack, visited, visitedinstrs, freeinstrs, disconnect>>
vars == <<inputs, n, pc, instr, label, dest, source, todo, id, removal, stale>>

EmptyIscript == [headers |-> <<>>, symtbl |-> <<>>, uniq_id |-> 0]

Init ==
  /\ inputs \in Inputs
  /\ n = 0 /\ pc = "input"
  /\ instr = <<>> /\ label = <<>>
  /\ dest = EmptyIscript /\ source = EmptyIscript
  /\ todo = {} /\ id = 0 /\ animno = 1
  /\ stack = <<>> /\ visited = {} /\ visitedinstrs = {}
  /\ freeinstrs = <<>> /\ disconnect = <<>>
  /\ stale = {}

-----------------------------------------------------------------------------
(* main, and the two loops of iscript_merge. *)

Joined(f, g) == [x \in DOMAIN f \cup DOMAIN g |-> IF x \in DOMAIN f THEN f[x] ELSE g[x]]

ReadInput ==
  /\ pc = "input" /\ n < Len(inputs)
  /\ LET g == LoadedGraph(inputs[n + 1], n + 1) IN
       /\ instr' = Joined(instr, g.instr)
       /\ label' = Joined(label, g.label)
       /\ source' = [headers |-> g.headers, symtbl |-> g.symtbl, uniq_id |-> g.uniq_id]
       /\ todo' = DOMAIN g.headers
  /\ n' = n + 1
  /\ pc' = "headers"
  /\ UNCHANGED <<inputs, dest, id, removal, stale>>

AddHeader(h) == dest' = [dest EXCEPT !.headers = Put(@, h, source.headers[h])]

MergeHeader(h) ==
  /\ pc = "headers"
  /\ h \in todo
  /\ todo' = todo \ {h}
  /\ id' = h
  /\ IF h \in DOMAIN dest.headers
     THEN /\ pc' = "remove"
          /\ animno' = 1 /\ stack' = <<>> /\ visited' = {} /\ visitedinstrs' = {}
          /\ freeinstrs' = <<>> /\ disconnect' = <<>>
          /\ UNCHANGED dest
     ELSE AddHeader(h) /\ UNCHANGED <<pc, removal>>
  /\ UNCHANGED <<inputs, n, instr, label, source, stale>>

HeadersMerged ==
  /\ pc = "headers" /\ todo = {}
  /\ todo' = {source.symtbl[k] : k \in DOMAIN source.symtbl}
  /\ pc' = "labels"
  /\ UNCHANGED <<inputs, n, instr, label, dest, source, id, removal, stale>>

(* The hash table of the labels is enumerated in the order of their ids. *)
NewId(st) == dest.uniq_id
MergeLabel(st) ==
  /\ pc = "labels"
  /\ st \in todo
  /\ \A l \in todo : label[st].id <= label[l].id
  /\ label' = [label EXCEPT ![st].id = NewId(st)]
  /\ dest' = [dest EXCEPT !.symtbl = Put(@, NewId(st), st), !.uniq_id = @ + 1]
  /\ todo' = todo \ {st}
  /\ UNCHANGED <<inputs, n, pc, instr, source, id, removal, stale>>

LabelsMerged ==
  /\ pc = "labels" /\ todo = {}
  /\ source' = EmptyIscript
  /\ pc' = "input"
  /\ UNCHANGED <<inputs, n, instr, label, dest, todo, id, removal, stale>>

-----------------------------------------------------------------------------
(* __iscript_remove_symtblent *)

hp == dest.headers[id]

Reached(i) == ReachedBy(instr, label, i)
Shared_Never(i) == FALSE
Shared(i) == Cardinality(Reached(i)) > 1

Seen_Never(i) == FALSE
Seen(i) == i \in visitedinstrs

Target_Ignored(i) == NULL
Target(i) == instr[i].jump

Frame(st) == [st |-> st, next |-> label[st].bc, instr |-> NULL, at |-> "next"]

(* A call of the function: it returns at once for a label it has been to   *)
(* and for one that other headers still use.                               *)
Call(st, frames) ==
  IF st = NULL \/ st \in visited
  THEN stack' = frames /\ UNCHANGED <<visited, disconnect>>
  ELSE /\ visited' = visited \cup {st}
       /\ IF Shared(label[st].bc)
          THEN stack' = frames /\ UNCHANGED disconnect
          ELSE /\ stack' = <<Frame(st)>> \o frames
               /\ disconnect' = Append(disconnect, label[st].bc)

Top == Head(stack)
At(where) == pc = "remove" /\ stack # <<>> /\ Top.at = where

RemoveEntry ==
  /\ pc = "remove" /\ stack = <<>>
  /\ animno \in DOMAIN hp.st_entries
  /\ Call(hp.st_entries[animno], <<>>)
  /\ animno' = animno + 1
  /\ UNCHANGED <<inputs, n, pc, instr, label, dest, source, todo, id, visitedinstrs,
                 freeinstrs, stale>>

Leave ==
  /\ label' = [label EXCEPT ![Top.st].bc = NULL]
  /\ stack' = Tail(stack)
  /\ UNCHANGED <<visited, visitedinstrs, freeinstrs, disconnect>>

NextInstr ==
  /\ At("next")
  /\ \/ /\ Top.next = NULL \/ Seen(Top.next)
        /\ Leave
     \/ /\ Top.next # NULL /\ ~Seen(Top.next)
        /\ visitedinstrs' = visitedinstrs \cup {Top.next}
        /\ Call(instr[Top.next].st_entry,
                <<[Top EXCEPT !.instr = Top.next, !.next = instr[Top.next].next,
                              !.at = "label"]>> \o Tail(stack))
        /\ UNCHANGED <<label, freeinstrs>>
  /\ UNCHANGED <<inputs, n, pc, instr, dest, source, todo, id, animno, stale>>

AfterLabel ==
  /\ At("label")
  /\ \/ Shared(Top.instr) /\ Leave
     \/ /\ ~Shared(Top.instr)
        /\ Call(Target(Top.instr), <<[Top EXCEPT !.at = "jump"]>> \o Tail(stack))
        /\ UNCHANGED <<label, visitedinstrs, freeinstrs>>
  /\ UNCHANGED <<inputs, n, pc, instr, dest, source, todo, id, animno, stale>>

AfterJump ==
  /\ At("jump")
  /\ freeinstrs' = Append(freeinstrs, Top.instr)
  /\ stack' = <<[Top EXCEPT !.at = "next"]>> \o Tail(stack)
  /\ UNCHANGED <<inputs, n, pc, instr, label, dest, source, todo, id, animno, visited,
                 visitedinstrs, disconnect, stale>>

-----------------------------------------------------------------------------
(* The rest of iscript_remove_header. *)

EntriesRemoved ==
  /\ pc = "remove" /\ stack = <<>>
  /\ animno \notin DOMAIN hp.st_entries
  /\ pc' = "free"
  /\ UNCHANGED <<inputs, n, instr, label, dest, source, todo, id, removal, stale>>

(* The neighbours of a freed instruction no longer point to it, nor does   *)
(* the label it jumps to.                                                  *)
Unlink(ip) ==
  [x \in DOMAIN instr \ {ip} |->
     [instr[x] EXCEPT !.prev = IF x = instr[ip].next THEN NULL ELSE @,
                      !.next = IF x = instr[ip].prev THEN NULL ELSE @]]

Freed(ip) ==
  IF instr[ip].jump = NULL THEN label
  ELSE [label EXCEPT ![instr[ip].jump].jumps = @ \ {ip}]

FreeInstr ==
  /\ pc = "free" /\ freeinstrs # <<>>
  /\ LET ip == Head(freeinstrs) IN
       /\ label' = Freed(ip)
       /\ instr' = Unlink(ip)
       /\ stale' = stale \cup ({instr[ip].next, instr[ip].prev} \ ({NULL} \cup DOMAIN instr))
  /\ freeinstrs' = Tail(freeinstrs)
  /\ UNCHANGED <<inputs, n, pc, dest, source, todo, id, animno, stack, visited,
                 visitedinstrs, disconnect>>

Rest_Peek(q) == q
Rest(q) == Tail(q)

Disconnect ==
  /\ pc = "free" /\ freeinstrs = <<>> /\ disconnect # <<>>
  /\ LET ip == Head(disconnect) IN
       IF ip \in DOMAIN instr
       THEN /\ instr' = [instr EXCEPT ![ip].st_entry = NULL]
            /\ UNCHANGED stale
       ELSE stale' = stale \cup {ip} /\ UNCHANGED instr
  /\ disconnect' = Rest(disconnect)
  /\ UNCHANGED <<inputs, n, pc, label, dest, source, todo, id, animno, stack, visited,
                 visitedinstrs, freeinstrs>>

(* anim_header_eq_fn compares the ids of the headers. *)
Strip_None(st) == label[st]
Strip(st) == [label[st] EXCEPT !.anims = {an \in @ : an.header[2] # id}]

RemoveLabels ==
  /\ pc = "free" /\ freeinstrs = <<>> /\ disconnect = <<>>
  /\ LET inSymtbl == {dest.symtbl[k] : k \in DOMAIN dest.symtbl}
         gone == {st \in visited : label[st].bc = NULL}
     IN /\ label' = [st \in DOMAIN label \ gone |->
                       IF st \in inSymtbl THEN Strip(st) ELSE label[st]]
        /\ dest' = [dest EXCEPT !.symtbl  = Drop(@, {label[st].id : st \in gone}),
                                !.headers = Put(@, id, source.headers[id])]
  /\ pc' = "headers"
  /\ UNCHANGED <<inputs, n, instr, source, todo, id, removal, stale>>

-----------------------------------------------------------------------------
(* iscript_free.  Its walk frees the code of an animation only if the      *)
(* animation's label is in symtbl_done, where only that walk would put it: *)
(* no animation gets past the test, and no instruction is freed.           *)
FreeIscript ==
  /\ pc = "input" /\ n = Len(inputs)
  /\ label' = Drop(label, {dest.symtbl[k] : k \in DOMAIN dest.symtbl})
  /\ dest' = EmptyIscript
  /\ pc' = "exit"
  /\ UNCHANGED <<inputs, n, instr, source, todo, id, removal, stale>>

Exited == pc = "exit" /\ UNCHANGED vars

Next ==
  \/ ReadInput
  \/ \E h \in todo : MergeHeader(h)
  \/ HeadersMerged
  \/ \E st \in todo : MergeLabel(st)
  \/ LabelsMerged
  \/ RemoveEntry \/ NextInstr \/ AfterLabel \/ AfterJump
  \/ EntriesRemoved \/ FreeInstr \/ Disconnect \/ RemoveLabels
  \/ FreeIscript \/ Exited

Spec == Init /\ [][Next]_vars

(* icecc is sequential code that runs by itself. *)
FairSpec == Spec /\ WF_vars(Next)

-----------------------------------------------------------------------------
Between == pc = "input"   \* no merge is going on

(* After a merge, whatever was removed, the pointers of the graph agree    *)
(* both ways, none points to freed memory, and the symbol table is exact.  *)
MergedAgree ==
  Between =>
    /\ InstrsAgree(instr, label)
    /\ LabelsAgree(instr, label)
    /\ HeadersAgree(dest.headers, label)
    /\ SymTblAgrees(dest.symtbl, dest.uniq_id, label)

Removing == IF pc \in {"remove", "free"} THEN {id} ELSE {}

MergedArchive ==
  INSTANCE Archive WITH
    inputs  <- [k \in DOMAIN inputs |->
                  [h \in DOMAIN inputs[k].headers |-> ProgramScript(inputs[k], k, h)]],
    read    <- n,
    todo    <- Removing \cup (IF pc = "labels" THEN {} ELSE todo),
    archive <- [h \in DOMAIN dest.headers \ Removing |->
                  Script(instr, label, dest.headers[h])]

(* icecc implements the archive: after every single step, also in the      *)
(* middle of a removal, each header that is not being removed has the      *)
(* script of the last input that defines it, whatever it shares with one   *)
(* that is replaced; a header changes only by being removed and put again. *)
ImplementsArchive == MergedArchive!Spec

(* No instruction is left that no header executes: what only a removed     *)
(* header used is gone.                                                    *)
NoDeadCode ==
  Between =>
    DOMAIN instr = UNION {Executes(instr, label, dest.headers[h]) : h \in DOMAIN dest.headers}

(* isinstr_reached_by, which goes backwards, finds the headers from which  *)
(* execution gets to the instruction; also in the middle of a removal,     *)
(* which decides by it what to keep.                                       *)
ReachedByIsExact ==
  pc \in {"input", "remove"} =>
    \A h \in DOMAIN dest.headers :
      LET executed == Executes(instr, [l \in DOMAIN label |->
                         IF label[l].bc = NULL THEN [label[l] EXCEPT !.bc = l] ELSE label[l]],
                         dest.headers[h])
      IN \A x \in DOMAIN instr :
           x[1] = dest.headers[h].ptr[1] => (h \in Reached(x)) = (x \in executed)

(* The queue of instructions to free holds no instruction twice and none   *)
(* that has been freed.                                                    *)
FreedOnce ==
  /\ \A j, k \in DOMAIN freeinstrs : freeinstrs[j] = freeinstrs[k] => j = k
  /\ \A k \in DOMAIN freeinstrs : freeinstrs[k] \in DOMAIN instr

(* The walk over a graph with loops ends, and icecc gets to its end. *)
MergeEnds == <>(pc = "exit")

(* iscript.c:1018, before an instruction is freed: "safe to free me".  So  *)
(* nothing is written to it any more.                                      *)
SafeToFree == stale = {}
=============================================================================
