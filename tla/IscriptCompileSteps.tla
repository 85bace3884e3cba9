------------------------ MODULE IscriptCompileSteps ------------------------
(***************************************************************************)
(* The searches that IscriptCompile takes in one step, step by step:       *)
(* isinstr_reached_by, which goes backwards from an instruction through    *)
(* code that may jump in circles, and the loop of err_remove_label, which  *)
(* searches from one instruction after the other until a header is found.  *)
(*                                                                         *)
(* The two mutually recursive functions of the search are a stack: for     *)
(* each label that is being visited its instruction, and the jumps to the  *)
(* label that are still to be followed.                                    *)
(***************************************************************************)
EXTENDS IscriptCompile

VARIABLES
  step,     \* "none", "check" a label, "loop" of a removal, or the "search" in it
  at,       \* the label that is checked, or the instruction to be removed
  ip,       \* the instruction the search is at
  visited,  \* the ids of the labels visited
  reached,  \* the headers found
  visits    \* the stack: [ip, jumps]

search == <<ip, visited, reached, visits>>
steps_vars == <<vars, step, at, search>>

StepsInit ==
  /\ Init
  /\ step = "none" /\ at = NULL
  /\ ip = NULL /\ visited = {} /\ reached = {} /\ visits = <<>>

(* isinstr_reached_by is called. *)
Search(i) == ip' = i /\ visited' = {} /\ reached' = {} /\ visits' = <<>>

Over == ip = NULL /\ visits = <<>>

-----------------------------------------------------------------------------
(* __iscript_instr_visited_by, one turn of its loop. *)
NewLabel == {instr[ip].st_entry} \ ({NULL} \cup {st \in DOMAIN label : label[st].id \in visited})

Back ==
  /\ step \in {"check", "search"}
  /\ ip # NULL /\ NewLabel = {}
  /\ ip' = instr[ip].prev
  /\ UNCHANGED <<vars, step, at, visited, reached, visits>>

(* ... which calls __iscript_symtblent_visited_by. *)
Visit ==
  /\ step \in {"check", "search"}
  /\ ip # NULL
  /\ \E st \in NewLabel :
       /\ visited' = visited \cup {label[st].id}
       /\ reached' = reached \cup 
                     {an.header[2] : an \in {a \in label[st].anims : a.type = "HEADER"}}
       /\ visits' = <<[ip |-> ip, jumps |-> label[st].jumps]>> \o visits
  /\ ip' = NULL
  /\ UNCHANGED <<vars, step, at>>

(* The loop over the jumps to a label, and the return from it. *)
Rest_Same(jumps, j) == jumps
Rest(jumps, j) == jumps \ {j}

FollowJump ==
  /\ ip = NULL /\ visits # <<>>
  /\ \E j \in Head(visits).jumps :
       /\ ip' = j
       /\ visits' = [visits EXCEPT ![1].jumps = Rest(@, j)]
  /\ UNCHANGED <<vars, step, at, visited, reached>>

(* The search goes on before the instruction that has the label.  Mutant:  *)
(* it ends where a label was found.                                        *)
Resumed_Not(i) == NULL
Resumed(i) == instr[i].prev

Visited ==
  /\ ip = NULL /\ visits # <<>> /\ Head(visits).jumps = {}
  /\ ip' = Resumed(Head(visits).ip)
  /\ visits' = Tail(visits)
  /\ UNCHANGED <<vars, step, at, visited, reached>>

-----------------------------------------------------------------------------
(* The loop over the names, which searches for headers from a label that   *)
(* none leads to by itself.  Mutant: only if no jump leads to it either.   *)
Suspect_Unreferenced(st) == Unreferenced(st)
Suspect(st) == label[st].anims = {}

CheckStarts(e) ==
  /\ pc = "check" /\ step = "none"
  /\ e \in todo
  /\ todo' = todo \ {e}
  /\ bad_labels' = bad_labels \o (IF Unreferenced(e.st) THEN <<e.st>> ELSE <<>>)
  /\ IF Suspect(e.st)
     THEN step' = "check" /\ at' = e.st /\ Search(label[e.st].bc)
     ELSE UNCHANGED <<step, at, search>>
  /\ UNCHANGED <<src, lineno, pc, error, parsing, instr, label, tables, relocq, freeinstrs,
                 misread>>

CheckEnds ==
  /\ step = "check" /\ Over
  /\ bad_labels' = bad_labels \o (IF reached = {} THEN <<at>> ELSE <<>>)
  /\ step' = "none" /\ at' = NULL
  /\ UNCHANGED <<src, lineno, pc, error, parsing, instr, label, tables, relocq, todo,
                 freeinstrs, misread, search>>

(* err_remove_label takes the label out of the table and frees it ...      *)
RemovalStarts ==
  /\ pc = "remove" /\ step = "none" /\ bad_labels # <<>>
  /\ LET st == Head(bad_labels) IN
       \E id \in IdRead(st) :
         /\ misread' = (misread \/ (st \notin DOMAIN label /\ id \in DOMAIN table_symtbl))
         /\ IF id \notin DOMAIN table_symtbl
            THEN UNCHANGED <<instr, label, table_symtbl, step, at>>
            ELSE LET freed == table_symtbl[id] IN
                 /\ table_symtbl' = Drop(table_symtbl, {id})
                 /\ label' = Drop(label, {freed})
                 /\ instr' = [instr EXCEPT ![label[freed].bc].st_entry = NULL]
                 /\ step' = "loop" /\ at' = label[freed].bc
  /\ bad_labels' = Tail(bad_labels)
  /\ UNCHANGED <<src, lineno, pc, error, parsing, table_headers, uniqid, table_names, relocq,
                 todo, freeinstrs, search>>

RemovalEnds == step' = "none" /\ at' = NULL

(* ... and then looks at its instructions in turn, up to one that a header *)
(* leads to.  Mutant: to the end of the chain.                             *)
IsLive_Never == FALSE
IsLive == reached # {}

LoopStarts ==
  /\ step = "loop"
  /\ IF at \in freeinstrs
     THEN RemovalEnds /\ UNCHANGED search
     ELSE step' = "search" /\ Search(at) /\ UNCHANGED at
  /\ UNCHANGED vars

LoopEnds ==
  /\ step = "search" /\ Over
  /\ IF IsLive
     THEN RemovalEnds /\ UNCHANGED freeinstrs
     ELSE /\ freeinstrs' = freeinstrs \cup {at}
          /\ IF instr[at].next = NULL
             THEN RemovalEnds
             ELSE step' = "loop" /\ at' = instr[at].next
  /\ UNCHANGED <<src, lineno, pc, error, parsing, instr, label, tables, relocq, todo,
                 bad_labels, misread, search>>

AllElse ==
  /\ step = "none"
  /\ \/ HeaderStart \/ HeaderVar \/ HeaderEnd
     \/ ReadNames \/ ReadInstr \/ ReadSymTblEnt \/ EndOfSource
     \/ Relocate \/ Relocated
     \/ GiveUp \/ Checked \/ FreeInstrs \/ Stopped
  /\ UNCHANGED <<step, at, search>>

StepsNext ==
  \/ AllElse
  \/ \E e \in todo : CheckStarts(e)
  \/ CheckEnds
  \/ RemovalStarts \/ LoopStarts \/ LoopEnds
  \/ Back \/ Visit \/ FollowJump \/ Visited

(* iscript_compile is sequential code that runs by itself. *)
StepsSpec == StepsInit /\ [][StepsNext]_steps_vars /\ WF_steps_vars(StepsNext)

-----------------------------------------------------------------------------
(* What IscriptCompile has already done in the middle of a search: queued  *)
(* the label that is checked, and freed all that is still to be freed.     *)
BadLabels ==
  IF step = "check" /\ ReachedBy(instr, label, label[at].bc) = {}
  THEN Append(bad_labels, at) ELSE bad_labels
Freed ==
  IF step \in {"loop", "search"} THEN freeinstrs \cup Doomed(instr, label, at) ELSE freeinstrs

Compiler == INSTANCE IscriptCompile WITH bad_labels <- BadLabels, freeinstrs <- Freed

(* The searches find what ReachedBy and Doomed say, whatever circles they  *)
(* meet and whatever labels and code have been removed: the compiler that  *)
(* searches step by step takes the steps of the one that searches in one   *)
(* step, from the same initial states (isinstr_reached_by,                 *)
(* err_remove_label).                                                      *)
ImplementsCompiler == [][Compiler!Next]_(Compiler!vars)

(* Compiling ends, also on chains that jump or fall into each other in     *)
(* circles: the search does because of the labels it has visited, and the  *)
(* removal because of what it has freed (isinstr_reached_by,               *)
(* err_remove_label).                                                      *)
CompileEnds == <>(pc \in {"compiled", "error"})
=============================================================================
