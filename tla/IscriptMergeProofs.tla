------------------------- MODULE IscriptMergeProofs -------------------------
(***************************************************************************)
(* Proofs about merging and removing headers: the graph stays sound, what  *)
(* only a removed header uses is freed, once, and nothing else is; and     *)
(* icecc implements the archive.                                           *)
(***************************************************************************)
EXTENDS IscriptMerge, IscriptGraphProofs

-----------------------------------------------------------------------------
(* Code, wherever it is: instruction a of input k is <<k, a>>, header h of *)
(* input k is <<k, h>>.  Nothing here depends on the state.                *)

HeaderNames(in) == UNION {{k} \X DOMAIN in[k].headers : k \in DOMAIN in}
Starts(in, r) == {r[1]} \X Entries(in[r[1]], r[2])
Run(in, r) == {r[1]} \X ReachIn(in[r[1]], r[2])
Runs(in, H) == UNION {Run(in, r) : r \in H}

After(x) == <<x[1], x[2] + 1>>
Before(x) == <<x[1], x[2] - 1>>
Falls(in, x) == FallsThrough(in[x[1]], x[2])
Leaps(in, x) == Jumps(in[x[1]], x[2])
To(in, x) == <<x[1], in[x[1]].instr[x[2]].target>>
Marked(in, x) == x[2] \in LabelsOf(in[x[1]])

(* What an instruction, a label and a header are, if D is all the code     *)
(* there is and H are the headers.                                         *)
InstrAt(in, D, x) ==
  [op       |-> x,
   next     |-> IF Falls(in, x) /\ After(x) \in D THEN After(x) ELSE NULL,
   prev     |-> IF Before(x) \in D /\ Falls(in, Before(x)) THEN Before(x) ELSE NULL,
   st_entry |-> IF Marked(in, x) THEN x ELSE NULL,
   jump     |-> IF Leaps(in, x) THEN To(in, x) ELSE NULL]

JumpsAt(in, D, l) == {x \in D : Leaps(in, x) /\ To(in, x) = l}
AnimsOK(in, H, l, anims) ==
  /\ \A an \in anims : /\ an.header \in H /\ an.header[1] = l[1]
                       /\ an.type = "HEADER" => l \in Starts(in, an.header)
  /\ \A r \in H : l \in Starts(in, r) => [header |-> r, type |-> "HEADER"] \in anims
LabelOK(in, D, H, l, st) ==
  /\ st = [id |-> st.id, bc |-> st.bc, anims |-> st.anims, jumps |-> JumpsAt(in, D, l)]
  /\ AnimsOK(in, H, l, st.anims)

HeaderAt(in, r) ==
  [ptr        |-> r,
   st_entries |-> [i \in DOMAIN in[r[1]].headers[r[2]] |->
                     IF in[r[1]].headers[r[2]][i] = 0 THEN NULL
                     ELSE <<r[1], in[r[1]].headers[r[2]][i]>>]]

-----------------------------------------------------------------------------
(* The invariant.  The graph is at any time the loaded graphs, cut down to *)
(* what the headers that are left execute.  First the headers:             *)

Merging == {"headers", "remove", "free"}
Pending == CASE pc = "headers" -> todo
             [] pc \in {"remove", "free"} -> todo \cup {id}
             [] OTHER -> {}
Live == {dest.headers[h].ptr : h \in DOMAIN dest.headers} \cup ({n} \X Pending)

HeadersInv ==
  /\ inputs \in Inputs /\ n \in 0 .. Len(inputs)
  /\ pc \in {"input", "labels", "exit"} \cup Merging
  /\ dest = [headers |-> dest.headers, symtbl |-> dest.symtbl, uniq_id |-> dest.uniq_id]
  /\ \A h \in DOMAIN dest.headers : \E k \in 1 .. n :
       h \in DOMAIN inputs[k].headers /\ dest.headers[h] = HeaderAt(inputs, <<k, h>>)
  /\ pc \in Merging =>
       /\ n > 0 /\ DOMAIN source.headers = DOMAIN inputs[n].headers
       /\ \A h \in DOMAIN source.headers : source.headers[h] = HeaderAt(inputs, <<n, h>>)
       /\ Pending \subseteq DOMAIN source.headers
       /\ \A h \in Pending \cap DOMAIN dest.headers : dest.headers[h].ptr # <<n, h>>
  /\ pc \in {"remove", "free"} => id \in DOMAIN dest.headers /\ id \notin todo

HeapInv ==
  pc # "exit" =>
    /\ IsFiniteSet(DOMAIN instr)
    /\ \A x \in DOMAIN instr : instr[x] = InstrAt(inputs, DOMAIN instr, x)
    /\ pc # "free" => DOMAIN instr = Runs(inputs, Live)
    /\ DOMAIN label = {l \in Runs(inputs, Live) : Marked(inputs, l)}
    /\ \A l \in DOMAIN label : LabelOK(inputs, DOMAIN instr, Live, l, label[l])
    /\ pc \notin {"remove", "free"} => \A l \in DOMAIN label : label[l].bc = l

(* The symbol tables: that of the result has the labels of the inputs      *)
(* before, that of the input its own, until the second loop.               *)
InSymtbl == {dest.symtbl[k] : k \in DOMAIN dest.symtbl}
SymtblInv ==
  /\ dest.uniq_id \in Nat /\ DOMAIN dest.symtbl \subseteq Nat
  /\ pc # "exit" => \A k \in DOMAIN dest.symtbl :
                      k < dest.uniq_id /\ label[dest.symtbl[k]].id = k
  /\ pc = "input" => InSymtbl = DOMAIN label
  /\ pc \in Merging =>
       /\ InSymtbl = {l \in DOMAIN label : l[1] # n}
       /\ {source.symtbl[k] : k \in DOMAIN source.symtbl} = {l \in DOMAIN label : l[1] = n}
  /\ pc = "labels" => InSymtbl \cup todo = DOMAIN label /\ InSymtbl \cap todo = {}

(* The removal of a header: R is the code it executes, K the code that     *)
(* other headers execute, too, and is kept.  Each label it has been to and *)
(* each instruction that follows a freed one has been dealt with, or some  *)
(* activation is going to.                                                 *)
Leaving == dest.headers[id].ptr
Kept == Runs(inputs, Live \ {Leaving})
Own == Run(inputs, Leaving) \ Kept

Elems(s) == {s[k] : k \in DOMAIN s}
Once(s) == \A j, k \in DOMAIN s : s[j] = s[k] => j = k

Activations(R) == [st : R, next : R \cup {NULL}, instr : R \cup {NULL},
                   at : {"next", "label", "jump"}]
Busy(f) == f.at \in {"label", "jump"}
BusyOnce(s) ==
  \A i, j \in DOMAIN s : Busy(s[i]) /\ Busy(s[j]) /\ s[i].instr = s[j].instr => i = j

ActivationOK(in, R, K, vis, visin, free, f) ==
  /\ f.st \in vis \ K
  /\ Busy(f) =>
       /\ f.instr \in visin \ Elems(free)
       /\ f.next = IF Falls(in, f.instr) THEN After(f.instr) ELSE NULL
       /\ Marked(in, f.instr) => f.instr \in vis
  /\ f.at = "jump" =>
       f.instr \in R \ K /\ (Leaps(in, f.instr) => To(in, f.instr) \in vis)

WalkOK(in, R, K, stk, vis, visin, free, disc) ==
  /\ stk \in Seq(Activations(R)) /\ BusyOnce(stk)
  /\ \A f \in Elems(stk) : ActivationOK(in, R, K, vis, visin, free, f)
  /\ vis \subseteq {l \in R : Marked(in, l)} /\ visin \subseteq R
  /\ free \in Seq(R \ K) /\ Once(free) /\ disc \in Seq(R \ K)
  /\ \A x \in Elems(free) : /\ x \in visin
                            /\ Leaps(in, x) => To(in, x) \in vis
                            /\ Marked(in, x) => x \in vis
  /\ \A x \in visin \ K : x \in Elems(free) \/ \E f \in Elems(stk) : Busy(f) /\ f.instr = x

Handled(K, stk, visin, y) == y \in K \/ y \in visin \/ \E f \in Elems(stk) : f.next = y

AllHandled(in, R, K, stk, vis, visin, free, lab) ==
  /\ \A l \in vis : Handled(K, stk, visin, l)
  /\ \A x \in Elems(free) : Falls(in, x) => Handled(K, stk, visin, After(x))
  /\ \A l \in DOMAIN lab : lab[l].bc = l \/ (lab[l].bc = NULL /\ l \in (vis \cap R) \ K)
  /\ \A l \in vis \ K : lab[l].bc = NULL \/ \E f \in Elems(stk) : f.st = l

WalkInv ==
  pc = "remove" =>
    /\ WalkOK(inputs, Run(inputs, Leaving), Kept, stack, visited, visitedinstrs, freeinstrs,
              disconnect)
    /\ AllHandled(inputs, Run(inputs, Leaving), Kept, stack, visited, visitedinstrs,
                  freeinstrs, label)
    /\ animno \in Nat \ {0}
    /\ \A i \in DOMAIN hp.st_entries :
         i < animno => hp.st_entries[i] = NULL \/ hp.st_entries[i] \in visited

FreeInv ==
  /\ pc = "free" =>
       /\ freeinstrs \in Seq(Own) /\ Once(freeinstrs) /\ disconnect \in Seq(Own)
       /\ DOMAIN instr = Kept \cup Elems(freeinstrs)
       /\ visited \subseteq DOMAIN label
       /\ \A l \in DOMAIN label :
            IF l \in Own THEN l \in visited /\ label[l].bc = NULL ELSE label[l].bc = l
  /\ pc \notin {"remove", "free"} => freeinstrs = <<>>

MergeInv == HeadersInv /\ HeapInv /\ SymtblInv /\ WalkInv /\ FreeInv

-----------------------------------------------------------------------------
(* Facts about code. *)

Good(in) ==
  /\ DOMAIN in = 1 .. Len(in) /\ Len(in) \in Nat
  /\ \A k \in DOMAIN in : IsProgram(in[k])

LEMMA NameFacts ==
  ASSUME NEW in, Good(in)
  PROVE  /\ \A r \in HeaderNames(in) : /\ r = <<r[1], r[2]>>
                                       /\ r[1] \in DOMAIN in /\ r[1] \in Nat
                                       /\ r[2] \in DOMAIN in[r[1]].headers
         /\ \A k \in DOMAIN in : \A h \in DOMAIN in[k].headers : <<k, h>> \in HeaderNames(in)
BY DEF HeaderNames, Good

(* Where there can be code. *)
LEMMA PlaceFacts ==
  ASSUME NEW in, Good(in), NEW r \in HeaderNames(in), NEW x \in Run(in, r)
  PROVE  /\ x = <<x[1], x[2]>> /\ x[1] = r[1] /\ x[1] \in DOMAIN in /\ x[1] \in Nat
         /\ x[2] \in CodeOf(in[x[1]]) /\ x[2] \in ReachIn(in[r[1]], r[2])
         /\ x[2] \in Nat /\ x[2] # 0 /\ x # NULL
         /\ Before(After(x)) = x /\ After(Before(x)) = x /\ After(x)[1] = x[1]
<1>1. r[1] \in DOMAIN in /\ r[1] \in Nat /\ r[2] \in DOMAIN in[r[1]].headers
  BY NameFacts
<1>2. IsProgram(in[r[1]])
  BY <1>1 DEF Good
<1>3. x = <<x[1], x[2]>> /\ x[1] = r[1] /\ x[2] \in ReachIn(in[r[1]], r[2])
  BY DEF Run
<1>4. x[2] \in CodeOf(in[x[1]])
  BY <1>1, <1>2, <1>3, ReachFacts
<1>5. x[2] \in Nat /\ x[2] # 0
  BY <1>2, <1>3, <1>4, ProgramFacts
<1>6. x # NULL
  <2>1. x \in Nat \X Nat
    BY <1>1, <1>3, <1>5
  <2> QED
    BY <2>1, NullAssumption
<1>7. Before(After(x)) = x /\ After(Before(x)) = x /\ After(x)[1] = x[1]
  BY <1>3, <1>5 DEF Before, After
<1> QED
  BY <1>1, <1>3, <1>4, <1>5, <1>6, <1>7

LEMMA RunFacts ==
  ASSUME NEW in, Good(in), NEW r \in HeaderNames(in)
  PROVE  /\ Starts(in, r) \subseteq Run(in, r)
         /\ \A x \in Starts(in, r) : Marked(in, x)
         /\ \A x \in Run(in, r) : Falls(in, x) => After(x) \in Run(in, r)
         /\ \A x \in Run(in, r) : Leaps(in, x) => To(in, x) \in Run(in, r) /\ Marked(in, To(in, x))
         /\ \A T : /\ Starts(in, r) \subseteq T
                   /\ \A x \in T \cap Run(in, r) : /\ Falls(in, x) => After(x) \in T
                                                   /\ Leaps(in, x) => To(in, x) \in T
                  => Run(in, r) \subseteq T
<1>1. PICK k, h : k = r[1] /\ h = r[2] /\ k \in DOMAIN in /\ h \in DOMAIN in[k].headers
  BY NameFacts
<1>2. PICK p : p = in[k] /\ IsProgram(p)
  BY <1>1 DEF Good
<1>3. /\ Entries(p, h) \subseteq ReachIn(p, h) /\ ReachIn(p, h) \subseteq CodeOf(p)
      /\ \A a \in ReachIn(p, h) : Succ(p, a) \subseteq ReachIn(p, h)
  BY <1>1, <1>2, ReachFacts
<1>4. Starts(in, r) \subseteq Run(in, r)
  BY <1>1, <1>2, <1>3 DEF Starts, Run
<1>5. \A x \in Starts(in, r) : Marked(in, x)
  <2>1. Entries(p, h) \subseteq LabelsOf(p)
    BY <1>1, <1>2 DEF LabelsOf
  <2> QED
    BY <1>1, <1>2, <2>1 DEF Starts, Marked
<1>6. ASSUME NEW x \in Run(in, r)
      PROVE  /\ Falls(in, x) => After(x) \in Run(in, r)
             /\ Leaps(in, x) => To(in, x) \in Run(in, r) /\ Marked(in, To(in, x))
  <2>1. x[1] = k /\ x[2] \in ReachIn(p, h)
    BY <1>1, <1>2 DEF Run
  <2>2. Falls(in, x) => x[2] + 1 \in ReachIn(p, h)
    BY <1>2, <1>3, <2>1 DEF Falls, Succ
  <2>3. Leaps(in, x) => p.instr[x[2]].target \in ReachIn(p, h) /\ p.instr[x[2]].target \in LabelsOf(p)
    BY <1>2, <1>3, <2>1 DEF Leaps, Succ, LabelsOf, JumpsIn
  <2> QED
    BY <1>1, <1>2, <2>1, <2>2, <2>3 DEF Run, After, To, Marked
<1>7. ASSUME NEW T, Starts(in, r) \subseteq T,
             \A x \in T \cap Run(in, r) : /\ Falls(in, x) => After(x) \in T
                                          /\ Leaps(in, x) => To(in, x) \in T
      PROVE  Run(in, r) \subseteq T
  <2> DEFINE A == {a \in ReachIn(p, h) : <<k, a>> \in T}
  <2>1. Entries(p, h) \subseteq A
    BY <1>1, <1>2, <1>3, <1>7 DEF Starts
  <2>2. ASSUME NEW a \in A \cap ReachIn(p, h) PROVE Succ(p, a) \subseteq A
    <3>1. PICK x : x = <<k, a>>
      OBVIOUS
    <3>2. x \in T \cap Run(in, r) /\ x[1] = k /\ x[2] = a
      BY <1>1, <1>2, <3>1 DEF Run
    <3>3. FallsThrough(p, a) => <<k, a + 1>> \in T
      BY <1>2, <1>7, <3>2 DEF Falls, After
    <3>4. Jumps(p, a) => <<k, p.instr[a].target>> \in T
      BY <1>2, <1>7, <3>2 DEF Leaps, To
    <3>5. Succ(p, a) \subseteq ReachIn(p, h)
      BY <1>3
    <3> QED
      BY <3>3, <3>4, <3>5 DEF Succ
  <2>3. ReachIn(p, h) \subseteq A
    <3> HIDE DEF A
    <3> QED
      BY <1>1, <1>2, <2>1, <2>2, ReachFacts
  <2> QED
    BY <1>1, <1>2, <2>3 DEF Run
<1> QED
  BY <1>4, <1>5, <1>6, <1>7

LEMMA RunsFacts ==
  ASSUME NEW in, Good(in), NEW H, H \subseteq HeaderNames(in)
  PROVE  /\ \A x \in Runs(in, H) :
              /\ x = <<x[1], x[2]>> /\ x # NULL /\ x[1] \in Nat /\ x[1] \in DOMAIN in
              /\ Before(After(x)) = x /\ After(Before(x)) = x
              /\ \E r \in H : x \in Run(in, r) /\ r[1] = x[1]
              /\ Falls(in, x) => After(x) \in Runs(in, H)
              /\ Leaps(in, x) => To(in, x) \in Runs(in, H) /\ Marked(in, To(in, x))
         /\ \A r \in H : Run(in, r) \subseteq Runs(in, H)
<1>1. ASSUME NEW x \in Runs(in, H)
      PROVE  /\ x = <<x[1], x[2]>> /\ x # NULL /\ x[1] \in Nat /\ x[1] \in DOMAIN in
             /\ Before(After(x)) = x /\ After(Before(x)) = x
             /\ \E r \in H : x \in Run(in, r) /\ r[1] = x[1]
             /\ Falls(in, x) => After(x) \in Runs(in, H)
             /\ Leaps(in, x) => To(in, x) \in Runs(in, H) /\ Marked(in, To(in, x))
  <2>1. PICK r \in H : x \in Run(in, r)
    BY DEF Runs
  <2>2. r \in HeaderNames(in) /\ Run(in, r) \subseteq Runs(in, H)
    BY DEF Runs
  <2>3. /\ x = <<x[1], x[2]>> /\ x # NULL /\ x[1] \in Nat /\ x[1] \in DOMAIN in
        /\ Before(After(x)) = x /\ After(Before(x)) = x /\ r[1] = x[1]
    BY <2>1, <2>2, PlaceFacts
  <2>4. /\ Falls(in, x) => After(x) \in Run(in, r)
        /\ Leaps(in, x) => To(in, x) \in Run(in, r) /\ Marked(in, To(in, x))
    BY <2>1, <2>2, RunFacts
  <2> QED
    BY <2>1, <2>2, <2>3, <2>4
<1>2. \A r \in H : Run(in, r) \subseteq Runs(in, H)
  BY DEF Runs
<1> QED
  BY <1>1, <1>2

-----------------------------------------------------------------------------
(* The operators of IscriptGraph, in a heap that is a part of the graphs   *)
(* that were loaded.                                                       *)

Heap(in, H, heap, lab) ==
  /\ Good(in) /\ H \subseteq HeaderNames(in) /\ IsFiniteSet(DOMAIN heap)
  /\ DOMAIN heap = Runs(in, H)
  /\ \A x \in DOMAIN heap : heap[x] = InstrAt(in, DOMAIN heap, x)
  /\ DOMAIN lab = {l \in Runs(in, H) : Marked(in, l)}
  /\ \A l \in DOMAIN lab : LabelOK(in, DOMAIN heap, H, l, lab[l])

LEMMA FieldFacts ==
  ASSUME NEW in, NEW D, NEW x
  PROVE  /\ InstrAt(in, D, x).op = x
         /\ InstrAt(in, D, x).next = IF Falls(in, x) /\ After(x) \in D THEN After(x) ELSE NULL
         /\ InstrAt(in, D, x).prev = IF Before(x) \in D /\ Falls(in, Before(x)) THEN Before(x) ELSE NULL
         /\ InstrAt(in, D, x).st_entry = IF Marked(in, x) THEN x ELSE NULL
         /\ InstrAt(in, D, x).jump = IF Leaps(in, x) THEN To(in, x) ELSE NULL
BY DEF InstrAt

LEMMA LabelFields ==
  ASSUME NEW in, NEW D, NEW H, NEW l, NEW st, LabelOK(in, D, H, l, st)
  PROVE  st.jumps = JumpsAt(in, D, l) /\ AnimsOK(in, H, l, st.anims)
<1>1. PICK e : e = [id |-> st.id, bc |-> st.bc, anims |-> st.anims, jumps |-> JumpsAt(in, D, l)]
  OBVIOUS
<1>2. e.jumps = JumpsAt(in, D, l) /\ st = e
  BY <1>1 DEF LabelOK
<1> QED
  BY <1>2 DEF LabelOK

(* isinstr_reached_by is exact. *)
LEMMA ReachedExact ==
  ASSUME NEW in, NEW H, NEW heap, NEW lab, Heap(in, H, heap, lab), NEW x \in DOMAIN heap
  PROVE  ReachedBy(heap, lab, x) = {r[2] : r \in {q \in H : x \in Run(in, q)}}
<1> DEFINE D == DOMAIN heap
           Back(y) == (({heap[y].prev} \ {NULL}) \cup
                       UNION {lab[l].jumps : l \in {heap[y].st_entry} \cap DOMAIN lab})
                      \cap DOMAIN heap
           next == [y \in D |-> Back(y)]
           back == Closure({x}, next)
<1>0. /\ Good(in) /\ H \subseteq HeaderNames(in) /\ IsFiniteSet(D) /\ D = Runs(in, H)
      /\ \A y \in D : heap[y] = InstrAt(in, D, y)
      /\ DOMAIN lab = {l \in D : Marked(in, l)}
      /\ \A l \in DOMAIN lab : lab[l].jumps = JumpsAt(in, D, l) /\ AnimsOK(in, H, l, lab[l].anims)
  BY LabelFields DEF Heap
<1>1. ASSUME NEW y \in D, NEW z \in D
      PROVE  z \in Back(y) <=> (Falls(in, z) /\ After(z) = y) \/ (Leaps(in, z) /\ To(in, z) = y)
  <2>1. /\ heap[y].prev = IF Before(y) \in D /\ Falls(in, Before(y)) THEN Before(y) ELSE NULL
        /\ heap[y].st_entry = IF Marked(in, y) THEN y ELSE NULL
    BY <1>0, FieldFacts
  <2>2. y # NULL /\ z # NULL /\ After(Before(y)) = y /\ Before(After(z)) = z
    BY <1>0, RunsFacts
  <2>3. z = heap[y].prev <=> Falls(in, z) /\ After(z) = y
    BY <2>1, <2>2
  <2>4. Leaps(in, z) => Marked(in, To(in, z))
    BY <1>0, RunsFacts
  <2>5. z \in UNION {lab[l].jumps : l \in {heap[y].st_entry} \cap DOMAIN lab}
          <=> Leaps(in, z) /\ To(in, z) = y
    <3>1. CASE Marked(in, y)
      <4>1. heap[y].st_entry = y /\ y \in DOMAIN lab
        BY <1>0, <2>1, <3>1
      <4>2. z \in lab[y].jumps <=> Leaps(in, z) /\ To(in, z) = y
        BY <1>0, <4>1 DEF JumpsAt
      <4> QED
        BY <4>1, <4>2
    <3>2. CASE ~Marked(in, y)
      <4>1. heap[y].st_entry \notin DOMAIN lab
        BY <1>0, <2>1, <3>2, RunsFacts
      <4> QED
        BY <2>4, <3>2, <4>1
    <3> QED
      BY <3>1, <3>2
  <2> QED
    BY <2>2, <2>3, <2>5
<1>2. next \in [D -> SUBSET D] /\ \A y \in D : next[y] = Back(y)
  OBVIOUS
<1>3. /\ x \in back /\ back \subseteq D
      /\ \A y \in back : \A z \in Back(y) : z \in back
      /\ \A T : x \in T /\ (\A y \in T \cap D : Back(y) \subseteq T) => back \subseteq T
  <2> HIDE DEF Back
  <2>1. DOMAIN next = D
    OBVIOUS
  <2>2. /\ {x} \subseteq back /\ back \subseteq {x} \cup D
        /\ Closed(back, next)
        /\ \A T : {x} \subseteq T /\ Closed(T, next) => back \subseteq T
    <3> HIDE DEF next
    <3> QED
      BY <1>0, <1>2, ClosureIsLeast
  <2>3. back \subseteq D
    BY <2>2
  <2>4. ASSUME NEW T, x \in T, \A y \in T \cap D : Back(y) \subseteq T
        PROVE  back \subseteq T
    BY <1>2, <2>1, <2>2, <2>4 DEF Closed
  <2>5. \A y \in back : \A z \in Back(y) : z \in back
    <3> HIDE DEF next, back
    <3> QED
      BY <1>2, <2>1, <2>2, <2>3 DEF Closed
  <2> HIDE DEF next, back
  <2> QED
    BY <2>2, <2>3, <2>4, <2>5
<1>4. ReachedBy(heap, lab, x) =
        {an.header[2] : an \in {b \in UNION {lab[l].anims : l \in {heap[y].st_entry : y \in back}
                                                                    \cap DOMAIN lab} :
                                  b.type = "HEADER"}}
  <2>1. {x} \ {NULL} = {x}
    BY <1>0, RunsFacts
  <2> QED
    BY <2>1 DEF ReachedBy
<1> HIDE DEF next, back
<1>5. {heap[y].st_entry : y \in back} \cap DOMAIN lab = {y \in back : Marked(in, y)}
  <2>1. \A y \in back : heap[y].st_entry = IF Marked(in, y) THEN y ELSE NULL
    BY <1>0, <1>3, FieldFacts
  <2>2. NULL \notin DOMAIN lab
    BY <1>0, RunsFacts
  <2> QED
    BY <1>0, <1>3, <2>1, <2>2
<1> HIDE DEF Back
<1>6. ASSUME NEW l \in back, Marked(in, l), NEW an \in lab[l].anims, an.type = "HEADER"
      PROVE  an.header \in H /\ x \in Run(in, an.header)
  <2>1. l \in DOMAIN lab
    BY <1>0, <1>3, <1>6
  <2>2. an.header \in H /\ l \in Starts(in, an.header)
    BY <1>0, <1>6, <2>1 DEF AnimsOK
  <2>3. l \in Run(in, an.header)
    BY <1>0, <2>2, RunFacts
  <2> DEFINE T == {y \in D : y \in Run(in, an.header) => x \in Run(in, an.header)}
  <2>4. ASSUME NEW y \in T \cap D, NEW z \in Back(y) PROVE z \in T
    <3>1. z \in D
      BY DEF Back
    <3>2. z \in Run(in, an.header) => y \in Run(in, an.header)
      BY <1>0, <1>1, <2>2, <3>1, RunFacts
    <3> QED
      BY <3>1, <3>2
  <2>5. back \subseteq T
    BY <1>3, <2>4
  <2> QED
    BY <2>2, <2>3, <2>5
<1>7. ASSUME NEW r \in H, x \in Run(in, r)
      PROVE  \E l \in back : l \in Starts(in, r)
  <2> SUFFICES ASSUME \A l \in back : l \notin Starts(in, r) PROVE FALSE
    OBVIOUS
  <2>1. r \in HeaderNames(in) /\ Run(in, r) \subseteq D
    BY <1>0, RunsFacts
  <2> DEFINE T == {y \in Run(in, r) : y \notin back}
  <2>2. Starts(in, r) \subseteq T
    BY <1>0, <2>1, RunFacts
  <2>3. ASSUME NEW y \in T \cap Run(in, r), NEW z \in Run(in, r),
               (Falls(in, y) /\ After(y) = z) \/ (Leaps(in, y) /\ To(in, y) = z)
        PROVE  z \in T
    <3>1. y \in Back(z)
      BY <1>1, <2>1, <2>3
    <3> QED
      BY <1>3, <3>1
  <2>4. \A y \in T \cap Run(in, r) : /\ Falls(in, y) => After(y) \in T
                                     /\ Leaps(in, y) => To(in, y) \in T
    BY <1>0, <2>1, <2>3, RunFacts
  <2>5. Run(in, r) \subseteq T
    <3> HIDE DEF T
    <3> QED
      BY <1>0, <2>1, <2>2, <2>4, RunFacts
  <2> QED
    BY <1>3, <1>7, <2>5
<1>8. ASSUME NEW r \in H, NEW l \in back, l \in Starts(in, r)
      PROVE  Marked(in, l) /\ [header |-> r, type |-> "HEADER"] \in lab[l].anims
  <2>1. Marked(in, l)
    BY <1>0, <1>8, RunFacts
  <2> QED
    BY <1>0, <1>3, <1>8, <2>1 DEF AnimsOK
<1>9. ReachedBy(heap, lab, x) \subseteq {r[2] : r \in {q \in H : x \in Run(in, q)}}
  BY <1>4, <1>5, <1>6
<1>10. ASSUME NEW r \in H, x \in Run(in, r) PROVE r[2] \in ReachedBy(heap, lab, x)
  <2>1. PICK l \in back : l \in Starts(in, r)
    BY <1>7, <1>10
  <2>2. PICK an : an = [header |-> r, type |-> "HEADER"]
    OBVIOUS
  <2>3. Marked(in, l) /\ an \in lab[l].anims /\ an.type = "HEADER" /\ an.header[2] = r[2]
    BY <1>8, <2>1, <2>2
  <2> QED
    BY <1>4, <1>5, <2>3
<1> QED
  BY <1>9, <1>10

(* A header, as far as its own code is there. *)
Intact(in, r, heap, lab) ==
  /\ Good(in) /\ r \in HeaderNames(in) /\ IsFiniteSet(DOMAIN heap)
  /\ Run(in, r) \subseteq DOMAIN heap
  /\ \A x \in Run(in, r) : heap[x] = InstrAt(in, DOMAIN heap, x)
  /\ \A l \in Run(in, r) : Marked(in, l) => l \in DOMAIN lab /\ lab[l].bc = l
  /\ NULL \notin DOMAIN heap /\ NULL \notin DOMAIN lab

LEMMA HeaderFields ==
  ASSUME NEW in, Good(in), NEW r \in HeaderNames(in)
  PROVE  /\ HeaderAt(in, r).ptr = r
         /\ DOMAIN HeaderAt(in, r).st_entries = DOMAIN in[r[1]].headers[r[2]]
         /\ \A i \in DOMAIN in[r[1]].headers[r[2]] :
              /\ HeaderAt(in, r).st_entries[i] = IF in[r[1]].headers[r[2]][i] = 0 THEN NULL
                                                 ELSE <<r[1], in[r[1]].headers[r[2]][i]>>
              /\ in[r[1]].headers[r[2]][i] # 0 => HeaderAt(in, r).st_entries[i] \in Starts(in, r)
         /\ \A x \in Starts(in, r) : \E i \in DOMAIN HeaderAt(in, r).st_entries :
              HeaderAt(in, r).st_entries[i] = x
         /\ NULL \notin Starts(in, r)
<1>1. PICK s : s = in[r[1]].headers[r[2]]
  OBVIOUS
<1>2. PICK e : e = [i \in DOMAIN s |-> IF s[i] = 0 THEN NULL ELSE <<r[1], s[i]>>]
  OBVIOUS
<1>3. HeaderAt(in, r).ptr = r /\ HeaderAt(in, r).st_entries = e
  BY <1>1, <1>2 DEF HeaderAt
<1>4. /\ DOMAIN e = DOMAIN s
      /\ \A i \in DOMAIN s : e[i] = IF s[i] = 0 THEN NULL ELSE <<r[1], s[i]>>
  BY <1>2
<1>5. Starts(in, r) = {r[1]} \X ({s[i] : i \in DOMAIN s} \ {0})
  BY <1>1 DEF Starts, Entries
<1>6. \A i \in DOMAIN s : s[i] # 0 => e[i] \in Starts(in, r)
  BY <1>4, <1>5
<1>7. ASSUME NEW x \in Starts(in, r) PROVE \E i \in DOMAIN e : e[i] = x
  <2>1. PICK i \in DOMAIN s : s[i] # 0 /\ x = <<r[1], s[i]>>
    BY <1>5
  <2> QED
    BY <1>4, <2>1
<1>8. NULL \notin Starts(in, r)
  BY RunFacts, PlaceFacts
<1> QED
  BY <1>1, <1>3, <1>4, <1>6, <1>7, <1>8

LEMMA NextFacts ==
  ASSUME NEW in, NEW r, NEW heap, NEW lab, Intact(in, r, heap, lab), NEW x \in Run(in, r)
  PROVE  /\ heap[x].op = x
         /\ heap[x].next = IF Falls(in, x) THEN After(x) ELSE NULL
         /\ heap[x].jump = IF Leaps(in, x) THEN To(in, x) ELSE NULL
         /\ Falls(in, x) => After(x) \in Run(in, r)
         /\ Leaps(in, x) => To(in, x) \in Run(in, r) /\ To(in, x) \in DOMAIN lab
                            /\ lab[To(in, x)].bc = To(in, x)
<1>1. /\ Falls(in, x) => After(x) \in Run(in, r)
      /\ Leaps(in, x) => To(in, x) \in Run(in, r) /\ Marked(in, To(in, x))
  BY RunFacts DEF Intact
<1>2. heap[x] = InstrAt(in, DOMAIN heap, x) /\ Run(in, r) \subseteq DOMAIN heap
  BY DEF Intact
<1> QED
  BY <1>1, <1>2, FieldFacts DEF Intact

(* Executing follows the code of the program. *)
LEMMA ExecutesExact ==
  ASSUME NEW in, NEW r, NEW heap, NEW lab, Intact(in, r, heap, lab)
  PROVE  Executes(heap, lab, HeaderAt(in, r)) = Run(in, r)
<1> DEFINE D == DOMAIN heap
           h == HeaderAt(in, r)
           Mark(l) == {lab[k].bc : k \in {l} \cap DOMAIN lab}
           Step(x) == ({heap[x].next} \cup Mark(heap[x].jump)) \cap D
           next == [x \in D |-> Step(x)]
           starts == UNION {Mark(h.st_entries[i]) : i \in DOMAIN h.st_entries}
           E == Closure(starts \cap D, next)
<1>0. Executes(heap, lab, h) = E
  BY DEF Executes
<1>1. /\ Good(in) /\ r \in HeaderNames(in) /\ IsFiniteSet(D) /\ Run(in, r) \subseteq D
      /\ NULL \notin D /\ NULL \notin DOMAIN lab
      /\ \A l \in Run(in, r) : Marked(in, l) => l \in DOMAIN lab /\ lab[l].bc = l
  BY DEF Intact
<1>2. starts \cap D = Starts(in, r)
  <2>1. \A x \in Starts(in, r) : Mark(x) = {x} /\ x \in D
    BY <1>1, RunFacts
  <2>2. Mark(NULL) = {}
    BY <1>1
  <2>3. \A i \in DOMAIN h.st_entries : h.st_entries[i] = NULL \/ h.st_entries[i] \in Starts(in, r)
    BY <1>1, HeaderFields
  <2>4. \A x \in Starts(in, r) : \E i \in DOMAIN h.st_entries : h.st_entries[i] = x
    BY <1>1, HeaderFields
  <2> HIDE DEF h, Mark
  <2>5. starts \subseteq Starts(in, r)
    BY <2>1, <2>2, <2>3
  <2>6. Starts(in, r) \subseteq starts
    BY <2>1, <2>4
  <2>7. Starts(in, r) \subseteq D
    BY <2>1
  <2> HIDE DEF starts
  <2> QED
    BY <2>5, <2>6, <2>7
<1>3. ASSUME NEW x \in Run(in, r)
      PROVE  /\ Step(x) \subseteq Run(in, r)
             /\ Falls(in, x) => After(x) \in Step(x)
             /\ Leaps(in, x) => To(in, x) \in Step(x)
  <2>1. /\ heap[x].next = IF Falls(in, x) THEN After(x) ELSE NULL
        /\ heap[x].jump = IF Leaps(in, x) THEN To(in, x) ELSE NULL
        /\ Falls(in, x) => After(x) \in Run(in, r)
        /\ Leaps(in, x) => To(in, x) \in Run(in, r) /\ To(in, x) \in DOMAIN lab
                           /\ lab[To(in, x)].bc = To(in, x)
    BY NextFacts
  <2>2. Mark(heap[x].jump) = IF Leaps(in, x) THEN {To(in, x)} ELSE {}
    BY <1>1, <2>1
  <2>3. Step(x) = ({heap[x].next} \cup Mark(heap[x].jump)) \cap D
    OBVIOUS
  <2> HIDE DEF Mark, Step, D
  <2> QED
    BY <1>1, <2>1, <2>2, <2>3
<1>4. next \in [D -> SUBSET D] /\ (\A x \in D : next[x] = Step(x)) /\ DOMAIN next = D
  OBVIOUS
<1> HIDE DEF Step, starts
<1>5. /\ Starts(in, r) \subseteq E /\ Closed(E, next)
      /\ \A T : Starts(in, r) \subseteq T /\ Closed(T, next) => E \subseteq T
  <2> HIDE DEF next, D
  <2> QED
    BY <1>1, <1>2, <1>4, ClosureIsLeast
<1> HIDE DEF next, E, h
<1>6. E \subseteq Run(in, r)
  <2>1. Closed(Run(in, r), next)
    BY <1>3, <1>4 DEF Closed
  <2>2. Starts(in, r) \subseteq Run(in, r)
    BY <1>1, RunFacts
  <2> QED
    BY <1>5, <2>1, <2>2
<1>7. Run(in, r) \subseteq E
  <2>1. \A x \in E \cap Run(in, r) : /\ Falls(in, x) => After(x) \in E
                                     /\ Leaps(in, x) => To(in, x) \in E
    BY <1>1, <1>3, <1>4, <1>5 DEF Closed
  <2> QED
    BY <1>1, <1>5, <2>1, RunFacts
<1> QED
  BY <1>0, <1>6, <1>7 DEF h

(* And what it says is what the program said. *)
LEMMA ScriptExact ==
  ASSUME NEW in, NEW r, NEW heap, NEW lab, Intact(in, r, heap, lab)
  PROVE  Script(heap, lab, HeaderAt(in, r)) = ProgramScript(in[r[1]], r[1], r[2])
<1> DEFINE h == HeaderAt(in, r)
           Op(x) == IF x \in DOMAIN heap THEN heap[x].op ELSE NULL
           Mark(l) == IF l \in DOMAIN lab THEN Op(lab[l].bc) ELSE NULL
           s == in[r[1]].headers[r[2]]
           p == in[r[1]]
           POp(a) == IF a = 0 THEN NULL ELSE <<r[1], a>>
           Line(x) == [op |-> Op(x), next |-> Op(heap[x].next), jump |-> Mark(heap[x].jump)]
           PLine(a) == [op   |-> POp(a),
                        next |-> POp(IF FallsThrough(p, a) THEN a + 1 ELSE 0),
                        jump |-> POp(IF Jumps(p, a) THEN p.instr[a].target ELSE 0)]
<1>1. /\ Good(in) /\ r \in HeaderNames(in) /\ Run(in, r) \subseteq DOMAIN heap
      /\ NULL \notin DOMAIN heap /\ NULL \notin DOMAIN lab
      /\ \A l \in Run(in, r) : Marked(in, l) => l \in DOMAIN lab /\ lab[l].bc = l
  BY DEF Intact
<1>2. \A x \in Run(in, r) : Op(x) = x
  BY <1>1, NextFacts
<1>3. \A l \in Run(in, r) : Marked(in, l) => Mark(l) = l
  BY <1>1, <1>2
<1>4. Op(NULL) = NULL /\ Mark(NULL) = NULL
  BY <1>1
<1> HIDE DEF Op, Mark
<1>5. [i \in DOMAIN h.st_entries |-> Mark(h.st_entries[i])] = [i \in DOMAIN s |-> POp(s[i])]
  <2>1. DOMAIN h.st_entries = DOMAIN s
    BY <1>1, HeaderFields
  <2>2. ASSUME NEW i \in DOMAIN s PROVE Mark(h.st_entries[i]) = POp(s[i])
    <3>0. /\ h.st_entries[i] = IF s[i] = 0 THEN NULL ELSE <<r[1], s[i]>>
          /\ s[i] # 0 => h.st_entries[i] \in Starts(in, r)
      <4> HIDE DEF POp
      <4> QED
        BY <1>1, HeaderFields
    <3> HIDE DEF h, s
    <3>1. CASE s[i] = 0
      BY <1>4, <3>0, <3>1
    <3>2. CASE s[i] # 0
      <4>1. h.st_entries[i] = POp(s[i]) /\ h.st_entries[i] \in Starts(in, r)
        BY <3>0, <3>2
      <4> HIDE DEF h, POp, s
      <4> QED
        BY <1>1, <1>3, <4>1, RunFacts
    <3> QED
      BY <3>1, <3>2
  <2> HIDE DEF h, POp, s
  <2> QED
    BY <2>1, <2>2
<1>6. ASSUME NEW x \in Run(in, r) PROVE Line(x) = PLine(x[2])
  <2>1. /\ x = <<r[1], x[2]>> /\ x[1] = r[1] /\ x[2] \in Nat /\ x[2] # 0
    BY <1>1, PlaceFacts
  <2>2. Op(x) = POp(x[2])
    BY <1>2, <2>1
  <2>3. Op(heap[x].next) = POp(IF FallsThrough(p, x[2]) THEN x[2] + 1 ELSE 0)
    <3>1. CASE Falls(in, x)
      <4>1. heap[x].next = After(x) /\ After(x) \in Run(in, r)
        BY <3>1, NextFacts
      <4>2. After(x) = POp(x[2] + 1) /\ FallsThrough(p, x[2])
        BY <2>1, <3>1 DEF After, Falls
      <4> QED
        BY <1>2, <4>1, <4>2
    <3>2. CASE ~Falls(in, x)
      <4>1. heap[x].next = NULL /\ ~FallsThrough(p, x[2])
        BY <2>1, <3>2, NextFacts DEF Falls
      <4> QED
        BY <1>4, <4>1
    <3> QED
      BY <3>1, <3>2
  <2>4. Mark(heap[x].jump) = POp(IF Jumps(p, x[2]) THEN p.instr[x[2]].target ELSE 0)
    <3>1. CASE Leaps(in, x)
      <4>1. heap[x].jump = To(in, x) /\ To(in, x) \in Run(in, r) /\ Marked(in, To(in, x))
        BY <1>1, <3>1, NextFacts, RunFacts
      <4>2. To(in, x) = <<r[1], p.instr[x[2]].target>> /\ Jumps(p, x[2])
        BY <2>1, <3>1 DEF To, Leaps
      <4>3. p.instr[x[2]].target # 0
        <5>1. PICK y \in Run(in, r) : y = To(in, x)
          BY <4>1
        <5>2. y[2] # 0
          BY <1>1, PlaceFacts
        <5> QED
          BY <4>2, <5>1, <5>2
      <4> QED
        BY <1>3, <4>1, <4>2, <4>3
    <3>2. CASE ~Leaps(in, x)
      <4>1. heap[x].jump = NULL /\ ~Jumps(p, x[2])
        BY <2>1, <3>2, NextFacts DEF Leaps
      <4> QED
        BY <1>4, <4>1
    <3> QED
      BY <3>1, <3>2
  <2> QED
    BY <2>2, <2>3, <2>4
<1>7. {Line(x) : x \in Executes(heap, lab, h)} = {PLine(a) : a \in ReachIn(p, r[2])}
  <2>1. Executes(heap, lab, h) = Run(in, r)
    BY ExecutesExact
  <2>2. \A x \in Run(in, r) : x[2] \in ReachIn(p, r[2])
    BY DEF Run
  <2>3. ASSUME NEW a \in ReachIn(p, r[2])
        PROVE  \E x \in Run(in, r) : Line(x) = PLine(a)
    <3>1. PICK x : x = <<r[1], a>>
      OBVIOUS
    <3>2. x \in Run(in, r) /\ x[2] = a
      BY <3>1 DEF Run
    <3> HIDE DEF Line, PLine
    <3> QED
      BY <1>6, <3>2
  <2> HIDE DEF Line, PLine, p, h
  <2> QED
    BY <1>6, <2>1, <2>2, <2>3
<1>8. Script(heap, lab, h) = [entries |-> [i \in DOMAIN h.st_entries |-> Mark(h.st_entries[i])],
                              code    |-> {Line(x) : x \in Executes(heap, lab, h)}]
  BY DEF Script, Op, Mark
<1>9. ProgramScript(p, r[1], r[2]) = [entries |-> [i \in DOMAIN s |-> POp(s[i])],
                                      code    |-> {PLine(a) : a \in ReachIn(p, r[2])}]
  BY DEF ProgramScript
<1> HIDE DEF Line, PLine, POp, p, h, s
<1>10. Script(heap, lab, h) = ProgramScript(p, r[1], r[2])
  BY <1>5, <1>7, <1>8, <1>9
<1> QED
  BY <1>10 DEF h, p

-----------------------------------------------------------------------------
(* Such a heap is a sound graph. *)

Sound(in, H, heap, lab) ==
  /\ Good(in) /\ H \subseteq HeaderNames(in)
  /\ NULL \notin DOMAIN heap /\ NULL \notin DOMAIN lab
  /\ DOMAIN lab = {l \in DOMAIN heap : Marked(in, l)}
  /\ \A x \in DOMAIN heap :
       /\ Before(After(x)) = x /\ After(Before(x)) = x
       /\ heap[x].op = x
       /\ heap[x].next = IF Falls(in, x) THEN After(x) ELSE NULL
       /\ heap[x].prev = IF Before(x) \in DOMAIN heap /\ Falls(in, Before(x))
                         THEN Before(x) ELSE NULL
       /\ heap[x].st_entry = IF Marked(in, x) THEN x ELSE NULL
       /\ heap[x].jump = IF Leaps(in, x) THEN To(in, x) ELSE NULL
       /\ Falls(in, x) => After(x) \in DOMAIN heap
       /\ Leaps(in, x) => To(in, x) \in DOMAIN lab
  /\ \A l \in DOMAIN lab : /\ lab[l].jumps = JumpsAt(in, DOMAIN heap, l)
                           /\ AnimsOK(in, H, l, lab[l].anims)

LEMMA HeapFacts ==
  ASSUME NEW in, NEW H, NEW heap, NEW lab, Heap(in, H, heap, lab)
  PROVE  Sound(in, H, heap, lab)
<1>1. /\ Good(in) /\ H \subseteq HeaderNames(in) /\ DOMAIN heap = Runs(in, H)
      /\ DOMAIN lab = {l \in DOMAIN heap : Marked(in, l)}
  BY DEF Heap
<1>2. NULL \notin DOMAIN heap
  BY <1>1, RunsFacts
<1>3. ASSUME NEW x \in DOMAIN heap
      PROVE  /\ Before(After(x)) = x /\ After(Before(x)) = x
             /\ Falls(in, x) => After(x) \in DOMAIN heap
             /\ Leaps(in, x) => To(in, x) \in DOMAIN lab
  BY <1>1, RunsFacts
<1>4. ASSUME NEW x \in DOMAIN heap
      PROVE  /\ heap[x].op = x
             /\ heap[x].next = IF Falls(in, x) THEN After(x) ELSE NULL
             /\ heap[x].prev = IF Before(x) \in DOMAIN heap /\ Falls(in, Before(x))
                               THEN Before(x) ELSE NULL
             /\ heap[x].st_entry = IF Marked(in, x) THEN x ELSE NULL
             /\ heap[x].jump = IF Leaps(in, x) THEN To(in, x) ELSE NULL
  <2>1. heap[x] = InstrAt(in, DOMAIN heap, x)
    BY DEF Heap
  <2> QED
    BY <1>3, <2>1, FieldFacts
<1>5. \A l \in DOMAIN lab : /\ lab[l].jumps = JumpsAt(in, DOMAIN heap, l)
                            /\ AnimsOK(in, H, l, lab[l].anims)
  BY LabelFields DEF Heap
<1> QED
  BY <1>1, <1>2, <1>3, <1>4, <1>5 DEF Sound

LEMMA HeapAgrees ==
  ASSUME NEW in, NEW H, NEW heap, NEW lab, Heap(in, H, heap, lab),
         \A l \in DOMAIN lab : lab[l].bc = l
  PROVE  InstrsAgree(heap, lab) /\ LabelsAgree(heap, lab)
<1>0. Sound(in, H, heap, lab)
  BY HeapFacts
<1>1. ASSUME NEW x \in DOMAIN heap
      PROVE  /\ heap[x].next # NULL =>
                  heap[x].next \in DOMAIN heap /\ heap[heap[x].next].prev = x
             /\ heap[x].prev # NULL =>
                  heap[x].prev \in DOMAIN heap /\ heap[heap[x].prev].next = x
             /\ heap[x].st_entry # NULL =>
                  heap[x].st_entry \in DOMAIN lab /\ lab[heap[x].st_entry].bc = x
             /\ heap[x].jump # NULL =>
                  heap[x].jump \in DOMAIN lab /\ x \in lab[heap[x].jump].jumps
  <2>1. heap[x].next # NULL => heap[x].next \in DOMAIN heap /\ heap[heap[x].next].prev = x
    BY <1>0 DEF Sound
  <2>2. heap[x].prev # NULL => heap[x].prev \in DOMAIN heap /\ heap[heap[x].prev].next = x
    BY <1>0 DEF Sound
  <2>3. heap[x].st_entry # NULL => heap[x].st_entry \in DOMAIN lab /\ lab[heap[x].st_entry].bc = x
    BY <1>0 DEF Sound
  <2>4. heap[x].jump # NULL => heap[x].jump \in DOMAIN lab /\ x \in lab[heap[x].jump].jumps
    BY <1>0 DEF Sound, JumpsAt
  <2> QED
    BY <2>1, <2>2, <2>3, <2>4
<1>2. ASSUME NEW l \in DOMAIN lab
      PROVE  /\ lab[l].bc \in DOMAIN heap /\ heap[lab[l].bc].st_entry = l
             /\ \A j \in lab[l].jumps : j \in DOMAIN heap /\ heap[j].jump = l
  BY <1>0 DEF Sound, JumpsAt
<1> QED
  BY <1>1, <1>2 DEF InstrsAgree, LabelsAgree

LEMMA HeapIsIntact ==
  ASSUME NEW in, NEW H, NEW heap, NEW lab, Heap(in, H, heap, lab), NEW r \in H,
         \A l \in Run(in, r) : Marked(in, l) => lab[l].bc = l
  PROVE  Intact(in, r, heap, lab)
<1>1. Run(in, r) \subseteq DOMAIN heap
  BY RunsFacts DEF Heap
<1>2. Sound(in, H, heap, lab)
  BY HeapFacts
<1>3. \A l \in Run(in, r) : Marked(in, l) => l \in DOMAIN lab
  BY <1>1, <1>2 DEF Sound
<1> QED
  BY <1>1, <1>2, <1>3 DEF Intact, Heap, Sound

(* The headers of an Iscript have the names of H. *)
Named(in, H, headers) ==
  /\ \A h \in DOMAIN headers : \E r \in H : headers[h] = HeaderAt(in, r)
  /\ \A r \in H : \E h \in DOMAIN headers : headers[h] = HeaderAt(in, r)

LEMMA NamedHeadersAgree ==
  ASSUME NEW in, NEW H, NEW heap, NEW lab, Heap(in, H, heap, lab),
         NEW headers, Named(in, H, headers)
  PROVE  HeadersAgree(headers, lab)
<1>0. Good(in) /\ H \subseteq HeaderNames(in) /\ Sound(in, H, heap, lab)
  BY HeapFacts DEF Heap
<1>1. ASSUME NEW h \in DOMAIN headers, NEW i \in DOMAIN headers[h].st_entries,
             NEW l, l = headers[h].st_entries[i], l # NULL
      PROVE  l \in DOMAIN lab /\ [header |-> headers[h].ptr, type |-> "HEADER"] \in lab[l].anims
  <2>1. PICK r \in H : headers[h] = HeaderAt(in, r)
    BY DEF Named
  <2>0. r \in HeaderNames(in) /\ i \in DOMAIN HeaderAt(in, r).st_entries
    BY <1>0, <2>1
  <2>2. l \in Starts(in, r) /\ headers[h].ptr = r
    <3>1. PICK e : e = HeaderAt(in, r)
      OBVIOUS
    <3>2. e.ptr = r /\ (e.st_entries[i] = NULL \/ e.st_entries[i] \in Starts(in, r))
      BY <1>0, <2>0, <3>1, HeaderFields
    <3> QED
      BY <1>1, <2>1, <3>1, <3>2
  <2>3. l \in DOMAIN heap /\ Marked(in, l)
    BY <1>0, <2>2, RunFacts, RunsFacts DEF Heap
  <2>4. l \in DOMAIN lab
    BY <1>0, <2>3 DEF Sound
  <2> QED
    BY <1>0, <2>2, <2>4 DEF Sound, AnimsOK
<1>2. ASSUME NEW l \in DOMAIN lab, NEW an \in lab[l].anims
      PROVE  \E h \in DOMAIN headers :
               /\ an.header = headers[h].ptr
               /\ an.type = "HEADER" =>
                    \E i \in DOMAIN headers[h].st_entries : headers[h].st_entries[i] = l
  <2>1. PICK r \in H : an.header = r /\ (an.type = "HEADER" => l \in Starts(in, r))
    BY <1>0 DEF Sound, AnimsOK
  <2>2. PICK h \in DOMAIN headers : headers[h] = HeaderAt(in, r)
    BY DEF Named
  <2>3. /\ headers[h].ptr = r
        /\ l \in Starts(in, r) => \E i \in DOMAIN headers[h].st_entries : headers[h].st_entries[i] = l
    BY <1>0, <2>2, HeaderFields
  <2> QED
    BY <2>1, <2>3
<1> QED
  BY <1>1, <1>2 DEF HeadersAgree

Executed(heap, lab, headers) == UNION {Executes(heap, lab, headers[h]) : h \in DOMAIN headers}

LEMMA NoneIsDead ==
  ASSUME NEW in, NEW H, NEW heap, NEW lab, Heap(in, H, heap, lab),
         \A l \in DOMAIN lab : lab[l].bc = l, NEW headers, Named(in, H, headers)
  PROVE  DOMAIN heap = Executed(heap, lab, headers)
<1>1. ASSUME NEW h \in DOMAIN headers, NEW r \in H, headers[h] = HeaderAt(in, r)
      PROVE  Executes(heap, lab, headers[h]) = Run(in, r)
  <2>1. \A l \in Run(in, r) : Marked(in, l) => l \in DOMAIN lab
    BY HeapFacts, RunsFacts DEF Heap, Sound
  <2> QED
    BY <1>1, <2>1, HeapIsIntact, ExecutesExact
<1>2. DOMAIN heap = UNION {Run(in, r) : r \in H}
  BY DEF Heap, Runs
<1>3. \A h \in DOMAIN headers : \E r \in H : Executes(heap, lab, headers[h]) = Run(in, r)
  BY <1>1 DEF Named
<1>4. \A r \in H : \E h \in DOMAIN headers : Executes(heap, lab, headers[h]) = Run(in, r)
  BY <1>1 DEF Named
<1> QED
  BY <1>2, <1>3, <1>4 DEF Executed

-----------------------------------------------------------------------------
(* The headers that are left. *)

LEMMA InputsGood ==
  ASSUME NEW in \in Inputs
  PROVE  Good(in)
<1>1. in \in Seq({in[k] : k \in DOMAIN in}) /\ \A k \in DOMAIN in : IsProgram(in[k])
  BY MergeAssumption
<1>2. PICK S : in \in Seq(S)
  BY <1>1
<1>3. Len(in) \in Nat /\ DOMAIN in = 1 .. Len(in)
  BY <1>2
<1> QED
  BY <1>1, <1>3 DEF Good

LEMMA LiveFacts ==
  ASSUME HeadersInv
  PROVE  /\ Good(inputs) /\ Live \subseteq HeaderNames(inputs) /\ n \in Nat
         /\ \A h \in DOMAIN dest.headers :
              LET r == dest.headers[h].ptr IN
                /\ r \in Live /\ r \in HeaderNames(inputs) /\ r[1] \in 1 .. n /\ r[2] = h
                /\ dest.headers[h] = HeaderAt(inputs, r)
         /\ \A h \in Pending : <<n, h>> \in Live /\ <<n, h>> \in HeaderNames(inputs)
         /\ \A r \in Live : \/ r[2] \in DOMAIN dest.headers /\ r = dest.headers[r[2]].ptr
                            \/ r[2] \in Pending /\ r = <<n, r[2]>>
         /\ pc \in Merging => n \in DOMAIN inputs
         /\ pc \in {"input", "labels", "exit"} => Pending = {}
<1>1. Good(inputs) /\ n \in 0 .. Len(inputs) /\ DOMAIN inputs = 1 .. Len(inputs) /\ Len(inputs) \in Nat
  BY InputsGood DEF HeadersInv, Good
<1>2. ASSUME NEW h \in DOMAIN dest.headers
      PROVE  LET r == dest.headers[h].ptr IN
                /\ r \in Live /\ r \in HeaderNames(inputs) /\ r[1] \in 1 .. n /\ r[2] = h
                /\ dest.headers[h] = HeaderAt(inputs, r)
  <2>1. PICK k \in 1 .. n : h \in DOMAIN inputs[k].headers
                            /\ dest.headers[h] = HeaderAt(inputs, <<k, h>>)
    BY DEF HeadersInv
  <2>2. PICK r : r = <<k, h>>
    OBVIOUS
  <2>3. r \in HeaderNames(inputs)
    BY <1>1, <2>1, <2>2, NameFacts
  <2>4. dest.headers[h].ptr = r
    BY <1>1, <2>1, <2>2, <2>3, HeaderFields
  <2>5. r \in Live
    BY <2>4 DEF Live
  <2>6. r[1] = k /\ r[2] = h
    BY <2>2
  <2> QED
    BY <2>1, <2>2, <2>3, <2>4, <2>5, <2>6
<1>3. pc \in Merging => n \in DOMAIN inputs /\ Pending \subseteq DOMAIN inputs[n].headers
  BY <1>1 DEF HeadersInv
<1>4. pc \in {"input", "labels", "exit"} => Pending = {}
  BY DEF Pending
<1>5. pc \in {"input", "labels", "exit"} \/ pc \in Merging
  BY DEF HeadersInv
<1>6. \A h \in Pending : <<n, h>> \in Live /\ <<n, h>> \in HeaderNames(inputs)
  <2>1. \A h \in Pending : <<n, h>> \in Live
    BY DEF Live
  <2> QED
    BY <1>1, <1>3, <1>4, <1>5, <2>1, NameFacts
<1>7. ASSUME NEW r \in Live
      PROVE  \/ r[2] \in DOMAIN dest.headers /\ r = dest.headers[r[2]].ptr
             \/ r[2] \in Pending /\ r = <<n, r[2]>>
  <2>1. CASE \E h \in DOMAIN dest.headers : r = dest.headers[h].ptr
    BY <1>2, <2>1
  <2>2. CASE r \in {n} \X Pending
    BY <2>2
  <2> QED
    BY <2>1, <2>2 DEF Live
<1>8. Live \subseteq HeaderNames(inputs)
  BY <1>2, <1>6, <1>7
<1> QED
  BY <1>1, <1>2, <1>3, <1>4, <1>6, <1>7, <1>8

LEMMA LeavingFacts ==
  ASSUME HeadersInv, pc \in {"remove", "free"}
  PROVE  /\ Good(inputs) /\ Leaving \in Live /\ Leaving \in HeaderNames(inputs)
         /\ Leaving[2] = id /\ Leaving[1] # n /\ hp = HeaderAt(inputs, Leaving)
         /\ <<n, id>> \in Live
         /\ \A r \in Live : r[2] = id => r = Leaving \/ r = <<n, id>>
         /\ Run(inputs, Leaving) \subseteq Runs(inputs, Live)
         /\ Runs(inputs, Live) = Kept \cup Own /\ Kept \cap Own = {}
         /\ Own \subseteq Run(inputs, Leaving)
         /\ \A x \in Run(inputs, Leaving) : x \in Kept \/ x \in Own
<1>1. id \in DOMAIN dest.headers /\ id \in Pending /\ pc \in Merging
  BY DEF HeadersInv, Pending, Merging
<1>2. /\ Good(inputs) /\ Leaving \in Live /\ Leaving \in HeaderNames(inputs) /\ Leaving[2] = id
      /\ hp = HeaderAt(inputs, Leaving) /\ <<n, id>> \in Live
  BY <1>1, LiveFacts DEF Leaving, hp
<1>3. Leaving # <<n, id>>
  BY <1>1 DEF HeadersInv, Leaving
<1>4. Leaving[1] # n
  BY <1>2, <1>3, NameFacts
<1>5. \A r \in Live : r[2] = id => r = Leaving \/ r = <<n, id>>
  BY LiveFacts DEF Leaving
<1>6. Runs(inputs, Live) = Kept \cup Run(inputs, Leaving)
  BY <1>2 DEF Kept, Runs
<1> QED
  BY <1>2, <1>4, <1>5, <1>6 DEF Own

LEMMA HeapHolds ==
  ASSUME HeadersInv, HeapInv, pc \notin {"exit", "free"}
  PROVE  Heap(inputs, Live, instr, label)
BY LiveFacts DEF HeapInv, Heap

(* What Shared tells of an instruction of the header that is removed.      *)
LEMMA SharedIsKept ==
  ASSUME HeadersInv, HeapInv, pc = "remove", NEW x \in Run(inputs, Leaving)
  PROVE  Shared(x) <=> x \in Kept
<1> DEFINE S == {r[2] : r \in {q \in Live : x \in Run(inputs, q)}}
<1>1. /\ Good(inputs) /\ Leaving \in Live /\ Live \subseteq HeaderNames(inputs) /\ Leaving[2] = id
      /\ Leaving[1] # n /\ x \in Runs(inputs, Live)
      /\ \A r \in Live : r[2] = id => r = Leaving \/ r = <<n, id>>
  BY LeavingFacts, LiveFacts
<1>2. Heap(inputs, Live, instr, label)
  BY HeapHolds
<1>3. x \in DOMAIN instr
  BY <1>1, <1>2 DEF Heap
<1>4. Reached(x) = S
  BY <1>2, <1>3, ReachedExact DEF Reached
<1>5. \A r \in Live : x \in Run(inputs, r) => r[1] = x[1] /\ r[2] \in DOMAIN inputs[x[1]].headers
  BY <1>1, PlaceFacts, NameFacts
<1>6. IsFiniteSet(S)
  <2>1. IsFiniteSet(DOMAIN inputs[x[1]].headers)
    BY <1>1, RunsFacts DEF Good, IsProgram
  <2>2. S \subseteq DOMAIN inputs[x[1]].headers
    BY <1>5
  <2> QED
    BY <2>1, <2>2, FS_Subset
<1>7. id \in S
  BY <1>1
<1>8. Cardinality(S) > 1 <=> S # {id}
  <2>1. Cardinality({id}) = 1
    BY FS_Singleton
  <2>2. ASSUME S # {id} PROVE Cardinality(S) > 1
    <3>1. Cardinality(S) \in Nat
      BY <1>6, FS_CardinalityType
    <3>2. {id} \subseteq S
      BY <1>7
    <3>3. Cardinality({id}) <= Cardinality(S) /\ Cardinality({id}) # Cardinality(S)
      BY <1>6, <2>2, <3>2, FS_Subset
    <3> QED
      BY <2>1, <3>1, <3>3
  <2> QED
    BY <2>1, <2>2
<1>9. x \in Kept => S # {id}
  <2>1. SUFFICES ASSUME x \in Kept PROVE S # {id}
    OBVIOUS
  <2>2. PICK r \in Live \ {Leaving} : x \in Run(inputs, r)
    BY <2>1 DEF Kept, Runs
  <2>3. r[1] = Leaving[1]
    BY <1>1, <1>5, <2>2
  <2>4. r[2] # id
    <3>1. <<n, id>>[1] = n
      OBVIOUS
    <3> QED
      BY <1>1, <2>2, <2>3, <3>1
  <2> QED
    BY <2>2, <2>4
<1>10. S # {id} => x \in Kept
  <2>1. SUFFICES ASSUME S # {id} PROVE x \in Kept
    OBVIOUS
  <2>2. PICK r \in Live : x \in Run(inputs, r) /\ r[2] # id
    BY <1>7, <2>1
  <2>3. r \in Live \ {Leaving}
    BY <1>1, <2>2
  <2> QED
    BY <2>2, <2>3 DEF Kept, Runs
<1> QED
  BY <1>4, <1>8, <1>9, <1>10 DEF Shared

-----------------------------------------------------------------------------
(* The walk of a removal, as operations on its stack. *)

LEMMA ElemsFacts ==
  ASSUME NEW S, NEW s \in Seq(S), NEW e \in S
  PROVE  /\ Elems(<<e>> \o s) = {e} \cup Elems(s) /\ <<e>> \o s \in Seq(S)
         /\ Elems(Append(s, e)) = Elems(s) \cup {e} /\ Append(s, e) \in Seq(S)
         /\ Elems(s) \subseteq S
         /\ Once(s) /\ e \notin Elems(s) => Once(Append(s, e))
<1>1. PICK t : t = <<e>> \o s
  OBVIOUS
<1>2. /\ t \in Seq(S) /\ Len(s) \in Nat /\ DOMAIN s = 1 .. Len(s)
      /\ Len(t) = Len(s) + 1 /\ DOMAIN t = 1 .. Len(s) + 1
      /\ t[1] = e /\ \A k \in DOMAIN s : k + 1 \in DOMAIN t /\ t[k + 1] = s[k]
  BY <1>1, ConsFacts
<1>3. Elems(t) = {e} \cup Elems(s)
  <2>1. \A k \in DOMAIN t : k = 1 \/ (k - 1 \in DOMAIN s /\ k = (k - 1) + 1)
    BY <1>2
  <2>2. \A k \in DOMAIN t : t[k] = e \/ t[k] \in Elems(s)
    BY <1>2, <2>1 DEF Elems
  <2>3. e \in Elems(t) /\ 1 \in DOMAIN t
    BY <1>2 DEF Elems
  <2>4. Elems(s) \subseteq Elems(t)
    BY <1>2 DEF Elems
  <2> QED
    BY <2>2, <2>3, <2>4 DEF Elems
<1>4. PICK u : u = Append(s, e)
  OBVIOUS
<1>5. /\ u \in Seq(S) /\ DOMAIN u = 1 .. Len(s) + 1
      /\ u[Len(s) + 1] = e /\ \A k \in DOMAIN s : u[k] = s[k]
  BY <1>4, AppendFacts
<1>6. \A k \in DOMAIN u : k \in DOMAIN s \/ k = Len(s) + 1
  BY <1>2, <1>5
<1>7. Elems(u) = Elems(s) \cup {e}
  BY <1>2, <1>5, <1>6 DEF Elems
<1>8. Once(s) /\ e \notin Elems(s) => Once(u)
  BY <1>5, <1>6 DEF Once, Elems
<1>9. Elems(s) \subseteq S
  BY DEF Elems
<1> QED
  BY <1>1, <1>2, <1>3, <1>4, <1>5, <1>7, <1>8, <1>9

LEMMA TailElems ==
  ASSUME NEW S, NEW s \in Seq(S), s # <<>>
  PROVE  /\ Elems(s) = {Head(s)} \cup Elems(Tail(s))
         /\ Tail(s) \in Seq(S) /\ Head(s) \in S
         /\ Once(s) => Once(Tail(s)) /\ Head(s) \notin Elems(Tail(s))
<1>1. PICK t : t = Tail(s)
  OBVIOUS
<1>2. /\ t \in Seq(S) /\ Len(s) \in Nat \ {0} /\ DOMAIN s = 1 .. Len(s)
      /\ Head(s) = s[1] /\ Head(s) \in S /\ DOMAIN t = 1 .. Len(s) - 1
      /\ \A k \in DOMAIN t : k + 1 \in DOMAIN s /\ t[k] = s[k + 1]
  BY <1>1, TailFacts
<1>3. \A k \in DOMAIN s : k = 1 \/ (k - 1 \in DOMAIN t /\ k = (k - 1) + 1)
  BY <1>2
<1>4. 1 \in DOMAIN s /\ \A k \in DOMAIN t : k \in Nat /\ k + 1 # 1
  BY <1>2
<1>5. Elems(s) = {s[1]} \cup Elems(t)
  <2>1. \A k \in DOMAIN s : s[k] = s[1] \/ s[k] \in Elems(t)
    BY <1>2, <1>3 DEF Elems
  <2>2. Elems(t) \subseteq Elems(s)
    BY <1>2 DEF Elems
  <2> QED
    BY <1>4, <2>1, <2>2 DEF Elems
<1>6. Once(s) => Once(t) /\ s[1] \notin Elems(t)
  <2>1. SUFFICES ASSUME Once(s) PROVE Once(t) /\ s[1] \notin Elems(t)
    OBVIOUS
  <2>2. \A j, k \in DOMAIN t : t[j] = t[k] => j + 1 = k + 1
    BY <1>2, <2>1 DEF Once
  <2>3. \A k \in DOMAIN t : t[k] # s[1]
    BY <1>2, <1>4, <2>1 DEF Once
  <2>4. \A j, k \in DOMAIN t : t[j] = t[k] => j = k
    BY <1>4, <2>2
  <2> QED
    BY <2>3, <2>4 DEF Once, Elems
<1> QED
  BY <1>1, <1>2, <1>5, <1>6

LEMMA BusyFacts ==
  ASSUME NEW S, NEW s \in Seq(S), NEW f \in S
  PROVE  BusyOnce(<<f>> \o s) <=>
           BusyOnce(s) /\ (Busy(f) => \A g \in Elems(s) : Busy(g) => g.instr # f.instr)
<1>1. PICK t : t = <<f>> \o s
  OBVIOUS
<1>2. /\ Len(s) \in Nat /\ DOMAIN s = 1 .. Len(s) /\ DOMAIN t = 1 .. Len(s) + 1
      /\ t[1] = f /\ \A k \in DOMAIN s : k + 1 \in DOMAIN t /\ t[k + 1] = s[k]
  BY <1>1, ConsFacts
<1>3. \A k \in DOMAIN t : k = 1 \/ (k - 1 \in DOMAIN s /\ k = (k - 1) + 1 /\ t[k] = s[k - 1])
  <2>1. \A k \in DOMAIN t : k = 1 \/ (k - 1 \in DOMAIN s /\ k = (k - 1) + 1)
    BY <1>2
  <2> QED
    BY <1>2, <2>1
<1>4. \A k \in DOMAIN s : k \in Nat /\ k + 1 # 1
  BY <1>2
<1>5. ASSUME BusyOnce(t) PROVE BusyOnce(s)
  <2>1. ASSUME NEW i \in DOMAIN s, NEW j \in DOMAIN s, Busy(s[i]), Busy(s[j]),
               s[i].instr = s[j].instr
        PROVE  i = j
    <3>1. i + 1 = j + 1
      BY <1>2, <1>5, <2>1 DEF BusyOnce
    <3> QED
      BY <1>4, <3>1
  <2> QED
    BY <2>1 DEF BusyOnce
<1>6. ASSUME BusyOnce(t), Busy(f), NEW k \in DOMAIN s, Busy(s[k]) PROVE s[k].instr # f.instr
  <2>1. 1 \in DOMAIN t
    BY <1>2
  <2> QED
    BY <1>2, <1>4, <1>6, <2>1 DEF BusyOnce
<1>7. ASSUME BusyOnce(s), Busy(f) => \A k \in DOMAIN s : Busy(s[k]) => s[k].instr # f.instr
      PROVE  BusyOnce(t)
  <2>1. ASSUME NEW i \in DOMAIN t, NEW j \in DOMAIN t, Busy(t[i]), Busy(t[j]),
               t[i].instr = t[j].instr
        PROVE  i = j
    <3>1. CASE i = 1 /\ j = 1
      BY <3>1
    <3>2. CASE i = 1 /\ j # 1
      BY <1>2, <1>3, <1>7, <2>1, <3>2
    <3>3. CASE i # 1 /\ j = 1
      BY <1>2, <1>3, <1>7, <2>1, <3>3
    <3>4. CASE i # 1 /\ j # 1
      <4>1. i - 1 = j - 1
        BY <1>3, <1>7, <2>1, <3>4 DEF BusyOnce
      <4> QED
        BY <1>3, <3>4, <4>1
    <3> QED
      BY <3>1, <3>2, <3>3, <3>4
  <2> QED
    BY <2>1 DEF BusyOnce
<1> QED
  BY <1>1, <1>5, <1>6, <1>7 DEF Elems

LEMMA StackTop ==
  ASSUME NEW S, NEW s \in Seq(S), s # <<>>
  PROVE  s = <<Head(s)>> \o Tail(s)
OBVIOUS

(* A call for a label that other headers use, and one that begins an       *)
(* activation.                                                             *)
LEMMA PassKeeps ==
  ASSUME NEW in, NEW R, NEW K, NEW vis, NEW visin, NEW free, NEW lab, NEW st, NEW frames,
         AllHandled(in, R, K, frames, vis, visin, free, lab), st \in K
  PROVE  AllHandled(in, R, K, frames, vis \cup {st}, visin, free, lab)
BY DEF AllHandled, Handled

LEMMA EnterKeeps ==
  ASSUME NEW in, NEW R, NEW K, NEW vis, NEW visin, NEW free, NEW disc, NEW lab, NEW st,
         NEW frames, st \notin K,
         WalkOK(in, R, K, frames, vis \cup {st}, visin, free, disc),
         AllHandled(in, R, K, frames, vis, visin, free, lab),
         NEW f, f = [st |-> st, next |-> st, instr |-> NULL, at |-> "next"]
  PROVE  /\ WalkOK(in, R, K, <<f>> \o frames, vis \cup {st}, visin, free, Append(disc, st))
         /\ AllHandled(in, R, K, <<f>> \o frames, vis \cup {st}, visin, free, lab)
<1>1. PICK stk : stk = <<f>> \o frames
  OBVIOUS
<1>2. st \in R
  BY DEF WalkOK
<1>3. f \in Activations(R) /\ f.st = st /\ f.next = st /\ ~ Busy(f) /\ f.at # "jump"
  BY <1>2 DEF Activations, Busy
<1>4. frames \in Seq(Activations(R)) /\ disc \in Seq(R \ K)
  BY DEF WalkOK
<1>5. Elems(stk) = {f} \cup Elems(frames) /\ stk \in Seq(Activations(R))
  BY <1>1, <1>3, <1>4, ElemsFacts
<1>6. BusyOnce(stk)
  BY <1>1, <1>3, <1>4, BusyFacts DEF WalkOK
<1>7. Append(disc, st) \in Seq(R \ K)
  BY <1>2, <1>4, ElemsFacts
<1>8. ActivationOK(in, R, K, vis \cup {st}, visin, free, f)
  BY <1>3 DEF ActivationOK
<1>9. WalkOK(in, R, K, stk, vis \cup {st}, visin, free, Append(disc, st))
  BY <1>5, <1>6, <1>7, <1>8 DEF WalkOK
<1>10. AllHandled(in, R, K, stk, vis \cup {st}, visin, free, lab)
  BY <1>3, <1>5 DEF AllHandled, Handled
<1> QED
  BY <1>1, <1>9, <1>10

(* The loop comes to an instruction it has not been to. *)
LEMMA OpenKeeps ==
  ASSUME NEW in, NEW R, NEW K, NEW vis, NEW visin, NEW free, NEW disc, NEW lab,
         NEW top \in Activations(R), NEW rest \in Seq(Activations(R)),
         NEW stk, stk = <<top>> \o rest,
         NULL \notin R, \A x \in R : Falls(in, x) => After(x) \in R,
         WalkOK(in, R, K, stk, vis, visin, free, disc),
         AllHandled(in, R, K, stk, vis, visin, free, lab),
         top.at = "next",
         NEW x, x = top.next, x # NULL, x \notin visin,
         NEW f, f = [st |-> top.st, next |-> IF Falls(in, x) THEN After(x) ELSE NULL,
                     instr |-> x, at |-> "label"],
         NEW frames, frames = <<f>> \o rest
  PROVE  /\ WalkOK(in, R, K, frames, vis \cup ({IF Marked(in, x) THEN x ELSE NULL} \ {NULL}),
                   visin \cup {x}, free, disc)
         /\ AllHandled(in, R, K, frames, vis, visin \cup {x}, free, lab)
<1> DEFINE vis1 == vis \cup ({IF Marked(in, x) THEN x ELSE NULL} \ {NULL})
           visin1 == visin \cup {x}
<1>4. Elems(stk) = {top} \cup Elems(rest)
  BY ElemsFacts
<1>5. x \in R /\ x = top.next /\ top.at = "next" /\ ActivationOK(in, R, K, vis, visin, free, top)
  BY <1>4 DEF Activations, WalkOK
<1>6. /\ f \in Activations(R) /\ f.st = top.st /\ f.instr = x /\ f.at = "label" /\ Busy(f)
      /\ f.next = IF Falls(in, x) THEN After(x) ELSE NULL
  BY <1>4, <1>5 DEF Activations, Busy
<1>7. frames \in Seq(Activations(R)) /\ Elems(frames) = {f} \cup Elems(rest)
  BY <1>6, ElemsFacts
<1>8. \A g \in Elems(rest) : ActivationOK(in, R, K, vis, visin, free, g)
  BY <1>4 DEF WalkOK
<1>9. BusyOnce(frames)
  <2>1. BusyOnce(rest)
    BY BusyFacts DEF WalkOK
  <2>2. \A g \in Elems(rest) : Busy(g) => g.instr # x
    BY <1>8 DEF ActivationOK
  <2> QED
    BY <1>6, <2>1, <2>2, BusyFacts
<1>10. Elems(free) \subseteq visin
  BY DEF WalkOK
<1>11. ActivationOK(in, R, K, vis1, visin1, free, f)
  <2>1. f.st \in vis1 \ K
    BY <1>5, <1>6 DEF ActivationOK
  <2>2. x \in visin1 \ Elems(free) /\ (Marked(in, x) => x \in vis1)
    BY <1>10
  <2> HIDE DEF vis1, visin1
  <2> QED
    BY <1>6, <2>1, <2>2 DEF ActivationOK
<1>12. \A g \in Elems(rest) : ActivationOK(in, R, K, vis1, visin1, free, g)
  BY <1>8 DEF ActivationOK
<1>13. vis1 \subseteq {l \in R : Marked(in, l)} /\ visin1 \subseteq R
  BY <1>5 DEF WalkOK
<1>14. /\ free \in Seq(R \ K) /\ Once(free) /\ disc \in Seq(R \ K)
       /\ \A y \in Elems(free) : /\ y \in visin1
                                 /\ Leaps(in, y) => To(in, y) \in vis1
                                 /\ Marked(in, y) => y \in vis1
  BY DEF WalkOK
<1>15. \A y \in visin1 \ K : y \in Elems(free) \/ \E g \in Elems(frames) : Busy(g) /\ g.instr = y
  <2>1. \A y \in visin \ K : y \in Elems(free) \/ \E g \in Elems(stk) : Busy(g) /\ g.instr = y
    BY DEF WalkOK
  <2>2. ~ Busy(top)
    BY <1>5 DEF Busy
  <2>3. \A y \in visin \ K : y \in Elems(free) \/ \E g \in Elems(rest) : Busy(g) /\ g.instr = y
    BY <1>4, <2>1, <2>2
  <2> QED
    BY <1>6, <1>7, <2>3
<1>16. AllHandled(in, R, K, frames, vis, visin1, free, lab)
  <2>1. \A y : Handled(K, stk, visin, y) => Handled(K, frames, visin1, y)
    BY <1>4, <1>5, <1>7 DEF Handled
  <2>2. \A g \in Elems(stk) : \E h \in Elems(frames) : h.st = g.st
    BY <1>4, <1>6, <1>7
  <2> HIDE DEF visin1
  <2>3. /\ \A l \in vis : Handled(K, frames, visin1, l)
        /\ \A y \in Elems(free) : Falls(in, y) => Handled(K, frames, visin1, After(y))
    BY <2>1 DEF AllHandled
  <2>4. \A l \in vis \ K : lab[l].bc = NULL \/ \E g \in Elems(frames) : g.st = l
    <3>1. \A l \in vis \ K : lab[l].bc = NULL \/ \E g \in Elems(stk) : g.st = l
      BY DEF AllHandled
    <3> QED
      BY <2>2, <3>1
  <2> QED
    BY <2>3, <2>4 DEF AllHandled
<1> HIDE DEF vis1, visin1
<1>17. WalkOK(in, R, K, frames, vis1, visin1, free, disc)
  BY <1>7, <1>9, <1>11, <1>12, <1>13, <1>14, <1>15 DEF WalkOK
<1> QED
  BY <1>16, <1>17 DEF vis1, visin1

(* It goes on to the label the instruction jumps to. *)
LEMMA TurnKeeps ==
  ASSUME NEW in, NEW R, NEW K, NEW vis, NEW visin, NEW free, NEW disc, NEW lab,
         NEW top \in Activations(R), NEW rest \in Seq(Activations(R)),
         NEW stk, stk = <<top>> \o rest,
         NULL \notin R, \A x \in R : Leaps(in, x) => To(in, x) \in R /\ Marked(in, To(in, x)),
         WalkOK(in, R, K, stk, vis, visin, free, disc),
         AllHandled(in, R, K, stk, vis, visin, free, lab),
         top.at = "label",
         NEW x, x = top.instr, x \in R \ K,
         NEW f, f = [st |-> top.st, next |-> top.next, instr |-> x, at |-> "jump"],
         NEW frames, frames = <<f>> \o rest
  PROVE  /\ WalkOK(in, R, K, frames, vis \cup ({IF Leaps(in, x) THEN To(in, x) ELSE NULL} \ {NULL}),
                   visin, free, disc)
         /\ AllHandled(in, R, K, frames, vis, visin, free, lab)
<1> DEFINE vis1 == vis \cup ({IF Leaps(in, x) THEN To(in, x) ELSE NULL} \ {NULL})
<1>4. Elems(stk) = {top} \cup Elems(rest)
  BY ElemsFacts
<1>5. x = top.instr /\ Busy(top) /\ ActivationOK(in, R, K, vis, visin, free, top)
  BY <1>4 DEF Busy, WalkOK
<1>6. /\ f \in Activations(R) /\ f.st = top.st /\ f.instr = x /\ f.at = "jump" /\ Busy(f)
      /\ f.next = top.next
  BY <1>4, <1>5 DEF Activations, Busy
<1>7. frames \in Seq(Activations(R)) /\ Elems(frames) = {f} \cup Elems(rest)
  BY <1>6, ElemsFacts
<1>8. \A g \in Elems(rest) : ActivationOK(in, R, K, vis, visin, free, g)
  BY <1>4 DEF WalkOK
<1>9. BusyOnce(frames)
  <2>1. BusyOnce(rest) /\ \A g \in Elems(rest) : Busy(g) => g.instr # x
    BY <1>5, BusyFacts DEF WalkOK
  <2> QED
    BY <1>6, <2>1, BusyFacts
<1>10. Leaps(in, x) => To(in, x) \in R /\ Marked(in, To(in, x)) /\ To(in, x) \in vis1
  OBVIOUS
<1>11. vis \subseteq vis1 /\ vis1 \subseteq {l \in R : Marked(in, l)}
  <2>1. vis \subseteq {l \in R : Marked(in, l)}
    BY DEF WalkOK
  <2> QED
    BY <1>10, <2>1
<1> HIDE DEF vis1
<1>12. ActivationOK(in, R, K, vis1, visin, free, f)
  BY <1>5, <1>6, <1>10, <1>11 DEF ActivationOK
<1>13. \A g \in Elems(rest) : ActivationOK(in, R, K, vis1, visin, free, g)
  BY <1>8, <1>11 DEF ActivationOK
<1>14. \A y \in Elems(free) : /\ y \in visin
                              /\ Leaps(in, y) => To(in, y) \in vis1
                              /\ Marked(in, y) => y \in vis1
  BY <1>11 DEF WalkOK
<1>15. \A y \in visin \ K : y \in Elems(free) \/ \E g \in Elems(frames) : Busy(g) /\ g.instr = y
  <2>1. \A y \in visin \ K : y \in Elems(free) \/ \E g \in Elems(stk) : Busy(g) /\ g.instr = y
    BY DEF WalkOK
  <2> QED
    BY <1>4, <1>5, <1>6, <1>7, <2>1
<1>16. AllHandled(in, R, K, frames, vis, visin, free, lab)
  <2>1. \A y : Handled(K, stk, visin, y) => Handled(K, frames, visin, y)
    BY <1>4, <1>6, <1>7 DEF Handled
  <2>2. \A g \in Elems(stk) : \E h \in Elems(frames) : h.st = g.st
    BY <1>4, <1>6, <1>7
  <2>3. /\ \A l \in vis : Handled(K, frames, visin, l)
        /\ \A y \in Elems(free) : Falls(in, y) => Handled(K, frames, visin, After(y))
    BY <2>1 DEF AllHandled
  <2>4. \A l \in vis \ K : lab[l].bc = NULL \/ \E g \in Elems(frames) : g.st = l
    <3>1. \A l \in vis \ K : lab[l].bc = NULL \/ \E g \in Elems(stk) : g.st = l
      BY DEF AllHandled
    <3> QED
      BY <2>2, <3>1
  <2> QED
    BY <2>3, <2>4 DEF AllHandled
<1>17. WalkOK(in, R, K, frames, vis1, visin, free, disc)
  BY <1>7, <1>9, <1>11, <1>12, <1>13, <1>14, <1>15 DEF WalkOK
<1> QED
  BY <1>16, <1>17 DEF vis1

(* The instruction is queued to be freed. *)
LEMMA QueueKeeps ==
  ASSUME NEW in, NEW R, NEW K, NEW vis, NEW visin, NEW free, NEW disc, NEW lab,
         NEW top \in Activations(R), NEW rest \in Seq(Activations(R)),
         NEW stk, stk = <<top>> \o rest, NULL \notin R,
         WalkOK(in, R, K, stk, vis, visin, free, disc),
         AllHandled(in, R, K, stk, vis, visin, free, lab),
         top.at = "jump", NEW x, x = top.instr,
         NEW f, f = [st |-> top.st, next |-> top.next, instr |-> x, at |-> "next"],
         NEW frames, frames = <<f>> \o rest, NEW free2, free2 = Append(free, x)
  PROVE  /\ WalkOK(in, R, K, frames, vis, visin, free2, disc)
         /\ AllHandled(in, R, K, frames, vis, visin, free2, lab)
<1>1. Elems(stk) = {top} \cup Elems(rest)
  BY ElemsFacts
<1>2. Busy(top) /\ ActivationOK(in, R, K, vis, visin, free, top)
  BY <1>1 DEF Busy, WalkOK
<1>3. /\ x \in R \ K /\ x \in visin \ Elems(free) /\ (Leaps(in, x) => To(in, x) \in vis)
      /\ Marked(in, x) => x \in vis
      /\ top.next = IF Falls(in, x) THEN After(x) ELSE NULL
  BY <1>2 DEF ActivationOK
<1>4. /\ f \in Activations(R) /\ f.st = top.st /\ f.next = top.next /\ ~ Busy(f) /\ f.at # "jump"
  BY <1>3 DEF Activations, Busy
<1>5. frames \in Seq(Activations(R)) /\ Elems(frames) = {f} \cup Elems(rest)
  BY <1>4, ElemsFacts
<1>6. BusyOnce(rest) /\ \A g \in Elems(rest) : Busy(g) => g.instr # x
  BY <1>2, BusyFacts DEF WalkOK
<1>7. BusyOnce(frames)
  BY <1>4, <1>6, BusyFacts
<1>8. free2 \in Seq(R \ K) /\ Once(free2) /\ Elems(free2) = Elems(free) \cup {x}
  <2>1. free \in Seq(R \ K) /\ Once(free)
    BY DEF WalkOK
  <2> QED
    BY <1>3, <2>1, ElemsFacts, ZenonT(60)
<1>9. ActivationOK(in, R, K, vis, visin, free2, f)
  BY <1>2, <1>4 DEF ActivationOK
<1>10. \A g \in Elems(rest) : ActivationOK(in, R, K, vis, visin, free2, g)
  <2>1. \A g \in Elems(rest) : ActivationOK(in, R, K, vis, visin, free, g)
    BY <1>1 DEF WalkOK
  <2>2. \A g \in Elems(rest) : g.at = "jump" => Busy(g)
    BY DEF Busy
  <2> QED
    BY <1>6, <1>8, <2>1, <2>2 DEF ActivationOK
<1>11. \A y \in Elems(free2) : /\ y \in visin
                               /\ Leaps(in, y) => To(in, y) \in vis
                               /\ Marked(in, y) => y \in vis
  BY <1>3, <1>8 DEF WalkOK
<1>12. \A y \in visin \ K : y \in Elems(free2) \/ \E g \in Elems(frames) : Busy(g) /\ g.instr = y
  <2>1. \A y \in visin \ K : y \in Elems(free) \/ \E g \in Elems(stk) : Busy(g) /\ g.instr = y
    BY DEF WalkOK
  <2> QED
    BY <1>1, <1>5, <1>8, <2>1
<1>13. /\ vis \subseteq {l \in R : Marked(in, l)} /\ visin \subseteq R /\ disc \in Seq(R \ K)
  BY DEF WalkOK
<1>14. WalkOK(in, R, K, frames, vis, visin, free2, disc)
  BY <1>5, <1>7, <1>8, <1>9, <1>10, <1>11, <1>12, <1>13 DEF WalkOK
<1>15. AllHandled(in, R, K, frames, vis, visin, free2, lab)
  <2>1. \A y : Handled(K, stk, visin, y) => Handled(K, frames, visin, y)
    BY <1>1, <1>4, <1>5 DEF Handled
  <2>2. \A g \in Elems(stk) : \E h \in Elems(frames) : h.st = g.st
    BY <1>1, <1>4, <1>5
  <2>3. Falls(in, x) => Handled(K, frames, visin, After(x))
    BY <1>3, <1>4, <1>5 DEF Handled
  <2>4. /\ \A l \in vis : Handled(K, frames, visin, l)
        /\ \A y \in Elems(free2) : Falls(in, y) => Handled(K, frames, visin, After(y))
    BY <1>8, <2>1, <2>3 DEF AllHandled
  <2>5. ASSUME NEW l \in vis \ K, lab[l].bc # NULL PROVE \E g \in Elems(frames) : g.st = l
    <3>1. PICK g \in Elems(stk) : g.st = l
      BY <2>5 DEF AllHandled
    <3> QED
      BY <2>2, <3>1
  <2> QED
    BY <2>4, <2>5 DEF AllHandled
<1> QED
  BY <1>14, <1>15

(* An activation ends: at the end of the code, where it has been, or where *)
(* the code is shared.                                                     *)
LEMMA CloseKeeps ==
  ASSUME NEW in, NEW R, NEW K, NEW vis, NEW visin, NEW free, NEW disc, NEW lab,
         NEW top \in Activations(R), NEW rest \in Seq(Activations(R)),
         NEW stk, stk = <<top>> \o rest, NULL \notin R,
         \A x \in R : Falls(in, x) => After(x) \in R,
         WalkOK(in, R, K, stk, vis, visin, free, disc),
         AllHandled(in, R, K, stk, vis, visin, free, lab),
         top.next = NULL \/ top.next \in visin \cup K,
         Busy(top) => top.instr \in K,
         NEW lab2, DOMAIN lab2 = DOMAIN lab, vis \subseteq DOMAIN lab,
         lab2[top.st].bc = NULL, \A l \in DOMAIN lab \ {top.st} : lab2[l].bc = lab[l].bc
  PROVE  /\ WalkOK(in, R, K, rest, vis, visin, free, disc)
         /\ AllHandled(in, R, K, rest, vis, visin, free, lab2)
<1>1. Elems(stk) = {top} \cup Elems(rest)
  BY ElemsFacts
<1>2. top.st \in vis \ K /\ top.st \in vis \cap R /\ vis \subseteq R
  BY <1>1 DEF ActivationOK, WalkOK
<1>3. BusyOnce(rest)
  BY BusyFacts DEF WalkOK
<1>4. \A y \in visin \ K : y \in Elems(free) \/ \E g \in Elems(rest) : Busy(g) /\ g.instr = y
  <2>1. \A y \in visin \ K : y \in Elems(free) \/ \E g \in Elems(stk) : Busy(g) /\ g.instr = y
    BY DEF WalkOK
  <2> QED
    BY <1>1, <2>1
<1>5. WalkOK(in, R, K, rest, vis, visin, free, disc)
  BY <1>1, <1>3, <1>4 DEF WalkOK
<1>6. \A y : y # NULL /\ Handled(K, stk, visin, y) => Handled(K, rest, visin, y)
  BY <1>1 DEF Handled
<1>7. \A x \in Elems(free) : Falls(in, x) => After(x) # NULL
  BY DEF WalkOK
<1>8. /\ \A l \in vis : Handled(K, rest, visin, l)
      /\ \A x \in Elems(free) : Falls(in, x) => Handled(K, rest, visin, After(x))
  BY <1>2, <1>6, <1>7 DEF AllHandled
<1>9. \A l \in DOMAIN lab2 : lab2[l].bc = l \/ (lab2[l].bc = NULL /\ l \in (vis \cap R) \ K)
  BY <1>2 DEF AllHandled
<1>10. \A l \in vis \ K : lab2[l].bc = NULL \/ \E g \in Elems(rest) : g.st = l
  BY <1>1 DEF AllHandled
<1> QED
  BY <1>5, <1>8, <1>9, <1>10 DEF AllHandled

(* When the walk is over, it has been to all the code that was the         *)
(* header's own.                                                           *)
LEMMA WalkIsComplete ==
  ASSUME NEW in, Good(in), NEW r \in HeaderNames(in), NEW K, NEW vis, NEW visin, NEW free,
         NEW disc, NEW lab,
         \A x \in K : /\ Falls(in, x) => After(x) \in K
                      /\ Leaps(in, x) => To(in, x) \in K,
         WalkOK(in, Run(in, r), K, <<>>, vis, visin, free, disc),
         AllHandled(in, Run(in, r), K, <<>>, vis, visin, free, lab),
         Starts(in, r) \subseteq vis
  PROVE  /\ Run(in, r) \ K = Elems(free)
         /\ \A l \in vis \ K : lab[l].bc = NULL
         /\ \A l \in Run(in, r) \ K : Marked(in, l) => l \in vis
<1> DEFINE T == {x \in Run(in, r) : x \in K \/ x \in visin}
<1>1. Elems(<<>>) = {}
  BY DEF Elems
<1>2. vis \subseteq T
  BY <1>1 DEF AllHandled, Handled, WalkOK
<1>3. ASSUME NEW x \in T \cap Run(in, r)
      PROVE  (Falls(in, x) => After(x) \in T) /\ (Leaps(in, x) => To(in, x) \in T)
  <2>1. /\ Falls(in, x) => After(x) \in Run(in, r)
        /\ Leaps(in, x) => To(in, x) \in Run(in, r)
    BY RunFacts
  <2>2. CASE x \in K
    BY <2>1, <2>2
  <2>3. CASE x \notin K
    <3>1. x \in Elems(free)
      BY <1>1, <2>3 DEF WalkOK
    <3>2. Falls(in, x) => After(x) \in K \/ After(x) \in visin
      BY <1>1, <3>1 DEF AllHandled, Handled
    <3>3. Leaps(in, x) => To(in, x) \in T
      BY <1>2, <3>1 DEF WalkOK
    <3> QED
      BY <2>1, <3>2, <3>3
  <2> QED
    BY <2>2, <2>3
<1>4. Run(in, r) \subseteq T
  <2>1. Starts(in, r) \subseteq T
    BY <1>2
  <2> HIDE DEF T
  <2> QED
    BY <1>3, <2>1, RunFacts
<1>5. Run(in, r) \ K \subseteq Elems(free)
  BY <1>1, <1>4 DEF WalkOK
<1>6. Elems(free) \subseteq Run(in, r) \ K
  BY DEF WalkOK, Elems
<1>7. \A l \in vis \ K : lab[l].bc = NULL
  BY <1>1 DEF AllHandled
<1>8. \A l \in Run(in, r) \ K : Marked(in, l) => l \in vis
  BY <1>5 DEF WalkOK
<1> QED
  BY <1>5, <1>6, <1>7, <1>8

-----------------------------------------------------------------------------
(* The steps of the walk. *)

LEMMA SameLive ==
  ASSUME UNCHANGED <<inputs, n, dest, id>>, Pending' = Pending
  PROVE  /\ Live' = Live /\ Leaving' = Leaving /\ hp' = hp /\ InSymtbl' = InSymtbl
         /\ Kept' = Kept /\ Own' = Own
<1>1. Live' = Live /\ Leaving' = Leaving /\ hp' = hp /\ InSymtbl' = InSymtbl
  BY DEF Live, Leaving, hp, InSymtbl
<1> QED
  BY <1>1 DEF Kept, Own

LEMMA BcChange ==
  ASSUME NEW in, NEW D, NEW H, NEW l, NEW st, LabelOK(in, D, H, l, st), NEW v,
         NEW e, e = [st EXCEPT !.bc = v]
  PROVE  LabelOK(in, D, H, l, e) /\ e.bc = v /\ e.id = st.id
<1>1. st = [id |-> st.id, bc |-> st.bc, anims |-> st.anims, jumps |-> JumpsAt(in, D, l)]
  BY DEF LabelOK
<1>2. e = [id |-> st.id, bc |-> v, anims |-> st.anims, jumps |-> JumpsAt(in, D, l)]
  BY <1>1
<1>3. e.bc = v /\ e.id = st.id /\ e.anims = st.anims
  BY <1>2
<1> QED
  BY <1>2, <1>3 DEF LabelOK

LEMMA IdChange ==
  ASSUME NEW in, NEW D, NEW H, NEW l, NEW st, LabelOK(in, D, H, l, st), NEW v,
         NEW e, e = [st EXCEPT !.id = v]
  PROVE  LabelOK(in, D, H, l, e) /\ e.id = v /\ e.bc = st.bc
<1>1. st = [id |-> st.id, bc |-> st.bc, anims |-> st.anims, jumps |-> JumpsAt(in, D, l)]
  BY DEF LabelOK
<1>2. e = [id |-> v, bc |-> st.bc, anims |-> st.anims, jumps |-> JumpsAt(in, D, l)]
  BY <1>1
<1>3. e.id = v /\ e.bc = st.bc /\ e.anims = st.anims
  BY <1>2
<1> QED
  BY <1>2, <1>3 DEF LabelOK

(* What a step of the walk leaves alone, but for the bc of a label. *)
LEMMA WalkFrame ==
  ASSUME MergeInv, pc = "remove",
         UNCHANGED <<inputs, n, pc, instr, dest, source, todo, id>>,
         \/ UNCHANGED label
         \/ \E st : label' = [label EXCEPT ![st].bc = NULL]
  PROVE  /\ HeadersInv' /\ HeapInv' /\ SymtblInv' /\ FreeInv'
         /\ Leaving' = Leaving /\ Kept' = Kept /\ hp' = hp
<1>1. Pending' = Pending
  BY DEF Pending
<1>2. Live' = Live /\ Leaving' = Leaving /\ Kept' = Kept /\ hp' = hp /\ InSymtbl' = InSymtbl
  BY <1>1, SameLive
<1>3. HeadersInv'
  BY <1>1 DEF MergeInv, HeadersInv
<1>4. /\ DOMAIN label' = DOMAIN label
      /\ \A l \in DOMAIN label : /\ LabelOK(inputs, DOMAIN instr, Live, l, label'[l])
                                 /\ label'[l].id = label[l].id
  <2>1. \A l \in DOMAIN label : LabelOK(inputs, DOMAIN instr, Live, l, label[l])
    BY DEF MergeInv, HeapInv
  <2>2. CASE UNCHANGED label
    BY <2>1, <2>2
  <2>3. CASE \E st : label' = [label EXCEPT ![st].bc = NULL]
    <3>1. PICK st : label' = [label EXCEPT ![st].bc = NULL]
      BY <2>3
    <3>2. /\ DOMAIN label' = DOMAIN label
          /\ \A l \in DOMAIN label : label'[l] = IF l = st THEN [label[l] EXCEPT !.bc = NULL]
                                                 ELSE label[l]
      BY <3>1
    <3>3. ASSUME NEW l \in DOMAIN label
          PROVE  LabelOK(inputs, DOMAIN instr, Live, l, label'[l]) /\ label'[l].id = label[l].id
      <4>1. CASE l = st
        <5>1. PICK e : e = label'[l] /\ e = [label[l] EXCEPT !.bc = NULL]
          BY <3>2, <4>1
        <5>2. LabelOK(inputs, DOMAIN instr, Live, l, e) /\ e.id = label[l].id
          BY <2>1, <5>1, BcChange
        <5> QED
          BY <5>1, <5>2
      <4> QED
        BY <2>1, <3>2, <4>1
    <3> QED
      BY <3>2, <3>3
  <2> QED
    BY <2>2, <2>3
<1>5. HeapInv'
  BY <1>2, <1>4 DEF MergeInv, HeapInv
<1>6. SymtblInv'
  <2>1. InSymtbl \subseteq DOMAIN label
    BY DEF MergeInv, SymtblInv, Merging
  <2>2. \A k \in DOMAIN dest.symtbl : dest.symtbl[k] \in DOMAIN label
    BY <2>1 DEF InSymtbl
  <2>3. \A k \in DOMAIN dest.symtbl : k < dest.uniq_id /\ label'[dest.symtbl[k]].id = k
    BY <1>4, <2>2 DEF MergeInv, SymtblInv
  <2>4. /\ dest.uniq_id \in Nat /\ DOMAIN dest.symtbl \subseteq Nat
        /\ InSymtbl = {l \in DOMAIN label : l[1] # n}
        /\ {source.symtbl[k] : k \in DOMAIN source.symtbl} = {l \in DOMAIN label : l[1] = n}
    BY DEF MergeInv, SymtblInv, Merging
  <2> QED
    BY <1>2, <1>4, <2>3, <2>4 DEF SymtblInv
<1>7. FreeInv'
  BY DEF FreeInv
<1> QED
  BY <1>2, <1>3, <1>5, <1>6, <1>7

LEMMA WalkPlace ==
  ASSUME MergeInv, pc = "remove"
  PROVE  LET R == Run(inputs, Leaving) IN
         /\ NULL \notin R /\ R \subseteq DOMAIN instr
         /\ \A x \in R : /\ Falls(inputs, x) => After(x) \in R
                         /\ Leaps(inputs, x) => To(inputs, x) \in R /\ Marked(inputs, To(inputs, x))
                         /\ Shared(x) <=> x \in Kept
                         /\ instr[x].next = IF Falls(inputs, x) THEN After(x) ELSE NULL
                         /\ instr[x].st_entry = IF Marked(inputs, x) THEN x ELSE NULL
                         /\ instr[x].jump = IF Leaps(inputs, x) THEN To(inputs, x) ELSE NULL
         /\ \A x \in Kept : /\ Falls(inputs, x) => After(x) \in Kept
                            /\ Leaps(inputs, x) => To(inputs, x) \in Kept
         /\ DOMAIN label = {l \in DOMAIN instr : Marked(inputs, l)}
<1> DEFINE R == Run(inputs, Leaving)
<1>1. /\ Good(inputs) /\ Leaving \in HeaderNames(inputs) /\ R \subseteq Runs(inputs, Live)
      /\ Live \subseteq HeaderNames(inputs)
  BY LeavingFacts, LiveFacts DEF MergeInv
<1>2. Heap(inputs, Live, instr, label)
  BY HeapHolds DEF MergeInv
<1>3. R \subseteq DOMAIN instr /\ DOMAIN instr = Runs(inputs, Live)
  BY <1>1, <1>2 DEF Heap
<1>4. Sound(inputs, Live, instr, label)
  BY <1>2, HeapFacts
<1>5. NULL \notin R /\ DOMAIN label = {l \in DOMAIN instr : Marked(inputs, l)}
  BY <1>3, <1>4 DEF Sound
<1>6. ASSUME NEW x \in R
      PROVE  /\ Falls(inputs, x) => After(x) \in R
             /\ Leaps(inputs, x) => To(inputs, x) \in R /\ Marked(inputs, To(inputs, x))
  BY <1>1, RunFacts
<1>7. \A x \in R : Shared(x) <=> x \in Kept
  BY SharedIsKept DEF MergeInv
<1>8. ASSUME NEW x \in R
      PROVE  /\ instr[x].next = IF Falls(inputs, x) THEN After(x) ELSE NULL
             /\ instr[x].st_entry = IF Marked(inputs, x) THEN x ELSE NULL
             /\ instr[x].jump = IF Leaps(inputs, x) THEN To(inputs, x) ELSE NULL
  BY <1>3, <1>4 DEF Sound
<1>9. ASSUME NEW x \in Kept
      PROVE  /\ Falls(inputs, x) => After(x) \in Kept
             /\ Leaps(inputs, x) => To(inputs, x) \in Kept
  BY <1>1, RunsFacts DEF Kept
<1> QED
  BY <1>3, <1>5, <1>6, <1>7, <1>8, <1>9

LEMMA CallKeeps ==
  ASSUME MergeInv, pc = "remove", NEW R, R = Run(inputs, Leaving),
         NEW st, NEW frames, Call(st, frames),
         st # NULL => st \in R /\ Marked(inputs, st),
         NEW visin, NEW free,
         WalkOK(inputs, R, Kept, frames, visited \cup ({st} \ {NULL}), visin, free, disconnect),
         AllHandled(inputs, R, Kept, frames, visited, visin, free, label)
  PROVE  /\ WalkOK(inputs, R, Kept, stack', visited', visin, free, disconnect')
         /\ AllHandled(inputs, R, Kept, stack', visited', visin, free, label)
         /\ visited' = visited \cup ({st} \ {NULL})
<1>1. CASE st = NULL \/ st \in visited
  <2>1. visited \cup ({st} \ {NULL}) = visited
    BY <1>1
  <2>2. stack' = frames /\ visited' = visited /\ disconnect' = disconnect
    BY <1>1 DEF Call
  <2> QED
    BY <2>1, <2>2
<1>2. CASE ~ (st = NULL \/ st \in visited)
  <2>1. st \in DOMAIN label
    BY <1>2, WalkPlace
  <2>2. label[st].bc = st
    BY <1>2, <2>1 DEF MergeInv, WalkInv, AllHandled
  <2>3. Shared(st) <=> st \in Kept
    BY <1>2, WalkPlace
  <2>4. PICK f : f = [st |-> st, next |-> st, instr |-> NULL, at |-> "next"]
    OBVIOUS
  <2>5. /\ visited' = visited \cup {st}
        /\ IF Shared(st) THEN stack' = frames /\ disconnect' = disconnect
           ELSE stack' = <<f>> \o frames /\ disconnect' = Append(disconnect, st)
    BY <1>2, <2>2, <2>4 DEF Call, Frame
  <2>6. visited \cup ({st} \ {NULL}) = visited \cup {st}
    BY <1>2
  <2>7. WalkOK(inputs, R, Kept, frames, visited \cup {st}, visin, free, disconnect)
    BY <2>6
  <2>8. CASE st \in Kept
    BY <2>3, <2>5, <2>6, <2>7, <2>8, PassKeeps
  <2>9. CASE st \notin Kept
    <3>1. /\ WalkOK(inputs, R, Kept, <<f>> \o frames, visited \cup {st}, visin, free,
                    Append(disconnect, st))
          /\ AllHandled(inputs, R, Kept, <<f>> \o frames, visited \cup {st}, visin, free, label)
      BY <2>4, <2>7, <2>9, EnterKeeps
    <3> QED
      BY <2>3, <2>5, <2>6, <2>9, <3>1
  <2> QED
    BY <2>8, <2>9
<1> QED
  BY <1>1, <1>2

LEMMA WalkAgain ==
  ASSUME MergeInv, pc = "remove",
         UNCHANGED <<inputs, n, pc, instr, dest, source, todo, id>>,
         \/ UNCHANGED label
         \/ \E st : label' = [label EXCEPT ![st].bc = NULL],
         WalkOK(inputs, Run(inputs, Leaving), Kept, stack', visited', visitedinstrs',
                freeinstrs', disconnect'),
         AllHandled(inputs, Run(inputs, Leaving), Kept, stack', visited', visitedinstrs',
                    freeinstrs', label'),
         \/ UNCHANGED animno /\ visited \subseteq visited'
         \/ /\ animno' \in Nat \ {0}
            /\ \A i \in DOMAIN hp.st_entries :
                 i < animno' => hp.st_entries[i] = NULL \/ hp.st_entries[i] \in visited'
  PROVE  MergeInv'
<1>1. /\ HeadersInv' /\ HeapInv' /\ SymtblInv' /\ FreeInv'
      /\ Leaving' = Leaving /\ Kept' = Kept /\ hp' = hp
  BY WalkFrame
<1>2. WalkOK(inputs', Run(inputs', Leaving'), Kept', stack', visited', visitedinstrs',
             freeinstrs', disconnect')
  BY <1>1
<1>3. AllHandled(inputs', Run(inputs', Leaving'), Kept', stack', visited', visitedinstrs',
                 freeinstrs', label')
  BY <1>1
<1>4. animno' \in Nat \ {0} /\ \A i \in DOMAIN hp.st_entries :
         i < animno' => hp.st_entries[i] = NULL \/ hp.st_entries[i] \in visited'
  BY DEF MergeInv, WalkInv
<1>5. animno' \in Nat \ {0} /\ \A i \in DOMAIN hp'.st_entries :
         i < animno' => hp'.st_entries[i] = NULL \/ hp'.st_entries[i] \in visited'
  BY <1>1, <1>4
<1>6. WalkInv'
  BY <1>2, <1>3, <1>5 DEF WalkInv
<1> QED
  BY <1>1, <1>6 DEF MergeInv

LEMMA RemoveEntryKeeps ==
  ASSUME MergeInv, RemoveEntry
  PROVE  MergeInv'
<1> DEFINE R == Run(inputs, Leaving)
           st == hp.st_entries[animno]
<1>1. /\ pc = "remove" /\ stack = <<>> /\ animno \in DOMAIN hp.st_entries /\ Call(st, <<>>)
      /\ animno' = animno + 1
      /\ UNCHANGED <<inputs, n, pc, instr, label, dest, source, todo, id, visitedinstrs, freeinstrs>>
  BY DEF RemoveEntry
<1>2. Good(inputs) /\ Leaving \in HeaderNames(inputs) /\ hp = HeaderAt(inputs, Leaving)
  BY <1>1, LeavingFacts DEF MergeInv
<1>3. DOMAIN hp.st_entries \subseteq Nat \ {0}
  <2>1. DOMAIN hp.st_entries = DOMAIN inputs[Leaving[1]].headers[Leaving[2]]
    BY <1>2, HeaderFields
  <2>2. PICK s : s = inputs[Leaving[1]].headers[Leaving[2]]
    OBVIOUS
  <2>3. DOMAIN s = 1 .. Len(s) /\ Len(s) \in Nat
    BY <1>2, <2>2, NameFacts, ProgramFacts DEF Good
  <2> QED
    BY <2>1, <2>2, <2>3
<1>4. st # NULL => st \in R /\ Marked(inputs, st)
  <2>1. st # NULL => st \in Starts(inputs, Leaving)
    BY <1>1, <1>2, HeaderFields
  <2> QED
    BY <1>2, <2>1, RunFacts
<1>5. /\ WalkOK(inputs, R, Kept, stack, visited, visitedinstrs, freeinstrs, disconnect)
      /\ AllHandled(inputs, R, Kept, stack, visited, visitedinstrs, freeinstrs, label)
      /\ animno \in Nat \ {0}
      /\ \A i \in DOMAIN hp.st_entries :
           i < animno => hp.st_entries[i] = NULL \/ hp.st_entries[i] \in visited
  BY <1>1 DEF MergeInv, WalkInv
<1> HIDE DEF st, R
<1>6. WalkOK(inputs, R, Kept, <<>>, visited \cup ({st} \ {NULL}), visitedinstrs, freeinstrs, disconnect)
  <2>1. Elems(<<>>) = {}
    BY DEF Elems
  <2>2. visited \cup ({st} \ {NULL}) \subseteq {l \in R : Marked(inputs, l)}
    BY <1>4, <1>5 DEF WalkOK
  <2> QED
    BY <1>1, <1>5, <2>1, <2>2 DEF WalkOK
<1>7. NULL \notin R
  BY <1>1, WalkPlace DEF R
<1>8. /\ WalkOK(inputs, R, Kept, stack', visited', visitedinstrs, freeinstrs, disconnect')
      /\ AllHandled(inputs, R, Kept, stack', visited', visitedinstrs, freeinstrs, label)
      /\ visited' = visited \cup ({st} \ {NULL})
  BY <1>1, <1>4, <1>5, <1>6, CallKeeps DEF R
<1>9. animno' \in Nat \ {0} /\ \A i \in DOMAIN hp.st_entries :
         i < animno' => hp.st_entries[i] = NULL \/ hp.st_entries[i] \in visited'
  BY <1>1, <1>3, <1>5, <1>8 DEF st
<1> QED
  BY <1>1, <1>8, <1>9, WalkAgain DEF R

LEMMA TopFacts ==
  ASSUME MergeInv, pc = "remove", stack # <<>>
  PROVE  /\ Top \in Activations(Run(inputs, Leaving))
         /\ Tail(stack) \in Seq(Activations(Run(inputs, Leaving)))
         /\ stack = <<Top>> \o Tail(stack)
         /\ ActivationOK(inputs, Run(inputs, Leaving), Kept, visited, visitedinstrs, freeinstrs, Top)
         /\ visited \subseteq DOMAIN label
<1> DEFINE R == Run(inputs, Leaving)
<1>1. /\ WalkOK(inputs, R, Kept, stack, visited, visitedinstrs, freeinstrs, disconnect)
      /\ stack \in Seq(Activations(R))
  BY DEF MergeInv, WalkInv, WalkOK
<1>2. /\ Elems(stack) = {Top} \cup Elems(Tail(stack))
      /\ Tail(stack) \in Seq(Activations(R)) /\ Top \in Activations(R)
  BY <1>1, TailElems DEF Top
<1>3. stack = <<Top>> \o Tail(stack)
  BY <1>1, StackTop DEF Top
<1>4. visited \subseteq DOMAIN label
  BY <1>1, WalkPlace DEF WalkOK
<1> HIDE DEF R
<1>5. ActivationOK(inputs, R, Kept, visited, visitedinstrs, freeinstrs, Top)
  BY <1>1, <1>2 DEF WalkOK
<1> QED
  BY <1>2, <1>3, <1>4, <1>5 DEF R

LEMMA LeaveKeeps ==
  ASSUME MergeInv, pc = "remove", stack # <<>>, Leave,
         UNCHANGED <<inputs, n, pc, instr, dest, source, todo, id, animno>>,
         Top.next = NULL \/ Top.next \in visitedinstrs \cup Kept,
         Busy(Top) => Top.instr \in Kept
  PROVE  MergeInv'
<1> DEFINE R == Run(inputs, Leaving)
<1>1. PICK top, rest : top = Top /\ rest = Tail(stack)
  OBVIOUS
<1>2. /\ top \in Activations(R) /\ rest \in Seq(Activations(R)) /\ stack = <<top>> \o rest
      /\ visited \subseteq DOMAIN label
  BY <1>1, TopFacts
<1>3. /\ WalkOK(inputs, R, Kept, stack, visited, visitedinstrs, freeinstrs, disconnect)
      /\ AllHandled(inputs, R, Kept, stack, visited, visitedinstrs, freeinstrs, label)
  BY DEF MergeInv, WalkInv
<1>4. /\ label' = [label EXCEPT ![top.st].bc = NULL] /\ stack' = rest
      /\ visited' = visited /\ visitedinstrs' = visitedinstrs /\ freeinstrs' = freeinstrs
      /\ disconnect' = disconnect
  BY <1>1 DEF Leave
<1>5. DOMAIN label' = DOMAIN label /\ \A l \in DOMAIN label \ {top.st} : label'[l].bc = label[l].bc
  BY <1>4
<1>10. label'[top.st].bc = NULL
  <2>1. top.st \in DOMAIN label
    BY <1>1, <1>2, TopFacts DEF ActivationOK
  <2>2. PICK e : e = label'[top.st] /\ e = [label[top.st] EXCEPT !.bc = NULL]
    BY <1>4, <2>1
  <2>3. LabelOK(inputs, DOMAIN instr, Live, top.st, label[top.st])
    BY <2>1 DEF MergeInv, HeapInv
  <2> QED
    BY <2>2, <2>3, BcChange
<1>6. /\ NULL \notin R /\ \A x \in R : Falls(inputs, x) => After(x) \in R
  BY WalkPlace
<1>7. (top.next = NULL \/ top.next \in visitedinstrs \cup Kept) /\ (Busy(top) => top.instr \in Kept)
  BY <1>1
<1> HIDE DEF R
<1>8. /\ WalkOK(inputs, R, Kept, rest, visited, visitedinstrs, freeinstrs, disconnect)
      /\ AllHandled(inputs, R, Kept, rest, visited, visitedinstrs, freeinstrs, label')
  BY <1>2, <1>3, <1>5, <1>6, <1>7, <1>10, CloseKeeps
<1>9. \E st : label' = [label EXCEPT ![st].bc = NULL]
  BY <1>4
<1> QED
  BY <1>4, <1>8, <1>9, WalkAgain DEF R

LEMMA NextInstrKeeps ==
  ASSUME MergeInv, NextInstr
  PROVE  MergeInv'
<1> DEFINE R == Run(inputs, Leaving)
<1>1. /\ pc = "remove" /\ stack # <<>> /\ Top.at = "next"
      /\ UNCHANGED <<inputs, n, pc, instr, dest, source, todo, id, animno>>
  BY DEF NextInstr, At
<1>2. CASE (Top.next = NULL \/ Seen(Top.next)) /\ Leave
  <2>1. ~ Busy(Top) /\ (Top.next = NULL \/ Top.next \in visitedinstrs \cup Kept)
    BY <1>1, <1>2 DEF Busy, Seen
  <2> QED
    BY <1>1, <1>2, <2>1, LeaveKeeps
<1>3. CASE /\ Top.next # NULL /\ ~Seen(Top.next)
           /\ visitedinstrs' = visitedinstrs \cup {Top.next}
           /\ Call(instr[Top.next].st_entry,
                   <<[Top EXCEPT !.instr = Top.next, !.next = instr[Top.next].next,
                                 !.at = "label"]>> \o Tail(stack))
           /\ UNCHANGED <<label, freeinstrs>>
  <2>1. PICK top, rest : top = Top /\ rest = Tail(stack)
    OBVIOUS
  <2>2. top \in Activations(R) /\ rest \in Seq(Activations(R)) /\ stack = <<top>> \o rest
    BY <1>1, <2>1, TopFacts
  <2>3. /\ WalkOK(inputs, R, Kept, stack, visited, visitedinstrs, freeinstrs, disconnect)
        /\ AllHandled(inputs, R, Kept, stack, visited, visitedinstrs, freeinstrs, label)
    BY <1>1 DEF MergeInv, WalkInv
  <2>4. /\ NULL \notin R /\ \A y \in R : Falls(inputs, y) => After(y) \in R
    BY <1>1, WalkPlace
  <2>5. PICK x : x = top.next /\ x # NULL /\ x \notin visitedinstrs
    BY <1>3, <2>1 DEF Seen
  <2>6. x \in R
    BY <2>2, <2>5 DEF Activations
  <2>7. PICK st : st = IF Marked(inputs, x) THEN x ELSE NULL
    OBVIOUS
  <2>8. /\ instr[x].next = IF Falls(inputs, x) THEN After(x) ELSE NULL
        /\ instr[x].st_entry = st
    BY <1>1, <2>6, <2>7, WalkPlace
  <2>9. PICK f : f = [st |-> top.st, next |-> IF Falls(inputs, x) THEN After(x) ELSE NULL,
                      instr |-> x, at |-> "label"]
    OBVIOUS
  <2>10. [top EXCEPT !.instr = x, !.next = instr[x].next, !.at = "label"] = f
    <3>1. PICK nx : nx = IF Falls(inputs, x) THEN After(x) ELSE NULL
      OBVIOUS
    <3>2. [top EXCEPT !.instr = x, !.next = nx, !.at = "label"]
            = [st |-> top.st, next |-> nx, instr |-> x, at |-> "label"]
      <4>1. top = [st |-> top.st, next |-> top.next, instr |-> top.instr, at |-> top.at]
        BY <2>2 DEF Activations
      <4>2. PICK e : e = [top EXCEPT !.instr = x]
        OBVIOUS
      <4>3. e = [st |-> top.st, next |-> top.next, instr |-> x, at |-> top.at]
        BY <4>1, <4>2
      <4>4. PICK g : g = [e EXCEPT !.next = nx]
        OBVIOUS
      <4>5. g = [st |-> top.st, next |-> nx, instr |-> x, at |-> top.at]
        BY <4>3, <4>4
      <4>6. [g EXCEPT !.at = "label"] = [st |-> top.st, next |-> nx, instr |-> x, at |-> "label"]
        BY <4>5
      <4> QED
        BY <4>2, <4>4, <4>6
    <3> QED
      BY <2>8, <2>9, <3>1, <3>2
  <2>11. PICK frames : frames = <<f>> \o rest
    OBVIOUS
  <2>12. Call(st, frames) /\ visitedinstrs' = visitedinstrs \cup {x} /\ UNCHANGED <<label, freeinstrs>>
    BY <1>3, <2>1, <2>5, <2>8, <2>10, <2>11
  <2>13. st # NULL => st \in R /\ Marked(inputs, st)
    BY <2>6, <2>7
  <2>14. top.at = "next"
    BY <1>1, <2>1
  <2> HIDE DEF R
  <2>15. /\ WalkOK(inputs, R, Kept, frames, visited \cup ({st} \ {NULL}), visitedinstrs \cup {x},
                   freeinstrs, disconnect)
         /\ AllHandled(inputs, R, Kept, frames, visited, visitedinstrs \cup {x}, freeinstrs, label)
    BY ONLY <2>2, <2>3, <2>4, <2>5, <2>7, <2>9, <2>11, <2>14, OpenKeeps
  <2>16. /\ WalkOK(inputs, R, Kept, stack', visited', visitedinstrs \cup {x}, freeinstrs, disconnect')
         /\ AllHandled(inputs, R, Kept, stack', visited', visitedinstrs \cup {x}, freeinstrs, label)
         /\ visited' = visited \cup ({st} \ {NULL})
    BY <1>1, <2>12, <2>13, <2>15, CallKeeps DEF R
  <2>17. /\ WalkOK(inputs, R, Kept, stack', visited', visitedinstrs', freeinstrs', disconnect')
         /\ AllHandled(inputs, R, Kept, stack', visited', visitedinstrs', freeinstrs', label')
         /\ visited \subseteq visited'
    BY <2>12, <2>16
  <2> QED
    BY <1>1, <2>12, <2>17, WalkAgain DEF R
<1> QED
  BY <1>2, <1>3 DEF NextInstr

LEMMA AfterLabelKeeps ==
  ASSUME MergeInv, AfterLabel
  PROVE  MergeInv'
<1> DEFINE R == Run(inputs, Leaving)
<1>1. /\ pc = "remove" /\ stack # <<>> /\ Top.at = "label"
      /\ UNCHANGED <<inputs, n, pc, instr, dest, source, todo, id, animno>>
  BY DEF AfterLabel, At
<1>2. /\ WalkOK(inputs, R, Kept, stack, visited, visitedinstrs, freeinstrs, disconnect)
      /\ AllHandled(inputs, R, Kept, stack, visited, visitedinstrs, freeinstrs, label)
  BY <1>1 DEF MergeInv, WalkInv
<1>3. PICK top, rest : top = Top /\ rest = Tail(stack)
  OBVIOUS
<1>4. /\ top \in Activations(R) /\ rest \in Seq(Activations(R)) /\ stack = <<top>> \o rest
      /\ ActivationOK(inputs, R, Kept, visited, visitedinstrs, freeinstrs, top)
  BY <1>1, <1>3, TopFacts
<1>5. PICK x : x = top.instr
  OBVIOUS
<1>6. /\ Busy(top) /\ x \in visitedinstrs /\ x \in R
      /\ top.next = IF Falls(inputs, x) THEN After(x) ELSE NULL
  BY <1>1, <1>2, <1>3, <1>4, <1>5 DEF Busy, ActivationOK, WalkOK
<1>7. Shared(x) <=> x \in Kept
  BY <1>1, <1>6, WalkPlace
<1>8. CASE Shared(Top.instr) /\ Leave
  <2>1. x \in Kept
    BY <1>3, <1>5, <1>7, <1>8
  <2>2. Top.next = NULL \/ Top.next \in visitedinstrs \cup Kept
    BY <1>1, <1>3, <1>6, <2>1, WalkPlace
  <2> QED
    BY <1>1, <1>3, <1>5, <1>8, <2>1, <2>2, LeaveKeeps
<1>9. CASE /\ ~Shared(Top.instr)
           /\ Call(Target(Top.instr), <<[Top EXCEPT !.at = "jump"]>> \o Tail(stack))
           /\ UNCHANGED <<label, visitedinstrs, freeinstrs>>
  <2>1. x \in R \ Kept
    BY <1>3, <1>5, <1>6, <1>7, <1>9
  <2>2. PICK st : st = IF Leaps(inputs, x) THEN To(inputs, x) ELSE NULL
    OBVIOUS
  <2>3. instr[x].jump = st
    BY <1>1, <1>6, <2>2, WalkPlace
  <2>4. /\ NULL \notin R
        /\ \A y \in R : Leaps(inputs, y) => To(inputs, y) \in R /\ Marked(inputs, To(inputs, y))
    BY <1>1, WalkPlace
  <2>5. st # NULL => st \in R /\ Marked(inputs, st)
    BY <1>6, <2>2, <2>4
  <2>6. PICK f : f = [st |-> top.st, next |-> top.next, instr |-> x, at |-> "jump"]
    OBVIOUS
  <2>7. [top EXCEPT !.at = "jump"] = f
    BY <1>4, <1>5, <2>6 DEF Activations
  <2>8. PICK frames : frames = <<f>> \o rest
    OBVIOUS
  <2>9. Call(st, frames) /\ UNCHANGED <<label, visitedinstrs, freeinstrs>>
    BY <1>3, <1>5, <1>9, <2>3, <2>7, <2>8 DEF Target
  <2>10. top.at = "label"
    BY <1>1, <1>3
  <2> HIDE DEF R
  <2>11. /\ WalkOK(inputs, R, Kept, frames, visited \cup ({st} \ {NULL}), visitedinstrs,
                   freeinstrs, disconnect)
         /\ AllHandled(inputs, R, Kept, frames, visited, visitedinstrs, freeinstrs, label)
    BY ONLY <1>2, <1>4, <1>5, <2>1, <2>2, <2>4, <2>6, <2>8, <2>10, TurnKeeps
  <2>12. /\ WalkOK(inputs, R, Kept, stack', visited', visitedinstrs, freeinstrs, disconnect')
         /\ AllHandled(inputs, R, Kept, stack', visited', visitedinstrs, freeinstrs, label)
         /\ visited' = visited \cup ({st} \ {NULL})
    BY <1>1, <2>5, <2>9, <2>11, CallKeeps DEF R
  <2>13. /\ WalkOK(inputs, R, Kept, stack', visited', visitedinstrs', freeinstrs', disconnect')
         /\ AllHandled(inputs, R, Kept, stack', visited', visitedinstrs', freeinstrs', label')
         /\ visited \subseteq visited'
    BY <2>9, <2>12
  <2> QED
    BY <1>1, <2>9, <2>13, WalkAgain DEF R
<1> QED
  BY <1>8, <1>9 DEF AfterLabel

LEMMA AfterJumpKeeps ==
  ASSUME MergeInv, AfterJump
  PROVE  MergeInv'
<1> DEFINE R == Run(inputs, Leaving)
<1>1. /\ pc = "remove" /\ stack # <<>> /\ Top.at = "jump"
      /\ freeinstrs' = Append(freeinstrs, Top.instr)
      /\ stack' = <<[Top EXCEPT !.at = "next"]>> \o Tail(stack)
      /\ UNCHANGED <<inputs, n, pc, instr, label, dest, source, todo, id, animno, visited,
                     visitedinstrs, disconnect>>
  BY DEF AfterJump, At
<1>2. /\ WalkOK(inputs, R, Kept, stack, visited, visitedinstrs, freeinstrs, disconnect)
      /\ AllHandled(inputs, R, Kept, stack, visited, visitedinstrs, freeinstrs, label)
  BY <1>1 DEF MergeInv, WalkInv
<1>3. PICK top, rest : top = Top /\ rest = Tail(stack)
  OBVIOUS
<1>4. top \in Activations(R) /\ rest \in Seq(Activations(R)) /\ stack = <<top>> \o rest
  BY <1>1, <1>3, TopFacts
<1>5. PICK x : x = top.instr
  OBVIOUS
<1>6. PICK f : f = [st |-> top.st, next |-> top.next, instr |-> x, at |-> "next"]
  OBVIOUS
<1>7. [top EXCEPT !.at = "next"] = f
  BY <1>4, <1>5, <1>6 DEF Activations
<1>8. stack' = <<f>> \o rest /\ freeinstrs' = Append(freeinstrs, x) /\ top.at = "jump"
  BY <1>1, <1>3, <1>5, <1>7
<1>9. NULL \notin R
  BY <1>1, WalkPlace
<1> HIDE DEF R
<1>10. /\ WalkOK(inputs, R, Kept, stack', visited, visitedinstrs, freeinstrs', disconnect)
       /\ AllHandled(inputs, R, Kept, stack', visited, visitedinstrs, freeinstrs', label)
  BY ONLY <1>2, <1>4, <1>5, <1>6, <1>8, <1>9, QueueKeeps, ZenonT(60)
<1> QED
  BY <1>1, <1>10, WalkAgain DEF R

-----------------------------------------------------------------------------
(* The rest of the removal. *)

LEMMA EntriesRemovedKeeps ==
  ASSUME MergeInv, EntriesRemoved
  PROVE  MergeInv'
<1> DEFINE R == Run(inputs, Leaving)
<1>1. /\ pc = "remove" /\ pc' = "free" /\ stack = <<>> /\ animno \notin DOMAIN hp.st_entries
      /\ UNCHANGED <<inputs, n, instr, label, dest, source, todo, id, visited, freeinstrs,
                     disconnect>>
  BY DEF EntriesRemoved, removal
<1>2. Pending' = Pending
  BY <1>1 DEF Pending
<1>3. /\ Live' = Live /\ Kept' = Kept /\ Own' = Own /\ InSymtbl' = InSymtbl
  BY <1>1, <1>2, SameLive
<1>4. /\ Good(inputs) /\ Leaving \in HeaderNames(inputs) /\ hp = HeaderAt(inputs, Leaving)
      /\ Runs(inputs, Live) = Kept \cup Own /\ \A x \in R : x \in Kept \/ x \in Own
  BY <1>1, LeavingFacts DEF MergeInv
<1>5. /\ WalkOK(inputs, R, Kept, <<>>, visited, visitedinstrs, freeinstrs, disconnect)
      /\ AllHandled(inputs, R, Kept, <<>>, visited, visitedinstrs, freeinstrs, label)
      /\ animno \in Nat \ {0}
      /\ \A i \in DOMAIN hp.st_entries :
           i < animno => hp.st_entries[i] = NULL \/ hp.st_entries[i] \in visited
  BY <1>1 DEF MergeInv, WalkInv
<1>6. \A i \in DOMAIN hp.st_entries : i < animno
  <2>1. DOMAIN hp.st_entries = DOMAIN inputs[Leaving[1]].headers[Leaving[2]]
    BY <1>4, HeaderFields
  <2>2. PICK s : s = inputs[Leaving[1]].headers[Leaving[2]]
    OBVIOUS
  <2>3. DOMAIN s = 1 .. Len(s) /\ Len(s) \in Nat
    BY <1>4, <2>2, NameFacts, ProgramFacts DEF Good
  <2>4. DOMAIN hp.st_entries = 1 .. Len(s)
    BY <2>1, <2>2, <2>3
  <2> QED
    BY <1>1, <1>5, <2>3, <2>4
<1>7. Starts(inputs, Leaving) \subseteq visited
  BY <1>4, <1>5, <1>6, HeaderFields
<1>8. /\ R \ Kept = Elems(freeinstrs)
      /\ \A l \in visited \ Kept : label[l].bc = NULL
      /\ \A l \in R \ Kept : Marked(inputs, l) => l \in visited
  <2>1. \A x \in Kept : /\ Falls(inputs, x) => After(x) \in Kept
                        /\ Leaps(inputs, x) => To(inputs, x) \in Kept
    BY <1>1, WalkPlace
  <2> QED
    BY <1>4, <1>5, <1>7, <2>1, WalkIsComplete
<1>9. Own = R \ Kept
  BY DEF Own
<1> HIDE DEF R
<1>10. visited \subseteq DOMAIN label /\ \A l \in DOMAIN label : Marked(inputs, l)
  BY <1>1, <1>5, WalkPlace DEF WalkOK, R
<1>11. ASSUME NEW l \in DOMAIN label
       PROVE  IF l \in Own THEN l \in visited /\ label[l].bc = NULL ELSE label[l].bc = l
  <2>1. label[l].bc = l \/ (label[l].bc = NULL /\ l \in (visited \cap R) \ Kept)
    BY <1>5 DEF AllHandled
  <2> QED
    BY <1>8, <1>9, <1>10, <2>1
<1>12. DOMAIN instr = Kept \cup Elems(freeinstrs)
  BY <1>1, <1>4, <1>8, <1>9 DEF MergeInv, HeapInv
<1>13. freeinstrs \in Seq(Own) /\ Once(freeinstrs) /\ disconnect \in Seq(Own)
  BY <1>5, <1>9 DEF WalkOK
<1>14. FreeInv'
  BY <1>1, <1>3, <1>10, <1>11, <1>12, <1>13 DEF FreeInv
<1>15. HeadersInv'
  BY <1>1, <1>2 DEF MergeInv, HeadersInv, Merging
<1>16. HeapInv'
  BY <1>1, <1>3 DEF MergeInv, HeapInv
<1>17. SymtblInv'
  BY <1>1, <1>3 DEF MergeInv, SymtblInv, Merging
<1>18. WalkInv'
  BY <1>1 DEF WalkInv
<1> QED
  BY <1>14, <1>15, <1>16, <1>17, <1>18 DEF MergeInv

(* An instruction that goes is gone from its neighbours and from its       *)
(* label, too.                                                             *)
LEMMA UnlinkExact ==
  ASSUME NEW in, NEW D, NEW D2, NEW ip \in D, D2 = D \ {ip}, NULL \notin D, NEW x \in D2,
         \A y \in D : Before(After(y)) = y /\ After(Before(y)) = y,
         NEW e, e = InstrAt(in, D, x), NEW d, d = InstrAt(in, D, ip),
         NEW p, x = d.next => p = NULL, x # d.next => p = e.prev,
         NEW q, x = d.prev => q = NULL, x # d.prev => q = e.next,
         NEW e2, e2 = [op |-> e.op, next |-> q, prev |-> p, st_entry |-> e.st_entry,
                       jump |-> e.jump]
  PROVE  e2 = InstrAt(in, D2, x)
<1>1. PICK nx, pv, nx2, pv2, st, jm :
        /\ nx = IF Falls(in, x) /\ After(x) \in D THEN After(x) ELSE NULL
        /\ pv = IF Before(x) \in D /\ Falls(in, Before(x)) THEN Before(x) ELSE NULL
        /\ nx2 = IF Falls(in, x) /\ After(x) \in D2 THEN After(x) ELSE NULL
        /\ pv2 = IF Before(x) \in D2 /\ Falls(in, Before(x)) THEN Before(x) ELSE NULL
        /\ st = IF Marked(in, x) THEN x ELSE NULL
        /\ jm = IF Leaps(in, x) THEN To(in, x) ELSE NULL
  OBVIOUS
<1>2. e = [op |-> x, next |-> nx, prev |-> pv, st_entry |-> st, jump |-> jm]
  BY <1>1 DEF InstrAt
<1>3. InstrAt(in, D2, x) = [op |-> x, next |-> nx2, prev |-> pv2, st_entry |-> st, jump |-> jm]
  BY <1>1 DEF InstrAt
<1>4. /\ d.next = IF Falls(in, ip) /\ After(ip) \in D THEN After(ip) ELSE NULL
      /\ d.prev = IF Before(ip) \in D /\ Falls(in, Before(ip)) THEN Before(ip) ELSE NULL
  BY FieldFacts
<1>5. x # NULL /\ ip # NULL /\ x # ip /\ x \in D
  OBVIOUS
<1>6. e.prev = pv /\ e.next = nx
  BY <1>2
<1>7. pv2 = p /\ nx2 = q
  BY <1>1, <1>4, <1>5, <1>6
<1>8. e2 = [op |-> x, next |-> nx2, prev |-> pv2, st_entry |-> st, jump |-> jm]
  BY <1>2, <1>7
<1> QED
  BY <1>3, <1>8

LEMMA JumpGone ==
  ASSUME NEW in, NEW D, NEW H, NEW l, NEW st, LabelOK(in, D, H, l, st), NEW ip, NEW e,
         Leaps(in, ip) /\ To(in, ip) = l => e = [st EXCEPT !.jumps = st.jumps \ {ip}],
         ~ (Leaps(in, ip) /\ To(in, ip) = l) => e = st
  PROVE  LabelOK(in, D \ {ip}, H, l, e) /\ e.bc = st.bc /\ e.id = st.id
<1>1. PICK J : J = JumpsAt(in, D, l)
  OBVIOUS
<1>2. st = [id |-> st.id, bc |-> st.bc, anims |-> st.anims, jumps |-> J] /\ AnimsOK(in, H, l, st.anims)
  BY <1>1 DEF LabelOK
<1>3. PICK J2 : J2 = JumpsAt(in, D \ {ip}, l)
  OBVIOUS
<1>4. IF Leaps(in, ip) /\ To(in, ip) = l THEN J2 = J \ {ip} ELSE J2 = J
  BY <1>1, <1>3 DEF JumpsAt
<1>5. e = [id |-> st.id, bc |-> st.bc, anims |-> st.anims, jumps |-> J2]
  <2>1. CASE Leaps(in, ip) /\ To(in, ip) = l
    <3>1. e = [st EXCEPT !.jumps = st.jumps \ {ip}] /\ st.jumps = J
      BY <1>2, <2>1
    <3>2. e = [st EXCEPT !.jumps = J2]
      BY <1>4, <2>1, <3>1
    <3> QED
      BY <1>2, <3>2
  <2>2. CASE ~ (Leaps(in, ip) /\ To(in, ip) = l)
    BY <1>2, <1>4, <2>2
  <2> QED
    BY <2>1, <2>2
<1>6. e.bc = st.bc /\ e.id = st.id /\ e.anims = st.anims
  BY <1>5
<1> QED
  BY <1>2, <1>3, <1>5, <1>6 DEF LabelOK

LEMMA SymtblKept ==
  ASSUME MergeInv, pc \in {"remove", "free"}
  PROVE  /\ InSymtbl = {l \in DOMAIN label : l[1] # n}
         /\ \A k \in DOMAIN dest.symtbl : dest.symtbl[k] \in DOMAIN label
BY DEF MergeInv, SymtblInv, Merging, InSymtbl

LEMMA RecordOfInstr ==
  ASSUME NEW in, NEW D, NEW x, NEW e, e = InstrAt(in, D, x)
  PROVE  e = [op |-> e.op, next |-> e.next, prev |-> e.prev, st_entry |-> e.st_entry,
              jump |-> e.jump]
<1>1. PICK nx, pv, st, jm : e = [op |-> x, next |-> nx, prev |-> pv, st_entry |-> st, jump |-> jm]
  BY DEF InstrAt
<1>2. e.op = x /\ e.next = nx /\ e.prev = pv /\ e.st_entry = st /\ e.jump = jm
  BY <1>1
<1> QED
  BY <1>1, <1>2

LEMMA FreeInstrKeeps ==
  ASSUME MergeInv, FreeInstr
  PROVE  MergeInv'
<1> DEFINE D == DOMAIN instr
<1>1. PICK ip : ip = Head(freeinstrs)
  OBVIOUS
<1>2. /\ pc = "free" /\ freeinstrs # <<>> /\ label' = Freed(ip) /\ instr' = Unlink(ip)
      /\ freeinstrs' = Tail(freeinstrs)
      /\ UNCHANGED <<inputs, n, pc, dest, source, todo, id, visited, disconnect>>
  BY <1>1 DEF FreeInstr
<1>3. Pending' = Pending
  BY <1>2 DEF Pending
<1>4. /\ Live' = Live /\ Kept' = Kept /\ Own' = Own /\ InSymtbl' = InSymtbl
  BY <1>2, <1>3, SameLive
<1>5. /\ freeinstrs \in Seq(Own) /\ Once(freeinstrs) /\ disconnect \in Seq(Own)
      /\ D = Kept \cup Elems(freeinstrs) /\ visited \subseteq DOMAIN label
      /\ \A l \in DOMAIN label :
           IF l \in Own THEN l \in visited /\ label[l].bc = NULL ELSE label[l].bc = l
  BY <1>2 DEF MergeInv, FreeInv
<1>6. /\ Good(inputs) /\ Live \subseteq HeaderNames(inputs) /\ Runs(inputs, Live) = Kept \cup Own
      /\ Kept \cap Own = {}
  BY <1>2, LeavingFacts, LiveFacts DEF MergeInv
<1>7. /\ IsFiniteSet(D) /\ \A x \in D : instr[x] = InstrAt(inputs, D, x)
      /\ DOMAIN label = {l \in Runs(inputs, Live) : Marked(inputs, l)}
      /\ \A l \in DOMAIN label : LabelOK(inputs, D, Live, l, label[l])
  BY <1>2 DEF MergeInv, HeapInv
<1>8. /\ ip \in Own /\ Elems(freeinstrs) = {ip} \cup Elems(Tail(freeinstrs))
      /\ Tail(freeinstrs) \in Seq(Own) /\ Once(Tail(freeinstrs)) /\ ip \notin Elems(Tail(freeinstrs))
  BY <1>1, <1>2, <1>5, TailElems
<1>9. D \subseteq Runs(inputs, Live)
  BY <1>5, <1>6, ElemsFacts, <1>8 DEF Elems
<1>10. /\ NULL \notin Runs(inputs, Live)
       /\ \A y \in Runs(inputs, Live) : Before(After(y)) = y /\ After(Before(y)) = y
       /\ Leaps(inputs, ip) => To(inputs, ip) \in DOMAIN label
  BY <1>6, <1>7, <1>8, RunsFacts
<1>11. PICK D2 : D2 = D \ {ip}
  OBVIOUS
<1>12. D2 = Kept \cup Elems(Tail(freeinstrs)) /\ IsFiniteSet(D2) /\ ip \in D
  <2>1. D2 \subseteq D
    BY <1>11
  <2>2. IsFiniteSet(D2)
    BY <1>7, <2>1, FS_Subset
  <2> QED
    BY <1>5, <1>6, <1>8, <1>11, <2>2
<1>13. DOMAIN instr' = D2
  BY <1>2, <1>11 DEF Unlink
<1>14. ASSUME NEW x \in D2 PROVE instr'[x] = InstrAt(inputs, D2, x)
  <2>1. instr'[x] = [instr[x] EXCEPT !.prev = IF x = instr[ip].next THEN NULL ELSE @,
                                     !.next = IF x = instr[ip].prev THEN NULL ELSE @]
    BY <1>2, <1>11 DEF Unlink
  <2>2. PICK e, d, e2 : e = instr[x] /\ d = instr[ip] /\ e2 = instr'[x]
    OBVIOUS
  <2>7. PICK p, q : /\ p = IF x = d.next THEN NULL ELSE e.prev
                    /\ q = IF x = d.prev THEN NULL ELSE e.next
    OBVIOUS
  <2>3. e2 = [op |-> e.op, next |-> q, prev |-> p, st_entry |-> e.st_entry, jump |-> e.jump]
    <3>1. e = [op |-> e.op, next |-> e.next, prev |-> e.prev, st_entry |-> e.st_entry, jump |-> e.jump]
      BY <1>7, <1>11, <2>2, RecordOfInstr
    <3>2. PICK a : a = [e EXCEPT !.prev = p]
      OBVIOUS
    <3>3. e2 = [a EXCEPT !.next = q]
      BY <2>1, <2>2, <2>7, <3>2
    <3>4. a = [op |-> e.op, next |-> e.next, prev |-> p, st_entry |-> e.st_entry, jump |-> e.jump]
      BY <3>1, <3>2
    <3> QED
      BY <3>3, <3>4
  <2>8. /\ x = d.next => p = NULL
        /\ x # d.next => p = e.prev
        /\ x = d.prev => q = NULL
        /\ x # d.prev => q = e.next
    BY <2>7
  <2>4. e = InstrAt(inputs, D, x) /\ d = InstrAt(inputs, D, ip)
    BY <1>7, <1>11, <1>12, <2>2
  <2>5. NULL \notin D /\ \A y \in D : Before(After(y)) = y /\ After(Before(y)) = y
    BY <1>9, <1>10
  <2> HIDE DEF D
  <2>6. e2 = InstrAt(inputs, D2, x)
    BY <1>11, <1>12, <2>3, <2>4, <2>5, <2>8, UnlinkExact
  <2> QED
    BY <2>2, <2>6
<1>15. /\ DOMAIN label' = DOMAIN label
       /\ \A l \in DOMAIN label : /\ LabelOK(inputs, D2, Live, l, label'[l])
                                  /\ label'[l].bc = label[l].bc /\ label'[l].id = label[l].id
  <2>1. instr[ip].jump = IF Leaps(inputs, ip) THEN To(inputs, ip) ELSE NULL
    BY <1>7, <1>12, FieldFacts
  <2>2. Leaps(inputs, ip) => To(inputs, ip) # NULL
    BY <1>7, <1>10
  <2>3. DOMAIN label' = DOMAIN label
    BY <1>2 DEF Freed
  <2>4. ASSUME NEW l \in DOMAIN label
        PROVE  /\ Leaps(inputs, ip) /\ To(inputs, ip) = l
                    => label'[l] = [label[l] EXCEPT !.jumps = label[l].jumps \ {ip}]
               /\ ~ (Leaps(inputs, ip) /\ To(inputs, ip) = l) => label'[l] = label[l]
    <3>1. CASE instr[ip].jump = NULL
      BY <1>2, <2>1, <2>2, <3>1 DEF Freed
    <3>2. CASE instr[ip].jump # NULL
      <4>1. Leaps(inputs, ip) /\ instr[ip].jump = To(inputs, ip)
        BY <2>1, <3>2
      <4>2. label' = [label EXCEPT ![To(inputs, ip)].jumps = @ \ {ip}]
        BY <1>2, <3>2, <4>1 DEF Freed
      <4>3. CASE l = To(inputs, ip)
        <5>1. label'[l] = [label[l] EXCEPT !.jumps = label[l].jumps \ {ip}]
          BY <4>2, <4>3
        <5> QED
          BY <4>1, <4>3, <5>1, Zenon
      <4>4. CASE l # To(inputs, ip)
        BY <4>1, <4>2, <4>4
      <4> QED
        BY <4>3, <4>4
    <3> QED
      BY <3>1, <3>2
  <2>5. ASSUME NEW l \in DOMAIN label
        PROVE  /\ LabelOK(inputs, D2, Live, l, label'[l])
               /\ label'[l].bc = label[l].bc /\ label'[l].id = label[l].id
    <3>1. PICK e : e = label'[l]
      OBVIOUS
    <3>2. LabelOK(inputs, D, Live, l, label[l])
      BY <1>7
    <3>3. /\ Leaps(inputs, ip) /\ To(inputs, ip) = l
               => e = [label[l] EXCEPT !.jumps = label[l].jumps \ {ip}]
          /\ ~ (Leaps(inputs, ip) /\ To(inputs, ip) = l) => e = label[l]
      BY <2>4, <3>1
    <3> HIDE DEF D
    <3>4. LabelOK(inputs, D2, Live, l, e) /\ e.bc = label[l].bc /\ e.id = label[l].id
      BY <1>11, <3>2, <3>3, JumpGone
    <3> QED
      BY <3>1, <3>4
  <2> QED
    BY <2>3, <2>5
<1>16. HeadersInv'
  BY <1>2, <1>3 DEF MergeInv, HeadersInv
<1>17. HeapInv'
  BY <1>2, <1>4, <1>7, <1>12, <1>13, <1>14, <1>15 DEF HeapInv
<1>18. SymtblInv'
  <2>1. \A k \in DOMAIN dest.symtbl : k < dest.uniq_id /\ label'[dest.symtbl[k]].id = k
    BY <1>2, <1>15, SymtblKept DEF MergeInv, SymtblInv
  <2> QED
    BY <1>2, <1>4, <1>15, <2>1 DEF MergeInv, SymtblInv, Merging
<1>19. FreeInv'
  <2>1. \A l \in DOMAIN label' :
           IF l \in Own THEN l \in visited /\ label'[l].bc = NULL ELSE label'[l].bc = l
    BY <1>5, <1>15
  <2> QED
    BY <1>2, <1>4, <1>5, <1>8, <1>12, <1>13, <1>15, <2>1 DEF FreeInv
<1>20. WalkInv'
  BY <1>2 DEF WalkInv
<1> QED
  BY <1>16, <1>17, <1>18, <1>19, <1>20 DEF MergeInv

LEMMA DisconnectKeeps ==
  ASSUME MergeInv, Disconnect
  PROVE  MergeInv'
<1>1. /\ pc = "free" /\ freeinstrs = <<>> /\ disconnect # <<>>
      /\ Head(disconnect) \in DOMAIN instr \/ UNCHANGED instr
      /\ disconnect' = Tail(disconnect)
      /\ UNCHANGED <<inputs, n, pc, label, dest, source, todo, id, visited, freeinstrs>>
  BY DEF Disconnect, Rest
<1>2. Pending' = Pending
  BY <1>1 DEF Pending
<1>3. /\ Live' = Live /\ Kept' = Kept /\ Own' = Own /\ InSymtbl' = InSymtbl
  BY <1>1, <1>2, SameLive
<1>4. /\ disconnect \in Seq(Own) /\ DOMAIN instr = Kept \cup Elems(freeinstrs)
  BY <1>1 DEF MergeInv, FreeInv
<1>5. /\ Kept \cap Own = {}
  BY <1>1, LeavingFacts DEF MergeInv
<1>6. Head(disconnect) \in Own /\ Tail(disconnect) \in Seq(Own)
  BY <1>1, <1>4, TailElems
<1>7. UNCHANGED instr
  <2>1. Elems(freeinstrs) = {}
    BY <1>1 DEF Elems
  <2> QED
    BY <1>1, <1>4, <1>5, <1>6, <2>1
<1>8. HeadersInv'
  BY <1>1, <1>2 DEF MergeInv, HeadersInv
<1>9. HeapInv'
  BY <1>1, <1>3, <1>7 DEF MergeInv, HeapInv
<1>10. SymtblInv'
  BY <1>1, <1>3 DEF MergeInv, SymtblInv
<1>11. FreeInv'
  BY <1>1, <1>3, <1>6, <1>7 DEF MergeInv, FreeInv
<1>12. WalkInv'
  BY <1>1 DEF WalkInv
<1> QED
  BY <1>8, <1>9, <1>10, <1>11, <1>12 DEF MergeInv

LEMMA Stripped ==
  ASSUME HeadersInv, pc \in {"remove", "free"}, NEW D, NEW l, l[1] # n,
         NEW st, LabelOK(inputs, D, Live, l, st),
         NEW A, A = {an \in st.anims : an.header[2] # id},
         NEW e, e = [id |-> st.id, bc |-> st.bc, anims |-> A, jumps |-> st.jumps]
  PROVE  LabelOK(inputs, D, Live \ {Leaving}, l, e) /\ e.id = st.id /\ e.bc = st.bc
<1>1. /\ Leaving[2] = id /\ <<n, id>>[1] = n
      /\ \A r \in Live : r[2] = id => r = Leaving \/ r = <<n, id>>
  BY LeavingFacts
<1>3. PICK J : J = JumpsAt(inputs, D, l)
  OBVIOUS
<1>4. /\ st = [id |-> st.id, bc |-> st.bc, anims |-> st.anims, jumps |-> J]
      /\ AnimsOK(inputs, Live, l, st.anims)
  BY <1>3 DEF LabelOK
<1>5. st.jumps = J
  BY <1>4
<1>6. e = [id |-> st.id, bc |-> st.bc, anims |-> A, jumps |-> J]
  BY <1>5
<1>7. e.id = st.id /\ e.bc = st.bc /\ e.anims = A
  BY <1>6
<1>8. AnimsOK(inputs, Live \ {Leaving}, l, A)
  <2>1. ASSUME NEW an \in A
        PROVE  /\ an.header \in Live \ {Leaving} /\ an.header[1] = l[1]
               /\ an.type = "HEADER" => l \in Starts(inputs, an.header)
    BY <1>1, <1>4, <2>1 DEF AnimsOK
  <2>2. ASSUME NEW r \in Live \ {Leaving}, l \in Starts(inputs, r)
        PROVE  [header |-> r, type |-> "HEADER"] \in A
    <3>1. PICK an : an = [header |-> r, type |-> "HEADER"]
      OBVIOUS
    <3>2. an \in st.anims /\ an.header = r
      BY <1>4, <2>2, <3>1 DEF AnimsOK
    <3>3. l[1] = r[1]
      BY <2>2 DEF Starts
    <3>4. r[2] # id
      BY <1>1, <3>3
    <3> QED
      BY <3>1, <3>2, <3>4
  <2> QED
    BY <2>1, <2>2 DEF AnimsOK
<1> QED
  BY <1>3, <1>6, <1>7, <1>8 DEF LabelOK

(* The labels of the result do not mention the header that leaves. *)
LEMMA OtherStays ==
  ASSUME HeadersInv, pc \in {"remove", "free"}, NEW D, NEW l, l[1] = n,
         NEW st, LabelOK(inputs, D, Live, l, st)
  PROVE  LabelOK(inputs, D, Live \ {Leaving}, l, st)
<1>1. Leaving[1] # n
  BY LeavingFacts
<1> QED
  BY <1>1 DEF LabelOK, AnimsOK

LEMMA RemoveLabelsKeeps ==
  ASSUME MergeInv, RemoveLabels
  PROVE  MergeInv'
<1>1. PICK gone : gone = {st \in visited : label[st].bc = NULL}
  OBVIOUS
<1>2. PICK ids : ids = {label[st].id : st \in gone}
  OBVIOUS
<1>3. /\ pc = "free" /\ freeinstrs = <<>> /\ pc' = "headers"
      /\ label' = [st \in DOMAIN label \ gone |-> IF st \in InSymtbl THEN Strip(st) ELSE label[st]]
      /\ dest' = [dest EXCEPT !.symtbl  = Drop(@, ids),
                              !.headers = Put(@, id, source.headers[id])]
      /\ UNCHANGED <<inputs, n, instr, source, todo, id, freeinstrs>>
  BY <1>1, <1>2 DEF RemoveLabels, InSymtbl, removal
<1>4. dest = [headers |-> dest.headers, symtbl |-> dest.symtbl, uniq_id |-> dest.uniq_id]
  BY DEF MergeInv, HeadersInv
<1>5. PICK hd, sy : hd = Put(dest.headers, id, source.headers[id]) /\ sy = Drop(dest.symtbl, ids)
  OBVIOUS
<1>6. dest' = [headers |-> hd, symtbl |-> sy, uniq_id |-> dest.uniq_id]
  <2>1. PICK a : a = [dest EXCEPT !.symtbl = sy]
    OBVIOUS
  <2>2. a = [headers |-> dest.headers, symtbl |-> sy, uniq_id |-> dest.uniq_id]
    BY <1>4, <2>1
  <2>3. dest' = [a EXCEPT !.headers = hd]
    BY <1>3, <1>5, <2>1, <2>2
  <2> QED
    BY <2>2, <2>3
<1>7. dest'.headers = hd /\ dest'.symtbl = sy /\ dest'.uniq_id = dest.uniq_id
  BY <1>6
<1>8. /\ DOMAIN hd = DOMAIN dest.headers /\ hd[id] = source.headers[id]
      /\ \A h \in DOMAIN hd : h # id => hd[h] = dest.headers[h]
      /\ id \in DOMAIN dest.headers /\ id \notin todo /\ id \in DOMAIN source.headers
      /\ n > 0 /\ todo \subseteq DOMAIN source.headers
      /\ \A h \in DOMAIN source.headers : source.headers[h] = HeaderAt(inputs, <<n, h>>)
      /\ DOMAIN source.headers = DOMAIN inputs[n].headers
  <2>1. id \in DOMAIN dest.headers /\ id \notin todo /\ Pending = todo \cup {id}
    BY <1>3 DEF MergeInv, HeadersInv, Pending
  <2>2. /\ n > 0 /\ Pending \subseteq DOMAIN source.headers
        /\ \A h \in DOMAIN source.headers : source.headers[h] = HeaderAt(inputs, <<n, h>>)
        /\ DOMAIN source.headers = DOMAIN inputs[n].headers
    BY <1>3 DEF MergeInv, HeadersInv, Merging
  <2> QED
    BY <1>5, <2>1, <2>2 DEF Put
<1>9. /\ Good(inputs) /\ Leaving \in Live /\ Leaving[2] = id /\ Leaving[1] # n
      /\ <<n, id>> \in Live /\ <<n, id>> \in HeaderNames(inputs)
      /\ Live \subseteq HeaderNames(inputs) /\ Runs(inputs, Live) = Kept \cup Own
      /\ Kept \cap Own = {} /\ Own \subseteq Run(inputs, Leaving)
      /\ Leaving \in HeaderNames(inputs)
  BY <1>3, LeavingFacts, LiveFacts DEF MergeInv
<1>10. hd[id] = HeaderAt(inputs, <<n, id>>) /\ hd[id].ptr = <<n, id>>
  <2>1. hd[id] = HeaderAt(inputs, <<n, id>>)
    BY <1>8
  <2>2. HeaderAt(inputs, <<n, id>>).ptr = <<n, id>>
    BY <1>9, HeaderFields
  <2> QED
    BY <2>1, <2>2
<1>11. Pending' = todo
  BY <1>3 DEF Pending
<1>12. Live' = Live \ {Leaving}
  <2>0. Live' = {hd[h].ptr : h \in DOMAIN hd} \cup ({n} \X todo)
    BY <1>3, <1>7, <1>11 DEF Live
  <2>1. ASSUME NEW h \in DOMAIN hd PROVE hd[h].ptr \in Live \ {Leaving}
    <3>1. CASE h = id
      <4>1. <<n, id>> # Leaving
        BY <1>9
      <4> QED
        BY <1>9, <1>10, <3>1, <4>1
    <3>2. CASE h # id
      BY <1>8, <1>9, <3>2, LiveFacts DEF MergeInv
    <3> QED
      BY <3>1, <3>2
  <2>2. ASSUME NEW h \in todo PROVE <<n, h>> \in Live \ {Leaving}
    <3>1. <<n, h>> \in Live
      BY <1>3, LiveFacts DEF MergeInv, Pending
    <3>2. <<n, h>> # Leaving
      BY <1>9
    <3> QED
      BY <3>1, <3>2
  <2>3. ASSUME NEW r \in Live \ {Leaving} PROVE r \in Live'
    <3>1. CASE r[2] \in DOMAIN dest.headers /\ r = dest.headers[r[2]].ptr
      <4>1. r[2] # id
        BY <2>3, <3>1 DEF Leaving
      <4>2. hd[r[2]].ptr = r /\ r[2] \in DOMAIN hd
        BY <1>8, <3>1, <4>1
      <4> QED
        BY <2>0, <4>2
    <3>2. CASE r[2] \in Pending /\ r = <<n, r[2]>>
      <4>1. r[2] \in todo \/ r[2] = id
        BY <1>3, <3>2 DEF Pending
      <4>2. r \in {n} \X todo \/ r = hd[id].ptr
        BY <1>10, <3>2, <4>1
      <4> QED
        BY <1>8, <2>0, <4>2
    <3> QED
      BY <3>1, <3>2, LiveFacts DEF MergeInv
  <2> QED
    BY <2>0, <2>1, <2>2, <2>3
<1>13. /\ DOMAIN instr = Kept
       /\ \A l \in DOMAIN label :
            IF l \in Own THEN l \in visited /\ label[l].bc = NULL ELSE label[l].bc = l
       /\ visited \subseteq DOMAIN label
  <2>1. Elems(<<>>) = {}
    BY DEF Elems
  <2> QED
    BY <1>3, <2>1 DEF MergeInv, FreeInv
<1>14. /\ IsFiniteSet(DOMAIN instr)
       /\ \A x \in DOMAIN instr : instr[x] = InstrAt(inputs, DOMAIN instr, x)
       /\ DOMAIN label = {l \in Kept \cup Own : Marked(inputs, l)}
       /\ \A l \in DOMAIN label : LabelOK(inputs, DOMAIN instr, Live, l, label[l])
  BY <1>3, <1>9 DEF MergeInv, HeapInv
<1>15. NULL \notin Kept \cup Own
  BY <1>9, RunsFacts
<1>16. gone = DOMAIN label \cap Own
  BY <1>1, <1>13, <1>14, <1>15
<1>17. /\ InSymtbl = {l \in DOMAIN label : l[1] # n}
       /\ \A k \in DOMAIN dest.symtbl : /\ k \in Nat /\ k < dest.uniq_id
                                        /\ label[dest.symtbl[k]].id = k
                                        /\ dest.symtbl[k] \in DOMAIN label
       /\ {source.symtbl[k] : k \in DOMAIN source.symtbl} = {l \in DOMAIN label : l[1] = n}
       /\ dest.uniq_id \in Nat
  BY <1>3, SymtblKept DEF MergeInv, SymtblInv, Merging
<1>18. \A l \in Own : l[1] # n
  BY <1>9, PlaceFacts
<1>19. DOMAIN label' = {l \in Kept : Marked(inputs, l)}
  BY <1>3, <1>9, <1>14, <1>16
<1>20. ASSUME NEW l \in DOMAIN label'
       PROVE  /\ LabelOK(inputs, DOMAIN instr, Live \ {Leaving}, l, label'[l])
              /\ label'[l].id = label[l].id /\ label'[l].bc = l
  <2>1. l \in DOMAIN label /\ l \notin gone
    BY <1>3
  <2>2. LabelOK(inputs, DOMAIN instr, Live, l, label[l]) /\ label[l].bc = l
    BY <1>13, <1>14, <1>16, <2>1
  <2>3. CASE l[1] # n
    <3>1. label'[l] = Strip(l)
      BY <1>3, <1>17, <2>1, <2>3
    <3>2. PICK st, e : st = label[l] /\ e = label'[l]
      OBVIOUS
    <3>3. PICK A : A = {an \in st.anims : an.header[2] # id}
      OBVIOUS
    <3>4. e = [st EXCEPT !.anims = A]
      BY <3>1, <3>2, <3>3, Zenon DEF Strip
    <3>5. LabelOK(inputs, DOMAIN instr, Live, l, st)
      BY <2>2, <3>2
    <3>6. PICK J : J = JumpsAt(inputs, DOMAIN instr, l)
      OBVIOUS
    <3>7. st = [id |-> st.id, bc |-> st.bc, anims |-> st.anims, jumps |-> J]
      BY <3>5, <3>6 DEF LabelOK
    <3>8. e = [id |-> st.id, bc |-> st.bc, anims |-> A, jumps |-> st.jumps]
      BY ONLY <3>4, <3>7
    <3>9. LabelOK(inputs, DOMAIN instr, Live \ {Leaving}, l, e) /\ e.id = st.id /\ e.bc = st.bc
      BY <1>3, <2>3, <3>3, <3>5, <3>8, Stripped DEF MergeInv
    <3> QED
      BY <2>2, <3>2, <3>9
  <2>4. CASE l[1] = n
    <3>1. label'[l] = label[l]
      BY <1>3, <1>17, <2>1, <2>4
    <3> QED
      BY <1>3, <2>2, <2>4, <3>1, OtherStays DEF MergeInv
  <2> QED
    BY <2>3, <2>4
<1>21. HeadersInv'
  <2>1. \A h \in DOMAIN hd : \E k \in 1 .. n :
          h \in DOMAIN inputs[k].headers /\ hd[h] = HeaderAt(inputs, <<k, h>>)
    <3>1. n \in 1 .. n /\ id \in DOMAIN inputs[n].headers
      BY <1>8 DEF MergeInv, HeadersInv
    <3> QED
      BY <1>8, <1>10, <3>1 DEF MergeInv, HeadersInv
  <2>2. \A h \in todo \cap DOMAIN hd : hd[h].ptr # <<n, h>>
    <3>1. todo \subseteq Pending
      BY <1>3 DEF Pending
    <3> QED
      BY <1>3, <1>8, <3>1 DEF MergeInv, HeadersInv, Merging
  <2>3. inputs \in Inputs /\ n \in 0 .. Len(inputs)
    BY DEF MergeInv, HeadersInv
  <2> QED
    BY <1>3, <1>6, <1>7, <1>8, <1>11, <2>1, <2>2, <2>3 DEF HeadersInv, Merging
<1>22. HeapInv'
  <2>1. Runs(inputs, Live') = Kept
    BY <1>12 DEF Kept
  <2> QED
    BY <1>3, <1>12, <1>13, <1>14, <1>19, <1>20, <2>1 DEF HeapInv
<1>23. SymtblInv'
  <2>1. /\ DOMAIN sy = DOMAIN dest.symtbl \ ids /\ \A k \in DOMAIN sy : sy[k] = dest.symtbl[k]
    BY <1>5 DEF Drop
  <2>2. \A k \in DOMAIN dest.symtbl : k \in ids <=> dest.symtbl[k] \in gone
    <3>1. ASSUME NEW k \in DOMAIN dest.symtbl, dest.symtbl[k] \in gone PROVE k \in ids
      BY <1>2, <1>17, <3>1
    <3>2. ASSUME NEW k \in DOMAIN dest.symtbl, k \in ids PROVE dest.symtbl[k] \in gone
      <4>1. PICK st \in gone : label[st].id = k
        BY <1>2, <3>2
      <4>2. st \in InSymtbl
        BY <1>16, <1>17, <1>18, <4>1
      <4>3. PICK j \in DOMAIN dest.symtbl : dest.symtbl[j] = st
        BY <4>2 DEF InSymtbl
      <4> QED
        BY <1>17, <4>1, <4>3
    <3> QED
      BY <3>1, <3>2
  <2>3. \A k \in DOMAIN sy : sy[k] \in DOMAIN label'
    BY <1>3, <1>17, <2>1, <2>2
  <2>4. \A k \in DOMAIN sy : k \in Nat /\ k < dest.uniq_id /\ label'[sy[k]].id = k
    BY <1>17, <1>20, <2>1, <2>3
  <2>5. InSymtbl' = {l \in DOMAIN label' : l[1] # n}
    <3>1. InSymtbl' = {sy[k] : k \in DOMAIN sy}
      BY <1>7 DEF InSymtbl
    <3>2. {sy[k] : k \in DOMAIN sy} = InSymtbl \ gone
      BY <2>1, <2>2 DEF InSymtbl
    <3>3. DOMAIN label' = DOMAIN label \ gone
      BY <1>3
    <3> QED
      BY <1>17, <3>1, <3>2, <3>3
  <2>6. {source.symtbl[k] : k \in DOMAIN source.symtbl} = {l \in DOMAIN label' : l[1] = n}
    BY <1>3, <1>16, <1>17, <1>18
  <2>7. {source.symtbl[k] : k \in DOMAIN source.symtbl}' = {l \in DOMAIN label' : l[1] = n}
    BY <1>3, <2>6
  <2>8. dest'.uniq_id \in Nat /\ DOMAIN dest'.symtbl \subseteq Nat
    BY <1>7, <1>17, <2>4
  <2>9. \A k \in DOMAIN dest'.symtbl : k < dest'.uniq_id /\ label'[dest'.symtbl[k]].id = k
    BY <1>7, <2>4
  <2> QED
    BY <1>3, <2>5, <2>7, <2>8, <2>9 DEF SymtblInv
<1>24. FreeInv' /\ WalkInv'
  BY <1>3 DEF FreeInv, WalkInv
<1> QED
  BY <1>21, <1>22, <1>23, <1>24 DEF MergeInv

-----------------------------------------------------------------------------
(* What is loaded for an input is what its headers execute. *)

LEMMA LoadedInstr ==
  ASSUME NEW p, NEW k, NEW a \in CodeOf(p)
  PROVE  LoadedGraph(p, k).instr[<<k, a>>] =
           [op       |-> <<k, a>>,
            next     |-> IF FallsThrough(p, a) THEN <<k, a + 1>> ELSE NULL,
            prev     |-> IF a - 1 \in {b \in CodeOf(p) : FallsThrough(p, b)}
                         THEN <<k, a - 1>> ELSE NULL,
            st_entry |-> IF a \in LabelsOf(p) THEN <<k, a>> ELSE NULL,
            jump     |-> IF Jumps(p, a) THEN <<k, p.instr[a].target>> ELSE NULL]
BY DEF LoadedGraph, LabelsOf, JumpsIn

(* And the records that are loaded for its labels. *)
LEMMA LoadedLabel ==
  ASSUME NEW p, NEW k, NEW l \in LabelsOf(p)
  PROVE  LoadedGraph(p, k).label[<<k, l>>] =
           [id |-> IdOf(p, l), bc |-> <<k, l>>, anims |-> AnimsAt(p, k, l),
            jumps |-> {k} \X JumpsTo(p, l)]
BY DEF LoadedGraph, LabelsOf, JumpsIn, IdOf, FirstOf, JumpsTo, AnimsAt

(* Graph g is input k: its code is C and its headers are H. *)
IsInput(in, k, g, C, H) ==
  /\ C = Runs(in, H) /\ IsFiniteSet(C) /\ H \subseteq HeaderNames(in)
  /\ DOMAIN g.instr = C /\ \A x \in C : g.instr[x] = InstrAt(in, C, x)
  /\ DOMAIN g.label = {l \in C : Marked(in, l)}
  /\ \A l \in DOMAIN g.label : LabelOK(in, C, H, l, g.label[l]) /\ g.label[l].bc = l
  /\ DOMAIN g.headers = DOMAIN in[k].headers
  /\ \A h \in DOMAIN g.headers : g.headers[h] = HeaderAt(in, <<k, h>>)
  /\ {g.symtbl[i] : i \in DOMAIN g.symtbl} = DOMAIN g.label

LEMMA LoadedHeap ==
  ASSUME NEW in, Good(in), NEW k \in DOMAIN in
  PROVE  \A g, C, H : /\ g = LoadedGraph(in[k], k) /\ C = {k} \X CodeOf(in[k])
                      /\ H = {k} \X DOMAIN in[k].headers
                     => IsInput(in, k, g, C, H)
<1> SUFFICES ASSUME NEW g, g = LoadedGraph(in[k], k), NEW C, C = {k} \X CodeOf(in[k]),
                    NEW H, H = {k} \X DOMAIN in[k].headers
             PROVE  IsInput(in, k, g, C, H)
  OBVIOUS
<1>1. PICK p : p = in[k] /\ IsProgram(p)
  BY DEF Good
<1>2. /\ k \in Nat /\ CodeOf(p) \subseteq Nat \ {0} /\ LabelsOf(p) \subseteq CodeOf(p)
      /\ IsFiniteSet(CodeOf(p)) /\ 0 \notin LabelsOf(p)
  <2>1. IsFiniteSet(CodeOf(p)) /\ CodeOf(p) \subseteq Nat \ {0}
    BY <1>1, ProgramFacts, FS_Subset
  <2> QED
    BY <1>1, <2>1, LabelFacts DEF Good
<1>3. /\ InstrsOf(p, k, g.instr) /\ LabelsIn(p, k, g.label) /\ HeadersOf(p, k, g.headers)
      /\ SymTblOf(p, k, g.symtbl)
  BY <1>1, LoadedParts
<1>4. H \subseteq HeaderNames(in)
  BY NameFacts
<1>16. g = LoadedGraph(p, k)
  BY <1>1
<1>5. C = Runs(in, H)
  <2>1. \A h \in DOMAIN p.headers : Run(in, <<k, h>>) = {k} \X ReachIn(p, h)
    BY <1>1 DEF Run
  <2>2. C = {k} \X CodeOf(p)
    BY <1>1
  <2>3. ASSUME NEW x \in Runs(in, H) PROVE x \in C
    <3>1. PICK r \in H : x \in Run(in, r)
      BY DEF Runs
    <3>2. PICK h \in DOMAIN p.headers : r = <<k, h>>
      BY <1>1
    <3>3. x \in {k} \X ReachIn(p, h)
      BY <2>1, <3>1, <3>2
    <3> QED
      BY <2>2, <3>3 DEF CodeOf
  <2>4. ASSUME NEW x \in C PROVE x \in Runs(in, H)
    <3>1. x = <<k, x[2]>> /\ x[2] \in CodeOf(p)
      BY <2>2
    <3>2. PICK h \in DOMAIN p.headers : x[2] \in ReachIn(p, h)
      BY <3>1 DEF CodeOf
    <3>3. x \in Run(in, <<k, h>>) /\ <<k, h>> \in H
      BY <1>1, <2>1, <3>1, <3>2
    <3> QED
      BY <3>3 DEF Runs
  <2> QED
    BY <2>3, <2>4
<1>6. IsFiniteSet(C)
  <2>1. IsFiniteSet({k})
    BY FS_Singleton
  <2> QED
    BY <1>1, <1>2, <2>1, FS_Product
<1>7. ASSUME NEW a \in CodeOf(p)
      PROVE  g.instr[<<k, a>>] = InstrAt(in, C, <<k, a>>)
  <2>0. PICK x : x = <<k, a>>
    OBVIOUS
  <2>1. x = <<k, a>> /\ x[1] = k /\ x[2] = a
    BY <2>0
  <2>2. /\ Falls(in, x) = FallsThrough(p, a) /\ Leaps(in, x) = Jumps(p, a)
        /\ After(x) = <<k, a + 1>> /\ Before(x) = <<k, a - 1>>
        /\ (Falls(in, Before(x)) <=> FallsThrough(p, a - 1))
        /\ (Marked(in, x) <=> a \in LabelsOf(p)) /\ To(in, x) = <<k, p.instr[a].target>>
    BY <1>1, <2>1 DEF Falls, Leaps, After, Before, Marked, To
  <2>3. FallsThrough(p, a) => a + 1 \in CodeOf(p)
    BY <1>1, CodeFacts DEF Succ
  <2>4. (IF FallsThrough(p, a) THEN <<k, a + 1>> ELSE NULL)
          = IF Falls(in, x) /\ After(x) \in C THEN After(x) ELSE NULL
    BY <1>1, <2>2, <2>3
  <2>5. (IF a - 1 \in {b \in CodeOf(p) : FallsThrough(p, b)} THEN <<k, a - 1>> ELSE NULL)
          = IF Before(x) \in C /\ Falls(in, Before(x)) THEN Before(x) ELSE NULL
    BY <1>1, <2>2
  <2>6. g.instr[<<k, a>>] =
          [op       |-> <<k, a>>,
           next     |-> IF FallsThrough(p, a) THEN <<k, a + 1>> ELSE NULL,
           prev     |-> IF a - 1 \in {b \in CodeOf(p) : FallsThrough(p, b)}
                        THEN <<k, a - 1>> ELSE NULL,
           st_entry |-> IF a \in LabelsOf(p) THEN <<k, a>> ELSE NULL,
           jump     |-> IF Jumps(p, a) THEN <<k, p.instr[a].target>> ELSE NULL]
    <3>1. LoadedGraph(p, k).instr[<<k, a>>] =
            [op       |-> <<k, a>>,
             next     |-> IF FallsThrough(p, a) THEN <<k, a + 1>> ELSE NULL,
             prev     |-> IF a - 1 \in {b \in CodeOf(p) : FallsThrough(p, b)}
                          THEN <<k, a - 1>> ELSE NULL,
             st_entry |-> IF a \in LabelsOf(p) THEN <<k, a>> ELSE NULL,
             jump     |-> IF Jumps(p, a) THEN <<k, p.instr[a].target>> ELSE NULL]
      BY LoadedInstr
    <3> QED
      BY <1>16, <3>1, Zenon
  <2> QED
    BY <2>1, <2>2, <2>4, <2>5, <2>6 DEF InstrAt
<1>8. DOMAIN g.instr = C /\ \A x \in C : g.instr[x] = InstrAt(in, C, x)
  <2>1. C = {k} \X CodeOf(p)
    BY <1>1
  <2>2. \A x \in C : \E a \in CodeOf(p) : x = <<k, a>>
    BY <2>1
  <2> QED
    BY <1>3, <1>7, <2>1, <2>2, ZenonT(60) DEF InstrsOf
<1>9. DOMAIN g.label = {k} \X LabelsOf(p) /\ DOMAIN g.label = {l \in C : Marked(in, l)}
  BY <1>1, <1>2, <1>3 DEF LabelsIn, Marked
<1>10. ASSUME NEW a \in LabelsOf(p), NEW l, l = <<k, a>>
       PROVE  LabelOK(in, C, H, l, g.label[l]) /\ g.label[l].bc = l
  <2>1. g.label[l] = [id |-> IdOf(p, a), bc |-> l, anims |-> AnimsAt(p, k, a),
                      jumps |-> {k} \X JumpsTo(p, a)]
    <3>1. LoadedGraph(p, k).label[<<k, a>>] =
            [id |-> IdOf(p, a), bc |-> <<k, a>>, anims |-> AnimsAt(p, k, a),
             jumps |-> {k} \X JumpsTo(p, a)]
      BY LoadedLabel
    <3> QED
      BY <1>10, <1>16, <3>1, Zenon
  <2>2. {k} \X JumpsTo(p, a) = JumpsAt(in, C, l)
    BY <1>1, <1>10 DEF JumpsTo, JumpsIn, JumpsAt, Leaps, To
  <2>3. AnimsOK(in, H, l, AnimsAt(p, k, a))
    <3>1. \A h \in DOMAIN p.headers : l \in Starts(in, <<k, h>>) <=> a \in Entries(p, h)
      BY <1>1, <1>10 DEF Starts
    <3>2. ASSUME NEW an \in AnimsAt(p, k, a)
          PROVE  /\ an.header \in H /\ an.header[1] = l[1]
                 /\ an.type = "HEADER" => l \in Starts(in, an.header)
      <4>1. CASE \E h \in DOMAIN p.headers : /\ a \in Entries(p, h)
                                            /\ an = [header |-> <<k, h>>, type |-> "HEADER"]
        BY <1>1, <1>10, <3>1, <4>1
      <4>2. CASE \E b \in JumpsTo(p, a) : an = [header |-> <<k, FirstOf(p, b)>>, type |-> "JUMP"]
        BY <1>1, <1>10, <4>2, FirstFacts DEF JumpsTo, JumpsIn
      <4> QED
        BY <3>2, <4>1, <4>2 DEF AnimsAt
    <3>3. ASSUME NEW r \in H, l \in Starts(in, r)
          PROVE  [header |-> r, type |-> "HEADER"] \in AnimsAt(p, k, a)
      <4>1. PICK h \in DOMAIN p.headers : r = <<k, h>>
        BY <1>1
      <4>2. a \in Entries(p, h)
        BY <3>1, <3>3, <4>1
      <4> QED
        BY <4>1, <4>2 DEF AnimsAt
    <3> QED
      BY <3>2, <3>3 DEF AnimsOK
  <2>4. PICK st : st = g.label[l]
    OBVIOUS
  <2>5. PICK A, J : A = AnimsAt(p, k, a) /\ J = JumpsAt(in, C, l)
    OBVIOUS
  <2>6. st = [id |-> IdOf(p, a), bc |-> l, anims |-> A, jumps |-> J]
    BY <2>1, <2>2, <2>4, <2>5, Zenon
  <2>7. st.id = IdOf(p, a) /\ st.bc = l /\ st.anims = A
    BY <2>6
  <2>8. st = [id |-> st.id, bc |-> st.bc, anims |-> st.anims, jumps |-> J]
    BY <2>6, <2>7
  <2>9. LabelOK(in, C, H, l, st)
    BY <2>3, <2>5, <2>7, <2>8 DEF LabelOK
  <2> QED
    BY <2>4, <2>7, <2>9
<1>11. \A l \in DOMAIN g.label : LabelOK(in, C, H, l, g.label[l]) /\ g.label[l].bc = l
  <2>1. \A l \in DOMAIN g.label : \E a \in LabelsOf(p) : l = <<k, a>>
    BY <1>9
  <2> QED
    BY <1>10, <2>1
<1>12. ASSUME NEW h \in DOMAIN p.headers PROVE g.headers[h] = HeaderAt(in, <<k, h>>)
  <2>1. PICK s : s = p.headers[h]
    OBVIOUS
  <2>2. PICK e : e = [i \in DOMAIN s |-> IF s[i] = 0 THEN NULL ELSE <<k, s[i]>>]
    OBVIOUS
  <2>3. [i \in DOMAIN s |-> IF s[i] \in LabelsOf(p) THEN <<k, s[i]>> ELSE NULL] = e
    <3>1. \A i \in DOMAIN s : s[i] = 0 \/ s[i] \in LabelsOf(p)
      BY <1>1, <2>1, LabelFacts
    <3> QED
      BY <1>2, <2>2, <3>1
  <2>4. g.headers[h] = [ptr |-> <<k, h>>,
                        st_entries |-> [i \in DOMAIN s |-> IF s[i] \in LabelsOf(p)
                                                           THEN <<k, s[i]>> ELSE NULL]]
    <3>1. LoadedGraph(p, k).headers[h] =
            [ptr |-> <<k, h>>,
             st_entries |-> [i \in DOMAIN p.headers[h] |->
                               IF p.headers[h][i] \in LabelsOf(p)
                               THEN <<k, p.headers[h][i]>> ELSE NULL]]
      BY DEF LoadedGraph, LabelsOf, JumpsIn
    <3> QED
      BY <1>16, <2>1, <3>1, Zenon
  <2>5. g.headers[h] = [ptr |-> <<k, h>>, st_entries |-> e]
    BY <2>3, <2>4, Zenon
  <2>10. PICK r : r = <<k, h>>
    OBVIOUS
  <2>6. r = <<k, h>> /\ r[1] = k /\ r[2] = h
    BY <2>10
  <2>7. in[r[1]].headers[r[2]] = s /\ r[1] = k
    BY <1>1, <2>1, <2>6
  <2>8. [i \in DOMAIN in[r[1]].headers[r[2]] |->
           IF in[r[1]].headers[r[2]][i] = 0 THEN NULL ELSE <<r[1], in[r[1]].headers[r[2]][i]>>] = e
    BY <2>2, <2>7
  <2>9. HeaderAt(in, r) = [ptr |-> r, st_entries |-> e]
    BY <2>8, Zenon DEF HeaderAt
  <2> QED
    BY <2>5, <2>6, <2>9
<1>13. SymTblAgrees(g.symtbl, Cardinality(LabelsOf(p)), g.label)
  BY <1>1, <1>2, <1>3, LoadedSymTblAgrees
<1>14. {g.symtbl[i] : i \in DOMAIN g.symtbl} = DOMAIN g.label
  BY <1>13 DEF SymTblAgrees
<1>15. DOMAIN g.headers = DOMAIN p.headers
  BY <1>3 DEF HeadersOf
<1> QED
  BY <1>1, <1>4, <1>5, <1>6, <1>8, <1>9, <1>11, <1>12, <1>14, <1>15 DEF IsInput

(* Code of another input does not change what an instruction, a label and  *)
(* its jumps are.                                                          *)
LEMMA ApartStays ==
  ASSUME NEW in, NEW D, NEW C, NEW E, D \subseteq E, \A x \in E : x \in D \/ x \in C,
         \A x \in D : \A y \in C : x[1] # y[1],
         NEW H, NEW K, H \subseteq K, \A r \in K : r \in H \/ \A x \in D : x[1] # r[1],
         NEW x \in D
  PROVE  /\ InstrAt(in, E, x) = InstrAt(in, D, x)
         /\ \A st : LabelOK(in, D, H, x, st) => LabelOK(in, E, K, x, st)
<1>1. After(x)[1] = x[1] /\ Before(x)[1] = x[1] /\ \A y : To(in, y)[1] = y[1]
  BY DEF After, Before, To
<1>2. (After(x) \in E <=> After(x) \in D) /\ (Before(x) \in E <=> Before(x) \in D)
  BY <1>1
<1>3. JumpsAt(in, E, x) = JumpsAt(in, D, x)
  <2>1. \A y \in E : To(in, y) = x => y \in D
    BY <1>1
  <2> QED
    BY <2>1 DEF JumpsAt
<1>4. ASSUME NEW anims, AnimsOK(in, H, x, anims) PROVE AnimsOK(in, K, x, anims)
  <2>1. \A r \in K : x \in Starts(in, r) => r \in H
    BY DEF Starts
  <2> QED
    BY <1>4, <2>1 DEF AnimsOK
<1>5. InstrAt(in, E, x) = InstrAt(in, D, x)
  BY <1>2 DEF InstrAt
<1>6. ASSUME NEW st, LabelOK(in, D, H, x, st) PROVE LabelOK(in, E, K, x, st)
  BY <1>3, <1>4, <1>6 DEF LabelOK
<1> QED
  BY <1>5, <1>6

LEMMA ReadInputKeeps ==
  ASSUME MergeInv, ReadInput
  PROVE  MergeInv'
<1>1. PICK k, g : k = n + 1 /\ g = LoadedGraph(inputs[k], k)
  OBVIOUS
<1>2. /\ pc = "input" /\ n < Len(inputs) /\ pc' = "headers" /\ n' = k
      /\ instr' = Joined(instr, g.instr) /\ label' = Joined(label, g.label)
      /\ source' = [headers |-> g.headers, symtbl |-> g.symtbl, uniq_id |-> g.uniq_id]
      /\ todo' = DOMAIN g.headers
      /\ UNCHANGED <<inputs, dest, id, freeinstrs>>
  BY <1>1 DEF ReadInput, removal
<1>3. /\ Good(inputs) /\ n \in Nat /\ k \in Nat /\ n < k /\ k > 0 /\ k \in DOMAIN inputs
      /\ k \in 0 .. Len(inputs)
  BY <1>1, <1>2, LiveFacts DEF MergeInv, HeadersInv, Good
<1>4. PICK C, H : C = {k} \X CodeOf(inputs[k]) /\ H = {k} \X DOMAIN inputs[k].headers
  OBVIOUS
<1>5. /\ C = Runs(inputs, H) /\ IsFiniteSet(C) /\ H \subseteq HeaderNames(inputs)
      /\ DOMAIN g.instr = C /\ \A x \in C : g.instr[x] = InstrAt(inputs, C, x)
      /\ DOMAIN g.label = {l \in C : Marked(inputs, l)}
      /\ \A l \in DOMAIN g.label : LabelOK(inputs, C, H, l, g.label[l]) /\ g.label[l].bc = l
      /\ DOMAIN g.headers = DOMAIN inputs[k].headers
      /\ \A h \in DOMAIN g.headers : g.headers[h] = HeaderAt(inputs, <<k, h>>)
      /\ {g.symtbl[i] : i \in DOMAIN g.symtbl} = DOMAIN g.label
  <2>1. IsInput(inputs, k, g, C, H)
    BY <1>1, <1>3, <1>4, LoadedHeap
  <2> QED
    BY <2>1 DEF IsInput
<1>6. PICK D, L : D = DOMAIN instr /\ L = Live
  OBVIOUS
<1>7. /\ L \subseteq HeaderNames(inputs) /\ L = {dest.headers[h].ptr : h \in DOMAIN dest.headers}
      /\ \A r \in L : r[1] \in 1 .. n
  <2>1. Pending = {}
    BY <1>2 DEF Pending
  <2>2. L = {dest.headers[h].ptr : h \in DOMAIN dest.headers}
    BY <1>6, <2>1 DEF Live
  <2> QED
    BY <1>6, <2>2, LiveFacts DEF MergeInv
<1>8. /\ IsFiniteSet(D) /\ \A x \in D : instr[x] = InstrAt(inputs, D, x)
      /\ D = Runs(inputs, L) /\ DOMAIN label = {l \in D : Marked(inputs, l)}
      /\ \A l \in DOMAIN label : LabelOK(inputs, D, L, l, label[l]) /\ label[l].bc = l
  BY <1>2, <1>6 DEF MergeInv, HeapInv
<1>9. (\A x \in D : x[1] < k /\ x[1] \in Nat) /\ (\A y \in C : y[1] = k)
  <2>1. ASSUME NEW x \in D PROVE x[1] \in 1 .. n
    BY <1>3, <1>7, <1>8, RunsFacts
  <2> QED
    BY <1>1, <1>3, <1>4, <2>1
<1>10. PICK E, K : E = D \cup C /\ K = L \cup H
  OBVIOUS
<1>11. Live' = K
  <2>1. Pending' = DOMAIN g.headers
    BY <1>2 DEF Pending
  <2>2. Live' = {dest.headers[h].ptr : h \in DOMAIN dest.headers} \cup ({k} \X DOMAIN g.headers)
    BY <1>2, <2>1 DEF Live
  <2> QED
    BY <1>4, <1>5, <1>7, <1>10, <2>2
<1>12. Runs(inputs, K) = E
  BY <1>5, <1>8, <1>10 DEF Runs
<1>13. /\ DOMAIN instr' = E /\ \A x \in D : instr'[x] = instr[x]
       /\ \A x \in C : instr'[x] = g.instr[x]
  BY <1>2, <1>5, <1>6, <1>9, <1>10 DEF Joined
<1>14. /\ DOMAIN label' = {l \in E : Marked(inputs, l)}
       /\ \A l \in DOMAIN label : label'[l] = label[l]
       /\ \A l \in DOMAIN g.label : label'[l] = g.label[l]
       /\ \A l \in DOMAIN label' : \/ l \in D /\ l \in DOMAIN label
                                   \/ l \in C /\ l \in DOMAIN g.label
  BY <1>2, <1>5, <1>8, <1>9, <1>10 DEF Joined
<1>15. ASSUME NEW x \in D
       PROVE  /\ InstrAt(inputs, E, x) = InstrAt(inputs, D, x)
              /\ \A st : LabelOK(inputs, D, L, x, st) => LabelOK(inputs, E, K, x, st)
  <2>1. /\ D \subseteq E /\ \A y \in E : y \in D \/ y \in C
        /\ \A y \in D : \A z \in C : y[1] # z[1]
    BY <1>9, <1>10
  <2>2. L \subseteq K /\ \A r \in K : r \in L \/ \A y \in D : y[1] # r[1]
    BY <1>3, <1>4, <1>9, <1>10
  <2> QED
    BY <2>1, <2>2, ApartStays
<1>16. ASSUME NEW x \in C
       PROVE  /\ InstrAt(inputs, E, x) = InstrAt(inputs, C, x)
              /\ \A st : LabelOK(inputs, C, H, x, st) => LabelOK(inputs, E, K, x, st)
  <2>1. /\ C \subseteq E /\ \A y \in E : y \in C \/ y \in D
        /\ \A y \in C : \A z \in D : y[1] # z[1]
    BY <1>3, <1>9, <1>10
  <2>2. H \subseteq K /\ \A r \in K : r \in H \/ \A y \in C : y[1] # r[1]
    BY <1>1, <1>3, <1>4, <1>7, <1>9, <1>10
  <2> QED
    BY <2>1, <2>2, ApartStays
<1>17. HeapInv'
  <2>1. IsFiniteSet(E)
    BY <1>5, <1>8, <1>10, FS_Union
  <2>2. \A x \in E : instr'[x] = InstrAt(inputs, E, x)
    BY <1>5, <1>8, <1>10, <1>13, <1>15, <1>16
  <2>3. \A l \in DOMAIN label' : LabelOK(inputs, E, K, l, label'[l]) /\ label'[l].bc = l
    BY <1>5, <1>8, <1>14, <1>15, <1>16
  <2> QED
    BY <1>2, <1>11, <1>12, <1>13, <1>14, <2>1, <2>2, <2>3 DEF HeapInv
<1>18. HeadersInv'
  <2>1. \A h \in DOMAIN dest.headers : \E j \in 1 .. k :
          h \in DOMAIN inputs[j].headers /\ dest.headers[h] = HeaderAt(inputs, <<j, h>>)
    <3>1. \A j \in 1 .. n : j \in 1 .. k
      BY <1>1, <1>3
    <3> QED
      BY <3>1 DEF MergeInv, HeadersInv
  <2>2. source'.headers = g.headers
    BY <1>2
  <2>3. Pending' = DOMAIN g.headers
    BY <1>2 DEF Pending
  <2>4. \A h \in DOMAIN dest.headers : dest.headers[h].ptr # <<k, h>>
    <3>1. ASSUME NEW h \in DOMAIN dest.headers, dest.headers[h].ptr = <<k, h>> PROVE FALSE
      <4>1. dest.headers[h].ptr \in L
        BY <1>7
      <4> QED
        BY <1>1, <1>3, <1>7, <3>1, <4>1
    <3> QED
      BY <3>1
  <2>5. /\ inputs \in Inputs
        /\ dest = [headers |-> dest.headers, symtbl |-> dest.symtbl, uniq_id |-> dest.uniq_id]
    BY DEF MergeInv, HeadersInv
  <2> QED
    BY <1>2, <1>3, <1>5, <2>1, <2>2, <2>3, <2>4, <2>5 DEF HeadersInv, Merging
<1>19. SymtblInv'
  <2>1. /\ dest.uniq_id \in Nat /\ DOMAIN dest.symtbl \subseteq Nat /\ InSymtbl = DOMAIN label
        /\ \A i \in DOMAIN dest.symtbl : i < dest.uniq_id /\ label[dest.symtbl[i]].id = i
    BY <1>2 DEF MergeInv, SymtblInv
  <2>2. \A i \in DOMAIN dest.symtbl : label'[dest.symtbl[i]].id = i
    BY <1>14, <2>1 DEF InSymtbl
  <2>3. InSymtbl' = DOMAIN label
    BY <1>2, <2>1 DEF InSymtbl
  <2>4. DOMAIN label = {l \in DOMAIN label' : l[1] # k}
    BY <1>3, <1>8, <1>9, <1>10, <1>14
  <2>5. DOMAIN g.label = {l \in DOMAIN label' : l[1] = k}
    BY <1>3, <1>5, <1>9, <1>10, <1>14
  <2>6. source'.symtbl = g.symtbl
    BY <1>2
  <2>7. {source.symtbl[i] : i \in DOMAIN source.symtbl}' = {l \in DOMAIN label' : l[1] = k}
    BY <1>5, <2>5, <2>6
  <2> QED
    BY <1>2, <2>1, <2>2, <2>3, <2>4, <2>7 DEF SymtblInv
<1>20. WalkInv' /\ FreeInv'
  BY <1>2 DEF WalkInv, FreeInv, MergeInv
<1> QED
  BY <1>17, <1>18, <1>19, <1>20 DEF MergeInv

-----------------------------------------------------------------------------
(* The other steps of main and iscript_merge, and the invariant. *)

LEMMA NoIscript ==
  /\ EmptyIscript = [headers |-> EmptyIscript.headers, symtbl |-> EmptyIscript.symtbl,
                     uniq_id |-> EmptyIscript.uniq_id]
  /\ DOMAIN EmptyIscript.headers = {} /\ DOMAIN EmptyIscript.symtbl = {}
  /\ EmptyIscript.uniq_id = 0
BY DEF EmptyIscript

LEMMA InitMerges ==
  ASSUME Init
  PROVE  MergeInv
<1>1. /\ inputs \in Inputs /\ n = 0 /\ pc = "input" /\ instr = <<>> /\ label = <<>>
      /\ dest = EmptyIscript /\ freeinstrs = <<>>
  BY DEF Init
<1>2. Live = {}
  BY <1>1, NoIscript DEF Live, Pending
<1>3. Runs(inputs, Live) = {} /\ DOMAIN instr = {} /\ DOMAIN label = {}
  BY <1>1, <1>2 DEF Runs
<1>4. HeadersInv
  <2>1. Len(inputs) \in Nat
    BY <1>1, InputsGood DEF Good
  <2> QED
    BY <1>1, <2>1, NoIscript DEF HeadersInv, Merging
<1>5. HeapInv
  BY <1>1, <1>3, FS_EmptySet DEF HeapInv
<1>6. SymtblInv
  BY <1>1, <1>3, NoIscript DEF SymtblInv, InSymtbl, Merging
<1>7. WalkInv /\ FreeInv
  BY <1>1 DEF WalkInv, FreeInv
<1> QED
  BY <1>4, <1>5, <1>6, <1>7 DEF MergeInv

(* The header of an input that takes no other's place. *)
LEMMA AddHeaderKeeps ==
  ASSUME MergeInv, NEW h \in todo, MergeHeader(h), h \notin DOMAIN dest.headers
  PROVE  MergeInv'
<1>1. /\ pc = "headers" /\ todo' = todo \ {h} /\ pc' = "headers"
      /\ dest' = [dest EXCEPT !.headers = Put(@, h, source.headers[h])]
      /\ UNCHANGED <<inputs, n, instr, label, source, freeinstrs>>
  BY DEF MergeHeader, AddHeader, removal
<1>2. dest = [headers |-> dest.headers, symtbl |-> dest.symtbl, uniq_id |-> dest.uniq_id]
  BY DEF MergeInv, HeadersInv
<1>3. PICK hd : hd = Put(dest.headers, h, source.headers[h])
  OBVIOUS
<1>4. dest' = [headers |-> hd, symtbl |-> dest.symtbl, uniq_id |-> dest.uniq_id]
  BY <1>1, <1>2, <1>3
<1>5. dest'.headers = hd /\ dest'.symtbl = dest.symtbl /\ dest'.uniq_id = dest.uniq_id
  BY <1>4
<1>6. /\ DOMAIN hd = DOMAIN dest.headers \cup {h} /\ hd[h] = source.headers[h]
      /\ \A x \in DOMAIN dest.headers : hd[x] = dest.headers[x]
  BY <1>3 DEF Put
<1>7. Pending = todo /\ Pending' = todo \ {h}
  BY <1>1 DEF Pending
<1>8. /\ n > 0 /\ DOMAIN source.headers = DOMAIN inputs[n].headers
      /\ \A x \in DOMAIN source.headers : source.headers[x] = HeaderAt(inputs, <<n, x>>)
      /\ todo \subseteq DOMAIN source.headers
      /\ \A x \in todo \cap DOMAIN dest.headers : dest.headers[x].ptr # <<n, x>>
      /\ inputs \in Inputs /\ n \in 0 .. Len(inputs)
      /\ \A x \in DOMAIN dest.headers : \E k \in 1 .. n :
           x \in DOMAIN inputs[k].headers /\ dest.headers[x] = HeaderAt(inputs, <<k, x>>)
  BY <1>1, <1>7 DEF MergeInv, HeadersInv, Merging
<1>9. Good(inputs) /\ <<n, h>> \in HeaderNames(inputs) /\ hd[h].ptr = <<n, h>>
  <2>1. Good(inputs) /\ <<n, h>> \in HeaderNames(inputs)
    BY <1>7, LiveFacts DEF MergeInv
  <2> QED
    <3>1. hd[h] = HeaderAt(inputs, <<n, h>>)
      BY <1>6, <1>7, <1>8
    <3>2. HeaderAt(inputs, <<n, h>>).ptr = <<n, h>>
      BY <2>1, HeaderFields
    <3> QED
      BY <2>1, <3>1, <3>2
<1>10. Live' = Live
  <2>1. Live' = {hd[x].ptr : x \in DOMAIN hd} \cup ({n} \X (todo \ {h}))
    BY <1>1, <1>5, <1>7 DEF Live
  <2>2. {hd[x].ptr : x \in DOMAIN hd} = {dest.headers[x].ptr : x \in DOMAIN dest.headers} \cup {<<n, h>>}
    BY <1>6, <1>9
  <2>3. {n} \X todo = ({n} \X (todo \ {h})) \cup {<<n, h>>}
    OBVIOUS
  <2>4. Live = {dest.headers[x].ptr : x \in DOMAIN dest.headers} \cup ({n} \X todo)
    BY <1>7 DEF Live
  <2>5. PICK P, Q : P = {dest.headers[x].ptr : x \in DOMAIN dest.headers} /\ Q = {n} \X (todo \ {h})
    OBVIOUS
  <2>6. Live' = (P \cup {<<n, h>>}) \cup Q /\ Live = P \cup (Q \cup {<<n, h>>})
    BY <2>1, <2>2, <2>3, <2>4, <2>5, Zenon
  <2> QED
    BY ONLY <2>6
<1>11. HeadersInv'
  <2>1. \A x \in DOMAIN hd : \E k \in 1 .. n :
          x \in DOMAIN inputs[k].headers /\ hd[x] = HeaderAt(inputs, <<k, x>>)
    <3>1. n \in 1 .. n /\ h \in DOMAIN inputs[n].headers
      BY <1>8
    <3> QED
      BY <1>6, <1>8, <3>1
  <2>2. \A x \in (todo \ {h}) \cap DOMAIN hd : hd[x].ptr # <<n, x>>
    BY <1>6, <1>8
  <2> QED
    BY <1>1, <1>4, <1>5, <1>7, <1>8, <2>1, <2>2 DEF HeadersInv, Merging
<1>12. HeapInv'
  BY <1>1, <1>10 DEF MergeInv, HeapInv
<1>13. SymtblInv'
  <2>1. InSymtbl' = InSymtbl
    BY <1>5 DEF InSymtbl
  <2> QED
    BY <1>1, <1>5, <2>1 DEF MergeInv, SymtblInv, Merging
<1>14. WalkInv' /\ FreeInv'
  BY <1>1 DEF MergeInv, WalkInv, FreeInv
<1> QED
  BY <1>11, <1>12, <1>13, <1>14 DEF MergeInv

(* The header of an input that replaces another: the removal begins. *)
LEMMA RemoveHeaderKeeps ==
  ASSUME MergeInv, NEW h \in todo, MergeHeader(h), h \in DOMAIN dest.headers
  PROVE  MergeInv'
<1>1. /\ pc = "headers" /\ todo' = todo \ {h} /\ id' = h /\ pc' = "remove"
      /\ animno' = 1 /\ stack' = <<>> /\ visited' = {} /\ visitedinstrs' = {}
      /\ freeinstrs' = <<>> /\ disconnect' = <<>>
      /\ UNCHANGED <<inputs, n, instr, label, dest, source>>
  BY DEF MergeHeader
<1>2. Pending' = Pending
  BY <1>1 DEF Pending
<1>3. Live' = Live /\ InSymtbl' = InSymtbl
  BY <1>1, <1>2 DEF Live, InSymtbl
<1>4. HeadersInv'
  <2>1. h \notin todo \ {h}
    OBVIOUS
  <2> QED
    BY <1>1, <1>2, <2>1 DEF MergeInv, HeadersInv, Merging
<1>5. HeapInv'
  BY <1>1, <1>3 DEF MergeInv, HeapInv
<1>6. SymtblInv'
  BY <1>1, <1>3 DEF MergeInv, SymtblInv, Merging
<1>7. FreeInv'
  BY <1>1 DEF FreeInv
<1>8. WalkInv'
  <2>1. Elems(<<>>) = {} /\ DOMAIN <<>> = {} /\ \A S : <<>> \in Seq(S)
    BY DEF Elems
  <2>2. PICK R, K : R = Run(inputs, dest.headers[h].ptr) /\ K = Runs(inputs, Live \ {dest.headers[h].ptr})
    OBVIOUS
  <2>3. Run(inputs, Leaving)' = R /\ Kept' = K
    BY <1>1, <1>3, <2>2 DEF Leaving, Kept
  <2>4. WalkOK(inputs, R, K, <<>>, {}, {}, <<>>, <<>>)
    BY <2>1 DEF WalkOK, BusyOnce, Once
  <2>5. AllHandled(inputs, R, K, <<>>, {}, {}, <<>>, label)
    <3>1. \A l \in DOMAIN label : label[l].bc = l
      BY <1>1 DEF MergeInv, HeapInv
    <3> QED
      BY <2>1, <3>1 DEF AllHandled
  <2>6. DOMAIN hp'.st_entries \subseteq Nat \ {0}
    <3>1. PICK r : r = dest.headers[h].ptr
      OBVIOUS
    <3>2. /\ Good(inputs) /\ r \in HeaderNames(inputs) /\ dest.headers[h] = HeaderAt(inputs, r)
      BY <3>1, LiveFacts DEF MergeInv
    <3>3. DOMAIN dest.headers[h].st_entries = DOMAIN inputs[r[1]].headers[r[2]]
      BY <3>2, HeaderFields
    <3>4. PICK p, g : p = inputs[r[1]] /\ g = r[2] /\ IsProgram(p) /\ g \in DOMAIN p.headers
      BY <3>2, NameFacts DEF Good
    <3>5. DOMAIN p.headers[g] = 1 .. Len(p.headers[g]) /\ Len(p.headers[g]) \in Nat
      BY <3>4, ProgramFacts
    <3>6. hp' = dest.headers[h]
      BY <1>1 DEF hp
    <3> QED
      BY <3>3, <3>4, <3>5, <3>6, SMTT(30)
  <2> QED
    BY <1>1, <2>3, <2>4, <2>5, <2>6 DEF WalkInv
<1> QED
  BY <1>4, <1>5, <1>6, <1>7, <1>8 DEF MergeInv

LEMMA HeadersMergedKeeps ==
  ASSUME MergeInv, HeadersMerged
  PROVE  MergeInv'
<1>1. /\ pc = "headers" /\ todo = {} /\ pc' = "labels"
      /\ todo' = {source.symtbl[k] : k \in DOMAIN source.symtbl}
      /\ UNCHANGED <<inputs, n, instr, label, dest, source, id, freeinstrs>>
  BY DEF HeadersMerged, removal
<1>2. Pending' = Pending
  BY <1>1 DEF Pending
<1>3. Live' = Live /\ InSymtbl' = InSymtbl
  BY <1>1, <1>2 DEF Live, InSymtbl
<1>4. HeadersInv' /\ HeapInv' /\ WalkInv' /\ FreeInv'
  BY <1>1, <1>3 DEF MergeInv, HeadersInv, HeapInv, WalkInv, FreeInv, Merging
<1>5. SymtblInv'
  <2>1. /\ InSymtbl = {l \in DOMAIN label : l[1] # n} /\ todo' = {l \in DOMAIN label : l[1] = n}
        /\ dest.uniq_id \in Nat /\ DOMAIN dest.symtbl \subseteq Nat
        /\ \A k \in DOMAIN dest.symtbl : k < dest.uniq_id /\ label[dest.symtbl[k]].id = k
    BY <1>1 DEF MergeInv, SymtblInv, Merging
  <2>2. InSymtbl \cup todo' = DOMAIN label /\ InSymtbl \cap todo' = {}
    BY <2>1
  <2> QED
    BY <1>1, <1>3, <2>1, <2>2 DEF SymtblInv, Merging
<1> QED
  BY <1>4, <1>5 DEF MergeInv

LEMMA LabelsMergedKeeps ==
  ASSUME MergeInv, LabelsMerged
  PROVE  MergeInv'
<1>1. /\ pc = "labels" /\ todo = {} /\ pc' = "input"
      /\ UNCHANGED <<inputs, n, instr, label, dest, todo, id, freeinstrs>>
  BY DEF LabelsMerged, removal
<1>2. Pending' = Pending
  BY <1>1 DEF Pending
<1>3. Live' = Live /\ InSymtbl' = InSymtbl
  BY <1>1, <1>2 DEF Live, InSymtbl
<1>4. HeadersInv' /\ HeapInv' /\ WalkInv' /\ FreeInv'
  BY <1>1, <1>3 DEF MergeInv, HeadersInv, HeapInv, WalkInv, FreeInv, Merging
<1>5. SymtblInv'
  BY <1>1, <1>3 DEF MergeInv, SymtblInv, Merging
<1> QED
  BY <1>4, <1>5 DEF MergeInv

(* A label of the input goes into the symbol table under its new id. *)
LEMMA MergeLabelKeeps ==
  ASSUME MergeInv, NEW st \in todo, MergeLabel(st)
  PROVE  MergeInv'
<1>1. PICK u : u = dest.uniq_id
  OBVIOUS
<1>2. /\ pc = "labels" /\ pc' = "labels" /\ todo' = todo \ {st}
      /\ label' = [label EXCEPT ![st].id = u]
      /\ dest' = [dest EXCEPT !.symtbl = Put(@, u, st), !.uniq_id = @ + 1]
      /\ UNCHANGED <<inputs, n, instr, source, id, freeinstrs>>
  BY <1>1 DEF MergeLabel, NewId, removal
<1>3. dest = [headers |-> dest.headers, symtbl |-> dest.symtbl, uniq_id |-> u]
  BY <1>1 DEF MergeInv, HeadersInv
<1>4. PICK sy : sy = Put(dest.symtbl, u, st)
  OBVIOUS
<1>5. dest' = [headers |-> dest.headers, symtbl |-> sy, uniq_id |-> u + 1]
  <2>1. PICK a : a = [dest EXCEPT !.symtbl = sy]
    OBVIOUS
  <2>2. a = [headers |-> dest.headers, symtbl |-> sy, uniq_id |-> u]
    BY <1>3, <2>1
  <2>3. dest' = [a EXCEPT !.uniq_id = u + 1]
    BY <1>1, <1>2, <1>4, <2>1
  <2> QED
    BY <2>2, <2>3
<1>6. dest'.headers = dest.headers /\ dest'.symtbl = sy /\ dest'.uniq_id = u + 1
  BY <1>5
<1>7. /\ u \in Nat /\ DOMAIN dest.symtbl \subseteq Nat
      /\ InSymtbl \cup todo = DOMAIN label /\ InSymtbl \cap todo = {}
      /\ \A k \in DOMAIN dest.symtbl : /\ k < u /\ label[dest.symtbl[k]].id = k
                                       /\ dest.symtbl[k] \in InSymtbl
  BY <1>1, <1>2 DEF MergeInv, SymtblInv, InSymtbl
<1>8. /\ DOMAIN sy = DOMAIN dest.symtbl \cup {u} /\ sy[u] = st
      /\ \A k \in DOMAIN dest.symtbl : sy[k] = dest.symtbl[k]
  <2>1. u \notin DOMAIN dest.symtbl
    BY <1>7
  <2> QED
    BY <1>4, <2>1 DEF Put
<1>9. Pending = {} /\ Pending' = {}
  BY <1>2 DEF Pending
<1>10. Live' = Live
  BY <1>2, <1>6, <1>9 DEF Live
<1>11. \A l \in DOMAIN label : LabelOK(inputs, DOMAIN instr, Live, l, label[l]) /\ label[l].bc = l
  BY <1>2 DEF MergeInv, HeapInv
<1>12. /\ DOMAIN label' = DOMAIN label /\ label'[st].id = u
       /\ \A l \in DOMAIN label : /\ LabelOK(inputs, DOMAIN instr, Live, l, label'[l])
                                  /\ label'[l].bc = l
                                  /\ l # st => label'[l].id = label[l].id
  <2>1. /\ DOMAIN label' = DOMAIN label
        /\ \A l \in DOMAIN label : label'[l] = IF l = st THEN [label[l] EXCEPT !.id = u] ELSE label[l]
    BY <1>2
  <2>2. PICK e : e = label'[st] /\ e = [label[st] EXCEPT !.id = u]
    BY <1>7, <2>1
  <2>3. LabelOK(inputs, DOMAIN instr, Live, st, e) /\ e.id = u /\ e.bc = label[st].bc
    <3>1. LabelOK(inputs, DOMAIN instr, Live, st, label[st])
      BY <1>7, <1>11
    <3> QED
      BY <2>2, <3>1, IdChange
  <2>4. LabelOK(inputs, DOMAIN instr, Live, st, label'[st]) /\ label'[st].id = u /\ label'[st].bc = st
    BY <1>7, <1>11, <2>2, <2>3
  <2>5. \A l \in DOMAIN label : l # st => label'[l] = label[l]
    BY <2>1
  <2> QED
    BY <1>11, <2>1, <2>4, <2>5
<1>13. HeadersInv'
  BY <1>2, <1>5, <1>6, <1>9, ZenonT(60) DEF MergeInv, HeadersInv, Merging
<1>14. HeapInv'
  BY <1>2, <1>10, <1>12 DEF MergeInv, HeapInv
<1>15. SymtblInv'
  <2>1. \A k \in DOMAIN sy : k \in Nat /\ k < u + 1 /\ label'[sy[k]].id = k
    <3>1. ASSUME NEW k \in DOMAIN dest.symtbl PROVE k \in Nat /\ k < u + 1 /\ label'[sy[k]].id = k
      <4>1. dest.symtbl[k] # st /\ dest.symtbl[k] \in DOMAIN label
        BY <1>7
      <4> QED
        BY <1>7, <1>8, <1>12, <4>1
    <3> QED
      BY <1>7, <1>8, <1>12, <3>1
  <2>2. InSymtbl' = InSymtbl \cup {st}
    BY <1>6, <1>8 DEF InSymtbl
  <2>3. InSymtbl' \cup todo' = DOMAIN label' /\ InSymtbl' \cap todo' = {}
    <3>1. PICK A, B, T : A = InSymtbl /\ B = DOMAIN label /\ T = todo
      OBVIOUS
    <3>2. A \cup T = B /\ A \cap T = {} /\ st \in T
      BY <1>7, <3>1
    <3>3. (A \cup {st}) \cup (T \ {st}) = B /\ (A \cup {st}) \cap (T \ {st}) = {}
      BY ONLY <3>2
    <3> QED
      BY <1>2, <1>12, <2>2, <3>1, <3>3, Zenon
  <2> QED
    BY <1>2, <1>6, <1>7, <2>1, <2>3 DEF SymtblInv, Merging
<1>16. WalkInv' /\ FreeInv'
  BY <1>2 DEF MergeInv, WalkInv, FreeInv
<1> QED
  BY <1>13, <1>14, <1>15, <1>16 DEF MergeInv

LEMMA FreeIscriptKeeps ==
  ASSUME MergeInv, FreeIscript
  PROVE  MergeInv'
<1>1. /\ pc' = "exit" /\ dest' = EmptyIscript /\ pc = "input"
      /\ UNCHANGED <<inputs, n, freeinstrs>>
  BY DEF FreeIscript, removal
<1>2. HeadersInv'
  BY <1>1, NoIscript DEF MergeInv, HeadersInv, Merging
<1>3. HeapInv' /\ SymtblInv' /\ WalkInv' /\ FreeInv'
  BY <1>1, NoIscript DEF MergeInv, HeapInv, SymtblInv, WalkInv, FreeInv, Merging
<1> QED
  BY <1>2, <1>3 DEF MergeInv

LEMMA NothingMoves ==
  ASSUME MergeInv, UNCHANGED vars
  PROVE  MergeInv'
<1>1. UNCHANGED <<inputs, n, pc, instr, label, dest, source, todo, id, animno, stack, visited,
                  visitedinstrs, freeinstrs, disconnect>>
  BY DEF vars, removal
<1>2. Pending' = Pending
  BY <1>1 DEF Pending
<1>3. Live' = Live /\ Leaving' = Leaving /\ hp' = hp /\ InSymtbl' = InSymtbl /\ Kept' = Kept /\ Own' = Own
  BY <1>1, <1>2, SameLive
<1>4. HeadersInv' /\ HeapInv' /\ SymtblInv'
  BY <1>1, <1>2, <1>3 DEF MergeInv, HeadersInv, HeapInv, SymtblInv
<1>5. WalkInv' /\ FreeInv'
  BY <1>1, <1>3 DEF MergeInv, WalkInv, FreeInv
<1> QED
  BY <1>4, <1>5 DEF MergeInv

LEMMA StepMerges ==
  ASSUME MergeInv, [Next]_vars
  PROVE  MergeInv'
<1>1. ASSUME NEW h \in todo, MergeHeader(h) PROVE MergeInv'
  BY <1>1, AddHeaderKeeps, RemoveHeaderKeeps
<1>2. ASSUME NEW st \in todo, MergeLabel(st) PROVE MergeInv'
  BY <1>2, MergeLabelKeeps
<1>3. CASE RemoveEntry
  BY <1>3, RemoveEntryKeeps
<1>4. CASE NextInstr
  BY <1>4, NextInstrKeeps
<1>5. CASE AfterLabel
  BY <1>5, AfterLabelKeeps
<1>6. CASE AfterJump
  BY <1>6, AfterJumpKeeps
<1>7. CASE EntriesRemoved
  BY <1>7, EntriesRemovedKeeps
<1>8. CASE FreeInstr
  BY <1>8, FreeInstrKeeps
<1>9. CASE Disconnect
  BY <1>9, DisconnectKeeps
<1>10. CASE RemoveLabels
  BY <1>10, RemoveLabelsKeeps
<1>11. CASE ReadInput \/ HeadersMerged \/ LabelsMerged \/ FreeIscript
  BY <1>11, ReadInputKeeps, HeadersMergedKeeps, LabelsMergedKeeps, FreeIscriptKeeps
<1>12. CASE UNCHANGED vars
  BY <1>12, NothingMoves
<1> QED
  BY <1>1, <1>2, <1>3, <1>4, <1>5, <1>6, <1>7, <1>8, <1>9, <1>10, <1>11, <1>12 DEF Next, Exited

LEMMA Merges == Spec => []MergeInv
<1>1. Init => MergeInv
  BY InitMerges
<1>2. MergeInv /\ [Next]_vars => MergeInv'
  BY StepMerges
<1> QED
  BY <1>1, <1>2, PTL DEF Spec

-----------------------------------------------------------------------------
(* What the invariant says between two merges and during a removal. *)

LEMMA LiveNamed ==
  ASSUME HeadersInv, pc = "input"
  PROVE  Named(inputs, Live, dest.headers)
<1>1. Pending = {}
  BY LiveFacts
<1>2. \A h \in DOMAIN dest.headers : /\ dest.headers[h].ptr \in Live
                                    /\ dest.headers[h] = HeaderAt(inputs, dest.headers[h].ptr)
  BY LiveFacts
<1>3. \A r \in Live : \E h \in DOMAIN dest.headers : r = dest.headers[h].ptr
  BY <1>1, LiveFacts
<1> QED
  BY <1>2, <1>3 DEF Named

(* Once a merge is over, every pointer agrees with its back pointer, none  *)
(* points to freed memory, and the symbol table is exact.                  *)
LEMMA BetweenAgree ==
  ASSUME MergeInv
  PROVE  MergedAgree
<1> SUFFICES ASSUME pc = "input" PROVE MergedAgree
  BY DEF MergedAgree, Between
<1>1. Heap(inputs, Live, instr, label) /\ \A l \in DOMAIN label : label[l].bc = l
  BY HeapHolds DEF MergeInv, HeapInv
<1>2. InstrsAgree(instr, label) /\ LabelsAgree(instr, label)
  BY <1>1, HeapAgrees
<1>3. HeadersAgree(dest.headers, label)
  BY <1>1, LiveNamed, NamedHeadersAgree DEF MergeInv
<1>4. SymTblAgrees(dest.symtbl, dest.uniq_id, label)
  BY DEF MergeInv, SymtblInv, SymTblAgrees, InSymtbl
<1> QED
  BY <1>2, <1>3, <1>4 DEF MergedAgree

(* MergedAgree: whatever was removed, the graph of icecc is sound after    *)
(* every iscript_merge.                                                    *)
THEOREM MergedGraphIsSound == Spec => []MergedAgree
BY Merges, BetweenAgree, PTL

LEMMA BetweenLive ==
  ASSUME MergeInv
  PROVE  NoDeadCode
<1> SUFFICES ASSUME pc = "input" PROVE NoDeadCode
  BY DEF NoDeadCode, Between
<1>1. Heap(inputs, Live, instr, label) /\ \A l \in DOMAIN label : label[l].bc = l
  BY HeapHolds DEF MergeInv, HeapInv
<1> QED
  <2>1. Named(inputs, Live, dest.headers)
    BY LiveNamed DEF MergeInv
  <2>2. DOMAIN instr = Executed(instr, label, dest.headers)
    BY <1>1, <2>1, NoneIsDead
  <2> QED
    BY <2>2 DEF NoDeadCode, Executed

(* NoDeadCode: iscript_remove_header frees everything that only the        *)
(* removed header executes, and nothing that another one executes.         *)
THEOREM ExactlyTheDeadIsFreed == Spec => []NoDeadCode
BY Merges, BetweenLive, PTL

LEMMA ElemsIn ==
  ASSUME NEW S, NEW T, NEW s \in Seq(S \ T)
  PROVE  Elems(s) \subseteq S
<1>1. DOMAIN s = 1 .. Len(s) /\ \A k \in 1 .. Len(s) : s[k] \in S \ T
  OBVIOUS
<1> QED
  BY <1>1 DEF Elems

LEMMA QueueIsAlive ==
  ASSUME MergeInv
  PROVE  FreedOnce
<1>1. CASE pc = "remove"
  <2>1. /\ freeinstrs \in Seq(Run(inputs, Leaving) \ Kept) /\ Once(freeinstrs)
        /\ Run(inputs, Leaving) \subseteq DOMAIN instr
    BY <1>1, WalkPlace DEF MergeInv, WalkInv, WalkOK
  <2>2. Elems(freeinstrs) \subseteq Run(inputs, Leaving)
    BY <2>1, ElemsIn
  <2> QED
    BY <2>1, <2>2 DEF FreedOnce, Once, Elems
<1>2. CASE pc = "free"
  BY <1>2 DEF MergeInv, FreeInv, FreedOnce, Once, Elems
<1>3. CASE pc \notin {"remove", "free"}
  <2>1. freeinstrs = <<>>
    BY <1>3 DEF MergeInv, FreeInv
  <2> QED
    BY <2>1 DEF FreedOnce
<1> QED
  BY <1>1, <1>2, <1>3

(* FreedOnce: the queue of __iscript_remove_symtblent holds no instruction *)
(* twice and none that has been freed, whatever the loops in the code.     *)
THEOREM NothingIsFreedTwice == Spec => []FreedOnce
BY Merges, QueueIsAlive, PTL

(* The graph with every label at its instruction again: a label of which   *)
(* the walk has cleared bc still stands where it stood.                    *)
Restored ==
  [l \in DOMAIN label |-> IF label[l].bc = NULL THEN [label[l] EXCEPT !.bc = l] ELSE label[l]]

LEMMA RestoredHeap ==
  ASSUME MergeInv, pc \in {"input", "remove"}
  PROVE  /\ Heap(inputs, Live, instr, Restored)
         /\ \A l \in DOMAIN Restored : Restored[l].bc = l
<1>1. Heap(inputs, Live, instr, label)
  BY HeapHolds DEF MergeInv
<1>2. \A l \in DOMAIN label : label[l].bc \in {l, NULL}
  <2>1. CASE pc = "input"
    BY <2>1 DEF MergeInv, HeapInv
  <2>2. CASE pc = "remove"
    BY <2>2 DEF MergeInv, WalkInv, AllHandled
  <2> QED
    BY <2>1, <2>2
<1>3. DOMAIN Restored = DOMAIN label
  BY DEF Restored
<1>4. ASSUME NEW l \in DOMAIN label
      PROVE  LabelOK(inputs, DOMAIN instr, Live, l, Restored[l]) /\ Restored[l].bc = l
  <2>1. LabelOK(inputs, DOMAIN instr, Live, l, label[l])
    BY <1>1 DEF Heap
  <2>2. CASE label[l].bc = NULL
    <3>1. PICK e : e = Restored[l] /\ e = [label[l] EXCEPT !.bc = l]
      BY <2>2 DEF Restored
    <3>2. LabelOK(inputs, DOMAIN instr, Live, l, e) /\ e.bc = l
      BY <2>1, <3>1, BcChange
    <3> QED
      BY <3>1, <3>2
  <2>3. CASE label[l].bc # NULL
    BY <1>2, <2>1, <2>3 DEF Restored
  <2> QED
    BY <2>2, <2>3
<1> QED
  BY <1>1, <1>3, <1>4 DEF Heap

LEMMA ReachedIsExecuted ==
  ASSUME MergeInv
  PROVE  ReachedByIsExact
<1> SUFFICES ASSUME pc \in {"input", "remove"}, NEW h \in DOMAIN dest.headers,
                    NEW x \in DOMAIN instr, x[1] = dest.headers[h].ptr[1]
             PROVE  (h \in Reached(x)) = (x \in Executes(instr, Restored, dest.headers[h]))
  BY DEF ReachedByIsExact, Restored
<1>1. PICK r : r = dest.headers[h].ptr
  OBVIOUS
<1>2. /\ Good(inputs) /\ Live \subseteq HeaderNames(inputs) /\ r \in Live /\ r[2] = h
      /\ r \in HeaderNames(inputs) /\ dest.headers[h] = HeaderAt(inputs, r)
  BY <1>1, LiveFacts DEF MergeInv
<1>3. Heap(inputs, Live, instr, Restored) /\ \A l \in DOMAIN Restored : Restored[l].bc = l
  BY RestoredHeap
<1>4. Executes(instr, Restored, dest.headers[h]) = Run(inputs, r)
  <2>1. \A l \in Run(inputs, r) : Marked(inputs, l) => Restored[l].bc = l
    <3>1. Run(inputs, r) \subseteq Runs(inputs, Live)
      BY <1>2, RunsFacts
    <3> QED
      BY <1>3, <3>1 DEF Heap
  <2>2. Intact(inputs, r, instr, Restored)
    BY <1>2, <1>3, <2>1, HeapIsIntact
  <2> QED
    BY <1>2, <2>2, ExecutesExact
<1>5. Reached(x) = {q[2] : q \in {g \in Live : x \in Run(inputs, g)}}
  <2>1. Heap(inputs, Live, instr, label)
    BY HeapHolds DEF MergeInv
  <2> QED
    BY <2>1, ReachedExact DEF Reached
<1>6. ASSUME NEW q \in Live, x \in Run(inputs, q), q[2] = h PROVE q = r
  <2>1. q = <<q[1], q[2]>> /\ r = <<r[1], r[2]>> /\ q \in HeaderNames(inputs)
    BY <1>2, NameFacts
  <2>2. x[1] = q[1]
    BY <1>2, <1>6, <2>1, PlaceFacts
  <2> QED
    BY <1>1, <1>2, <1>6, <2>1, <2>2
<1>7. h \in Reached(x) <=> x \in Run(inputs, r)
  BY <1>2, <1>5, <1>6
<1> QED
  BY <1>4, <1>7

(* ReachedByIsExact: isinstr_reached_by, which goes backwards from an      *)
(* instruction, finds the headers that get there going forwards, and also  *)
(* in the middle of a removal, which frees what it finds no header for.    *)
THEOREM ReachedByFindsTheHeaders == Spec => []ReachedByIsExact
BY Merges, ReachedIsExecuted, PTL

-----------------------------------------------------------------------------
(* icecc implements the archive. *)

AbstractInputs ==
  [k \in DOMAIN inputs |->
     [h \in DOMAIN inputs[k].headers |-> ProgramScript(inputs[k], k, h)]]
AbstractTodo == Removing \cup (IF pc = "labels" THEN {} ELSE todo)
AbstractArchive ==
  [h \in DOMAIN dest.headers \ Removing |-> Script(instr, label, dest.headers[h])]

(* The code of a header that is not being removed is untouched at every    *)
(* step of the removal of another.                                         *)
LEMMA OthersAreIntact ==
  ASSUME MergeInv, pc # "exit", NEW h \in DOMAIN dest.headers \ Removing
  PROVE  Intact(inputs, dest.headers[h].ptr, instr, label)
<1>1. PICK r : r = dest.headers[h].ptr
  OBVIOUS
<1>2. /\ Good(inputs) /\ Live \subseteq HeaderNames(inputs) /\ r \in Live /\ r[2] = h
      /\ r \in HeaderNames(inputs)
  BY <1>1, LiveFacts DEF MergeInv
<1>3. CASE pc \notin {"remove", "free"}
  <2>1. Heap(inputs, Live, instr, label) /\ \A l \in DOMAIN label : label[l].bc = l
    BY <1>3, HeapHolds DEF MergeInv, HeapInv
  <2>2. \A l \in Run(inputs, r) : Marked(inputs, l) => label[l].bc = l
    BY <1>2, <2>1, RunsFacts DEF Heap
  <2> QED
    BY <1>1, <1>2, <2>1, <2>2, HeapIsIntact
<1>4. CASE pc \in {"remove", "free"}
  <2>1. r # Leaving /\ Leaving \in Live /\ Runs(inputs, Live) = Kept \cup Own /\ Kept \cap Own = {}
    BY <1>2, <1>4, LeavingFacts DEF MergeInv, Removing
  <2>2. Run(inputs, r) \subseteq Kept
    BY <1>2, <2>1 DEF Kept, Runs
  <2>3. CASE pc = "remove"
    <3>1. Heap(inputs, Live, instr, label)
      BY <2>3, HeapHolds DEF MergeInv
    <3>2. \A l \in Run(inputs, r) : Marked(inputs, l) => label[l].bc = l
      BY <2>1, <2>2, <2>3, <3>1 DEF Heap, MergeInv, WalkInv, AllHandled
    <3> QED
      BY <1>1, <1>2, <3>1, <3>2, HeapIsIntact
  <2>4. CASE pc = "free"
    <3>1. /\ IsFiniteSet(DOMAIN instr) /\ \A x \in DOMAIN instr : instr[x] = InstrAt(inputs, DOMAIN instr, x)
          /\ DOMAIN label = {l \in Runs(inputs, Live) : Marked(inputs, l)}
      BY <2>4 DEF MergeInv, HeapInv
    <3>2. /\ freeinstrs \in Seq(Own) /\ DOMAIN instr = Kept \cup Elems(freeinstrs)
          /\ \A l \in DOMAIN label : l \notin Own => label[l].bc = l
      BY <2>4 DEF MergeInv, FreeInv
    <3>3. Elems(freeinstrs) \subseteq Own
      <4>1. freeinstrs \in Seq(Own \ {})
        BY <3>2
      <4> QED
        BY <4>1, ElemsIn
    <3>4. NULL \notin DOMAIN instr /\ NULL \notin DOMAIN label
      BY <1>2, <2>1, <3>1, <3>2, <3>3, RunsFacts
    <3>5. \A l \in Run(inputs, r) : Marked(inputs, l) => l \in DOMAIN label /\ label[l].bc = l
      BY <2>1, <2>2, <3>1, <3>2
    <3>6. Run(inputs, r) \subseteq DOMAIN instr
      BY <2>2, <3>2
    <3> QED
      BY <1>1, <1>2, <3>1, <3>4, <3>5, <3>6 DEF Intact
  <2> QED
    BY <1>4, <2>3, <2>4
<1> QED
  BY <1>3, <1>4

InputScript(r) == ProgramScript(inputs[r[1]], r[1], r[2])
Contents == [h \in DOMAIN dest.headers \ Removing |-> InputScript(dest.headers[h].ptr)]

LEMMA ArchiveHolds ==
  ASSUME MergeInv, pc # "exit"
  PROVE  AbstractArchive = Contents
<1>1. ASSUME NEW h \in DOMAIN dest.headers \ Removing
      PROVE  Script(instr, label, dest.headers[h]) = InputScript(dest.headers[h].ptr)
  <2>1. PICK r : r = dest.headers[h].ptr
    OBVIOUS
  <2>2. dest.headers[h] = HeaderAt(inputs, r)
    BY <2>1, LiveFacts DEF MergeInv
  <2>3. Intact(inputs, r, instr, label)
    BY <2>1, OthersAreIntact
  <2> QED
    BY <2>1, <2>2, <2>3, ScriptExact DEF InputScript
<1> QED
  BY <1>1 DEF AbstractArchive, Contents

ArchiveExact == MergeInv /\ pc # "exit" => AbstractArchive = Contents

LEMMA ArchiveHoldsNext == ArchiveExact /\ ArchiveExact'
<1>1. ArchiveExact
  BY ArchiveHolds DEF ArchiveExact
<1> QED
  BY <1>1, PTL

(* No header is waiting when no merge is going on. *)
Idle == pc \in {"input", "exit"} => todo = {}

LEMMA IdleHolds == Spec => []Idle
<1>1. Init => Idle
  BY DEF Init, Idle
<1>2. Idle /\ [Next]_vars => Idle'
  <2> SUFFICES ASSUME Idle, [Next]_vars PROVE Idle'
    OBVIOUS
  <2>1. CASE ReadInput
    BY <2>1 DEF ReadInput, Idle
  <2>2. CASE \E h \in todo : MergeHeader(h)
    BY <2>2 DEF MergeHeader, Idle
  <2>3. CASE HeadersMerged
    BY <2>3 DEF HeadersMerged, Idle
  <2>4. CASE \E st \in todo : MergeLabel(st)
    BY <2>4 DEF MergeLabel, Idle
  <2>5. CASE LabelsMerged
    BY <2>5 DEF LabelsMerged, Idle
  <2>6. CASE RemoveEntry \/ NextInstr \/ AfterLabel \/ AfterJump
    BY <2>6 DEF RemoveEntry, NextInstr, AfterLabel, AfterJump, At, Idle
  <2>7. CASE EntriesRemoved \/ FreeInstr \/ Disconnect \/ RemoveLabels
    BY <2>7 DEF EntriesRemoved, FreeInstr, Disconnect, RemoveLabels, Idle
  <2>8. CASE FreeIscript
    BY <2>8 DEF FreeIscript, Idle
  <2>9. CASE UNCHANGED vars
    BY <2>9 DEF vars, Idle
  <2> QED
    BY <2>1, <2>2, <2>3, <2>4, <2>5, <2>6, <2>7, <2>8, <2>9 DEF Next, Exited
<1> QED
  BY <1>1, <1>2, PTL DEF Spec

LEMMA InputsFacts ==
  ASSUME MergeInv
  PROVE  /\ DOMAIN AbstractInputs = 1 .. Len(AbstractInputs)
         /\ Len(AbstractInputs) = Len(inputs) /\ DOMAIN inputs = 1 .. Len(inputs)
         /\ \A k \in DOMAIN inputs :
              /\ DOMAIN AbstractInputs[k] = DOMAIN inputs[k].headers
              /\ \A h \in DOMAIN inputs[k].headers : AbstractInputs[k][h] = InputScript(<<k, h>>)
<1>1. DOMAIN inputs = 1 .. Len(inputs) /\ Len(inputs) \in Nat
  BY LiveFacts DEF MergeInv, Good
<1>2. PICK f, m : f = AbstractInputs /\ m = Len(inputs)
  OBVIOUS
<1>3. DOMAIN f = 1 .. m /\ m \in Nat /\ f = [k \in 1 .. m |-> f[k]]
  BY <1>1, <1>2 DEF AbstractInputs
<1>4. f \in Seq({f[k] : k \in 1 .. m}) /\ Len(f) = m
  BY <1>3
<1>5. ASSUME NEW k \in DOMAIN inputs
      PROVE  f[k] = [h \in DOMAIN inputs[k].headers |-> ProgramScript(inputs[k], k, h)]
  BY <1>2 DEF AbstractInputs
<1> QED
  BY <1>1, <1>2, <1>3, <1>4, <1>5 DEF InputScript

LEMMA Stutters ==
  ASSUME AbstractInputs' = AbstractInputs, n' = n, AbstractTodo' = AbstractTodo,
         AbstractArchive' = AbstractArchive
  PROVE  UNCHANGED MergedArchive!vars
BY DEF MergedArchive!vars, AbstractInputs, AbstractTodo, AbstractArchive

LEMMA Reads ==
  ASSUME AbstractTodo = {}, n < Len(AbstractInputs), n' = n + 1,
         AbstractTodo' = DOMAIN AbstractInputs[n + 1],
         AbstractInputs' = AbstractInputs, AbstractArchive' = AbstractArchive
  PROVE  MergedArchive!Read
BY DEF MergedArchive!Read, AbstractInputs, AbstractTodo, AbstractArchive

LEMMA Discards ==
  ASSUME NEW h, h \in AbstractTodo \cap DOMAIN AbstractArchive,
         AbstractArchive' = [g \in DOMAIN AbstractArchive \ {h} |-> AbstractArchive[g]],
         AbstractInputs' = AbstractInputs, n' = n, AbstractTodo' = AbstractTodo
  PROVE  MergedArchive!Next
<1>1. MergedArchive!Discard(h)
  BY DEF MergedArchive!Discard, AbstractInputs, AbstractTodo, AbstractArchive
<1> QED
  BY <1>1 DEF MergedArchive!Next, AbstractTodo

LEMMA Defines ==
  ASSUME NEW h, h \in AbstractTodo \ DOMAIN AbstractArchive,
         AbstractArchive' = [g \in DOMAIN AbstractArchive \cup {h} |->
                               IF g = h THEN AbstractInputs[n][h] ELSE AbstractArchive[g]],
         AbstractTodo' = AbstractTodo \ {h}, AbstractInputs' = AbstractInputs, n' = n
  PROVE  MergedArchive!Next
<1>1. MergedArchive!Define(h)
  BY DEF MergedArchive!Define, AbstractInputs, AbstractTodo, AbstractArchive
<1> QED
  BY <1>1 DEF MergedArchive!Next, AbstractTodo

LEMMA Frees ==
  ASSUME AbstractTodo = {}, n = Len(AbstractInputs), AbstractArchive' = <<>>,
         AbstractInputs' = AbstractInputs, n' = n, AbstractTodo' = AbstractTodo
  PROVE  MergedArchive!Free
BY DEF MergedArchive!Free, AbstractInputs, AbstractTodo, AbstractArchive

LEMMA SameArchive ==
  ASSUME MergeInv, MergeInv', pc # "exit", pc' # "exit", UNCHANGED inputs,
         dest'.headers = dest.headers, Removing' = Removing
  PROVE  AbstractArchive' = AbstractArchive
<1>1. Contents' = Contents
  BY DEF Contents, InputScript
<1>2. AbstractArchive = Contents /\ AbstractArchive' = Contents'
  BY ArchiveHoldsNext DEF ArchiveExact
<1> QED
  BY <1>1, <1>2

LEMMA StepRefines ==
  ASSUME MergeInv, MergeInv', Idle, Idle', [Next]_vars
  PROVE  [MergedArchive!Next]_(MergedArchive!vars)
<1>0. ASSUME UNCHANGED inputs PROVE AbstractInputs' = AbstractInputs
  BY <1>0 DEF AbstractInputs
<1>1. CASE ReadInput
  <2>1. /\ pc = "input" /\ pc' = "headers" /\ n < Len(inputs) /\ n' = n + 1
        /\ UNCHANGED <<inputs, dest, id>>
        /\ todo' = DOMAIN LoadedGraph(inputs[n + 1], n + 1).headers
    BY <1>1 DEF ReadInput
  <2>2. AbstractTodo = {} /\ Removing' = Removing /\ AbstractTodo' = todo'
    BY <2>1 DEF AbstractTodo, Removing, Idle
  <2>3. n + 1 \in DOMAIN inputs /\ n \in Nat
    BY <2>1, LiveFacts, InputsFacts DEF MergeInv, HeadersInv, Good
  <2>4. todo' = DOMAIN inputs[n + 1].headers
    BY <2>1, LoadedParts DEF HeadersOf
  <2>5. AbstractArchive' = AbstractArchive
    BY <2>1, <2>2, SameArchive
  <2>6. MergedArchive!Read
    BY <1>0, <2>1, <2>2, <2>3, <2>4, <2>5, InputsFacts, Reads
  <2> QED
    BY <2>6 DEF MergedArchive!Next
<1>2. ASSUME NEW h \in todo, MergeHeader(h)
      PROVE  [MergedArchive!Next]_(MergedArchive!vars)
  <2>1. /\ pc = "headers" /\ todo' = todo \ {h} /\ id' = h
        /\ UNCHANGED <<inputs, n, source>>
    BY <1>2 DEF MergeHeader
  <2>2. Removing = {} /\ AbstractTodo = todo
    BY <2>1 DEF Removing, AbstractTodo
  <2>3. AbstractArchive = Contents /\ DOMAIN Contents = DOMAIN dest.headers
    BY <2>1, <2>2, ArchiveHoldsNext DEF ArchiveExact, Contents
  <2>4. n \in DOMAIN inputs /\ h \in DOMAIN inputs[n].headers
        /\ source.headers[h] = HeaderAt(inputs, <<n, h>>) /\ <<n, h>> \in HeaderNames(inputs)
        /\ Good(inputs)
    <3>1. h \in Pending /\ pc \in Merging
      BY <2>1 DEF Pending, Merging
    <3> QED
      BY <3>1, LiveFacts DEF MergeInv, HeadersInv
  <2>5. CASE h \in DOMAIN dest.headers
    <3>1. pc' = "remove" /\ UNCHANGED dest
      BY <1>2, <2>5 DEF MergeHeader
    <3>2. Removing' = {h} /\ AbstractTodo' = todo
      BY <2>1, <3>1 DEF Removing, AbstractTodo
    <3>3. AbstractArchive' = Contents'
      BY <3>1, ArchiveHoldsNext DEF ArchiveExact
    <3>4. Contents' = [g \in DOMAIN dest.headers \ {h} |-> InputScript(dest.headers[g].ptr)]
      BY <2>1, <3>1, <3>2 DEF Contents, InputScript
    <3>5. AbstractArchive' = [g \in DOMAIN AbstractArchive \ {h} |-> AbstractArchive[g]]
      BY <2>2, <2>3, <3>3, <3>4 DEF Contents
    <3> QED
      BY <1>0, <2>1, <2>2, <2>3, <2>5, <3>2, <3>5, Discards
  <2>6. CASE h \notin DOMAIN dest.headers
    <3>1. pc' = "headers" /\ dest' = [dest EXCEPT !.headers = Put(@, h, source.headers[h])]
      BY <1>2, <2>1, <2>6 DEF MergeHeader, AddHeader
    <3>2. dest'.headers = Put(dest.headers, h, source.headers[h])
      <4>1. dest = [headers |-> dest.headers, symtbl |-> dest.symtbl, uniq_id |-> dest.uniq_id]
        BY DEF MergeInv, HeadersInv
      <4> QED
        BY <3>1, <4>1
    <3>3. Removing' = {} /\ AbstractTodo' = todo \ {h}
      BY <2>1, <3>1 DEF Removing, AbstractTodo
    <3>4. AbstractArchive' = Contents'
      BY <3>1, ArchiveHoldsNext DEF ArchiveExact
    <3>5. dest'.headers[h].ptr = <<n, h>>
      BY <2>4, <3>2, HeaderFields DEF Put
    <3>6. Contents' = [g \in DOMAIN dest.headers \cup {h} |->
                         IF g = h THEN AbstractInputs[n][h] ELSE Contents[g]]
      <4>1. AbstractInputs[n][h] = InputScript(<<n, h>>)
        BY <2>4, InputsFacts
      <4>2. DOMAIN dest'.headers \ Removing' = DOMAIN dest.headers \cup {h}
        BY <3>2, <3>3 DEF Put
      <4>3. \A g \in DOMAIN dest.headers : dest'.headers[g] = dest.headers[g]
        BY <2>6, <3>2 DEF Put
      <4> QED
        BY <2>1, <2>2, <3>5, <4>1, <4>2, <4>3 DEF Contents, InputScript
    <3> QED
      BY <1>0, <2>1, <2>2, <2>3, <2>6, <3>3, <3>4, <3>6, Defines
  <2> QED
    BY <2>5, <2>6
<1>3. CASE RemoveLabels
  <2>1. /\ pc = "free" /\ pc' = "headers" /\ UNCHANGED <<inputs, n, source, todo, id>>
        /\ \E s : dest' = [dest EXCEPT !.symtbl = s, !.headers = Put(@, id, source.headers[id])]
    BY <1>3 DEF RemoveLabels, removal
  <2>2. dest'.headers = Put(dest.headers, id, source.headers[id])
    <3>1. PICK s : dest' = [dest EXCEPT !.symtbl = s, !.headers = Put(@, id, source.headers[id])]
      BY <2>1
    <3>2. dest = [headers |-> dest.headers, symtbl |-> dest.symtbl, uniq_id |-> dest.uniq_id]
      BY DEF MergeInv, HeadersInv
    <3>3. PICK a, hd : /\ a = [dest EXCEPT !.symtbl = s]
                       /\ hd = Put(dest.headers, id, source.headers[id])
      OBVIOUS
    <3>4. a = [headers |-> dest.headers, symtbl |-> s, uniq_id |-> dest.uniq_id]
      BY <3>2, <3>3
    <3>5. dest' = [a EXCEPT !.headers = hd]
      BY <3>1, <3>3, <3>4
    <3> QED
      BY <3>3, <3>4, <3>5
  <2>3. /\ Removing = {id} /\ AbstractTodo = {id} \cup todo /\ Removing' = {} /\ AbstractTodo' = todo
    BY <2>1 DEF Removing, AbstractTodo
  <2>4. /\ id \in DOMAIN dest.headers /\ id \notin todo /\ n \in DOMAIN inputs
        /\ id \in DOMAIN inputs[n].headers /\ source.headers[id] = HeaderAt(inputs, <<n, id>>)
        /\ <<n, id>> \in HeaderNames(inputs) /\ Good(inputs)
    <3>1. id \in Pending /\ pc \in Merging /\ pc \in {"remove", "free"}
      BY <2>1 DEF Pending, Merging
    <3> QED
      BY <3>1, LiveFacts DEF MergeInv, HeadersInv
  <2>5. dest'.headers[id].ptr = <<n, id>>
    BY <2>2, <2>4, HeaderFields DEF Put
  <2>6. /\ AbstractArchive = Contents /\ AbstractArchive' = Contents'
        /\ DOMAIN Contents = DOMAIN dest.headers \ {id}
    BY <2>1, <2>3, ArchiveHoldsNext DEF ArchiveExact, Contents
  <2>7. Contents' = [g \in DOMAIN Contents \cup {id} |->
                       IF g = id THEN AbstractInputs[n][id] ELSE Contents[g]]
    <3>1. AbstractInputs[n][id] = InputScript(<<n, id>>)
      BY <2>4, InputsFacts
    <3>2. DOMAIN dest'.headers \ Removing' = DOMAIN Contents \cup {id}
      BY <2>2, <2>3, <2>4, <2>6 DEF Put
    <3>3. \A g \in DOMAIN Contents : dest'.headers[g] = dest.headers[g] /\ g # id
      BY <2>2, <2>4, <2>6 DEF Put
    <3> QED
      BY <2>1, <2>3, <2>5, <3>1, <3>2, <3>3 DEF Contents, InputScript
  <2>8. AbstractTodo' = AbstractTodo \ {id}
    BY <2>3, <2>4
  <2>9. id \in AbstractTodo \ DOMAIN AbstractArchive
    BY <2>3, <2>6
  <2> QED
    BY <1>0, <2>1, <2>6, <2>7, <2>8, <2>9, Defines
<1>4. CASE FreeIscript
  <2>1. /\ pc = "input" /\ n = Len(inputs) /\ pc' = "exit" /\ dest' = EmptyIscript
        /\ UNCHANGED <<inputs, n, todo>>
    BY <1>4 DEF FreeIscript
  <2>2. AbstractTodo = {} /\ AbstractTodo' = {}
    BY <2>1 DEF AbstractTodo, Removing, Idle
  <2>3. AbstractArchive' = <<>>
    BY <2>1, NoIscript DEF AbstractArchive
  <2>4. MergedArchive!Free
    BY <1>0, <2>1, <2>2, <2>3, InputsFacts, Frees
  <2> QED
    BY <2>4 DEF MergedArchive!Next
<1>5. CASE \/ HeadersMerged \/ LabelsMerged \/ RemoveEntry \/ NextInstr \/ AfterLabel \/ AfterJump
           \/ EntriesRemoved \/ FreeInstr \/ Disconnect
  <2>1. /\ UNCHANGED <<inputs, n, dest, id>> /\ pc # "exit" /\ pc' # "exit"
        /\ Removing' = Removing /\ AbstractTodo' = AbstractTodo
    <3>1. CASE HeadersMerged \/ LabelsMerged
      BY <3>1 DEF HeadersMerged, LabelsMerged, Removing, AbstractTodo
    <3>2. CASE RemoveEntry \/ NextInstr \/ AfterLabel \/ AfterJump
      BY <3>2 DEF RemoveEntry, NextInstr, AfterLabel, AfterJump, At, Removing, AbstractTodo
    <3>3. CASE EntriesRemoved \/ FreeInstr \/ Disconnect
      BY <3>3 DEF EntriesRemoved, FreeInstr, Disconnect, Removing, AbstractTodo
    <3> QED
      BY <1>5, <3>1, <3>2, <3>3
  <2>2. AbstractArchive' = AbstractArchive
    BY <2>1, SameArchive
  <2> QED
    BY <1>0, <2>1, <2>2, Stutters
<1>6. ASSUME NEW st \in todo, MergeLabel(st)
      PROVE  [MergedArchive!Next]_(MergedArchive!vars)
  <2>1. /\ UNCHANGED <<inputs, n, id>> /\ pc = "labels" /\ pc' = "labels"
        /\ Removing' = Removing /\ AbstractTodo' = AbstractTodo
        /\ \E s, u : dest' = [dest EXCEPT !.symtbl = s, !.uniq_id = u]
    BY <1>6 DEF MergeLabel, Removing, AbstractTodo
  <2>2. dest'.headers = dest.headers
    <3>1. PICK s, u : dest' = [dest EXCEPT !.symtbl = s, !.uniq_id = u]
      BY <2>1
    <3>2. dest = [headers |-> dest.headers, symtbl |-> dest.symtbl, uniq_id |-> dest.uniq_id]
      BY DEF MergeInv, HeadersInv
    <3> QED
      BY <3>1, <3>2
  <2>3. AbstractArchive' = AbstractArchive
    BY <2>1, <2>2, SameArchive
  <2> QED
    BY <1>0, <2>1, <2>3, Stutters
<1>7. CASE UNCHANGED vars
  <2>1. UNCHANGED <<inputs, n, pc, instr, label, dest, todo, id>>
    BY <1>7 DEF vars
  <2>2. AbstractInputs' = AbstractInputs /\ AbstractTodo' = AbstractTodo /\ AbstractArchive' = AbstractArchive
    BY <2>1 DEF AbstractInputs, AbstractTodo, AbstractArchive, Removing
  <2> QED
    BY <2>1, <2>2, Stutters
<1> QED
  BY <1>1, <1>2, <1>3, <1>4, <1>5, <1>6, <1>7 DEF Next, Exited

(* ImplementsArchive: each step of icecc, also in the middle of a removal, *)
(* reads an input, discards or defines one header, or leaves the script of *)
(* every header as it is, whatever code the headers share.                 *)
THEOREM IceccImplementsTheArchive == Spec => ImplementsArchive
<1>1. Init => MergedArchive!Init
  <2> SUFFICES ASSUME Init PROVE MergedArchive!Init
    OBVIOUS
  <2>1. n = 0 /\ pc = "input" /\ todo = {} /\ dest = EmptyIscript
    BY DEF Init
  <2>2. Removing = {} /\ AbstractTodo = {} /\ AbstractArchive = <<>>
    BY <2>1, NoIscript DEF Removing, AbstractTodo, AbstractArchive
  <2>3. DOMAIN AbstractInputs = 1 .. Len(AbstractInputs)
    BY InitMerges, InputsFacts
  <2> QED
    BY <2>1, <2>2, <2>3 DEF MergedArchive!Init, AbstractInputs, AbstractTodo, AbstractArchive
<1>2. MergeInv /\ MergeInv' /\ Idle /\ Idle' /\ [Next]_vars
        => [MergedArchive!Next]_(MergedArchive!vars)
  BY StepRefines
<1> QED
  BY <1>1, <1>2, Merges, IdleHolds, PTL DEF Spec, ImplementsArchive, MergedArchive!Spec
=============================================================================
