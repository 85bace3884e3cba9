------------------------- MODULE IscriptPrintProofs -------------------------
(***************************************************************************)
(* Proofs about IscriptPrint, for every program and every choice of names  *)
(* for its headers: no two labels are printed under one name, and the text *)
(* that is printed says what the program says.                             *)
(*                                                                         *)
(* The invariant, PrintInv, has a part for each thing the text relies on.  *)
(*   GraphIs    what is printed is the graph of the program                *)
(*   NamedInv   every label has a name of its own that is not a tag        *)
(*   HeadInv    each header printed has a block, all other lines are code  *)
(*   CodeInv    code comes after its name or the code it follows, and once *)
(*   QueueInv   only labels are queued                                     *)
(*   OwedInv    what a line leads to is printed, queued or being printed   *)
(* When the printer is done nothing is owed, so everything the program can *)
(* execute has a line (Text); the rest reads these lines as IscriptSource  *)
(* does.                                                                   *)
(***************************************************************************)
EXTENDS IscriptPrint, IscriptGraphProofs, SequenceTheorems

(* A free name is found: there are more numbers than names that are taken. *)
LEMMA FreeName ==
  ASSUME NEW k \in Nat, NEW name, IsFiniteSet(used_names),
         \A m, n \in Nat : name[m] = name[n] => m = n, DOMAIN name = Nat
  PROVE  \E n \in k .. k + Cardinality(used_names) :
           ~ Taken(name[n]) /\ \A m \in k .. n - 1 : Taken(name[m])
<1> DEFINE range == k .. k + Cardinality(used_names)
           free == {n \in range : ~ Taken(name[n])}
<1>1. Cardinality(used_names) \in Nat
  BY FS_CardinalityType
<1>2. range \subseteq Nat /\ IsFiniteSet(range) /\ Cardinality(range) > Cardinality(used_names)
  <2>1. range \subseteq Nat
    BY <1>1
  <2>2. k \in Int /\ k + Cardinality(used_names) \in Int /\ ~ k > k + Cardinality(used_names)
    BY <1>1
  <2>3. IsFiniteSet(range) /\ Cardinality(range) = (k + Cardinality(used_names)) - k + 1
    BY <2>2, FS_Interval
  <2>4. (k + Cardinality(used_names)) - k + 1 > Cardinality(used_names)
    BY <1>1
  <2> QED
    BY <2>1, <2>3, <2>4
<1>3. free # {}
  <2> SUFFICES ASSUME free = {} PROVE FALSE
    OBVIOUS
  <2> DEFINE f == [n \in range |-> name[n]]
  <2>1. f \in [range -> used_names]
    BY DEF Taken
  <2>2. \E m, n \in range : m # n /\ f[m] = f[n]
    <3> HIDE DEF f, range, free
    <3> QED
      <4>1. IsFiniteSet(range) /\ IsFiniteSet(used_names) /\ Cardinality(used_names) < Cardinality(range)
        BY <1>2
      <4>2. \E x, y \in range : x # y /\ f[x] = f[y]
        BY ONLY <4>1, <2>1, FS_PigeonHole, Zenon
      <4> QED
        BY <4>2
  <2> QED
    BY <1>2, <2>2
<1>4. PICK n \in free : \A m \in free : n <= m
  BY <1>2, <1>3, LeastNumber
<1>5. ASSUME NEW m \in k .. n - 1 PROVE Taken(name[m])
  <2>1. m \in range /\ ~ (n <= m)
    BY <1>1, <1>2
  <2> QED
    BY <1>4, <2>1
<1> QED
  BY <1>4, <1>5

(* So the number that is chosen is one. *)
LEMMA FirstFreeIsFree ==
  ASSUME NEW k \in Nat, NEW name, IsFiniteSet(used_names),
         \A m, n \in Nat : name[m] = name[n] => m = n, DOMAIN name = Nat
  PROVE  FirstFree(name, k) \in Nat /\ ~ Taken(name[FirstFree(name, k)])
<1>1. Cardinality(used_names) \in Nat
  BY FS_CardinalityType
<1>2. \E n \in k .. k + Cardinality(used_names) :
        ~ Taken(name[n]) /\ \A m \in k .. n - 1 : Taken(name[m])
  BY FreeName
<1>3. /\ FirstFree(name, k) \in k .. k + Cardinality(used_names)
      /\ ~ Taken(name[FirstFree(name, k)])
  BY <1>2, Zenon DEF FirstFree
<1>4. k .. k + Cardinality(used_names) \subseteq Nat
  BY <1>1
<1> QED
  BY <1>3, <1>4

NamesInv ==
  /\ NamesUnique
  /\ IsFiniteSet(DOMAIN names)
  /\ uniq_long_id \in Nat

LabelName == Bases \X {"", "long", "Local"} \X Nat \X Nat

LEMMA InLabelName ==
  ASSUME NEW base \in Bases, NEW part \in {"", "long", "Local"}, NEW n \in Nat, NEW copy \in Nat
  PROVE  <<base, part, n, copy>> \in LabelName
BY DEF LabelName

(* The name of a label is new, and the next long jump has a number. *)
LEMMA FirstNameIsFree ==
  ASSUME NamesInv, NEW an
  PROVE  /\ FirstName(an) \notin used_names
         /\ an.type = "LONGJMP" => FirstName(an)[3] \in Nat
         /\ ScriptName(an.id) \in Bases /\ an.animno \in Nat => FirstName(an) \in LabelName
<1>1. IsFiniteSet(used_names)
  <2> DEFINE f == [st \in DOMAIN names |-> names[st]]
  <2>1. f \in Surjection(DOMAIN names, used_names)
    BY DEF Surjection, used_names
  <2> QED
    BY <2>1, FS_Surjection DEF NamesInv
<1>2. CASE an.type = "LONGJMP"
  <2>1. FirstFree(Far, uniq_long_id) \in Nat /\ ~ Taken(Far[FirstFree(Far, uniq_long_id)])
    <3>1. DOMAIN Far = Nat /\ \A m, n \in Nat : Far[m] = Far[n] => m = n
      BY DEF Far
    <3> QED
      BY <1>1, <3>1, FirstFreeIsFree DEF NamesInv
  <2>2. FirstName(an) = <<"", "long", FirstFree(Far, uniq_long_id), 1>>
    BY <1>2, <2>1 DEF FirstName, Far
  <2>3. FirstName(an) \notin used_names
    BY <1>2, <2>1 DEF FirstName, Taken
  <2>4. FirstName(an) \in LabelName
    <3>1. PICK n \in Nat : n = FirstFree(Far, uniq_long_id)
      BY <2>1
    <3>2. PICK base \in Bases : base = ""
      BY DEF Bases
    <3>3. FirstName(an) = <<base, "long", n, 1>>
      BY <2>2, <3>1, <3>2
    <3> QED
      BY <3>3, InLabelName
  <2>5. FirstName(an)[3] \in Nat
    BY <1>2, <2>1 DEF FirstName, Far
  <2> QED
    BY <2>3, <2>4, <2>5, Zenon
<1>3. FirstFree(Anim(an), 1) \in Nat /\ ~ Taken(Anim(an)[FirstFree(Anim(an), 1)])
  <2>1. DOMAIN Anim(an) = Nat /\ \A m, n \in Nat : Anim(an)[m] = Anim(an)[n] => m = n
    BY DEF Anim
  <2> QED
    BY <1>1, <2>1, FirstFreeIsFree
<1>4. FirstFree(Local(an), 0) \in Nat /\ ~ Taken(Local(an)[FirstFree(Local(an), 0)])
  <2>1. DOMAIN Local(an) = Nat /\ \A m, n \in Nat : Local(an)[m] = Local(an)[n] => m = n
    BY DEF Local
  <2> QED
    BY <1>1, <2>1, FirstFreeIsFree
<1>5. CASE an.type = "HEADER"
  <2>1. FirstName(an) = <<ScriptName(an.id), "", an.animno, FirstFree(Anim(an), 1)>>
    BY <1>3, <1>5 DEF FirstName, Anim
  <2>2. FirstName(an) \notin used_names
    BY <1>3, <1>5 DEF FirstName, Taken
  <2>3. ASSUME ScriptName(an.id) \in Bases, an.animno \in Nat PROVE FirstName(an) \in LabelName
    <3>1. PICK base \in Bases : base = ScriptName(an.id)
      BY <2>3
    <3>2. PICK n \in Nat : n = FirstFree(Anim(an), 1)
      BY <1>3
    <3>3. PICK m \in Nat : m = an.animno
      BY <2>3
    <3>4. FirstName(an) = <<base, "", m, n>>
      BY <2>1, <3>1, <3>2, <3>3
    <3> QED
      BY <3>4, InLabelName
  <2> QED
    BY <1>5, <2>2, <2>3, Zenon
<1>6. CASE an.type # "LONGJMP" /\ an.type # "HEADER"
  <2>1. FirstName(an) = <<ScriptName(an.id), "Local", FirstFree(Local(an), 0), 1>>
    BY <1>4, <1>6 DEF FirstName, Local
  <2>2. FirstName(an) \notin used_names
    BY <1>4, <1>6 DEF FirstName, Taken
  <2>3. ASSUME ScriptName(an.id) \in Bases, an.animno \in Nat PROVE FirstName(an) \in LabelName
    <3>1. PICK base \in Bases : base = ScriptName(an.id)
      BY <2>3
    <3>2. PICK n \in Nat : n = FirstFree(Local(an), 0)
      BY <1>4
    <3>4. FirstName(an) = <<base, "Local", n, 1>>
      BY <2>1, <3>1, <3>2
    <3> QED
      BY <3>4, InLabelName
  <2> QED
    BY <1>6, <2>2, <2>3, Zenon
<1> QED
  BY <1>2, <1>5, <1>6

LEMMA NextNames == NamesInv /\ [Next]_vars => NamesInv'
<1>1. ASSUME NamesInv, NEW st, NameLabel(st) PROVE NamesInv'
  <2>1. PICK an \in Winners(iscript.label[st].anims) :
          /\ names' = Put(names, st, FirstName(an))
          /\ uniq_long_id' = IF an.type = "LONGJMP" THEN FirstName(an)[3] + 1 ELSE uniq_long_id
    BY <1>1 DEF NameLabel
  <2>2. st \notin DOMAIN names
    BY <1>1 DEF NameLabel
  <2>3. /\ FirstName(an) \notin used_names
        /\ an.type = "LONGJMP" => FirstName(an)[3] \in Nat
    BY <1>1, FirstNameIsFree
  <2>4. /\ DOMAIN names' = DOMAIN names \cup {st}
        /\ names'[st] = FirstName(an)
        /\ \A x \in DOMAIN names : names'[x] = names[x] /\ names[x] # FirstName(an)
    BY <2>1, <2>2, <2>3 DEF Put, used_names
  <2>5. NamesUnique'
    BY <1>1, <2>4 DEF NamesInv, NamesUnique
  <2>6. IsFiniteSet(DOMAIN names')
    BY <1>1, <2>4, FS_AddElement DEF NamesInv
  <2>7. uniq_long_id' \in Nat
    BY <1>1, <2>1, <2>3 DEF NamesInv
  <2> QED
    BY <2>5, <2>6, <2>7 DEF NamesInv
<1>2. ASSUME NamesInv, UNCHANGED naming PROVE NamesInv'
  BY <1>2 DEF NamesInv, NamesUnique, naming
<1> QED
  BY <1>1, <1>2 DEF Next, Named, PrintHeader, NextAnim, NextHeader, NextTodo, TodoEmpty,
    PrintInstr, LongJumps, NextLong, Finish, Stopped, vars

(* No two labels get one name, whatever the headers are called and in      *)
(* whatever order the labels are named: the loops of init_symtbl_names     *)
(* that count up to a free name find one, as there are more numbers than   *)
(* names taken.                                                            *)
THEOREM NamesAreUnique == Spec => []NamesUnique
<1>1. Init => NamesInv
  BY FS_EmptySet DEF Init, NamesInv, NamesUnique
<1>2. NamesInv => NamesUnique
  BY DEF NamesInv
<1> QED
  BY <1>1, <1>2, NextNames, PTL DEF Spec

-----------------------------------------------------------------------------
(* The graph that is printed *)

Code == CodeOf(program)
Labels == LabelsOf(program)
Here(a) == <<0, a>>
Flow(a) == FallsThrough(program, a)

Loading == program \in Programs /\ iscript = Loaded(program)

(* The graph of a program, in the terms of its instructions.               *)
GraphIs ==
  /\ IsProgram(program) /\ IsFiniteSet(Code) /\ Labels \subseteq Code
  /\ \A a \in Code : a \in Nat \ {0} /\ Here(a) # NULL /\ program.instr[a].kind \in Kinds
  /\ DOMAIN iscript.instr = {0} \X Code
  /\ \A a \in Code :
       /\ iscript.instr[Here(a)].next = IF Flow(a) THEN Here(a + 1) ELSE NULL
       /\ iscript.instr[Here(a)].prev = IF a - 1 \in Code /\ Flow(a - 1) THEN Here(a - 1) ELSE NULL
       /\ iscript.instr[Here(a)].st_entry = IF a \in Labels THEN Here(a) ELSE NULL
       /\ iscript.instr[Here(a)].jump =
            IF Jumps(program, a) THEN Here(program.instr[a].target) ELSE NULL
       /\ Flow(a) => a + 1 \in Code
       /\ Jumps(program, a) => program.instr[a].target \in Labels
       /\ ~ (a - 1 \in Code /\ Flow(a - 1)) => a \in Labels
  /\ DOMAIN iscript.label = {0} \X Labels
  /\ \A a \in Labels : iscript.label[Here(a)].bc = Here(a)

HeaderIs(h) ==
  /\ h \in DOMAIN program.headers
  /\ Len(program.headers[h]) \in 1 .. MaxAnims
  /\ DOMAIN program.headers[h] = 1 .. Len(program.headers[h])
  /\ DOMAIN iscript.headers[h].st_entries = 1 .. Len(program.headers[h])
  /\ iscript.headers[h].st_entries =
       [i \in 1 .. Len(program.headers[h]) |-> iscript.headers[h].st_entries[i]]
  /\ \A i \in 1 .. Len(program.headers[h]) :
       \/ program.headers[h][i] = 0 /\ iscript.headers[h].st_entries[i] = NULL
       \/ /\ program.headers[h][i] \in Labels
          /\ iscript.headers[h].st_entries[i] = Here(program.headers[h][i])

(* The graph that is loaded, instruction by instruction. *)
LEMMA LoadedGraphIs ==
  ASSUME Loading
  PROVE  GraphIs /\ DOMAIN iscript.headers = DOMAIN program.headers
         /\ \A h \in DOMAIN program.headers : HeaderIs(h)
<1> DEFINE p == program
           graph == LoadedGraph(p, 0)
<1>1. /\ IsProgram(p)
      /\ \A h \in DOMAIN p.headers : Len(p.headers[h]) \in 1 .. MaxAnims
  BY PrintAssumption DEF Loading
<1>2. /\ iscript.instr = graph.instr /\ iscript.headers = graph.headers
      /\ DOMAIN iscript.label = DOMAIN graph.label
      /\ \A st \in DOMAIN graph.label :
           iscript.label[st] = [graph.label[st] EXCEPT !.anims = Anims(p, st[2])]
  <2>1. {"instr", "label", "headers"} \subseteq DOMAIN graph
    BY DEF LoadedGraph
  <2> HIDE DEF graph
  <2>2. iscript = [graph EXCEPT !.label =
                     [st \in DOMAIN @ |-> [@[st] EXCEPT !.anims = Anims(p, st[2])]]]
    BY DEF Loading, Loaded, graph
  <2> QED
    BY <2>1, <2>2
<1>3. /\ InstrsOf(p, 0, iscript.instr) /\ LabelsIn(p, 0, graph.label)
      /\ HeadersOf(p, 0, iscript.headers)
  BY <1>2, LoadedParts
<1>4. \A a \in Labels : iscript.label[Here(a)].bc = Here(a)
  <2>1. ASSUME NEW a \in Labels PROVE iscript.label[Here(a)].bc = Here(a)
    <3>1. Here(a) \in DOMAIN graph.label /\ graph.label[Here(a)].bc = Here(a)
      BY <1>3 DEF LabelsIn, Labels, Here
    <3>2. "bc" \in DOMAIN graph.label[Here(a)]
      BY <3>1 DEF LoadedGraph
    <3> HIDE DEF graph
    <3> QED
      BY <1>2, <3>1, <3>2
  <2> QED
    BY <2>1
<1>5. /\ Code \subseteq Nat \ {0} /\ IsFiniteSet(Code) /\ Labels \subseteq Code
      /\ \A a \in Code : program.instr[a].kind \in Kinds
  BY <1>1, ProgramFacts, LabelFacts, FS_Subset DEF Code, Labels
<1>6. \A a \in Code : Here(a) # NULL
  BY <1>5, NullAssumption DEF Here
<1>7. ASSUME NEW a \in Code
      PROVE  /\ Flow(a) => a + 1 \in Code
             /\ Jumps(program, a) => program.instr[a].target \in Labels
  BY <1>1, CodeFacts, LabelFacts DEF Succ, Flow, Code, Labels, JumpsIn
<1>8. ASSUME NEW a \in Code, ~ (a - 1 \in Code /\ Flow(a - 1)) PROVE a \in Labels
  <2> DEFINE T == Code \ {a}
  <2> SUFFICES ASSUME a \notin Labels PROVE FALSE
    OBVIOUS
  <2>1. \A h \in DOMAIN p.headers : Entries(p, h) \subseteq T
    <3>1. \A h \in DOMAIN p.headers : Entries(p, h) \subseteq Labels
      BY DEF Labels, LabelsOf
    <3> QED
      BY <1>5, <3>1
  <2>2. ASSUME NEW b \in T \cap CodeOf(p) PROVE Succ(p, b) \subseteq T
    <3>1. b \in Code /\ b \in Nat /\ a \in Nat
      BY <1>5
    <3>2. Flow(b) => b + 1 # a
      BY <1>8, <3>1
    <3>3. Jumps(program, b) => program.instr[b].target # a
      BY <1>7, <3>1
    <3>4. Succ(p, b) \subseteq Code
      BY <1>1, CodeFacts DEF Code
    <3> QED
      BY <3>2, <3>3, <3>4 DEF Succ, Flow
  <2>3. Code \subseteq T
    BY <1>1, <2>1, <2>2, CodeFacts DEF Code
  <2> QED
    BY <2>3
<1>9. DOMAIN iscript.instr = {0} \X Code /\ DOMAIN iscript.label = {0} \X Labels
  BY <1>2, <1>3 DEF InstrsOf, LabelsIn, Code, Labels
<1>10. GraphIs
  <2>1. ASSUME NEW a \in Code
        PROVE /\ iscript.instr[Here(a)].next = IF Flow(a) THEN Here(a + 1) ELSE NULL
              /\ iscript.instr[Here(a)].prev =
                   IF a - 1 \in Code /\ Flow(a - 1) THEN Here(a - 1) ELSE NULL
              /\ iscript.instr[Here(a)].st_entry = IF a \in Labels THEN Here(a) ELSE NULL
              /\ iscript.instr[Here(a)].jump =
                   IF Jumps(program, a) THEN Here(program.instr[a].target) ELSE NULL
    BY <1>3 DEF InstrsOf, Code, Labels, Here, Flow
  <2> QED
    BY <1>1, <1>4, <1>5, <1>6, <1>7, <1>8, <1>9, <2>1 DEF GraphIs
<1>11. DOMAIN iscript.headers = DOMAIN program.headers
  BY <1>3 DEF HeadersOf
<1>12. ASSUME NEW h \in DOMAIN program.headers PROVE HeaderIs(h)
  <2>0. graph.headers[h].st_entries =
          [i \in DOMAIN graph.headers[h].st_entries |-> graph.headers[h].st_entries[i]]
    BY DEF LoadedGraph
  <2>1. PICK s : s = p.headers[h]
    OBVIOUS
  <2>2. /\ Len(s) \in 1 .. MaxAnims /\ DOMAIN s = 1 .. Len(s)
        /\ \A i \in DOMAIN s : s[i] = 0 \/ s[i] \in Labels
        /\ 0 \notin Labels
    BY <1>1, <2>1, ProgramFacts, LabelFacts DEF Labels
  <2>3. /\ DOMAIN iscript.headers[h].st_entries = DOMAIN s
        /\ \A i \in DOMAIN s : iscript.headers[h].st_entries[i] =
             IF s[i] \in Labels THEN Here(s[i]) ELSE NULL
    BY <1>3, <2>1 DEF HeadersOf, Labels, Here
  <2>4. PICK anims : anims = iscript.headers[h].st_entries
    OBVIOUS
  <2>5. anims = [i \in DOMAIN anims |-> anims[i]]
    <3> HIDE DEF graph
    <3> QED
      BY <1>2, <2>0, <2>4
  <2>6. anims = [i \in 1 .. Len(s) |-> anims[i]] /\ DOMAIN anims = 1 .. Len(s)
    BY <2>2, <2>3, <2>4, <2>5
  <2> QED
    BY <2>1, <2>2, <2>3, <2>4, <2>6 DEF HeaderIs
<1> QED
  BY <1>10, <1>11, <1>12

(* The printer does not change it. *)
LEMMA NextLoading == Loading /\ [Next]_vars => Loading'
BY DEF Loading, Next, NameLabel, Named, PrintHeader, NextAnim, NextHeader, NextTodo, TodoEmpty,
  PrintInstr, LongJumps, NextLong, Finish, Stopped, vars

-----------------------------------------------------------------------------
(* Rewind *)

StepBack(x) == IF iscript.instr[x].prev = NULL THEN x ELSE iscript.instr[x].prev
StepsBack(x, n, f) == f = [k \in 0 .. n |-> IF k = 0 THEN x ELSE StepBack(f[k - 1])]

(* The steps of Rewind are a function. *)
LEMMA StepsBackExist ==
  ASSUME NEW x, NEW n \in Nat
  PROVE  \E f : StepsBack(x, n, f)
<1> DEFINE none == {m \in Nat : ~ \E f : StepsBack(x, m, f)}
<1> SUFFICES ASSUME none # {} PROVE FALSE
  OBVIOUS
<1>1. PICK m \in none : \A y \in none : m <= y
  BY LeastNumber
<1>2. m # 0
  <2>1. StepsBack(x, 0, [k \in 0 .. 0 |-> x])
    BY DEF StepsBack
  <2> QED
    BY <2>1
<1>3. m \in Nat /\ m - 1 \in Nat /\ m - 1 \notin none
  BY <1>1, <1>2
<1>4. PICK f : StepsBack(x, m - 1, f)
  BY <1>3
<1> DEFINE g == [k \in 0 .. m |-> IF k = m THEN StepBack(f[m - 1]) ELSE f[k]]
<1>5. /\ DOMAIN f = 0 .. m - 1
      /\ \A k \in 0 .. m - 1 : f[k] = IF k = 0 THEN x ELSE StepBack(f[k - 1])
  BY <1>4 DEF StepsBack
<1>6. \A k \in 0 .. m : g[k] = IF k = 0 THEN x ELSE StepBack(g[k - 1])
  <2> SUFFICES ASSUME NEW k \in 0 .. m
               PROVE  g[k] = IF k = 0 THEN x ELSE StepBack(g[k - 1])
    OBVIOUS
  <2>1. CASE k = m
    <3>1. m - 1 \in 0 .. m /\ m - 1 # m
      BY <1>3
    <3>2. g[m - 1] = f[m - 1]
      BY <3>1
    <3> QED
      BY <1>2, <2>1, <3>2
  <2>2. CASE k # m /\ k # 0
    <3>1. k \in 0 .. m - 1 /\ k - 1 \in 0 .. m /\ k - 1 # m
      BY <1>3, <2>2
    <3> QED
      BY <1>5, <2>2, <3>1
  <2>3. CASE k # m /\ k = 0
    <3>1. k \in 0 .. m - 1
      BY <1>3, <2>3
    <3> QED
      BY <1>5, <2>3, <3>1
  <2> QED
    BY <2>1, <2>2, <2>3
<1>7. StepsBack(x, m, g)
  BY <1>6 DEF StepsBack
<1> QED
  BY <1>1, <1>7

(* The start of the chain that a is in, from where code falls through to a. *)
StartOf(b, a) ==
  /\ b \in Code /\ b <= a /\ \A c \in b .. a - 1 : c \in Code /\ Flow(c)

(* Rewind stops at the start, as there are no more steps than instructions. *)
LEMMA RewindFacts ==
  ASSUME GraphIs, NEW a \in Code
  PROVE  \E b : /\ Rewind(Here(a)) = Here(b) /\ StartOf(b, a)
                /\ iscript.instr[Here(b)].prev = NULL
<1> DEFINE N == Cardinality(DOMAIN iscript.instr)
           start == CHOOSE f : StepsBack(Here(a), N, f)
<1>1. /\ IsFiniteSet(Code) /\ N \in Nat /\ Cardinality(Code) \in Nat
      /\ Cardinality(Code) <= N
  <2>1. IsFiniteSet(Code) /\ DOMAIN iscript.instr = {0} \X Code
    BY DEF GraphIs
  <2> DEFINE g == [c \in Code |-> <<0, c>>]
             f == [x \in {0} \X Code |-> x[2]]
  <2>2. g \in Surjection(Code, {0} \X Code) /\ f \in Surjection({0} \X Code, Code)
    <3>1. f \in [{0} \X Code -> Code] /\ \A c \in Code : <<0, c>> \in {0} \X Code /\ f[<<0, c>>] = c
      OBVIOUS
    <3>2. g \in [Code -> {0} \X Code] /\ \A x \in {0} \X Code : x[2] \in Code /\ g[x[2]] = x
      OBVIOUS
    <3> HIDE DEF f, g
    <3> QED
      BY <3>1, <3>2, Zenon DEF Surjection
  <2> HIDE DEF f, g
  <2>3. IsFiniteSet({0} \X Code)
    BY <2>1, <2>2, FS_Surjection
  <2>4. Cardinality(Code) <= Cardinality({0} \X Code)
    BY <2>2, <2>3, FS_Surjection
  <2> QED
    BY <2>1, <2>3, <2>4, FS_CardinalityType
<1>2. StepsBack(Here(a), N, start)
  BY <1>1, StepsBackExist
<1>3. Rewind(Here(a)) = start[N]
  BY DEF Rewind, StepsBack, StepBack
<1>4. PICK f : StepsBack(Here(a), N, f) /\ Rewind(Here(a)) = f[N]
  BY <1>2, <1>3
<1> HIDE DEF N, start
<1>5. f[0] = Here(a) /\ \A k \in 1 .. N : f[k] = StepBack(f[k - 1])
  <2>1. 0 \in 0 .. N /\ \A k \in 1 .. N : k \in 0 .. N /\ k # 0
    BY <1>1
  <2> QED
    BY <1>4, <2>1 DEF StepsBack
<1>6. a \in Nat \ {0} /\ Code \subseteq Nat \ {0}
  BY DEF GraphIs
(* After k steps: at the start, or k before a. *)
<1> DEFINE At(k) == \E b \in Code : /\ f[k] = Here(b) /\ StartOf(b, a)
                                    /\ iscript.instr[Here(b)].prev = NULL \/ b = a - k
<1>7. At(0)
  BY <1>5, <1>6 DEF StartOf
<1>8. ASSUME NEW k \in 1 .. N, At(k - 1) PROVE At(k)
  <2>1. PICK b \in Code : /\ f[k - 1] = Here(b) /\ StartOf(b, a)
                          /\ iscript.instr[Here(b)].prev = NULL \/ b = a - (k - 1)
    BY <1>8
  <2>2. CASE iscript.instr[Here(b)].prev = NULL
    BY <1>5, <2>1, <2>2 DEF StepBack
  <2>3. CASE iscript.instr[Here(b)].prev # NULL
    <3>1. b - 1 \in Code /\ Flow(b - 1) /\ iscript.instr[Here(b)].prev = Here(b - 1)
      BY <2>3 DEF GraphIs
    <3>2. f[k] = Here(b - 1)
      BY <1>5, <2>1, <2>3, <3>1 DEF StepBack
    <3>3. b \in Nat /\ b <= a /\ \A c \in b .. a - 1 : c \in Code /\ Flow(c)
      BY <1>6, <2>1 DEF StartOf
    <3>4. StartOf(b - 1, a)
      <4>1. \A c \in b - 1 .. a - 1 : c = b - 1 \/ c \in b .. a - 1
        BY <1>6, <3>3
      <4>2. b - 1 <= a
        BY <1>6, <3>3
      <4> QED
        BY <3>1, <3>3, <4>1, <4>2 DEF StartOf
    <3>5. b - 1 = a - k
      BY <1>1, <1>6, <2>1, <2>3, <3>3
    <3> QED
      BY <3>1, <3>2, <3>4, <3>5
  <2> QED
    BY <2>2, <2>3
<1>9. At(N)
  <2> DEFINE bad == {k \in Nat : k <= N /\ ~ At(k)}
  <2> HIDE DEF At
  <2> SUFFICES ASSUME bad # {} PROVE FALSE
    BY <1>1
  <2>1. PICK k \in bad : \A y \in bad : k <= y
    <3>1. bad \subseteq Nat
      OBVIOUS
    <3> QED
      BY <3>1, LeastNumber
  <2>2. k # 0
    BY <1>7
  <2>3. k \in 1 .. N /\ k - 1 \in Nat /\ k - 1 <= N /\ ~ (k <= k - 1)
    BY <1>1, <2>2
  <2>4. At(k - 1)
    BY <2>1, <2>3
  <2> QED
    BY <1>8, <2>3, <2>4
<1>10. PICK b \in Code : /\ f[N] = Here(b) /\ StartOf(b, a)
                         /\ iscript.instr[Here(b)].prev = NULL \/ b = a - N
  BY <1>9
(* Code does not hold N + 1 instructions. *)
<1>11. b # a - N
  <2> SUFFICES ASSUME b = a - N PROVE FALSE
    OBVIOUS
  <2>1. \A c \in b .. a : c = a \/ c \in b .. a - 1
    BY <1>6
  <2>2. b .. a \subseteq Code
    BY <1>10, <2>1 DEF StartOf
  <2>3. b \in Int /\ a \in Int /\ ~ b > a
    BY <1>1, <1>6
  <2>4. Cardinality(b .. a) = a - b + 1
    BY <2>3, FS_Interval
  <2>5. Cardinality(b .. a) <= Cardinality(Code)
    BY <1>1, <2>2, FS_Subset
  <2> QED
    BY <1>1, <1>6, <2>4, <2>5
<1> QED
  BY <1>4, <1>10, <1>11

-----------------------------------------------------------------------------
(* The names of the labels, in a source *)

NamedInv ==
  /\ NamesInv
  /\ \A st \in DOMAIN names : names[st] \in LabelName
  /\ pc # "name" => DOMAIN names = DOMAIN iscript.label

(* Back pointers are to headers, so that the names are of headers. *)
LEMMA AnimsAreOfHeaders ==
  ASSUME Loading, NEW a, NEW an \in Anims(program, a)
  PROVE  ScriptName(an.id) \in Bases /\ an.animno \in Nat
<1>1. /\ IsProgram(program)
      /\ \A h \in DOMAIN program.headers : /\ ScriptName(h) \in Bases
                                          /\ DOMAIN program.headers[h] \subseteq Nat \ {0}
  <2>1. IsProgram(program) /\ \A h \in DOMAIN program.headers : ScriptName(h) \in Bases
    BY PrintAssumption DEF Loading, Bases
  <2>2. \A h \in DOMAIN program.headers : DOMAIN program.headers[h] \subseteq Nat \ {0}
    BY <2>1, ProgramFacts
  <2> QED
    BY <2>1, <2>2
<1>2. CASE \E h \in DOMAIN program.headers : \E i \in DOMAIN program.headers[h] :
             an = [id |-> h, animno |-> i - 1, type |-> "HEADER"]
  BY <1>1, <1>2
<1>3. CASE \E j \in CodeOf(program) : an.animno = 0 /\
             an.id = CHOOSE h \in DOMAIN program.headers : j \in ReachIn(program, h)
  BY <1>1, <1>3 DEF CodeOf
<1> QED
  BY <1>2, <1>3 DEF Anims

(* And the back pointers of a label stay what the loader made them. *)
LEMMA LoadedAnims ==
  ASSUME Loading, NEW st \in DOMAIN iscript.label
  PROVE  iscript.label[st].anims = Anims(program, st[2])
<1> DEFINE graph == LoadedGraph(program, 0)
<1>1. "label" \in DOMAIN graph /\ \A x \in DOMAIN graph.label : "anims" \in DOMAIN graph.label[x]
  BY DEF LoadedGraph
<1> HIDE DEF graph
<1>2. iscript = [graph EXCEPT !.label =
                   [x \in DOMAIN @ |-> [@[x] EXCEPT !.anims = Anims(program, x[2])]]]
  BY DEF Loading, Loaded, graph
<1> QED
  BY <1>1, <1>2

(* Every label gets a name that is no tag. *)
LEMMA NextNamed == Loading /\ NamedInv /\ [Next]_vars => NamedInv'
<1>1. ASSUME Loading, NamedInv, NEW st \in DOMAIN iscript.label, NameLabel(st) PROVE NamedInv'
  <2>0. NamesInv'
    BY <1>1, NextNames DEF NamedInv, Next
  <2>1. PICK an \in Winners(iscript.label[st].anims) : names' = Put(names, st, FirstName(an))
    BY <1>1 DEF NameLabel
  <2>2. an \in Anims(program, st[2])
    BY <1>1, <2>1, LoadedAnims DEF Winners
  <2>3. FirstName(an) \in LabelName
    BY <1>1, <2>2, AnimsAreOfHeaders, FirstNameIsFree DEF NamedInv
  <2>4. \A x \in DOMAIN names' : names'[x] \in LabelName
    BY <1>1, <2>1, <2>3 DEF NamedInv, Put
  <2>5. pc' = "name"
    BY <1>1 DEF NameLabel
  <2> QED
    BY <2>0, <2>4, <2>5 DEF NamedInv
<1>2. ASSUME Loading, NamedInv, Named PROVE NamedInv'
  <2>0. NamesInv'
    BY <1>2, NextNames DEF NamedInv, Next
  <2> QED
    BY <1>2, <2>0 DEF NamedInv, Named, naming
<1>3. ASSUME Loading, NamedInv, UNCHANGED <<naming, iscript>>, pc # "name" \/ pc' = pc,
             NamesInv'
      PROVE  NamedInv'
  BY <1>3 DEF NamedInv, naming
<1>4. Loading /\ NamedInv /\ [Next]_vars => NamesInv'
  BY NextNames DEF NamedInv
<1> QED
  BY <1>1, <1>2, <1>3, <1>4 DEF Next, PrintHeader, NextAnim, NextHeader, NextTodo, TodoEmpty,
    PrintInstr, LongJumps, NextLong, Finish, Stopped, vars

-----------------------------------------------------------------------------
(* The lines of a header *)

Joined(S, s, t, r) ==
  /\ Len(s) \in Nat /\ Len(t) \in Nat /\ r \in Seq(S)
  /\ DOMAIN s = 1 .. Len(s) /\ DOMAIN t = 1 .. Len(t)
  /\ Len(r) = Len(s) + Len(t) /\ DOMAIN r = 1 .. Len(s) + Len(t)
  /\ \A k \in 1 .. Len(s) : r[k] = s[k]
  /\ \A k \in 1 .. Len(t) : r[Len(s) + k] = t[k]

LEMMA JoinFacts ==
  ASSUME NEW S, NEW s \in Seq(S), NEW t \in Seq(S)
  PROVE  Joined(S, s, t, s \o t)
BY DEF Joined

LEMMA FunctionIsSeq ==
  ASSUME NEW n \in Nat, NEW S, NEW f \in [1 .. n -> S]
  PROVE  f \in Seq(S) /\ Len(f) = n
OBVIOUS

AnimVar(h, i) ==
  Var("anim", i - 1, IF iscript.headers[h].st_entries[i] = NULL THEN NoLabel
                     ELSE names[iscript.headers[h].st_entries[i]])

HeaderLinesAre(h, n, lines) ==
  /\ Len(lines) = n + 4 /\ DOMAIN lines = 1 .. n + 4
  /\ lines[1] = [is |-> "start"]
  /\ lines[2] = Var("id", 0, h)
  /\ lines[3] = Var("type", 0, n)
  /\ \A i \in 1 .. n : lines[3 + i] = AnimVar(h, i)
  /\ lines[n + 4] = [is |-> "end"]

(* The lines of a header, one by one. *)
LEMMA HeaderLinesFacts ==
  ASSUME NEW h, HeaderIs(h)
  PROVE  /\ HeaderLinesAre(h, Len(program.headers[h]), HeaderLines(h))
         /\ \E S : HeaderLines(h) \in Seq(S)
<1> DEFINE n == Len(program.headers[h])
           anims == iscript.headers[h].st_entries
           s == <<[is |-> "start"], Var("id", 0, h), Var("type", 0, n)>>
           t == [i \in 1 .. n |-> AnimVar(h, i)]
           u == <<[is |-> "end"]>>
           S == {s[k] : k \in 1 .. 3} \cup {t[k] : k \in 1 .. n} \cup {u[1]}
<1>1. n \in Nat /\ DOMAIN anims = 1 .. n
  BY DEF HeaderIs
<1>2. Len(anims) = n
  <2>0. anims = [i \in 1 .. n |-> anims[i]]
    BY DEF HeaderIs
  <2> HIDE DEF n, anims
  <2>1. anims \in [1 .. n -> {anims[i] : i \in 1 .. n}]
    BY <2>0
  <2> QED
    BY <1>1, <2>1, FunctionIsSeq
<1>3. HeaderLines(h) = s \o t \o u
  BY <1>1, <1>2 DEF HeaderLines, AnimVar
<1>4. /\ s \in Seq(S) /\ Len(s) = 3 /\ s[1] = [is |-> "start"] /\ s[2] = Var("id", 0, h)
      /\ s[3] = Var("type", 0, n)
  <2>1. PICK x, y, z : x = s[1] /\ y = s[2] /\ z = s[3]
    OBVIOUS
  <2>2. s = <<x, y, z>>
    BY <2>1
  <2>3. x \in S /\ y \in S /\ z \in S
    BY <2>1
  <2> HIDE DEF S
  <2> QED
    BY <2>2, <2>3
<1>5. t \in Seq(S) /\ Len(t) = n /\ \A i \in 1 .. n : t[i] = AnimVar(h, i)
  <2>1. t \in [1 .. n -> S]
    OBVIOUS
  <2> HIDE DEF n, S
  <2> QED
    BY <1>1, <2>1, FunctionIsSeq
<1>6. u \in Seq(S) /\ Len(u) = 1 /\ u[1] = [is |-> "end"]
  OBVIOUS
<1> HIDE DEF n, anims, s, t, u, S
<1>7. PICK st : st = s \o t
  OBVIOUS
<1>8. PICK all : all = st \o u
  OBVIOUS
<1>11. /\ st \in Seq(S) /\ Len(st) = 3 + n
       /\ \A k \in 1 .. 3 : st[k] = s[k]
       /\ \A k \in 1 .. n : st[3 + k] = t[k]
  <2>1. Joined(S, s, t, st)
    BY <1>4, <1>5, <1>7, JoinFacts
  <2> QED
    BY <1>4, <1>5, <2>1 DEF Joined
<1>12. /\ all \in Seq(S) /\ Len(all) = 3 + n + 1 /\ DOMAIN all = 1 .. 3 + n + 1
       /\ \A k \in 1 .. 3 + n : all[k] = st[k]
       /\ all[3 + n + 1] = u[1]
  <2>1. Joined(S, st, u, all)
    BY <1>6, <1>8, <1>11, JoinFacts
  <2>2. 1 \in 1 .. 1
    OBVIOUS
  <2> QED
    BY <1>6, <1>11, <2>1, <2>2 DEF Joined
<1>13. HeaderLines(h) = all
  BY <1>3, <1>7, <1>8
<1>9. /\ 1 \in 1 .. 3 /\ 2 \in 1 .. 3 /\ 3 \in 1 .. 3 /\ 3 + n + 1 = n + 4
      /\ \A k \in 1 .. 3 : k \in 1 .. 3 + n
      /\ \A i \in 1 .. n : 3 + i \in 1 .. 3 + n
  BY <1>1
<1>10. HeaderLinesAre(h, n, HeaderLines(h))
  <2>1. Len(all) = n + 4 /\ DOMAIN all = 1 .. n + 4
    BY <1>9, <1>12
  <2>2. all[1] = [is |-> "start"] /\ all[2] = Var("id", 0, h) /\ all[3] = Var("type", 0, n)
    BY <1>4, <1>9, <1>11, <1>12
  <2>3. \A i \in 1 .. n : all[3 + i] = AnimVar(h, i)
    BY <1>5, <1>9, <1>11, <1>12, SMTT(30)
  <2>4. all[n + 4] = [is |-> "end"]
    BY <1>6, <1>9, <1>12
  <2> QED
    BY <1>13, <2>1, <2>2, <2>3, <2>4 DEF HeaderLinesAre
<1> QED
  BY <1>10, <1>12, <1>13 DEF n

-----------------------------------------------------------------------------
(* The lines printed and the instructions at them grow together *)

Pages == /\ \E S : out \in Seq(S)
         /\ \E S : at \in Seq(S)
         /\ Len(at) = Len(out) /\ Len(out) \in Nat
         /\ DOMAIN out = 1 .. Len(out) /\ DOMAIN at = 1 .. Len(out)

Grown(n) == /\ Pages' /\ Len(out') = Len(out) + n
            /\ \A k \in 1 .. Len(out) : out'[k] = out[k] /\ at'[k] = at[k]

LEMMA ExtendSeq ==
  ASSUME NEW S, NEW s \in Seq(S), NEW T, NEW t \in Seq(T)
  PROVE  Joined(S \cup T, s, t, s \o t)
<1>1. s \in Seq(S \cup T) /\ t \in Seq(S \cup T)
  OBVIOUS
<1> QED
  BY <1>1, JoinFacts

Added(s, t) ==
  /\ Grown(Len(s)) /\ Len(s) \in Nat
  /\ \A k \in 1 .. Len(s) : out'[Len(out) + k] = s[k] /\ at'[Len(out) + k] = t[k]

(* What is appended comes after what was there. *)
LEMMA PagesGrow ==
  ASSUME Pages, NEW S, NEW s \in Seq(S), NEW T, NEW t \in Seq(T), Len(s) = Len(t),
         out' = out \o s, at' = at \o t
  PROVE  Added(s, t)
<1>1. PICK U : out \in Seq(U)
  BY DEF Pages
<1>2. PICK V : at \in Seq(V)
  BY DEF Pages
<1>3. Joined(U \cup S, out, s, out')
  BY <1>1, ExtendSeq
<1>4. Joined(V \cup T, at, t, at')
  BY <1>2, ExtendSeq
<1>5. Len(at) = Len(out) /\ Len(out) \in Nat
  BY DEF Pages
<1>6. /\ out' \in Seq(U \cup S) /\ Len(s) \in Nat
      /\ Len(out') = Len(out) + Len(s) /\ DOMAIN out' = 1 .. Len(out) + Len(s)
      /\ \A k \in 1 .. Len(out) : out'[k] = out[k]
      /\ \A k \in 1 .. Len(s) : out'[Len(out) + k] = s[k]
  BY <1>3 DEF Joined
<1>7. /\ at' \in Seq(V \cup T)
      /\ Len(at') = Len(out) + Len(s) /\ DOMAIN at' = 1 .. Len(out) + Len(s)
      /\ \A k \in 1 .. Len(out) : at'[k] = at[k]
      /\ \A k \in 1 .. Len(s) : at'[Len(out) + k] = t[k]
  BY <1>4, <1>5 DEF Joined
<1>8. Pages'
  BY <1>5, <1>6, <1>7 DEF Pages
<1> QED
  BY <1>6, <1>7, <1>8 DEF Grown, Added

(* A header adds its lines. *)
LEMMA PrintHeaderAdds ==
  ASSUME Pages, NEW h, PrintHeader(h), HeaderIs(h)
  PROVE  /\ Grown(Len(program.headers[h]) + 4)
         /\ \A k \in 1 .. Len(program.headers[h]) + 4 :
              out'[Len(out) + k] = HeaderLines(h)[k] /\ at'[Len(out) + k] = NULL
<1>1. PICK n \in Nat : n = Len(program.headers[h]) + 4
  BY DEF HeaderIs
<1>2. PICK S : HeaderLines(h) \in Seq(S)
  BY HeaderLinesFacts
<1>3. PICK lines : lines = HeaderLines(h)
  OBVIOUS
<1>4. PICK t : t = [k \in DOMAIN lines |-> NULL]
  OBVIOUS
<1>5. Len(lines) = n /\ DOMAIN lines = 1 .. n
  BY <1>1, <1>3, HeaderLinesFacts DEF HeaderLinesAre
<1>6. t \in [1 .. n -> {NULL}]
  BY <1>4, <1>5
<1>7. t \in Seq({NULL}) /\ Len(t) = n
  BY <1>6, FunctionIsSeq
<1>8. out' = out \o lines /\ at' = at \o t
  BY <1>3, <1>4 DEF PrintHeader
<1>9. Added(lines, t)
  BY <1>2, <1>3, <1>5, <1>7, <1>8, PagesGrow
<1> QED
  BY <1>1, <1>3, <1>5, <1>6, <1>9, ZenonT(60) DEF Added

LEMMA AppendTwo ==
  ASSUME NEW S, NEW s \in Seq(S), NEW x, NEW y
  PROVE  s \o <<x>> \o <<y>> = s \o <<x, y>>
<1> DEFINE T == S \cup {x, y}
<1>1. s \in Seq(T)
  OBVIOUS
<1>2. <<x>> \in Seq(T)
  OBVIOUS
<1>3. <<y>> \in Seq(T)
  OBVIOUS
<1>4. <<x, y>> \in Seq(T)
  OBVIOUS
<1> HIDE DEF T
<1>5. PICK a, b, c : a = <<x>> /\ b = <<y>> /\ c = <<x, y>>
  OBVIOUS
<1>6. (s \o a) \o b = s \o (a \o b)
  BY <1>1, <1>2, <1>3, <1>5, ConcatAssociative
<1>7. a \o b = c
  <2>1. /\ a \in Seq(T) /\ b \in Seq(T) /\ c \in Seq(T) /\ Len(a) = 1 /\ Len(b) = 1 /\ Len(c) = 2
        /\ a[1] = x /\ b[1] = y /\ c[1] = x /\ c[2] = y
    BY <1>2, <1>3, <1>4, <1>5
  <2>2. Joined(T, a, b, a \o b)
    BY <2>1, JoinFacts
  <2>3. Len(a \o b) = 2 /\ (a \o b)[1] = x /\ (a \o b)[2] = y /\ a \o b \in Seq(T)
    <3>1. 1 \in 1 .. 1 /\ 1 + 1 = 2
      OBVIOUS
    <3> QED
      BY <2>1, <2>2, <3>1 DEF Joined
  <2>4. \A i \in 1 .. 2 : (a \o b)[i] = c[i]
    <3>1. \A i \in 1 .. 2 : i = 1 \/ i = 2
      OBVIOUS
    <3> QED
      BY <2>1, <2>3, <3>1
  <2> QED
    BY <2>1, <2>3, <2>4, SeqEqual
<1> QED
  BY <1>5, <1>6, <1>7

(* An instruction that is printed adds its label and itself. *)
LEMMA BackIs == Back["code"] = "todo" /\ Back["longcode"] = "longjmps"
BY DEF Back

Prints(x) ==
  /\ pc \in {"code", "longcode"} /\ x = bc
  /\ iscript.instr[x].st_entry = NULL \/ ~ Done(iscript.instr[x].st_entry)
  /\ done' = done \cup ({iscript.instr[x].st_entry} \ {NULL})
  /\ out' = out \o (IF iscript.instr[x].st_entry = NULL THEN <<>>
                    ELSE <<LabelLine(iscript.instr[x].st_entry)>>) \o <<InstrLine(x)>>
  /\ at' = at \o (IF iscript.instr[x].st_entry = NULL THEN <<>> ELSE <<NULL>>) \o <<x>>
  /\ QueueJump(iscript.instr[x].jump)
  /\ bc' = iscript.instr[x].next
  /\ pc' = IF bc' = NULL THEN Back[pc] ELSE pc
  /\ UNCHANGED <<program, iscript, naming, headers>>

Skips(x) ==
  /\ pc \in {"code", "longcode"} /\ x = bc
  /\ iscript.instr[x].st_entry # NULL /\ Done(iscript.instr[x].st_entry)
  /\ bc' = NULL /\ pc' = Back[pc]
  /\ UNCHANGED <<todo, longjmps, done, printed, program, iscript, naming, headers>>

LEMMA PrintInstrCases == PrintInstr => Prints(bc) \/ Skips(bc)
BY DEF PrintInstr, Prints, Skips

Labelling(x) == IF iscript.instr[x].st_entry = NULL THEN 0 ELSE 1

LEMMA PrintsAdds ==
  ASSUME Pages, NEW x, Prints(x)
  PROVE  /\ Grown(Labelling(x) + 1)
         /\ out'[Len(out) + Labelling(x) + 1] = InstrLine(x)
         /\ at'[Len(out) + Labelling(x) + 1] = x
         /\ iscript.instr[x].st_entry # NULL =>
              /\ out'[Len(out) + 1] = LabelLine(iscript.instr[x].st_entry)
              /\ at'[Len(out) + 1] = NULL
<1> DEFINE st == iscript.instr[x].st_entry
<1>1. PICK line, label : line = InstrLine(x) /\ label = LabelLine(st)
  OBVIOUS
<1>2. PICK U : out \in Seq(U)
  BY DEF Pages
<1>3. PICK V : at \in Seq(V)
  BY DEF Pages
<1>4. CASE st = NULL
  <2>1. out' = out \o <<line>> /\ at' = at \o <<x>>
    <3>1. out \o <<>> = out /\ at \o <<>> = at
      BY <1>2, <1>3
    <3> QED
      BY <1>1, <1>4, <3>1 DEF Prints
  <2>5. PICK s, t : s = <<line>> /\ t = <<x>>
    OBVIOUS
  <2>2. /\ s \in Seq({line}) /\ t \in Seq({x})
        /\ Len(s) = 1 /\ Len(t) = 1 /\ s[1] = line /\ t[1] = x
        /\ 1 \in 1 .. 1
    BY <2>5
  <2>6. Added(s, t)
    BY <2>1, <2>2, <2>5, PagesGrow
  <2>3. Grown(1) /\ out'[Len(out) + 1] = line /\ at'[Len(out) + 1] = x
    BY <2>2, <2>6 DEF Added
  <2>4. Len(out) \in Nat
    BY DEF Pages
  <2> QED
    BY <1>1, <1>4, <2>3, <2>4 DEF Labelling
<1>5. CASE st # NULL
  <2>1. out' = out \o <<label, line>> /\ at' = at \o <<NULL, x>>
    <3>1. /\ out \o <<label>> \o <<line>> = out \o <<label, line>>
          /\ at \o <<NULL>> \o <<x>> = at \o <<NULL, x>>
      BY <1>2, <1>3, AppendTwo, ZenonT(60)
    <3> QED
      BY <1>1, <1>5, <3>1 DEF Prints
  <2>5. PICK s, t : s = <<label, line>> /\ t = <<NULL, x>>
    OBVIOUS
  <2>2. /\ s \in Seq({label, line}) /\ t \in Seq({NULL, x})
        /\ Len(s) = 2 /\ Len(t) = 2
        /\ s[1] = label /\ t[1] = NULL
        /\ s[2] = line /\ t[2] = x
        /\ 1 \in 1 .. 2 /\ 2 \in 1 .. 2
    BY <2>5
  <2>6. Added(s, t)
    BY <2>1, <2>2, <2>5, PagesGrow
  <2>3. /\ Grown(2) /\ out'[Len(out) + 1] = label /\ at'[Len(out) + 1] = NULL
        /\ out'[Len(out) + 2] = line /\ at'[Len(out) + 2] = x
    BY <2>2, <2>6 DEF Added
  <2>4. Len(out) \in Nat
    BY DEF Pages
  <2> QED
    BY <1>1, <1>5, <2>3, <2>4 DEF Labelling
<1> QED
  BY <1>4, <1>5

-----------------------------------------------------------------------------
(* The headers printed *)

Size(h) == Len(program.headers[h]) + 4
Finished == DOMAIN program.headers \ ids

BlockAt(h, b) ==
  /\ b \in Nat /\ b + Size(h) <= Len(out)
  /\ \A j \in 1 .. Size(h) : out[b + j] = HeaderLines(h)[j] /\ at[b + j] = NULL

(* Each header that is printed has its block, and all other lines are code. *)
BlocksAt(off) ==
  /\ \A h \in Finished : BlockAt(h, off[h])
  /\ \A k \in 1 .. Len(out) : \/ out[k].is = "code"
                              \/ \E h \in Finished : off[h] < k /\ k <= off[h] + Size(h)

HeadInv ==
  /\ Pages
  /\ pc = "name" => out = <<>> /\ at = <<>> /\ ids = DOMAIN program.headers
  /\ ids \subseteq DOMAIN program.headers
  /\ \E off : BlocksAt(off)

Settled == UNCHANGED <<program, iscript, names>>

(* A block that is printed stays. *)
LEMMA BlockStays ==
  ASSUME Pages, NEW n \in Nat, Grown(n), Settled, NEW h, NEW b, Size(h) \in Nat, BlockAt(h, b)
  PROVE  BlockAt(h, b)'
<1>1. HeaderLines(h)' = HeaderLines(h) /\ Size(h)' = Size(h)
  BY DEF Settled, HeaderLines, Size, Var
<1>2. Len(out) \in Nat /\ Len(out') = Len(out) + n
  BY DEF Pages, Grown
<1>3. b \in Nat /\ b + Size(h) <= Len(out)
  BY DEF BlockAt
<1>4. \A j \in 1 .. Size(h) : b + j \in 1 .. Len(out)
  BY <1>2, <1>3
<1>5. \A j \in 1 .. Size(h) : out'[b + j] = HeaderLines(h)[j] /\ at'[b + j] = NULL
  BY <1>4 DEF BlockAt, Grown
<1> QED
  BY <1>1, <1>2, <1>3, <1>5 DEF BlockAt

(* A header adds its block, *)
LEMMA HeadInvHeader ==
  ASSUME Loading, HeadInv, NEW h \in ids, PrintHeader(h)
  PROVE  HeadInv'
<1>1. h \in DOMAIN program.headers /\ HeaderIs(h)
  BY LoadedGraphIs DEF HeadInv
<1>2. PICK n : n = Size(h) /\ n \in Nat
  BY <1>1 DEF HeaderIs, Size
<1>3. /\ Grown(n)
      /\ \A k \in 1 .. n : out'[Len(out) + k] = HeaderLines(h)[k] /\ at'[Len(out) + k] = NULL
  BY <1>1, <1>2, PrintHeaderAdds DEF HeadInv, Size
<1>4. PICK off : BlocksAt(off)
  BY DEF HeadInv
<1>13. PICK new : new = [g \in DOMAIN program.headers |-> IF g = h THEN Len(out) ELSE off[g]]
  OBVIOUS
<1>5. Settled /\ Finished' = Finished \cup {h} /\ h \notin Finished /\ pc' = "anim"
      /\ ids' \subseteq DOMAIN program'.headers
  BY <1>1 DEF PrintHeader, Settled, naming, Finished, HeadInv
<1>6. Pages /\ Len(out) \in Nat /\ Len(out') = Len(out) + n
  BY <1>3 DEF HeadInv, Pages, Grown
<1>7. \A g \in Finished : new[g] = off[g] /\ Size(g) \in Nat
  <2>1. \A g \in DOMAIN program.headers : HeaderIs(g)
    BY LoadedGraphIs
  <2> QED
    BY <1>5, <1>13, <2>1 DEF Finished, Size, HeaderIs
<1>8. new[h] = Len(out)
  BY <1>1, <1>13
<1>9. ASSUME NEW g \in Finished PROVE BlockAt(g, new[g])'
  <2>1. BlockAt(g, off[g])
    BY <1>4 DEF BlocksAt
  <2>2. BlockAt(g, off[g])'
    BY <1>2, <1>3, <1>5, <1>6, <1>7, <2>1, BlockStays
  <2> QED
    BY <1>7, <2>2
<1>10. BlockAt(h, new[h])'
  <2>1. HeaderLines(h)' = HeaderLines(h) /\ Size(h)' = n
    BY <1>2, <1>5 DEF Settled, HeaderLines, Size, Var
  <2>2. Len(out) + n <= Len(out')
    BY <1>2, <1>6
  <2> QED
    BY <1>3, <1>6, <1>8, <2>1, <2>2 DEF BlockAt
<1>11. ASSUME NEW k \in 1 .. Len(out')
       PROVE  \/ out'[k].is = "code"
              \/ \E g \in Finished' : new[g] < k /\ k <= new[g] + Size(g)'
  <2>0. \A g : Size(g)' = Size(g)
    BY <1>5 DEF Size, Settled
  <2>1. CASE k \in 1 .. Len(out)
    <3>1. out'[k] = out[k]
      BY <1>3, <2>1 DEF Grown
    <3>2. \/ out[k].is = "code"
          \/ \E g \in Finished : off[g] < k /\ k <= off[g] + Size(g)
      BY <1>4, <2>1 DEF BlocksAt
    <3> QED
      BY <1>5, <1>7, <2>0, <3>1, <3>2
  <2>2. CASE k \notin 1 .. Len(out)
    <3>1. Len(out) < k /\ k <= Len(out) + n
      BY <1>2, <1>6, <2>2
    <3> QED
      BY <1>2, <1>5, <1>8, <2>0, <3>1
  <2> QED
    BY <2>1, <2>2
<1>12. BlocksAt(new)'
  BY <1>5, <1>9, <1>10, <1>11 DEF BlocksAt
<1> QED
  BY <1>3, <1>5, <1>12 DEF HeadInv, Grown

(* an instruction adds lines of code, *)
LEMMA HeadInvInstr ==
  ASSUME Loading, HeadInv, NEW x, Prints(x)
  PROVE  HeadInv'
<1>1. PICK n \in Nat : n = Labelling(x) + 1
  BY DEF Labelling
<1>2. Pages
  BY DEF HeadInv
<1>3. /\ Grown(n) /\ Len(out) \in Nat /\ Len(out') = Len(out) + n
      /\ \A k \in 1 .. n : out'[Len(out) + k].is = "code"
  <2>1. InstrLine(x).is = "code" /\ \A st : LabelLine(st).is = "code"
    BY DEF InstrLine, LabelLine
  <2>2. Len(out) \in Nat /\ Grown(n) /\ Len(out') = Len(out) + n
    BY <1>1, <1>2, PrintsAdds DEF Pages, Grown
  <2>3. CASE Labelling(x) = 0
    <3>1. out'[Len(out) + 0 + 1] = InstrLine(x) /\ Len(out) + 0 + 1 = Len(out) + 1
      BY <1>2, <2>2, <2>3, PrintsAdds
    <3>2. \A k \in 1 .. n : k = 1
      BY <1>1, <2>3
    <3> QED
      BY <2>1, <2>2, <3>1, <3>2
  <2>4. CASE Labelling(x) # 0
    <3>0. iscript.instr[x].st_entry # NULL /\ Labelling(x) = 1
      BY <2>4 DEF Labelling
    <3>1. out'[Len(out) + 1 + 1] = InstrLine(x) /\ Len(out) + 1 + 1 = Len(out) + 2
      BY <1>2, <2>2, <3>0, PrintsAdds
    <3>2. out'[Len(out) + 1] = LabelLine(iscript.instr[x].st_entry)
      BY <1>2, <3>0, PrintsAdds
    <3>3. \A k \in 1 .. n : k = 1 \/ k = 2
      BY <1>1, <3>0
    <3> QED
      BY <2>1, <2>2, <3>1, <3>2, <3>3
  <2> QED
    BY <2>3, <2>4
<1>4. PICK off : BlocksAt(off)
  BY DEF HeadInv
<1>5. /\ Settled /\ Finished' = Finished /\ ids' = ids /\ pc \in {"code", "longcode"}
      /\ \A g : Size(g)' = Size(g)
  BY DEF Prints, Settled, naming, headers, Finished, Size
<1>6. \A g \in Finished : Size(g) \in Nat
  <2>1. \A g \in DOMAIN program.headers : HeaderIs(g)
    BY LoadedGraphIs
  <2> QED
    BY <2>1 DEF Finished, Size, HeaderIs
<1>7. ASSUME NEW g \in Finished PROVE BlockAt(g, off[g])'
  BY <1>2, <1>3, <1>4, <1>5, <1>6, BlockStays DEF BlocksAt
<1>8. ASSUME NEW k \in 1 .. Len(out')
      PROVE  \/ out'[k].is = "code"
             \/ \E g \in Finished : off[g] < k /\ k <= off[g] + Size(g)
  <2>1. CASE k \in 1 .. Len(out)
    BY <1>3, <1>4, <2>1 DEF BlocksAt, Grown
  <2>2. CASE k \notin 1 .. Len(out)
    <3>1. k - Len(out) \in 1 .. n /\ Len(out) + (k - Len(out)) = k
      BY <1>3, <2>2
    <3> QED
      BY <1>3, <3>1
  <2> QED
    BY <2>1, <2>2
<1>9. BlocksAt(off)'
  BY <1>5, <1>7, <1>8 DEF BlocksAt
<1>10. pc' # "name"
  <2>1. bc' = NULL => pc' = Back[pc]
    BY DEF Prints
  <2>2. pc \in {"code", "longcode"} /\ (bc' # NULL => pc' = pc)
    BY DEF Prints
  <2> QED
    BY <2>1, <2>2, BackIs
<1>11. ids' \subseteq DOMAIN program'.headers
  BY <1>5 DEF HeadInv, Settled
<1> QED
  BY <1>3, <1>9, <1>10, <1>11 DEF HeadInv, Grown

(* and other steps add nothing. *)
LEMMA HeadInvStays ==
  ASSUME HeadInv, UNCHANGED <<program, iscript, names, ids, out, at>>,
         pc' # "name" \/ pc = "name"
  PROVE  HeadInv'
<1>1. Pages'
  BY DEF HeadInv, Pages
<1>2. PICK off : BlocksAt(off)
  BY DEF HeadInv
<1>3. Finished' = Finished /\ \A g : Size(g)' = Size(g) /\ HeaderLines(g)' = HeaderLines(g)
  BY DEF Finished, Size, HeaderLines, Var
<1>4. BlocksAt(off)'
  BY <1>2, <1>3 DEF BlocksAt, BlockAt
<1> QED
  BY <1>1, <1>4 DEF HeadInv

LEMMA HeadInvName ==
  ASSUME HeadInv, NEW st, NameLabel(st)
  PROVE  HeadInv'
<1>1. pc' = "name" /\ UNCHANGED <<program, ids, out, at>> /\ pc = "name"
  BY DEF NameLabel, headers, printed
<1>2. Pages'
  BY <1>1 DEF HeadInv, Pages
<1>3. out' = <<>> /\ at' = <<>> /\ ids' = DOMAIN program'.headers
  BY <1>1 DEF HeadInv
<1>4. Finished' = {} /\ 1 .. Len(out') = {}
  BY <1>3 DEF Finished
<1>5. BlocksAt(<<>>)'
  BY <1>4 DEF BlocksAt
<1> QED
  BY <1>2, <1>3, <1>5 DEF HeadInv

LEMMA InitHeadInv == Init => HeadInv
<1> SUFFICES ASSUME Init PROVE HeadInv
  OBVIOUS
<1>1. out = <<>> /\ at = <<>> /\ ids = DOMAIN program.headers
  BY DEF Init
<1>2. Pages
  BY <1>1 DEF Pages
<1>3. Finished = {} /\ 1 .. Len(out) = {}
  BY <1>1 DEF Finished
<1>4. BlocksAt(<<>>)
  BY <1>3 DEF BlocksAt
<1> QED
  BY <1>1, <1>2, <1>4 DEF HeadInv

LEMMA NextHeadInv == Loading /\ HeadInv /\ [Next]_vars => HeadInv'
<1> SUFFICES ASSUME Loading, HeadInv, [Next]_vars PROVE HeadInv'
  OBVIOUS
<1>1. ASSUME NEW st \in DOMAIN iscript.label, NameLabel(st) PROVE HeadInv'
  BY <1>1, HeadInvName
<1>2. ASSUME NEW h \in ids, PrintHeader(h) PROVE HeadInv'
  BY <1>2, HeadInvHeader
<1>3. CASE PrintInstr
  <2>1. CASE Prints(bc)
    BY <2>1, HeadInvInstr
  <2>2. CASE Skips(bc)
    BY <2>2, HeadInvStays DEF Skips, naming, headers, printed, Back
  <2> QED
    BY <1>3, <2>1, <2>2, PrintInstrCases
<1>4. CASE Named \/ NextAnim \/ NextHeader \/ NextTodo \/ TodoEmpty \/ LongJumps \/ NextLong
           \/ Finish \/ Stopped \/ UNCHANGED vars
  BY <1>4, HeadInvStays DEF Named, NextAnim, NextHeader, NextTodo, TodoEmpty, LongJumps, NextLong,
    Finish, Stopped, vars, naming, headers, printed
<1> QED
  BY <1>1, <1>2, <1>3, <1>4 DEF Next

-----------------------------------------------------------------------------
(* The code printed *)

Printing == pc \in {"code", "longcode"}
Follows1(a) == a - 1 \in Code /\ Flow(a - 1)
ShownAt(a, k) == k \in 1 .. Len(out) /\ at[k] = Here(a)
Shown(a) == \E k \in 1 .. Len(out) : at[k] = Here(a)

(* A line is of a header, or names the instruction in the next line, or is *)
(* an instruction, which comes after its name or the one it follows.       *)
NameLine(k, a) == at[k] = NULL /\ out[k] = LabelLine(Here(a))
LineIs(k) ==
  \/ at[k] = NULL /\ out[k].is # "code"
  \/ \E a \in Labels : NameLine(k, a) /\ ShownAt(a, k + 1)
  \/ \E a \in Code :
       /\ at[k] = Here(a) /\ out[k] = InstrLine(Here(a)) /\ k - 1 \in 1 .. Len(out)
       /\ IF a \in Labels THEN NameLine(k - 1, a) ELSE Follows1(a) /\ at[k - 1] = Here(a - 1)

Once == \A j, k \in 1 .. Len(out) : at[j] = at[k] /\ at[k] # NULL => j = k

(* What an instruction falls through to comes right after it.              *)
NextIs(a, k) ==
  \/ k = Len(out) /\ Printing /\ bc = Here(a + 1)
  \/ ShownAt(a + 1, k + 1)
  \/ ShownAt(a + 1, k + 2) /\ at[k + 1] = NULL /\ out[k + 1].is = "code"
Flowing == \A a \in Code : \A k \in 1 .. Len(out) : at[k] = Here(a) /\ Flow(a) => NextIs(a, k)

CursorIs(a) ==
  a \in Code /\ bc = Here(a) /\ (Follows1(a) => ~ Shown(a) /\ ShownAt(a - 1, Len(out)))

CodeInv ==
  /\ \A k \in 1 .. Len(out) : LineIs(k)
  /\ Once
  /\ Flowing
  /\ Printing => \E a \in Code : CursorIs(a)
  /\ \A a \in Labels : Here(a) \in done <=> Shown(a)
  /\ \A a \in Code : Shown(a) /\ Follows1(a) => Shown(a - 1)

QueueInv == todo \in Seq({0} \X Labels) /\ longjmps \in Seq({0} \X Labels)

LEMMA HereIs == \A a, b : Here(a) = Here(b) => a = b
BY DEF Here

LEMMA SettledFacts ==
  ASSUME Settled
  PROVE  /\ Code' = Code /\ Labels' = Labels
         /\ \A a : LabelLine(a)' = LabelLine(a) /\ InstrLine(a)' = InstrLine(a)
         /\ \A a : Flow(a)' = Flow(a) /\ Follows1(a)' = Follows1(a)
BY DEF Settled, Code, Labels, LabelLine, InstrLine, Flow, Follows1

(* Lines stay what they are. *)
LEMMA LineStays ==
  ASSUME Pages, NEW n \in Nat, Grown(n), Settled, NEW k \in 1 .. Len(out), LineIs(k)
  PROVE  LineIs(k)'
<1>1. Len(out) \in Nat /\ Len(out') = Len(out) + n /\ k \in 1 .. Len(out')
      /\ \A j \in 1 .. Len(out) : out'[j] = out[j] /\ at'[j] = at[j] /\ j \in 1 .. Len(out')
  BY DEF Pages, Grown
<1>2. CASE at[k] = NULL /\ out[k].is # "code"
  BY <1>1, <1>2 DEF LineIs
<1>3. ASSUME NEW a \in Labels, NameLine(k, a), ShownAt(a, k + 1) PROVE LineIs(k)'
  <2>1. NameLine(k, a)' /\ ShownAt(a, k + 1)' /\ a \in Labels'
    BY <1>1, <1>3, SettledFacts DEF NameLine, ShownAt
  <2> QED
    BY <2>1 DEF LineIs
<1>4. ASSUME NEW a \in Code, at[k] = Here(a), out[k] = InstrLine(Here(a)), k - 1 \in 1 .. Len(out),
             IF a \in Labels THEN NameLine(k - 1, a) ELSE Follows1(a) /\ at[k - 1] = Here(a - 1)
      PROVE  LineIs(k)'
  <2>1. /\ at'[k] = Here(a) /\ out'[k] = InstrLine(Here(a))' /\ k - 1 \in 1 .. Len(out')
        /\ a \in Code' /\ (a \in Labels' <=> a \in Labels)
    BY <1>1, <1>4, SettledFacts
  <2>2. NameLine(k - 1, a) => NameLine(k - 1, a)'
    BY <1>1, <1>4, SettledFacts DEF NameLine
  <2>3. Follows1(a)' = Follows1(a) /\ at'[k - 1] = at[k - 1]
    BY <1>1, <1>4, SettledFacts
  <2> QED
    BY <1>4, <2>1, <2>2, <2>3 DEF LineIs
<1> QED
  BY <1>2, <1>3, <1>4 DEF LineIs

LEMMA ShownStays ==
  ASSUME Pages, NEW n \in Nat, Grown(n), NEW a, NEW k, ShownAt(a, k)
  PROVE  ShownAt(a, k)'
BY DEF Pages, Grown, ShownAt

(* Lines that print no instruction. *)
LEMMA CodeInvHeader ==
  ASSUME Pages, GraphIs, CodeInv, NEW n \in Nat, Grown(n), Settled, ~ Printing, ~ Printing',
         UNCHANGED done,
         \A k \in 1 .. n : at'[Len(out) + k] = NULL /\ out'[Len(out) + k].is # "code"
  PROVE  CodeInv'
<1>1. Len(out) \in Nat /\ Len(out') = Len(out) + n
      /\ \A j \in 1 .. Len(out) : out'[j] = out[j] /\ at'[j] = at[j] /\ j \in 1 .. Len(out')
  BY DEF Pages, Grown
<1>2. ASSUME NEW k \in 1 .. Len(out'), k \notin 1 .. Len(out)
      PROVE  at'[k] = NULL /\ out'[k].is # "code"
  <2>1. k - Len(out) \in 1 .. n /\ Len(out) + (k - Len(out)) = k
    BY <1>1, <1>2
  <2> QED
    BY <2>1
<1>3. \A a \in Code : Here(a) # NULL
  BY DEF GraphIs
<1>4. \A a \in Code : \A k \in 1 .. Len(out') : at'[k] = Here(a) => k \in 1 .. Len(out) /\ at[k] = Here(a)
  BY <1>1, <1>2, <1>3
<1>5. \A a \in Code : Shown(a)' = Shown(a)
  BY <1>1, <1>4 DEF Shown
<1>6. \A k \in 1 .. Len(out') : LineIs(k)'
  <2>1. \A k \in 1 .. Len(out') : k \notin 1 .. Len(out) => LineIs(k)'
    BY <1>2 DEF LineIs
  <2>2. \A k \in 1 .. Len(out) : LineIs(k)'
    BY LineStays DEF CodeInv
  <2> QED
    BY <2>1, <2>2
<1>7. Once'
  BY <1>1, <1>2 DEF CodeInv, Once
<1>8. Flowing'
  <2> SUFFICES ASSUME NEW a \in Code, NEW k \in 1 .. Len(out'), at'[k] = Here(a), Flow(a)
               PROVE  NextIs(a, k)'
    BY SettledFacts DEF Flowing
  <2>1. k \in 1 .. Len(out) /\ at[k] = Here(a)
    BY <1>4
  <2>2. NextIs(a, k)
    BY <2>1 DEF CodeInv, Flowing
  <2>3. CASE ShownAt(a + 1, k + 1)
    BY <2>3, ShownStays DEF NextIs
  <2>4. CASE ShownAt(a + 1, k + 2) /\ at[k + 1] = NULL /\ out[k + 1].is = "code"
    <3>1. k + 1 \in 1 .. Len(out)
      BY <1>1, <2>1, <2>4 DEF ShownAt
    <3> QED
      BY <1>1, <2>4, <3>1, ShownStays DEF NextIs
  <2> QED
    BY <2>2, <2>3, <2>4 DEF NextIs
<1>9. \A a \in Labels' : Here(a) \in done' <=> Shown(a)'
  BY <1>5, SettledFacts DEF CodeInv, GraphIs
<1>10. \A a \in Code' : Shown(a)' /\ Follows1(a)' => Shown(a - 1)'
  BY <1>5, SettledFacts DEF CodeInv, Follows1
<1> QED
  BY <1>6, <1>7, <1>8, <1>9, <1>10 DEF CodeInv

(* What printing the instruction a does; it ends in line e. *)
NewLines(a, e) ==
  /\ a \in Code /\ ~ Shown(a) /\ bc = Here(a) /\ Printing
  /\ Len(out) \in Nat /\ Grown(IF a \in Labels THEN 2 ELSE 1)
  /\ e = Len(out') /\ e = Len(out) + (IF a \in Labels THEN 2 ELSE 1)
  /\ at'[e] = Here(a) /\ out'[e] = InstrLine(Here(a))
  /\ a \in Labels => at'[e - 1] = NULL /\ out'[e - 1] = LabelLine(Here(a))
  /\ a \notin Labels => Follows1(a)
  /\ Follows1(a) => ShownAt(a - 1, Len(out))
  /\ done' = done \cup (IF a \in Labels THEN {Here(a)} ELSE {})
  /\ IF Flow(a) THEN a + 1 \in Code /\ bc' = Here(a + 1) /\ pc' = pc ELSE ~ Printing'
  /\ Settled

(* Printing an instruction adds the lines of one that was not shown, *)
LEMMA PrintsLines ==
  ASSUME Pages, GraphIs, CodeInv, Prints(bc)
  PROVE  \E a, e : NewLines(a, e)
<1>1. PICK a \in Code : CursorIs(a)
  BY DEF CodeInv, Prints, Printing
<1>2. PICK x : x = Here(a) /\ bc = x /\ x # NULL
  BY <1>1 DEF CursorIs, GraphIs
<1>3. /\ iscript.instr[x].st_entry = IF a \in Labels THEN Here(a) ELSE NULL
      /\ iscript.instr[x].next = IF Flow(a) THEN Here(a + 1) ELSE NULL
      /\ ~ Follows1(a) => a \in Labels
      /\ Flow(a) => a + 1 \in Code /\ Here(a + 1) # NULL
  BY <1>1, <1>2 DEF GraphIs, Follows1
<1>4. Prints(x)
  BY <1>2
<1>5. Len(out) \in Nat
  BY DEF Pages
<1>6. ~ Shown(a)
  <2>1. CASE Follows1(a)
    BY <1>1, <2>1 DEF CursorIs
  <2>2. CASE ~ Follows1(a)
    <3>1. a \in Labels /\ iscript.instr[x].st_entry = Here(a)
      BY <1>3, <2>2
    <3>2. Here(a) \notin done
      BY <1>2, <1>4, <3>1 DEF Prints, Done
    <3> QED
      BY <3>1, <3>2 DEF CodeInv
  <2> QED
    BY <2>1, <2>2
<1>7. PICK m : m = IF a \in Labels THEN 2 ELSE 1
  OBVIOUS
<1>8. /\ Grown(m) /\ Len(out') = Len(out) + m
      /\ at'[Len(out) + m] = x /\ out'[Len(out) + m] = InstrLine(x)
      /\ a \in Labels => /\ at'[Len(out) + m - 1] = NULL
                         /\ out'[Len(out) + m - 1] = LabelLine(Here(a))
  <2>1. CASE a \in Labels
    <3>1. iscript.instr[x].st_entry = Here(a) /\ iscript.instr[x].st_entry # NULL
      BY <1>2, <1>3, <2>1
    <3>2. Labelling(x) = 1
      BY <3>1 DEF Labelling
    <3>3. /\ Grown(1 + 1) /\ out'[Len(out) + 1 + 1] = InstrLine(x) /\ at'[Len(out) + 1 + 1] = x
          /\ out'[Len(out) + 1] = LabelLine(Here(a)) /\ at'[Len(out) + 1] = NULL
      BY <1>4, <3>1, <3>2, PrintsAdds
    <3>4. 1 + 1 = m /\ Len(out) + 1 + 1 = Len(out) + m /\ Len(out) + 1 = Len(out) + m - 1
      BY <1>5, <1>7, <2>1
    <3> QED
      BY <3>3, <3>4 DEF Grown
  <2>2. CASE a \notin Labels
    <3>1. Labelling(x) = 0
      BY <1>3, <2>2 DEF Labelling
    <3>2. Grown(0 + 1) /\ out'[Len(out) + 0 + 1] = InstrLine(x) /\ at'[Len(out) + 0 + 1] = x
      BY <1>4, <3>1, PrintsAdds
    <3>3. 0 + 1 = m /\ Len(out) + 0 + 1 = Len(out) + m
      BY <1>5, <1>7, <2>2
    <3> QED
      BY <2>2, <3>2, <3>3 DEF Grown
  <2> QED
    BY <2>1, <2>2
<1>9. done' = done \cup (IF a \in Labels THEN {Here(a)} ELSE {})
  BY <1>2, <1>3, <1>4 DEF Prints
<1>10. IF Flow(a) THEN a + 1 \in Code /\ bc' = Here(a + 1) /\ pc' = pc ELSE ~ Printing'
  <2>1. bc' = iscript.instr[x].next /\ pc \in {"code", "longcode"}
        /\ pc' = IF bc' = NULL THEN Back[pc] ELSE pc
    BY <1>4 DEF Prints
  <2>3. bc' = NULL => ~ Printing'
    BY <2>1, BackIs DEF Printing
  <2>4. bc' = (IF Flow(a) THEN Here(a + 1) ELSE NULL) /\ (Flow(a) => a + 1 \in Code /\ Here(a + 1) # NULL)
    BY <1>3, <2>1
  <2> QED
    BY <2>1, <2>3, <2>4
<1>11. Settled /\ Printing
  BY <1>4 DEF Prints, Settled, naming, Printing
<1>12. NewLines(a, Len(out) + m)
  BY <1>1, <1>2, <1>3, <1>5, <1>6, <1>7, <1>8, <1>9, <1>10, <1>11 DEF NewLines, CursorIs
<1> QED
  BY <1>12

(* which continues the text in order. *)
LEMMA CodeInvPrints ==
  ASSUME Pages, GraphIs, CodeInv, NEW a, NEW e, NewLines(a, e)
  PROVE  CodeInv'
<1>1. PICK m \in Nat : m = IF a \in Labels THEN 2 ELSE 1
  OBVIOUS
<1>2. /\ Len(out) \in Nat /\ Len(out') = Len(out) + m /\ e = Len(out') /\ Grown(m)
      /\ \A j \in 1 .. Len(out) : out'[j] = out[j] /\ at'[j] = at[j] /\ j \in 1 .. Len(out')
  BY <1>1 DEF NewLines, Grown
<1>3. /\ a \in Code /\ ~ Shown(a) /\ at'[e] = Here(a) /\ out'[e] = InstrLine(Here(a))
      /\ a \in Labels => at'[e - 1] = NULL /\ out'[e - 1] = LabelLine(Here(a))
      /\ a \in Nat /\ Here(a) # NULL /\ \A b \in Code : Here(b) # NULL
  BY DEF NewLines, GraphIs
<1>4. \A k \in 1 .. Len(out') : k \in 1 .. Len(out) \/ k = e \/ (a \in Labels /\ k = e - 1)
  BY <1>1, <1>2
<1>14. PICK n \in Nat : Len(out) = n /\ e \in Int /\ Len(out') = e /\ e = n + m
  BY <1>1, <1>2
<1>5. /\ e \in 1 .. Len(out') /\ e \notin 1 .. Len(out) /\ e - 1 \in Int /\ (e - 1) + 1 = e
      /\ Len(out') \in 1 .. Len(out') /\ at'[Len(out')] = Here(a)
      /\ a \in Labels => e - 1 \in 1 .. Len(out') /\ e - 1 = n + 1 /\ e = n + 2
      /\ a \notin Labels => e - 1 = n /\ e = n + 1
  BY <1>1, <1>3, <1>14
<1>6. Settled
  BY DEF NewLines
<1>7. ASSUME NEW b \in Code
      PROVE  /\ \A k \in 1 .. Len(out') :
                  at'[k] = Here(b) => (k \in 1 .. Len(out) /\ at[k] = Here(b)) \/ (k = e /\ b = a)
             /\ Shown(b)' <=> (Shown(b) \/ b = a)
  <2>1. ASSUME NEW k \in 1 .. Len(out'), at'[k] = Here(b)
        PROVE  (k \in 1 .. Len(out) /\ at[k] = Here(b)) \/ (k = e /\ b = a)
    BY <1>2, <1>3, <1>4, <2>1, HereIs
  <2>2. Shown(b)' => (Shown(b) \/ b = a)
    BY <2>1 DEF Shown
  <2>3. Shown(b) \/ b = a => Shown(b)'
    BY <1>2, <1>3, <1>5 DEF Shown
  <2> QED
    BY <2>1, <2>2, <2>3
<1>8. \A k \in 1 .. Len(out') : LineIs(k)'
  <2>1. \A k \in 1 .. Len(out) : LineIs(k)'
    BY <1>2, <1>6, LineStays DEF CodeInv
  <2>2. a \in Labels => LineIs(e - 1)'
    <3>1. SUFFICES ASSUME a \in Labels PROVE LineIs(e - 1)'
      OBVIOUS
    <3>2. NameLine(e - 1, a)'
      BY <1>3, <1>6, <3>1, SettledFacts DEF NameLine
    <3>3. ShownAt(a, (e - 1) + 1)'
      BY <1>3, <1>5 DEF ShownAt
    <3> QED
      BY <1>6, <3>1, <3>2, <3>3, SettledFacts DEF LineIs
  <2>3. LineIs(e)'
    <3>1. at'[e] = Here(a) /\ out'[e] = InstrLine(Here(a))' /\ a \in Code'
          /\ (a \in Labels' <=> a \in Labels) /\ Follows1(a)' = Follows1(a)
      BY <1>3, <1>6, SettledFacts
    <3>2. CASE a \in Labels
      <4>1. NameLine(e - 1, a)' /\ e - 1 \in 1 .. Len(out')
        BY <1>3, <1>5, <1>6, <3>2, SettledFacts DEF NameLine
      <4> QED
        BY <3>1, <3>2, <4>1 DEF LineIs
    <3>3. CASE a \notin Labels
      <4>1. Follows1(a) /\ ShownAt(a - 1, Len(out))
        BY <3>3 DEF NewLines
      <4>2. at'[e - 1] = Here(a - 1) /\ e - 1 \in 1 .. Len(out')
        BY <1>2, <1>5, <1>14, <3>3, <4>1 DEF ShownAt
      <4> QED
        BY <3>1, <3>3, <4>1, <4>2 DEF LineIs
    <3> QED
      BY <3>2, <3>3
  <2> QED
    BY <1>4, <2>1, <2>2, <2>3
<1>9. Once'
  <2> SUFFICES ASSUME NEW j \in 1 .. Len(out'), NEW k \in 1 .. Len(out'), at'[j] = at'[k], at'[k] # NULL
               PROVE  j = k
    BY DEF Once
  <2>1. \A i \in 1 .. Len(out) : at[i] # Here(a)
    BY <1>3 DEF Shown
  <2>2. CASE j \in 1 .. Len(out) /\ k \in 1 .. Len(out)
    BY <1>2, <2>2 DEF CodeInv, Once
  <2>3. CASE j \in 1 .. Len(out) /\ k \notin 1 .. Len(out)
    BY <1>2, <1>3, <1>4, <2>1, <2>3
  <2>4. CASE j \notin 1 .. Len(out) /\ k \in 1 .. Len(out)
    BY <1>2, <1>3, <1>4, <2>1, <2>4
  <2>5. CASE j \notin 1 .. Len(out) /\ k \notin 1 .. Len(out)
    BY <1>3, <1>4, <2>5
  <2> QED
    BY <2>2, <2>3, <2>4, <2>5
<1>10. Flowing'
  <2> SUFFICES ASSUME NEW b \in Code, NEW k \in 1 .. Len(out'), at'[k] = Here(b), Flow(b)
               PROVE  NextIs(b, k)'
    BY <1>6, SettledFacts DEF Flowing
  <2>1. CASE k = e /\ b = a
    BY <1>2, <2>1 DEF NewLines, NextIs, Printing
  <2>2. CASE k \in 1 .. Len(out) /\ at[k] = Here(b)
    <3>1. NextIs(b, k)
      BY <2>2 DEF CodeInv, Flowing
    <3>2. CASE k = Len(out) /\ bc = Here(b + 1)
      <4>1. b + 1 = a
        BY <3>2, HereIs DEF NewLines
      <4>2. ShownAt(b + 1, e)'
        BY <1>2, <1>3, <1>5, <4>1 DEF ShownAt
      <4>3. CASE a \in Labels
        <5>1. at'[k + 1] = NULL /\ out'[k + 1].is = "code" /\ k + 2 = e
          <6>1. k + 1 = e - 1 /\ k + 2 = e
            BY <1>5, <1>14, <3>2, <4>3
          <6> QED
            BY <1>3, <4>3, <6>1 DEF LabelLine
        <5> QED
          BY <4>2, <5>1 DEF NextIs
      <4>4. CASE a \notin Labels
        <5>1. k + 1 = e
          BY <1>5, <1>14, <3>2, <4>4
        <5> QED
          BY <4>2, <5>1 DEF NextIs
      <4> QED
        BY <4>3, <4>4
    <3>3. CASE ShownAt(b + 1, k + 1)
      BY <1>2, <3>3, ShownStays DEF NextIs
    <3>4. CASE ShownAt(b + 1, k + 2) /\ at[k + 1] = NULL /\ out[k + 1].is = "code"
      <4>1. k + 1 \in 1 .. Len(out)
        BY <1>2, <2>2, <3>4 DEF ShownAt
      <4> QED
        BY <1>2, <3>4, <4>1, ShownStays DEF NextIs
    <3> QED
      BY <3>1, <3>2, <3>3, <3>4 DEF NextIs
  <2> QED
    BY <1>7, <2>1, <2>2
<1>11. Printing' => \E b \in Code' : CursorIs(b)'
  <2> SUFFICES ASSUME Printing' PROVE CursorIs(a + 1)'
    BY <1>6, SettledFacts DEF CursorIs
  <2>1. Flow(a) /\ a + 1 \in Code /\ bc' = Here(a + 1)
    BY DEF NewLines
  <2>2. (a + 1) - 1 = a /\ a + 1 # a
    BY <1>3
  <2>3. Follows1(a + 1)
    BY <1>3, <2>1, <2>2 DEF Follows1
  <2>4. ~ Shown(a + 1)
    BY <1>3, <2>1, <2>2, <2>3 DEF CodeInv
  <2>5. ~ Shown(a + 1)'
    BY <1>7, <2>1, <2>2, <2>4
  <2>6. ShownAt((a + 1) - 1, Len(out))'
    BY <1>5, <2>2 DEF ShownAt
  <2> QED
    BY <1>6, <2>1, <2>5, <2>6, SettledFacts DEF CursorIs
<1>12. \A b \in Labels' : Here(b) \in done' <=> Shown(b)'
  <2> SUFFICES ASSUME NEW b \in Labels PROVE Here(b) \in done' <=> Shown(b)'
    BY <1>6, SettledFacts
  <2>1. b \in Code /\ (Here(b) \in done <=> Shown(b))
    BY DEF CodeInv, GraphIs
  <2>2. Here(b) \in done' <=> (Here(b) \in done \/ b = a)
    BY HereIs DEF NewLines
  <2> QED
    BY <1>7, <2>1, <2>2
<1>13. \A b \in Code' : Shown(b)' /\ Follows1(b)' => Shown(b - 1)'
  <2> SUFFICES ASSUME NEW b \in Code, Shown(b)', Follows1(b) PROVE Shown(b - 1)'
    BY <1>6, SettledFacts
  <2>1. b - 1 \in Code
    BY DEF Follows1
  <2>2. CASE Shown(b)
    BY <1>7, <2>1, <2>2 DEF CodeInv
  <2>3. CASE b = a
    <3>1. ShownAt(a - 1, Len(out))
      BY <2>3 DEF NewLines
    <3>2. Shown(b - 1)
      BY <2>3, <3>1 DEF ShownAt, Shown
    <3> QED
      BY <1>7, <2>1, <3>2
  <2> QED
    BY <1>7, <2>2, <2>3
<1> QED
  BY <1>8, <1>9, <1>10, <1>11, <1>12, <1>13 DEF CodeInv

-----------------------------------------------------------------------------
(* Control and the queues *)

Control ==
  /\ pc \in {"name", "header", "anim", "todo", "code", "longjmps", "longcode", "done"}
  /\ pc \in {"anim", "todo", "code"} => id \in Finished /\ animno \in Nat \ {0}
  /\ pc \in {"longjmps", "longcode", "done"} => ids = {}
  /\ pc = "done" => longjmps = <<>>

(* Where the printer is. *)
LEMMA NextControl == HeadInv /\ Control /\ [Next]_vars => Control'
<1> SUFFICES ASSUME HeadInv, Control, [Next]_vars PROVE Control'
  OBVIOUS
<1>1. ASSUME NEW st \in DOMAIN iscript.label, NameLabel(st) PROVE Control'
  BY <1>1 DEF NameLabel, Control, headers
<1>2. CASE Named
  BY <1>2 DEF Named, Control, headers
<1>3. ASSUME NEW h \in ids, PrintHeader(h) PROVE Control'
  BY <1>3 DEF PrintHeader, Control, HeadInv, Finished
<1>4. CASE NextAnim
  BY <1>4 DEF NextAnim, Control, Finished
<1>5. CASE NextHeader
  BY <1>5 DEF NextHeader, Control, headers
<1>6. CASE NextTodo
  BY <1>6 DEF NextTodo, Control, headers, Finished
<1>7. CASE TodoEmpty
  BY <1>7 DEF TodoEmpty, Control, headers, Finished
<1>8. CASE PrintInstr
  <2>1. /\ pc \in {"code", "longcode"} /\ pc' \in {pc, "todo", "longjmps"}
        /\ pc = "code" => pc' \in {"code", "todo"}
        /\ pc = "longcode" => pc' \in {"longcode", "longjmps"}
    BY <1>8, BackIs DEF PrintInstr
  <2>2. UNCHANGED <<program, ids, id, animno>>
    BY <1>8 DEF PrintInstr, headers
  <2>3. Finished' = Finished
    BY <2>2 DEF Finished
  <2> QED
    BY <2>1, <2>2, <2>3 DEF Control
<1>9. CASE LongJumps
  BY <1>9 DEF LongJumps, Control, headers
<1>10. CASE NextLong
  BY <1>10 DEF NextLong, Control, headers
<1>11. CASE Finish
  BY <1>11 DEF Finish, Control, headers
<1>12. CASE Stopped \/ UNCHANGED vars
  BY <1>12 DEF Stopped, vars, headers, Control, Finished
<1> QED
  BY <1>1, <1>2, <1>3, <1>4, <1>5, <1>6, <1>7, <1>8, <1>9, <1>10, <1>11, <1>12 DEF Next

(* The queues hold labels. *)
LEMMA QueuesGrow ==
  ASSUME NEW S, NEW q \in Seq(S), NEW st \in S
  PROVE  Append(q, st) \in Seq(S)
OBVIOUS

LEMMA HereIsLabel ==
  ASSUME NEW t \in Labels
  PROVE  Here(t) \in {0} \X Labels
BY DEF Here

LEMMA EntryIsLabel ==
  ASSUME GraphIs, NEW h, HeaderIs(h), NEW i \in DOMAIN iscript.headers[h].st_entries,
         iscript.headers[h].st_entries[i] # NULL
  PROVE  iscript.headers[h].st_entries[i] \in {0} \X Labels
<1>1. PICK anims, s : anims = iscript.headers[h].st_entries /\ s = program.headers[h]
  OBVIOUS
<1>2. \A k \in DOMAIN anims : anims[k] = NULL \/ (s[k] \in Labels /\ anims[k] = Here(s[k]))
  BY <1>1 DEF HeaderIs
<1>3. PICK t : t = s[i]
  OBVIOUS
<1>4. t \in Labels /\ anims[i] = Here(t)
  BY <1>1, <1>2, <1>3
<1> QED
  BY <1>1, <1>4, HereIsLabel

LEMMA NextQueues ==
  ASSUME Loading, CodeInv, Control, QueueInv, [Next]_vars
  PROVE  QueueInv'
<1>0. GraphIs /\ \A h \in DOMAIN program.headers : HeaderIs(h)
  BY LoadedGraphIs
<1>1. UNCHANGED program => Labels' = Labels
  BY DEF Labels
<1>2. CASE NextAnim
  <2>1. id \in DOMAIN program.headers /\ HeaderIs(id)
    BY <1>0, <1>2 DEF NextAnim, Control, Finished
  <2>2. PICK st : st = iscript.headers[id].st_entries[animno]
    OBVIOUS
  <2>3. st # NULL => st \in {0} \X Labels
    BY <1>0, <1>2, <2>1, <2>2, EntryIsLabel DEF NextAnim
  <2>4. /\ program' = program
        /\ \/ UNCHANGED <<todo, longjmps>>
           \/ st # NULL /\ longjmps' = Append(longjmps, st) /\ UNCHANGED todo
           \/ st # NULL /\ todo' = Append(todo, st) /\ UNCHANGED longjmps
    BY <1>2, <2>2 DEF NextAnim
  <2>5. PICK S : S = {0} \X Labels
    OBVIOUS
  <2>6. todo \in Seq(S) /\ longjmps \in Seq(S) /\ (st # NULL => st \in S)
    BY <2>3, <2>5 DEF QueueInv
  <2>7. todo' \in Seq(S) /\ longjmps' \in Seq(S)
    BY <2>4, <2>6, QueuesGrow
  <2> QED
    BY <1>1, <2>4, <2>5, <2>7 DEF QueueInv
<1>3. CASE PrintInstr
  <2>1. CASE Prints(bc)
    <3>1. PICK a \in Code : CursorIs(a)
      BY <2>1 DEF CodeInv, Prints, Printing
    <3>2. PICK jump : jump = iscript.instr[bc].jump
      OBVIOUS
    <3>3. jump # NULL => jump \in {0} \X Labels
      <4>1. PICK t : t = program.instr[a].target
        OBVIOUS
      <4>2. jump # NULL => jump = Here(t) /\ t \in Labels
        BY <1>0, <3>1, <3>2, <4>1 DEF GraphIs, CursorIs
      <4> QED
        BY <4>2, HereIsLabel
    <3>4. /\ program' = program
          /\ \/ UNCHANGED <<todo, longjmps>>
             \/ jump # NULL /\ longjmps' = Append(longjmps, jump) /\ UNCHANGED todo
             \/ jump # NULL /\ todo' = Append(todo, jump) /\ UNCHANGED longjmps
      BY <2>1, <3>2 DEF Prints, QueueJump
    <3>5. PICK S : S = {0} \X Labels
      OBVIOUS
    <3>6. todo \in Seq(S) /\ longjmps \in Seq(S) /\ (jump # NULL => jump \in S)
      BY <3>3, <3>5 DEF QueueInv
    <3>7. todo' \in Seq(S) /\ longjmps' \in Seq(S)
      BY <3>4, <3>6, QueuesGrow
    <3> QED
      BY <1>1, <3>4, <3>5, <3>7 DEF QueueInv
  <2>2. CASE Skips(bc)
    BY <1>1, <2>2 DEF Skips, QueueInv
  <2> QED
    BY <1>3, <2>1, <2>2, PrintInstrCases
<1>4. CASE NextTodo
  <2>1. todo # <<>> /\ todo' = Tail(todo) /\ UNCHANGED <<program, longjmps>>
    BY <1>4 DEF NextTodo, Popped
  <2>2. Tail(todo) \in Seq({0} \X Labels)
    BY <2>1, TailFacts DEF QueueInv
  <2> QED
    BY <1>1, <2>1, <2>2 DEF QueueInv
<1>5. CASE NextLong
  <2>1. longjmps # <<>> /\ longjmps' = Tail(longjmps) /\ UNCHANGED <<program, todo>>
    BY <1>5 DEF NextLong, Popped
  <2>2. Tail(longjmps) \in Seq({0} \X Labels)
    BY <2>1, TailFacts DEF QueueInv
  <2> QED
    BY <1>1, <2>1, <2>2 DEF QueueInv
<1>6. CASE UNCHANGED <<program, todo, longjmps>>
  BY <1>1, <1>6 DEF QueueInv
<1> QED
  BY <1>2, <1>3, <1>4, <1>5, <1>6 DEF Next, NameLabel, Named, PrintHeader, NextHeader, TodoEmpty,
    LongJumps, Finish, Stopped, vars

(* The code where a queued label's chain starts. *)
LEMMA StartIs ==
  ASSUME GraphIs, NEW st \in {0} \X Labels, Start(st)
  PROVE  \E a \in Labels : \E b : st = Here(a) /\ bc' = Here(b) /\ StartOf(b, a) /\ ~ Follows1(b)
<1>1. PICK a \in Labels : st = Here(a)
  BY DEF Here
<1>2. a \in Code /\ iscript.label[st].bc = Here(a)
  BY <1>1 DEF GraphIs
<1>3. PICK b : Rewind(Here(a)) = Here(b) /\ StartOf(b, a) /\ iscript.instr[Here(b)].prev = NULL
  BY <1>2, RewindFacts
<1>4. b \in Code
  BY <1>3 DEF StartOf
<1>5. ~ Follows1(b)
  <2> SUFFICES ASSUME Follows1(b) PROVE FALSE
    OBVIOUS
  <2>1. iscript.instr[Here(b)].prev = Here(b - 1) /\ b - 1 \in Code
    BY <1>4 DEF GraphIs, Follows1
  <2>2. Here(b - 1) # NULL
    BY <2>1 DEF GraphIs
  <2> QED
    BY <1>3, <2>1, <2>2
<1> QED
  BY <1>1, <1>2, <1>3, <1>5 DEF Start

(* Nothing is printed. *)
LEMMA CodeInvStays ==
  ASSUME GraphIs, CodeInv, UNCHANGED <<program, iscript, out, at, done>>,
         UNCHANGED names \/ 1 .. Len(out) = {},
         Flowing', Printing' => \E a \in Code : CursorIs(a)'
  PROVE  CodeInv'
<1>1. Code' = Code /\ Labels' = Labels /\ \A a : Follows1(a)' = Follows1(a) /\ Shown(a)' = Shown(a)
  BY DEF Code, Labels, Follows1, Flow, Shown
<1>2. \A k \in 1 .. Len(out') : LineIs(k)'
  <2>1. CASE UNCHANGED names
    <3>1. Settled
      BY <2>1 DEF Settled
    <3>2. \A k : LineIs(k)' = LineIs(k)
      BY <1>1, <3>1, SettledFacts DEF LineIs, NameLine, ShownAt
    <3> QED
      BY <3>2 DEF CodeInv
  <2>2. CASE 1 .. Len(out) = {}
    BY <2>2
  <2> QED
    BY <2>1, <2>2
<1>3. Once'
  BY DEF CodeInv, Once
<1> QED
  BY <1>1, <1>2, <1>3 DEF CodeInv

(* An instruction that was printed ends the routine. *)
LEMMA CodeInvSkips ==
  ASSUME GraphIs, CodeInv, Skips(bc)
  PROVE  CodeInv'
<1>1. PICK a \in Code : CursorIs(a)
  BY DEF CodeInv, Skips, Printing
<1>2. a \in Labels /\ Here(a) \in done
  BY <1>1 DEF GraphIs, Skips, Done, CursorIs
<1>3. Shown(a) /\ ~ Follows1(a)
  BY <1>1, <1>2 DEF CodeInv, CursorIs
<1>4. UNCHANGED <<program, iscript, names, out, at, done>> /\ ~ Printing'
  BY DEF Skips, naming, printed, Back, Printing
<1>5. Flowing'
  <2> SUFFICES ASSUME NEW b \in Code, NEW k \in 1 .. Len(out), at[k] = Here(b), Flow(b)
               PROVE  NextIs(b, k)'
    BY <1>4 DEF Flowing, Code, Flow
  <2>1. NextIs(b, k)
    BY DEF CodeInv, Flowing
  <2>2. bc # Here(b + 1)
    <3> SUFFICES ASSUME bc = Here(b + 1) PROVE FALSE
      OBVIOUS
    <3>1. a = b + 1 /\ b \in Nat
      BY <1>1, HereIs DEF CursorIs, GraphIs
    <3>2. a - 1 = b
      BY <3>1
    <3> QED
      BY <1>3, <3>2 DEF Follows1
  <2> QED
    BY <1>4, <2>1, <2>2 DEF NextIs, ShownAt
<1> QED
  BY <1>4, <1>5, CodeInvStays

(* From a state where no code is being printed. *)
LEMMA CodeInvRests ==
  ASSUME GraphIs, CodeInv, ~ Printing, UNCHANGED <<program, iscript, out, at, done>>,
         UNCHANGED names \/ 1 .. Len(out) = {},
         Printing' => \E a \in Code : bc' = Here(a) /\ ~ Follows1(a)
  PROVE  CodeInv'
<1>1. Flowing'
  <2> SUFFICES ASSUME NEW b \in Code, NEW k \in 1 .. Len(out), at[k] = Here(b), Flow(b)
               PROVE  NextIs(b, k)'
    BY DEF Flowing, Code, Flow
  <2>1. NextIs(b, k)
    BY DEF CodeInv, Flowing
  <2> QED
    BY <2>1 DEF NextIs, ShownAt
<1>2. Printing' => \E a \in Code : CursorIs(a)'
  BY DEF CursorIs, Code, Follows1, Flow
<1> QED
  BY <1>1, <1>2, CodeInvStays

(* So the code is in order after every step. *)
LEMMA NextCodeInv ==
  ASSUME Loading, HeadInv, CodeInv, QueueInv, [Next]_vars
  PROVE  CodeInv'
<1>0. GraphIs /\ Pages /\ \A h \in DOMAIN program.headers : HeaderIs(h)
  BY LoadedGraphIs DEF HeadInv
<1>1. ASSUME NEW st \in DOMAIN iscript.label, NameLabel(st) PROVE CodeInv'
  <2>1. pc = "name" /\ pc' = "name" /\ UNCHANGED <<program, iscript, out, at, done>>
    BY <1>1 DEF NameLabel, printed
  <2>2. 1 .. Len(out) = {} /\ ~ Printing /\ ~ Printing'
    BY <2>1 DEF HeadInv, Printing
  <2> QED
    BY <1>0, <2>1, <2>2, CodeInvRests
<1>2. ASSUME NEW h \in ids, PrintHeader(h) PROVE CodeInv'
  <2>1. h \in DOMAIN program.headers /\ HeaderIs(h)
    BY <1>0 DEF HeadInv
  <2>2. PICK n \in Nat : n = Size(h) /\ n = Len(program.headers[h]) + 4
    BY <2>1 DEF HeaderIs, Size
  <2>3. /\ Grown(n)
        /\ \A k \in 1 .. n : out'[Len(out) + k] = HeaderLines(h)[k] /\ at'[Len(out) + k] = NULL
    BY <1>0, <1>2, <2>1, <2>2, PrintHeaderAdds
  <2>4. \A k \in 1 .. n : HeaderLines(h)[k].is # "code"
    <3>1. HeaderLinesAre(h, Len(program.headers[h]), HeaderLines(h))
      BY <2>1, HeaderLinesFacts
    <3>2. PICK m \in Nat : m = Len(program.headers[h]) /\ n = m + 4
      BY <2>1, <2>2 DEF HeaderIs
    <3>3. ASSUME NEW k \in 1 .. n
          PROVE  k = 1 \/ k = 2 \/ k = 3 \/ k = m + 4 \/ (k - 3 \in 1 .. m /\ 3 + (k - 3) = k)
      BY <3>2
    <3>4. PICK lines : lines = HeaderLines(h)
      OBVIOUS
    <3>6. /\ lines[1] = [is |-> "start"] /\ lines[2] = Var("id", 0, h) /\ lines[3] = Var("type", 0, m)
          /\ \A i \in 1 .. m : lines[3 + i] = AnimVar(h, i)
          /\ lines[m + 4] = [is |-> "end"]
      BY <3>1, <3>2, <3>4 DEF HeaderLinesAre
    <3>7. \A v, k, x : Var(v, k, x).is = "var"
      BY DEF Var
    <3>8. \A i : AnimVar(h, i).is = "var"
      BY <3>7 DEF AnimVar
    <3>10. lines[1].is # "code" /\ lines[m + 4].is # "code"
      BY <3>6
    <3>11. lines[2].is # "code" /\ lines[3].is # "code"
      BY <3>6, <3>7
    <3>12. \A i \in 1 .. m : lines[3 + i].is # "code"
      BY <3>6, <3>8
    <3> QED
      BY <3>2, <3>3, <3>4, <3>10, <3>11, <3>12
  <2>5. Settled /\ ~ Printing /\ ~ Printing' /\ UNCHANGED done
    BY <1>2 DEF PrintHeader, Settled, naming, Printing
  <2> QED
    BY <1>0, <2>3, <2>4, <2>5, CodeInvHeader
<1>3. CASE PrintInstr
  <2>1. CASE Prints(bc)
    BY <1>0, <2>1, PrintsLines, CodeInvPrints
  <2>2. CASE Skips(bc)
    BY <1>0, <2>2, CodeInvSkips
  <2> QED
    BY <1>3, <2>1, <2>2, PrintInstrCases
<1>4. CASE NextTodo
  <2>1. Head(todo) \in {0} \X Labels /\ Start(Head(todo))
    BY <1>4, TailFacts DEF QueueInv, NextTodo
  <2>2. \E a \in Code : bc' = Here(a) /\ ~ Follows1(a)
    BY <1>0, <2>1, StartIs DEF StartOf
  <2> QED
    BY <1>0, <1>4, <2>2, CodeInvRests DEF NextTodo, naming, printed, Printing
<1>5. CASE NextLong
  <2>1. Head(longjmps) \in {0} \X Labels /\ Start(Head(longjmps))
    BY <1>5, TailFacts DEF QueueInv, NextLong
  <2>2. \E a \in Code : bc' = Here(a) /\ ~ Follows1(a)
    BY <1>0, <2>1, StartIs DEF StartOf
  <2> QED
    BY <1>0, <1>5, <2>2, CodeInvRests DEF NextLong, naming, printed, Printing
<1>6. CASE Named \/ NextAnim \/ NextHeader \/ TodoEmpty \/ LongJumps \/ Finish
  <2>1. UNCHANGED <<program, iscript, names, out, at, done>> /\ ~ Printing /\ ~ Printing'
    BY <1>6 DEF Named, NextAnim, NextHeader, TodoEmpty, LongJumps, Finish, naming, printed, Printing
  <2> QED
    BY <1>0, <2>1, CodeInvRests
<1>7. CASE UNCHANGED vars
  <2>1. UNCHANGED <<program, iscript, names, out, at, done, pc, bc>>
    BY <1>7 DEF vars, naming, printed
  <2>2. Flowing'
    BY <2>1 DEF CodeInv, Flowing, Code, Flow, NextIs, ShownAt, Printing
  <2>3. Printing' => \E a \in Code : CursorIs(a)'
    BY <2>1 DEF CodeInv, CursorIs, Code, Follows1, Flow, Shown, ShownAt, Printing
  <2> QED
    BY <1>0, <2>1, <2>2, <2>3, CodeInvStays
<1> QED
  BY <1>1, <1>2, <1>3, <1>4, <1>5, <1>6, <1>7 DEF Next, Stopped

-----------------------------------------------------------------------------
(* Every label that something printed leads to is printed or still to come. *)

Queued(q, a) == \E k \in DOMAIN q : q[k] = Here(a)
Ahead(a) == Printing /\ \E b : bc = Here(b) /\ StartOf(b, a)
Owed(a) == Here(a) \in done \/ Queued(todo, a) \/ Queued(longjmps, a) \/ Ahead(a)
ToCome(h, i) == h = id /\ i >= animno /\ pc \in {"anim", "todo", "code"}

OwedInv ==
  /\ \A a \in Code : Shown(a) /\ Jumps(program, a) => Owed(program.instr[a].target)
  /\ \A h \in Finished : \A i \in 1 .. Len(program.headers[h]) :
       program.headers[h][i] # 0 => Owed(program.headers[h][i]) \/ ToCome(h, i)

(* What is queued stays so until it is taken. *)
LEMMA QueuedStays ==
  ASSUME NEW S, NEW q \in Seq(S), NEW st \in S, NEW r, r = q \/ r = Append(q, st)
  PROVE  /\ \A a : Queued(q, a) => Queued(r, a)
         /\ \A a : r = Append(q, st) /\ st = Here(a) => Queued(r, a)
<1>1. CASE r = q
  BY <1>1, AppendFacts DEF Queued
<1>2. CASE r = Append(q, st)
  <2>1. /\ Len(q) \in Nat /\ DOMAIN q = 1 .. Len(q) /\ DOMAIN r = 1 .. Len(q) + 1
        /\ r[Len(q) + 1] = st /\ \A k \in DOMAIN q : r[k] = q[k]
    BY <1>2, AppendFacts
  <2>2. Len(q) + 1 \in DOMAIN r /\ \A k \in DOMAIN q : k \in DOMAIN r
    BY <2>1
  <2> QED
    BY <1>2, <2>1, <2>2 DEF Queued
<1> QED
  BY <1>1, <1>2

LEMMA QueuedPopped ==
  ASSUME NEW S, NEW q \in Seq(S), q # <<>>, NEW a, Queued(q, a), Head(q) # Here(a)
  PROVE  Queued(Tail(q), a)
<1>1. PICK k \in DOMAIN q : q[k] = Here(a)
  BY DEF Queued
<1>2. /\ DOMAIN q = 1 .. Len(q) /\ Len(q) \in Nat \ {0} /\ Head(q) = q[1]
      /\ DOMAIN Tail(q) = 1 .. Len(q) - 1
      /\ \A j \in DOMAIN Tail(q) : Tail(q)[j] = q[j + 1]
  BY TailFacts
<1>3. k # 1
  BY <1>1, <1>2
<1>4. k - 1 \in DOMAIN Tail(q) /\ (k - 1) + 1 = k
  BY <1>2, <1>3
<1> QED
  BY <1>1, <1>2, <1>4 DEF Queued

(* A chain is printed to its end. *)
LEMMA ChainShown ==
  ASSUME GraphIs, NEW a, NEW b, a \in Nat, StartOf(b, a), Shown(b),
         \A c \in b .. a - 1 : Shown(c) => Shown(c + 1)
  PROVE  Shown(a)
<1> DEFINE none == {c \in Nat : b <= c /\ c <= a /\ ~ Shown(c)}
<1>1. b \in Nat /\ b <= a
  BY DEF StartOf, GraphIs
<1> SUFFICES ASSUME none # {} PROVE FALSE
  BY <1>1
<1> HIDE DEF none
<1>2. none \subseteq Nat
  BY DEF none
<1>3. PICK c \in none : \A y \in none : c <= y
  BY <1>2, LeastNumber
<1>4. c \in Nat /\ b <= c /\ c <= a /\ ~ Shown(c) /\ c # b
  BY <1>3 DEF none
<1>5. c - 1 \in Nat /\ b <= c - 1 /\ c - 1 <= a /\ ~ c <= c - 1 /\ c - 1 \in b .. a - 1
      /\ (c - 1) + 1 = c
  BY <1>1, <1>4
<1>6. Shown(c - 1)
  BY <1>3, <1>5 DEF none
<1> QED
  BY <1>4, <1>5, <1>6

(* What is owed stays owed. *)
LEMMA OwedRests ==
  ASSUME ~ Printing, UNCHANGED <<done, todo, longjmps>>, NEW a, Owed(a)
  PROVE  Owed(a)'
BY DEF Owed, Ahead

(* What an instruction printed before leads to was printed with it. *)
LEMMA OwedSkips ==
  ASSUME GraphIs, CodeInv, Skips(bc), NEW a \in Labels, Owed(a)
  PROVE  Owed(a)'
<1>1. UNCHANGED <<done, todo, longjmps>>
  BY DEF Skips
<1>2. CASE ~ Ahead(a)
  BY <1>1, <1>2 DEF Owed
<1>3. CASE Ahead(a)
  <2>1. PICK b : bc = Here(b) /\ StartOf(b, a)
    BY <1>3 DEF Ahead
  <2>2. b \in Code /\ b \in Nat /\ a \in Code /\ a \in Nat
    BY <2>1 DEF StartOf, GraphIs
  <2>3. b \in Labels /\ Here(b) \in done
    BY <2>1, <2>2 DEF GraphIs, Skips, Done
  <2>4. Shown(b)
    BY <2>3 DEF CodeInv
  <2>5. ASSUME NEW c \in b .. a - 1, Shown(c) PROVE Shown(c + 1)
    <3>1. c \in Code /\ Flow(c) /\ c \in Nat /\ c + 1 # b
      BY <2>1, <2>2 DEF StartOf, GraphIs
    <3>2. PICK k \in 1 .. Len(out) : at[k] = Here(c)
      BY <2>5 DEF Shown
    <3>3. NextIs(c, k)
      BY <3>1, <3>2 DEF CodeInv, Flowing
    <3>4. bc # Here(c + 1)
      BY <2>1, <3>1, HereIs
    <3> QED
      BY <3>3, <3>4 DEF NextIs, ShownAt, Shown
  <2>6. Shown(a)
    BY <2>1, <2>2, <2>4, <2>5, ChainShown
  <2>7. Here(a) \in done
    BY <2>6 DEF CodeInv
  <2> QED
    BY <1>1, <2>7 DEF Owed
<1> QED
  BY <1>2, <1>3

(* A new instruction owes what it jumps to, which is queued. *)
LEMMA OwedPrints ==
  ASSUME GraphIs, QueueInv, Prints(bc), NEW a, NEW e, NewLines(a, e)
  PROVE  /\ \A b \in Labels : Owed(b) => Owed(b)'
         /\ Jumps(program, a) => Owed(program.instr[a].target)'
<1>1. a \in Code /\ bc = Here(a) /\ a \in Nat /\ Code' = Code /\ \A b : Flow(b)' = Flow(b)
  BY SettledFacts DEF NewLines, GraphIs
<1>8. PICK jump, S : jump = iscript.instr[bc].jump /\ S = {0} \X Labels
  OBVIOUS
<1>2. /\ jump = IF Jumps(program, a) THEN Here(program.instr[a].target) ELSE NULL
      /\ jump # NULL => jump \in S
      /\ Jumps(program, a) => jump # NULL
  <2>1. jump = IF Jumps(program, a) THEN Here(program.instr[a].target) ELSE NULL
    BY <1>1, <1>8 DEF GraphIs
  <2>2. PICK t : t = program.instr[a].target
    OBVIOUS
  <2>3. Jumps(program, a) => t \in Labels /\ Here(t) # NULL
    BY <1>1, <2>2 DEF GraphIs
  <2>4. t \in Labels => Here(t) \in S
    BY <1>8 DEF Here
  <2> QED
    BY <2>1, <2>2, <2>3, <2>4
<1>3. /\ \/ jump = NULL /\ UNCHANGED <<todo, longjmps>>
         \/ jump # NULL /\ longjmps' = Append(longjmps, jump) /\ UNCHANGED todo
         \/ jump # NULL /\ todo' = Append(todo, jump) /\ UNCHANGED longjmps
      /\ todo \in Seq(S) /\ longjmps \in Seq(S)
  BY <1>2, <1>8 DEF Prints, QueueJump, QueueInv
<1>4. \A b : (Queued(todo, b) \/ Queued(longjmps, b)) => (Queued(todo, b) \/ Queued(longjmps, b))'
  <2>1. CASE jump = NULL
    BY <1>3, <2>1 DEF Queued
  <2>2. CASE jump # NULL
    <3>1. jump \in S
      BY <1>2, <2>2
    <3>2. \A b : (Queued(todo, b) => Queued(todo', b)) /\ (Queued(longjmps, b) => Queued(longjmps', b))
      BY <1>3, <3>1, QueuedStays
    <3> QED
      BY <3>2 DEF Queued
  <2> QED
    BY <2>1, <2>2
<1>5. ASSUME NEW b \in Labels, Ahead(b) PROVE Owed(b)'
  <2>1. StartOf(a, b)
    BY <1>1, <1>5, HereIs DEF Ahead
  <2>2. CASE a = b
    <3>1. Here(b) \in done'
      BY <2>2 DEF NewLines
    <3> QED
      BY <3>1 DEF Owed
  <2>3. CASE a # b
    <3>1. b \in Nat /\ a <= b /\ a \in a .. b - 1
      BY <1>1, <2>1, <2>3 DEF StartOf, GraphIs
    <3>2. Flow(a)
      BY <2>1, <3>1 DEF StartOf
    <3>3. a + 1 \in Code /\ bc' = Here(a + 1) /\ pc' = pc /\ Printing
      BY <3>2 DEF NewLines
    <3>4. a + 1 <= b /\ \A c \in a + 1 .. b - 1 : c \in a .. b - 1
      BY <1>1, <2>3, <3>1
    <3>5. StartOf(a + 1, b)'
      BY <1>1, <2>1, <3>3, <3>4 DEF StartOf
    <3> QED
      BY <3>3, <3>5 DEF Owed, Ahead, Printing
  <2> QED
    BY <2>2, <2>3
<1>6. \A b : Here(b) \in done => Here(b) \in done'
  BY DEF Prints
<1>7. ASSUME Jumps(program, a) PROVE Owed(program.instr[a].target)'
  <2>1. PICK t : t = program.instr[a].target
    OBVIOUS
  <2>2. jump = Here(t) /\ jump # NULL /\ jump \in S
    BY <1>2, <1>7, <2>1
  <2>3. Queued(todo', t) \/ Queued(longjmps', t)
    BY <1>3, <2>2, QueuedStays
  <2>4. program' = program
    BY DEF Prints
  <2>5. Owed(t)'
    BY <2>3 DEF Owed, Queued
  <2> QED
    BY <2>1, <2>4, <2>5
<1> QED
  BY <1>4, <1>5, <1>6, <1>7 DEF Owed

Entry(h, i) == program.headers[h][i]

(* When no instruction is printed and no header.                           *)
LEMMA OwedInvStays ==
  ASSUME GraphIs, \A h \in DOMAIN program.headers : HeaderIs(h), OwedInv,
         UNCHANGED <<program, iscript, ids, at>>, Len(out') = Len(out),
         \A a \in Labels : Owed(a) => Owed(a)',
         \A h \in Finished : \A i \in 1 .. Len(program.headers[h]) :
           Entry(h, i) \in Labels /\ ToCome(h, i) => Owed(Entry(h, i))' \/ ToCome(h, i)'
  PROVE  OwedInv'
<1>1. ASSUME NEW a \in Code, Shown(a)', Jumps(program, a) PROVE Owed(program.instr[a].target)'
  <2>1. Shown(a)
    BY <1>1 DEF Shown
  <2>2. PICK t : t = program.instr[a].target
    OBVIOUS
  <2>3. t \in Labels /\ Owed(t)
    BY <1>1, <2>1, <2>2 DEF OwedInv, GraphIs
  <2>4. Owed(t)'
    BY <2>3
  <2> QED
    BY <2>2, <2>4
<1>2. ASSUME NEW h \in Finished, NEW i \in 1 .. Len(program.headers[h]), Entry(h, i) # 0
      PROVE  Owed(Entry(h, i))' \/ ToCome(h, i)'
  <2>1. PICK t : t = Entry(h, i)
    OBVIOUS
  <2>2. t \in Labels
    BY <1>2, <2>1 DEF HeaderIs, Finished, Entry
  <2>3. Owed(t) \/ ToCome(h, i)
    BY <1>2, <2>1 DEF OwedInv, Entry
  <2>4. CASE Owed(t)
    <3>1. Owed(t)'
      BY <2>2, <2>4
    <3> QED
      BY <2>1, <3>1 DEF Entry
  <2>5. CASE ToCome(h, i)
    BY <2>1, <2>2, <2>5
  <2> QED
    BY <2>3, <2>4, <2>5
<1>3. Code' = Code /\ Finished' = Finished
  BY DEF Code, Finished
<1> QED
  BY <1>1, <1>2, <1>3 DEF OwedInv, Entry

(* A new header owes its animations, which are to come. *)
LEMMA OwedInvHeader ==
  ASSUME GraphIs, \A h \in DOMAIN program.headers : HeaderIs(h), Pages, OwedInv,
         NEW h \in ids, PrintHeader(h), h \in DOMAIN program.headers
  PROVE  OwedInv'
<1>1. PICK n \in Nat : n = Len(program.headers[h]) + 4
  BY DEF HeaderIs
<1>2. /\ Grown(n) /\ Len(out) \in Nat
      /\ \A k \in 1 .. n : at'[Len(out) + k] = NULL
  <2>1. HeaderIs(h)
    OBVIOUS
  <2>2. /\ Grown(Len(program.headers[h]) + 4)
        /\ \A k \in 1 .. Len(program.headers[h]) + 4 :
             out'[Len(out) + k] = HeaderLines(h)[k] /\ at'[Len(out) + k] = NULL
    BY <2>1, PrintHeaderAdds
  <2>3. Len(out) \in Nat
    BY DEF Pages
  <2> QED
    BY <1>1, <2>2, <2>3
<1>3. /\ pc = "header" /\ pc' = "anim" /\ id' = h /\ animno' = 1
      /\ UNCHANGED <<program, iscript, todo, longjmps, done>>
      /\ Finished' \subseteq Finished \cup {h}
  BY DEF PrintHeader, Finished
<1>4. ASSUME NEW a \in Code, Shown(a)', Jumps(program, a) PROVE Owed(program.instr[a].target)'
  <2>1. Shown(a)
    <3>1. PICK k \in 1 .. Len(out') : at'[k] = Here(a)
      BY <1>4 DEF Shown
    <3>2. CASE k \in 1 .. Len(out)
      BY <1>2, <3>1, <3>2 DEF Shown, Grown
    <3>3. CASE k \notin 1 .. Len(out)
      <4>1. k - Len(out) \in 1 .. n /\ Len(out) + (k - Len(out)) = k
        BY <1>1, <1>2, <3>3 DEF Grown
      <4>2. at'[k] = NULL
        BY <1>2, <4>1
      <4> QED
        BY <3>1, <4>2 DEF GraphIs
    <3> QED
      BY <3>2, <3>3
  <2>2. PICK t : t = program.instr[a].target
    OBVIOUS
  <2>3. t \in Labels /\ Owed(t)
    BY <1>4, <2>1, <2>2 DEF OwedInv, GraphIs
  <2>4. Owed(t)'
    BY <1>3, <2>3, OwedRests DEF Printing
  <2> QED
    BY <1>3, <2>2, <2>4
<1>5. ASSUME NEW g \in Finished', NEW i \in 1 .. Len(program.headers[g]), Entry(g, i) # 0
      PROVE  Owed(Entry(g, i))' \/ ToCome(g, i)'
  <2>1. PICK t : t = Entry(g, i)
    OBVIOUS
  <2>2. CASE g = h
    <3>1. i >= 1
      BY <1>1, <2>2
    <3> QED
      BY <1>3, <2>2, <3>1 DEF ToCome
  <2>3. CASE g \in Finished
    <3>1. Owed(t)
      BY <1>3, <1>5, <2>1, <2>3 DEF OwedInv, Entry, ToCome
    <3>2. Owed(t)'
      BY <1>3, <3>1, OwedRests DEF Printing
    <3> QED
      BY <1>3, <2>1, <3>2 DEF Entry
  <2> QED
    BY <1>3, <2>2, <2>3
<1>6. Code' = Code
  BY <1>3 DEF Code
<1> QED
  BY <1>3, <1>4, <1>5, <1>6 DEF OwedInv, Entry

(* A new instruction keeps what was owed before. *)
LEMMA OwedInvPrints ==
  ASSUME GraphIs, \A h \in DOMAIN program.headers : HeaderIs(h), Pages, CodeInv, QueueInv, OwedInv,
         Prints(bc)
  PROVE  OwedInv'
<1>1. PICK a, e : NewLines(a, e)
  BY PrintsLines
<1>2. /\ \A b \in Labels : Owed(b) => Owed(b)'
      /\ Jumps(program, a) => Owed(program.instr[a].target)'
  BY <1>1, OwedPrints
<1>3. PICK m \in Nat : m = IF a \in Labels THEN 2 ELSE 1
  OBVIOUS
<1>4. /\ Len(out) \in Nat /\ Len(out') = Len(out) + m /\ Grown(m)
      /\ e = Len(out) + m /\ at'[e] = Here(a)
      /\ a \in Labels => at'[e - 1] = NULL
      /\ UNCHANGED <<program, iscript>>
  BY <1>1, <1>3 DEF NewLines, Grown, Settled
<1>5. UNCHANGED <<ids, id, animno>> /\ pc \in {"code", "longcode"}
      /\ (pc = "code" => pc' \in {"code", "todo"})
  BY BackIs DEF Prints, headers
<1>6. ASSUME NEW b \in Code, Shown(b)' PROVE Shown(b) \/ b = a
  <2>1. PICK k \in 1 .. Len(out') : at'[k] = Here(b)
    BY <1>6 DEF Shown
  <2>2. CASE k \in 1 .. Len(out)
    BY <1>4, <2>1, <2>2 DEF Shown, Grown
  <2>3. CASE k \notin 1 .. Len(out)
    <3>1. k = e \/ (a \in Labels /\ k = e - 1)
      BY <1>3, <1>4, <2>3
    <3>2. at'[k] # NULL
      BY <2>1 DEF GraphIs
    <3> QED
      BY <1>4, <2>1, <3>1, <3>2, HereIs
  <2> QED
    BY <2>2, <2>3
<1>7. ASSUME NEW b \in Code, Shown(b)', Jumps(program, b) PROVE Owed(program.instr[b].target)'
  <2>1. CASE b = a
    BY <1>2, <1>7, <2>1
  <2>2. CASE Shown(b)
    <3>1. PICK t : t = program.instr[b].target
      OBVIOUS
    <3>2. t \in Labels /\ Owed(t)
      BY <1>7, <2>2, <3>1 DEF OwedInv, GraphIs
    <3>3. Owed(t)'
      BY <1>2, <3>2
    <3> QED
      BY <1>4, <3>1, <3>3
  <2> QED
    BY <1>6, <1>7, <2>1, <2>2
<1>8. ASSUME NEW h \in Finished, NEW i \in 1 .. Len(program.headers[h]), Entry(h, i) # 0
      PROVE  Owed(Entry(h, i))' \/ ToCome(h, i)'
  <2>1. PICK t : t = Entry(h, i)
    OBVIOUS
  <2>2. t \in Labels
    BY <1>8, <2>1 DEF HeaderIs, Finished, Entry
  <2>3. Owed(t) \/ ToCome(h, i)
    BY <1>8, <2>1 DEF OwedInv, Entry
  <2>4. CASE Owed(t)
    <3>1. Owed(t)'
      BY <1>2, <2>2, <2>4
    <3> QED
      BY <1>4, <2>1, <3>1 DEF Entry
  <2>5. CASE ToCome(h, i)
    BY <1>5, <2>5 DEF ToCome
  <2> QED
    BY <2>3, <2>4, <2>5
<1>9. Code' = Code /\ Finished' = Finished
  BY <1>4, <1>5 DEF Code, Finished
<1> QED
  BY <1>4, <1>7, <1>8, <1>9 DEF OwedInv, Entry

(* A label at the head of a queue is what is printed next. *)
LEMMA OwedPopped ==
  ASSUME GraphIs, QueueInv, ~ Printing, Printing', UNCHANGED <<program, iscript, done>>,
         \/ /\ todo # <<>> /\ Start(Head(todo)) /\ todo' = Tail(todo) /\ UNCHANGED longjmps
         \/ /\ longjmps # <<>> /\ Start(Head(longjmps)) /\ longjmps' = Tail(longjmps)
            /\ UNCHANGED todo,
         NEW a \in Labels, Owed(a)
  PROVE  Owed(a)'
<1>1. PICK S : S = {0} \X Labels /\ todo \in Seq(S) /\ longjmps \in Seq(S)
  BY DEF QueueInv
<1>2. CASE Here(a) \in done
  BY <1>2 DEF Owed
<1>3. ASSUME Start(Here(a)) PROVE Owed(a)'
  <2>1. Here(a) \in {0} \X Labels
    BY DEF Here
  <2>2. PICK c \in Labels : \E b : Here(a) = Here(c) /\ bc' = Here(b) /\ StartOf(b, c)
    BY <1>3, <2>1, StartIs
  <2>3. PICK b : bc' = Here(b) /\ StartOf(b, a)
    BY <2>2, HereIs
  <2>4. StartOf(b, a)'
    BY <2>3 DEF StartOf, Code, Flow
  <2> QED
    BY <2>3, <2>4 DEF Owed, Ahead
<1>4. CASE /\ todo # <<>> /\ Start(Head(todo)) /\ todo' = Tail(todo) /\ UNCHANGED longjmps
           /\ Queued(todo, a)
  <2>1. CASE Head(todo) = Here(a)
    BY <1>3, <1>4, <2>1
  <2>2. CASE Head(todo) # Here(a)
    BY <1>1, <1>4, <2>2, QueuedPopped DEF Owed
  <2> QED
    BY <2>1, <2>2
<1>5. CASE /\ longjmps # <<>> /\ Start(Head(longjmps)) /\ longjmps' = Tail(longjmps)
           /\ UNCHANGED todo /\ Queued(longjmps, a)
  <2>1. CASE Head(longjmps) = Here(a)
    BY <1>3, <1>5, <2>1
  <2>2. CASE Head(longjmps) # Here(a)
    BY <1>1, <1>5, <2>2, QueuedPopped DEF Owed
  <2> QED
    BY <2>1, <2>2
<1>6. CASE Queued(todo, a) /\ UNCHANGED todo
  BY <1>6 DEF Owed, Queued
<1>7. CASE Queued(longjmps, a) /\ UNCHANGED longjmps
  BY <1>7 DEF Owed, Queued
<1> QED
  BY <1>2, <1>4, <1>5, <1>6, <1>7 DEF Owed, Ahead

(* So nothing is forgotten. *)
LEMMA NextOwedInv ==
  ASSUME Loading, HeadInv, CodeInv, Control, QueueInv, OwedInv, [Next]_vars
  PROVE  OwedInv'
<1>0. GraphIs /\ Pages /\ \A h \in DOMAIN program.headers : HeaderIs(h)
  BY LoadedGraphIs DEF HeadInv
<1>1. ASSUME NEW st \in DOMAIN iscript.label, NameLabel(st) PROVE OwedInv'
  <2>1. ~ Printing /\ UNCHANGED <<program, iscript, ids, at, out, done, todo, longjmps, id, animno, pc>>
    BY <1>1 DEF NameLabel, headers, printed, Printing
  <2>2. \A a \in Labels : Owed(a) => Owed(a)'
    BY <2>1, OwedRests
  <2> QED
    BY <1>0, <2>1, <2>2, OwedInvStays DEF ToCome
<1>2. ASSUME NEW h \in ids, PrintHeader(h) PROVE OwedInv'
  BY <1>0, <1>2, OwedInvHeader DEF HeadInv
<1>3. CASE PrintInstr
  <2>1. CASE Prints(bc)
    BY <1>0, <2>1, OwedInvPrints
  <2>2. CASE Skips(bc)
    <3>1. /\ UNCHANGED <<program, iscript, ids, at, out, id, animno>>
          /\ pc = "code" => pc' = "todo"
      BY <2>2 DEF Skips, headers, printed, Back
    <3>2. \A a \in Labels : Owed(a) => Owed(a)'
      BY <1>0, <2>2, OwedSkips
    <3>3. \A h, i : ToCome(h, i) => ToCome(h, i)'
      BY <2>2, <3>1 DEF ToCome, Skips
    <3> QED
      BY <1>0, <3>1, <3>2, <3>3, OwedInvStays
  <2> QED
    BY <1>3, <2>1, <2>2, PrintInstrCases
<1>4. CASE NextTodo
  <2>1. /\ ~ Printing /\ Printing' /\ UNCHANGED <<program, iscript, ids, at, out, done, id, animno>>
        /\ todo # <<>> /\ Start(Head(todo)) /\ todo' = Tail(todo) /\ UNCHANGED longjmps
        /\ pc' = "code"
    BY <1>4 DEF NextTodo, Popped, headers, printed, Printing
  <2>2. \A a \in Labels : Owed(a) => Owed(a)'
    BY <1>0, <2>1, OwedPopped
  <2>3. \A h, i : ToCome(h, i) => ToCome(h, i)'
    BY <2>1 DEF ToCome
  <2> QED
    BY <1>0, <2>1, <2>2, <2>3, OwedInvStays
<1>5. CASE NextLong
  <2>1. /\ ~ Printing /\ Printing' /\ UNCHANGED <<program, iscript, ids, at, out, done, id, animno>>
        /\ longjmps # <<>> /\ Start(Head(longjmps)) /\ longjmps' = Tail(longjmps) /\ UNCHANGED todo
        /\ pc = "longjmps"
    BY <1>5 DEF NextLong, Popped, headers, printed, Printing
  <2>2. \A a \in Labels : Owed(a) => Owed(a)'
    BY <1>0, <2>1, OwedPopped
  <2>3. \A h, i : ~ ToCome(h, i)
    BY <2>1 DEF ToCome
  <2> QED
    BY <1>0, <2>1, <2>2, <2>3, OwedInvStays
<1>6. CASE NextAnim
  <2>1. /\ pc = "anim" /\ ~ Printing /\ UNCHANGED <<program, iscript, ids, at, out, done, id>>
        /\ animno' = animno + 1 /\ animno \in Nat \ {0} /\ pc' \in {"anim", "todo"}
        /\ id \in DOMAIN program.headers
    BY <1>6 DEF NextAnim, printed, Printing, Control, Finished
  <2>2. PICK st, S : st = iscript.headers[id].st_entries[animno] /\ S = {0} \X Labels
    OBVIOUS
  <2>3. st # NULL => st \in S
    BY <1>0, <1>6, <2>1, <2>2, EntryIsLabel DEF NextAnim
  <2>4. /\ todo \in Seq(S) /\ longjmps \in Seq(S)
        /\ \/ st = NULL /\ UNCHANGED <<todo, longjmps>>
           \/ st # NULL /\ longjmps' = Append(longjmps, st) /\ UNCHANGED todo
           \/ st # NULL /\ todo' = Append(todo, st) /\ UNCHANGED longjmps
    BY <1>6, <2>2 DEF NextAnim, QueueInv
  <2>5. /\ \A b : Queued(todo, b) => Queued(todo', b)
        /\ \A b : Queued(longjmps, b) => Queued(longjmps', b)
        /\ \A b : st # NULL /\ st = Here(b) => Queued(todo', b) \/ Queued(longjmps', b)
    <3>1. CASE st = NULL
      BY <2>4, <3>1
    <3>2. CASE st # NULL
      BY <2>3, <2>4, <3>2, QueuedStays
    <3> QED
      BY <3>1, <3>2
  <2>6. \A a \in Labels : Owed(a) => Owed(a)'
    BY <2>1, <2>5 DEF Owed, Ahead, Queued
  <2>7. ASSUME NEW h \in Finished, NEW i \in 1 .. Len(program.headers[h]), Entry(h, i) \in Labels,
               ToCome(h, i)
        PROVE  Owed(Entry(h, i))' \/ ToCome(h, i)'
    <3>0. h = id /\ i >= animno /\ i \in Nat
      BY <2>1, <2>7 DEF ToCome
    <3>1. CASE i = animno
      <4>1. PICK t : t = Entry(h, i)
        OBVIOUS
      <4>2. HeaderIs(id)
        BY <1>0, <2>1
      <4>3. st = Here(t)
        <5>1. 0 \notin Labels
          BY <1>0 DEF GraphIs
        <5> QED
          BY <2>2, <2>7, <3>0, <3>1, <4>1, <4>2, <5>1 DEF HeaderIs, Entry
      <4>4. st # NULL
        BY <1>0, <2>7, <4>1, <4>3 DEF GraphIs
      <4>5. Queued(todo', t) \/ Queued(longjmps', t)
        BY <2>5, <4>3, <4>4
      <4>6. Owed(t)'
        BY <4>5 DEF Owed, Queued
      <4> QED
        BY <2>1, <4>1, <4>6 DEF Entry
    <3>2. CASE i # animno
      BY <2>1, <3>0, <3>2 DEF ToCome
    <3> QED
      BY <3>1, <3>2
  <2> QED
    BY <1>0, <2>1, <2>6, <2>7, OwedInvStays
<1>7. CASE NextHeader
  <2>1. /\ pc = "anim" /\ ~ Printing
        /\ UNCHANGED <<program, iscript, ids, at, out, done, id, animno, todo, longjmps>>
        /\ animno \in Nat \ {0} /\ id \in DOMAIN program.headers
    BY <1>7 DEF NextHeader, headers, printed, Printing, Control, Finished
  <2>2. \A a \in Labels : Owed(a) => Owed(a)'
    BY <2>1, OwedRests
  <2>3. ASSUME NEW h \in Finished, NEW i \in 1 .. Len(program.headers[h]), ToCome(h, i)
        PROVE  FALSE
    <3>1. HeaderIs(id)
      BY <1>0, <2>1
    <3>2. h = id /\ i >= animno
      BY <2>3 DEF ToCome
    <3>3. PICK n \in Nat : n = Len(program.headers[id])
      BY <3>1 DEF HeaderIs
    <3>4. animno \notin 1 .. n
      BY <1>7, <3>1, <3>3 DEF NextHeader, HeaderIs
    <3> QED
      BY <2>1, <3>2, <3>3, <3>4
  <2> QED
    BY <1>0, <2>1, <2>2, <2>3, OwedInvStays
<1>8. CASE Named \/ TodoEmpty \/ LongJumps \/ Finish
  <2>1. /\ ~ Printing
        /\ UNCHANGED <<program, iscript, ids, at, out, done, id, animno, todo, longjmps>>
        /\ pc \in {"name", "header", "todo", "longjmps"} /\ (pc = "todo" => pc' = "anim")
    BY <1>8 DEF Named, TodoEmpty, LongJumps, Finish, headers, printed, Printing
  <2>2. \A a \in Labels : Owed(a) => Owed(a)'
    BY <2>1, OwedRests
  <2>3. \A h, i : ToCome(h, i) => ToCome(h, i)'
    BY <2>1 DEF ToCome
  <2> QED
    BY <1>0, <2>1, <2>2, <2>3, OwedInvStays
<1>9. CASE UNCHANGED vars
  <2>1. UNCHANGED <<program, iscript, ids, at, out, done, id, animno, todo, longjmps, pc, bc>>
    BY <1>9 DEF vars, headers, printed
  <2>2. \A a : Owed(a) => Owed(a)'
    BY <2>1 DEF Owed, Ahead, Queued, Printing, StartOf, Code, Flow
  <2>3. \A h, i : ToCome(h, i) => ToCome(h, i)'
    BY <2>1 DEF ToCome
  <2> QED
    BY <1>0, <2>1, <2>2, <2>3, OwedInvStays
<1> QED
  BY <1>1, <1>2, <1>3, <1>4, <1>5, <1>6, <1>7, <1>8, <1>9 DEF Next, Stopped

-----------------------------------------------------------------------------
(* The invariant *)

PrintInv ==
  /\ Loading /\ NamedInv /\ HeadInv /\ CodeInv /\ Control /\ QueueInv /\ OwedInv

(* It holds at first, *)
LEMMA InitPrintInv == Init => PrintInv
<1> SUFFICES ASSUME Init PROVE PrintInv
  OBVIOUS
<1>1. Loading
  BY DEF Init, Loading
<1>2. GraphIs /\ HeadInv
  BY <1>1, LoadedGraphIs, InitHeadInv
<1>3. NamedInv
  BY FS_EmptySet DEF Init, NamedInv, NamesInv, NamesUnique
<1>4. /\ pc = "name" /\ todo = <<>> /\ longjmps = <<>> /\ done = {} /\ 1 .. Len(out) = {}
      /\ ids = DOMAIN program.headers
  BY DEF Init
<1>5. \A a : ~ Shown(a)
  BY <1>4 DEF Shown
<1>6. CodeInv
  BY <1>4, <1>5 DEF CodeInv, Once, Flowing, Printing
<1>7. Control /\ QueueInv
  BY <1>4 DEF Control, QueueInv
<1>8. OwedInv
  BY <1>4, <1>5 DEF OwedInv, Finished
<1> QED
  BY <1>1, <1>2, <1>3, <1>6, <1>7, <1>8 DEF PrintInv

(* and after every step. *)
LEMMA NextPrintInv == PrintInv /\ [Next]_vars => PrintInv'
BY NextLoading, NextNamed, NextHeadInv, NextCodeInv, NextControl, NextQueues, NextOwedInv
DEF PrintInv

-----------------------------------------------------------------------------
(* When the printer is done *)

BlocksAll(off) ==
  /\ \A h \in DOMAIN program.headers : BlockAt(h, off[h])
  /\ \A k \in 1 .. Len(out) :
       \/ out[k].is = "code"
       \/ \E h \in DOMAIN program.headers : off[h] < k /\ k <= off[h] + Size(h)

(* All code has been printed. *)
Text ==
  /\ GraphIs /\ Pages
  /\ DOMAIN iscript.headers = DOMAIN program.headers
  /\ \A h \in DOMAIN program.headers : HeaderIs(h)
  /\ \A k \in 1 .. Len(out) : LineIs(k)
  /\ Once
  /\ \A a \in Code : Shown(a)
  /\ \A a \in Code : \A k \in 1 .. Len(out) : at[k] = Here(a) /\ Flow(a) =>
       \/ ShownAt(a + 1, k + 1)
       \/ ShownAt(a + 1, k + 2) /\ at[k + 1] = NULL
  /\ NamesUnique /\ DOMAIN names = {0} \X Labels
  /\ \A a \in Labels : names[Here(a)] \in LabelName
  /\ \E off : BlocksAll(off)

(* In the end all that is owed has been printed, *)
LEMMA OwedIsShown ==
  ASSUME PrintInv, pc = "done", NothingLost, NEW a \in Labels, Owed(a)
  PROVE  Shown(a)
<1>1. longjmps = <<>> /\ ~ Printing
  BY DEF PrintInv, Control, Printing
<1>2. ~ Queued(longjmps, a) /\ ~ Ahead(a)
  BY <1>1 DEF Queued, Ahead
<1>3. Queued(todo, a) => Here(a) \in done
  BY DEF Queued, NothingLost
<1> QED
  BY <1>2, <1>3 DEF Owed, PrintInv, CodeInv

(* so all that the program executes has been. *)
LEMMA AllIsPrinted ==
  ASSUME PrintInv, pc = "done", NothingLost
  PROVE  Text
<1>1. /\ GraphIs /\ Pages /\ DOMAIN iscript.headers = DOMAIN program.headers
      /\ \A h \in DOMAIN program.headers : HeaderIs(h)
  BY LoadedGraphIs DEF PrintInv, HeadInv
<1>2. ~ Printing /\ Finished = DOMAIN program.headers /\ CodeInv
  BY DEF PrintInv, Control, Printing, Finished
<1>3. \A a \in Code : \A k \in 1 .. Len(out) : at[k] = Here(a) /\ Flow(a) =>
        \/ ShownAt(a + 1, k + 1)
        \/ ShownAt(a + 1, k + 2) /\ at[k + 1] = NULL
  BY <1>2 DEF CodeInv, Flowing, NextIs
<1>4. \A a \in Code : Shown(a)
  <2> DEFINE T == {a \in Code : Shown(a)}
  <2>1. ASSUME NEW h \in DOMAIN program.headers PROVE Entries(program, h) \subseteq T
    <3> SUFFICES ASSUME NEW x \in Entries(program, h) PROVE x \in T
      OBVIOUS
    <3>1. HeaderIs(h)
      BY <1>1
    <3>2. PICK i \in 1 .. Len(program.headers[h]) : x = program.headers[h][i] /\ x # 0
      BY <3>1 DEF Entries, HeaderIs
    <3>3. x \in Labels /\ x \in Code
      BY <1>1, <3>1, <3>2 DEF HeaderIs, GraphIs
    <3>4. Owed(x)
      BY <1>2, <3>2 DEF PrintInv, OwedInv, ToCome
    <3> QED
      BY <3>3, <3>4, OwedIsShown
  <2>2. ASSUME NEW a \in T \cap CodeOf(program) PROVE Succ(program, a) \subseteq T
    <3>0. a \in Code /\ Shown(a)
      OBVIOUS
    <3>1. Flow(a) => a + 1 \in T
      <4> SUFFICES ASSUME Flow(a) PROVE a + 1 \in T
        OBVIOUS
      <4>1. PICK k \in 1 .. Len(out) : at[k] = Here(a)
        BY <3>0 DEF Shown
      <4>2. Shown(a + 1)
        BY <1>3, <3>0, <4>1 DEF ShownAt, Shown
      <4> QED
        BY <1>1, <3>0, <4>2 DEF GraphIs
    <3>2. Jumps(program, a) => program.instr[a].target \in T
      <4> SUFFICES ASSUME Jumps(program, a) PROVE program.instr[a].target \in T
        OBVIOUS
      <4>1. PICK t : t = program.instr[a].target
        OBVIOUS
      <4>2. t \in Labels /\ t \in Code /\ Owed(t)
        BY <1>1, <3>0, <4>1 DEF GraphIs, PrintInv, OwedInv
      <4> QED
        BY <4>1, <4>2, OwedIsShown
    <3> QED
      BY <3>1, <3>2 DEF Succ, Flow
  <2>3. Code \subseteq T
    <3> HIDE DEF T
    <3> QED
      BY <1>1, <2>1, <2>2, CodeFacts DEF GraphIs, Code
  <2> QED
    BY <2>3
<1>5. /\ NamesUnique /\ DOMAIN names = {0} \X Labels
      /\ \A a \in Labels : names[Here(a)] \in LabelName
  <2>1. NamesUnique /\ DOMAIN names = {0} \X Labels /\ \A st \in DOMAIN names : names[st] \in LabelName
    BY <1>1 DEF PrintInv, NamedInv, NamesInv, GraphIs
  <2>2. \A a \in Labels : Here(a) \in {0} \X Labels
    BY DEF Here
  <2> QED
    BY <2>1, <2>2
<1>6. \E off : BlocksAll(off)
  <2>1. PICK off : BlocksAt(off)
    BY DEF PrintInv, HeadInv
  <2>2. BlocksAll(off)
    BY <1>2, <2>1 DEF BlocksAt, BlocksAll
  <2> QED
    BY <2>2
<1> QED
  BY <1>1, <1>2, <1>3, <1>4, <1>5, <1>6 DEF Text, CodeInv

-----------------------------------------------------------------------------
(* The text as a source: its code *)

LEMMA SameLen == ASSUME NEW s PROVE Source!Len(s) = Len(s)
OBVIOUS

LEMMA SameCardinality == ASSUME NEW S PROVE Source!Cardinality(S) = Cardinality(S)
BY DEF Source!Cardinality, Cardinality

(* The closure of IscriptSource is that of IscriptGraph. *)
LEMMA SameClosure ==
  ASSUME NEW S, NEW next
  PROVE  Source!Closure(S, next) = Closure(S, next)
BY SameCardinality DEF Source!Closure, Closure

(* Line k is the name of the label at a, or the instruction a. *)
NameOf(k, a) == a \in Labels /\ NameLine(k, a) /\ k \in 1 .. Len(out) /\ ShownAt(a, k + 1)
InstrAt(k, a) == a \in Code /\ ShownAt(a, k) /\ out[k] = InstrLine(Here(a))

LEMMA LabelLineIs ==
  ASSUME NEW k, NEW a, NameOf(k, a)
  PROVE  /\ out[k].is = "code" /\ out[k].op = "none" /\ out[k].names = <<names[Here(a)]>>
         /\ at[k] = NULL /\ k \in 1 .. Len(out)
BY DEF NameOf, NameLine, LabelLine

LEMMA InstrLineIs ==
  ASSUME GraphIs, NEW k, NEW a, InstrAt(k, a)
  PROVE  /\ out[k].is = "code" /\ out[k].op = program.instr[a].kind /\ out[k].names = <<>>
         /\ out[k].op \in Kinds
         /\ Jumps(program, a) => out[k].label = names[Here(program.instr[a].target)]
         /\ at[k] = Here(a) /\ at[k] # NULL /\ k \in 1 .. Len(out)
<1>1. a \in Code /\ Here(a) # NULL /\ program.instr[a].kind \in Kinds
  BY DEF InstrAt, GraphIs
<1>2. PICK i : i = Here(a)
  OBVIOUS
<1>3. i[2] = a
  BY <1>2 DEF Here
<1>4. /\ out[k].is = "code" /\ out[k].names = <<>> /\ out[k].op = program.instr[a].kind
      /\ out[k].label = IF iscript.instr[i].jump = NULL THEN NoName
                        ELSE names[iscript.instr[i].jump]
  BY <1>2, <1>3 DEF InstrAt, InstrLine
<1>5. Jumps(program, a) => out[k].label = names[Here(program.instr[a].target)]
  <2> SUFFICES ASSUME Jumps(program, a) PROVE out[k].label = names[Here(program.instr[a].target)]
    OBVIOUS
  <2>1. PICK t : t = program.instr[a].target
    OBVIOUS
  <2>2. t \in Labels /\ t \in Code /\ iscript.instr[i].jump = Here(t)
    BY <1>1, <1>2, <2>1 DEF GraphIs
  <2>3. Here(t) # NULL
    BY <2>2 DEF GraphIs
  <2> QED
    BY <1>4, <2>1, <2>2, <2>3
<1> QED
  BY <1>1, <1>4, <1>5 DEF InstrAt, ShownAt

(* Every line of code is one of these. *)
LEMMA CodeLines ==
  ASSUME Text, NEW k \in 1 .. Len(out)
  PROVE  /\ out[k].is = "code" => \E a : NameOf(k, a) \/ InstrAt(k, a)
         /\ at[k] # NULL => \E a : InstrAt(k, a)
         /\ \A a : at[k] = Here(a) /\ a \in Code => InstrAt(k, a)
<1>1. LineIs(k) /\ GraphIs
  BY DEF Text
<1>2. CASE at[k] = NULL /\ out[k].is # "code"
  BY <1>1, <1>2 DEF GraphIs
<1>3. ASSUME NEW a \in Labels, NameLine(k, a), ShownAt(a, k + 1)
      PROVE  NameOf(k, a) /\ at[k] = NULL
  BY <1>3 DEF NameOf, NameLine
<1>4. ASSUME NEW a \in Code, at[k] = Here(a), out[k] = InstrLine(Here(a))
      PROVE  InstrAt(k, a) /\ \A c : at[k] = Here(c) => c = a
  BY <1>4, HereIs DEF InstrAt, ShownAt
<1>5. \A c : at[k] = Here(c) /\ c \in Code => at[k] # NULL
  BY <1>1 DEF GraphIs
<1> QED
  BY <1>1, <1>2, <1>3, <1>4, <1>5 DEF LineIs

(* The line of an instruction, and before it that of its name. *)
LEMMA PlaceOf ==
  ASSUME Text, NEW a \in Code
  PROVE  \E k : InstrAt(k, a) /\ (\A j : InstrAt(j, a) => j = k)
<1>1. PICK k \in 1 .. Len(out) : at[k] = Here(a)
  BY DEF Text, Shown
<1>2. InstrAt(k, a)
  BY <1>1, CodeLines
<1>3. ASSUME NEW j, InstrAt(j, a) PROVE j = k
  <2>1. j \in 1 .. Len(out) /\ at[j] = Here(a) /\ Here(a) # NULL
    BY <1>3 DEF InstrAt, ShownAt, Text, GraphIs
  <2> QED
    BY <1>1, <2>1 DEF Text, Once
<1> QED
  BY <1>2, <1>3

(* Before an instruction comes its name or the code it follows. *)
LEMMA BeforeInstr ==
  ASSUME Text, NEW k, NEW a, InstrAt(k, a)
  PROVE  /\ a \in Labels => NameOf(k - 1, a)
         /\ a \notin Labels => Follows1(a) /\ InstrAt(k - 1, a - 1)
         /\ k \in Nat
<1>1. k \in 1 .. Len(out) /\ LineIs(k) /\ at[k] = Here(a) /\ at[k] # NULL /\ a \in Code
  BY InstrLineIs DEF InstrAt, ShownAt, Text
<1>2. out[k].names = <<>> /\ \A c \in Labels : LabelLine(Here(c)).names # <<>>
  BY InstrLineIs DEF Text, LabelLine
<1>3. /\ k - 1 \in 1 .. Len(out)
      /\ IF a \in Labels THEN NameLine(k - 1, a) ELSE Follows1(a) /\ at[k - 1] = Here(a - 1)
  <2>1. PICK c \in Code : /\ at[k] = Here(c) /\ k - 1 \in 1 .. Len(out)
                          /\ IF c \in Labels THEN NameLine(k - 1, c)
                             ELSE Follows1(c) /\ at[k - 1] = Here(c - 1)
    BY <1>1 DEF LineIs, NameLine
  <2>2. c = a
    BY <1>1, <2>1, HereIs
  <2> QED
    BY <2>1, <2>2
<1>4. k \in Nat /\ (k - 1) + 1 = k
  BY <1>1 DEF Text, Pages
<1>5. a \in Labels => NameOf(k - 1, a)
  BY <1>3, <1>4 DEF NameOf, InstrAt
<1>6. a \notin Labels => InstrAt(k - 1, a - 1)
  BY <1>3, CodeLines DEF Follows1
<1> QED
  BY <1>3, <1>4, <1>5, <1>6

(* The lines of instructions are those printed at one. *)
LEMMA IsCode ==
  ASSUME Text
  PROVE  /\ DOMAIN out = 1 .. Len(out) /\ Len(out) \in Nat
         /\ \A k, what : k \in Source!Is(out, what) <=> k \in 1 .. Len(out) /\ out[k].is = what
         /\ Source!OpLines(out) \subseteq Nat
         /\ \A k : k \in Source!OpLines(out) <=> k \in 1 .. Len(out) /\ at[k] # NULL
         /\ \A k : k \in Source!OpLines(out) <=> \E a : InstrAt(k, a)
<1>1. DOMAIN out = 1 .. Len(out) /\ Len(out) \in Nat
  BY DEF Text, Pages
<1>2. \A k, what : k \in Source!Is(out, what) <=> k \in 1 .. Len(out) /\ out[k].is = what
  BY <1>1 DEF Source!Is
<1>3. ASSUME NEW k PROVE k \in Source!OpLines(out) <=> \E a : InstrAt(k, a)
  <2>1. ASSUME k \in Source!OpLines(out) PROVE \E a : InstrAt(k, a)
    <3>1. k \in 1 .. Len(out) /\ out[k].is = "code" /\ out[k].op # "none"
      BY <1>2, <2>1 DEF Source!OpLines
    <3>2. PICK a : NameOf(k, a) \/ InstrAt(k, a)
      BY <3>1, CodeLines
    <3> QED
      BY <3>1, <3>2, LabelLineIs
  <2>2. ASSUME NEW a, InstrAt(k, a) PROVE k \in Source!OpLines(out)
    <3>1. k \in 1 .. Len(out) /\ out[k].is = "code" /\ out[k].op \in Kinds
      BY <2>2, InstrLineIs DEF Text
    <3> QED
      BY <1>2, <3>1 DEF Source!OpLines, Kinds
  <2> QED
    BY <2>1, <2>2
<1>4. ASSUME NEW k PROVE (\E a : InstrAt(k, a)) <=> k \in 1 .. Len(out) /\ at[k] # NULL
  <2>1. ASSUME NEW a, InstrAt(k, a) PROVE k \in 1 .. Len(out) /\ at[k] # NULL
    BY <2>1, InstrLineIs DEF Text
  <2> QED
    BY <2>1, CodeLines
<1> QED
  BY <1>1, <1>2, <1>3, <1>4, SMTT(30)

(* What a name and an instruction mark, and the names. *)
LEMMA MarkedAre ==
  ASSUME Text
  PROVE  /\ \A k \in Source!OpLines(out) : Source!Marked(out, k) = k
         /\ \A k, a : NameOf(k, a) => /\ InstrAt(k + 1, a)
                                     /\ Source!Marked(out, k) = k + 1
<1> DEFINE ops == Source!OpLines(out)
<1>1. ops \subseteq Nat
  BY IsCode
<1>2. ASSUME NEW k \in ops PROVE Source!Marked(out, k) = k
  <2>1. \A j \in ops : (j >= k /\ \A i \in ops : i >= k => j <= i) <=> j = k
    BY <1>1
  <2> HIDE DEF ops
  <2>2. Source!Marked(out, k) = CHOOSE j \in ops : j >= k /\ \A i \in ops : i >= k => j <= i
    BY DEF ops, Source!Marked
  <2> QED
    BY <2>1, <2>2
<1>3. ASSUME NEW k, NEW a, NameOf(k, a)
      PROVE  InstrAt(k + 1, a) /\ Source!Marked(out, k) = k + 1
  <2>1. a \in Code /\ at[k + 1] = Here(a) /\ k + 1 \in 1 .. Len(out)
    BY <1>3 DEF NameOf, ShownAt, Text, GraphIs
  <2>2. InstrAt(k + 1, a)
    BY <2>1, CodeLines
  <2>3. k + 1 \in ops /\ k \notin ops /\ k \in Nat
    BY <1>3, <2>2, IsCode, LabelLineIs DEF NameOf
  <2>4. \A j \in ops : (j >= k /\ \A i \in ops : i >= k => j <= i) <=> j = k + 1
    BY <1>1, <2>3
  <2> HIDE DEF ops
  <2>5. Source!Marked(out, k) = CHOOSE j \in ops : j >= k /\ \A i \in ops : i >= k => j <= i
    BY DEF ops, Source!Marked
  <2> QED
    BY <2>2, <2>3, <2>4, <2>5
<1> QED
  BY <1>2, <1>3

(* The names in the text are those of the labels, each in one line. *)
LEMMA NamesAre ==
  ASSUME Text
  PROVE  /\ \A k, a : NameOf(k, a) => Source!NamesAt(out, k) = {names[Here(a)]}
         /\ \A k, a : InstrAt(k, a) => Source!NamesAt(out, k) = {}
         /\ \A k \in Source!Is(out, "code") : \A name \in Source!NamesAt(out, k) :
              \E a : NameOf(k, a) /\ name = names[Here(a)]
         /\ Source!Names(out) = {names[Here(a)] : a \in Labels}
<1>1. ASSUME NEW k, NEW a, NameOf(k, a) PROVE Source!NamesAt(out, k) = {names[Here(a)]}
  <2>1. PICK s, x : s = out[k].names /\ x = names[Here(a)]
    OBVIOUS
  <2>2. s = <<x>>
    BY <1>1, <2>1, LabelLineIs
  <2>3. {s[m] : m \in DOMAIN s} = {x}
    BY <2>2
  <2> QED
    BY <2>1, <2>3 DEF Source!NamesAt
<1>2. ASSUME NEW k, NEW a, InstrAt(k, a) PROVE Source!NamesAt(out, k) = {}
  <2>1. out[k].names = <<>>
    BY <1>2, InstrLineIs DEF Text
  <2> QED
    BY <2>1 DEF Source!NamesAt
<1>3. ASSUME NEW k \in Source!Is(out, "code"), NEW name \in Source!NamesAt(out, k)
      PROVE  \E a : NameOf(k, a) /\ name = names[Here(a)]
  <2>1. PICK a : NameOf(k, a) \/ InstrAt(k, a)
    BY CodeLines, IsCode
  <2> QED
    BY <1>1, <1>2, <2>1
<1>4. ASSUME NEW a \in Labels PROVE names[Here(a)] \in Source!Names(out)
  <2>1. a \in Code
    BY DEF Text, GraphIs
  <2>2. PICK k : InstrAt(k, a)
    BY <2>1, PlaceOf
  <2>3. NameOf(k - 1, a)
    BY <2>2, BeforeInstr
  <2>4. k - 1 \in Source!Is(out, "code")
    BY <2>3, LabelLineIs, IsCode DEF NameOf
  <2> QED
    BY <1>1, <2>3, <2>4 DEF Source!Names
<1>5. ASSUME NEW name \in Source!Names(out) PROVE name \in {names[Here(a)] : a \in Labels}
  <2>1. PICK k \in Source!Is(out, "code") : name \in Source!NamesAt(out, k)
    BY DEF Source!Names
  <2>2. PICK a : NameOf(k, a) /\ name = names[Here(a)]
    BY <1>3, <2>1
  <2> QED
    BY <2>2 DEF NameOf
<1> QED
  BY <1>1, <1>2, <1>3, <1>4, <1>5

(* A name is of one label. *)
LEMMA NamesDiffer ==
  ASSUME Text, NEW a \in Labels, NEW c \in Labels, names[Here(a)] = names[Here(c)]
  PROVE  a = c
<1>1. Here(a) \in DOMAIN names /\ Here(c) \in DOMAIN names
  BY DEF Text, Here
<1>2. Here(a) = Here(c)
  BY <1>1 DEF Text, NamesUnique
<1> QED
  BY <1>2, HereIs

(* The name of a label leads to its instruction. *)
LEMMA TargetIs ==
  ASSUME Text, NEW a \in Labels
  PROVE  InstrAt(Source!Target(out, names[Here(a)]), a)
<1> DEFINE name == names[Here(a)]
           here == {k \in Source!Is(out, "code") : name \in Source!NamesAt(out, k)}
<1>1. here # {}
  BY NamesAre DEF Source!Names
<1>2. PICK k \in here : k = CHOOSE j \in Source!Is(out, "code") : name \in Source!NamesAt(out, j)
  BY <1>1
<1>3. PICK c : NameOf(k, c) /\ name = names[Here(c)]
  BY NamesAre
<1>4. c = a
  BY <1>3, NamesDiffer DEF NameOf
<1>5. Source!Target(out, name) = Source!Marked(out, k)
  BY <1>2 DEF Source!Target
<1> QED
  BY <1>3, <1>4, <1>5, MarkedAre

-----------------------------------------------------------------------------
(* What comes after an instruction *)

(* A line ends or jumps as its instruction does. *)
LEMMA EndsOrNot ==
  ASSUME Text, NEW k, NEW a, InstrAt(k, a)
  PROVE  /\ Source!Ends(out, k) <=> ~ Flow(a)
         /\ Source!Jumping(out, k) <=> Jumps(program, a)
<1>1. out[k].op = program.instr[a].kind /\ out[k].op \in Kinds
  BY InstrLineIs DEF Text
<1> QED
  BY <1>1 DEF Source!Ends, Source!Jumping, Flow, FallsThrough, Jumps, Kinds

(* What an instruction falls through to is in the next line of code. *)
LEMMA NextLine ==
  ASSUME Text, NEW k, NEW a, InstrAt(k, a), Flow(a)
  PROVE  \E j : /\ InstrAt(j, a + 1) /\ k < j /\ j \in Nat
                /\ \A i \in Source!OpLines(out) : k < i => j <= i
<1>1. k \in 1 .. Len(out) /\ at[k] = Here(a) /\ a \in Code /\ k \in Nat /\ a + 1 \in Code
  BY InstrLineIs, IsCode DEF InstrAt, Text, GraphIs
<1>2. \/ ShownAt(a + 1, k + 1)
      \/ ShownAt(a + 1, k + 2) /\ at[k + 1] = NULL
  BY <1>1 DEF Text
<1>3. Source!OpLines(out) \subseteq Nat /\ \A i \in Source!OpLines(out) : at[i] # NULL
  BY IsCode
<1>4. CASE ShownAt(a + 1, k + 1)
  <2>1. InstrAt(k + 1, a + 1)
    BY <1>1, <1>4, CodeLines DEF ShownAt
  <2>2. k < k + 1 /\ k + 1 \in Nat /\ \A i \in Source!OpLines(out) : k < i => k + 1 <= i
    BY <1>1, <1>3
  <2> QED
    BY <2>1, <2>2
<1>5. CASE ShownAt(a + 1, k + 2) /\ at[k + 1] = NULL
  <2>1. InstrAt(k + 2, a + 1)
    BY <1>1, <1>5, CodeLines DEF ShownAt
  <2>2. k < k + 2 /\ k + 2 \in Nat /\ \A i \in Source!OpLines(out) : k < i => k + 2 <= i
    BY <1>1, <1>3, <1>5
  <2> QED
    BY <2>1, <2>2
<1> QED
  BY <1>2, <1>4, <1>5

(* And is what comes after it. *)
LEMMA AfterIs ==
  ASSUME Text, NEW k, NEW a, InstrAt(k, a), Flow(a)
  PROVE  \E j : InstrAt(j, a + 1) /\ Source!After(out, k) = {j}
<1> DEFINE ops == Source!OpLines(out)
<1>1. PICK j : /\ InstrAt(j, a + 1) /\ k < j /\ j \in Nat
               /\ \A i \in ops : k < i => j <= i
  BY NextLine
<1>2. j \in ops /\ k \in ops /\ ops \subseteq Nat
  BY <1>1, IsCode
<1>3. \A m : m \in Source!After(out, k) <=>
               m \in ops /\ k \in ops /\ k < m /\ \A i \in ops : i < m => i <= k
  BY DEF Source!After, Source!Before
<1> HIDE DEF ops
<1>4. ASSUME NEW m \in ops, k < m, \A i \in ops : i < m => i <= k PROVE m = j
  BY <1>1, <1>2, <1>4
<1>5. \A i \in ops : i < j => i <= k
  BY <1>1, <1>2
<1> QED
  BY <1>1, <1>2, <1>3, <1>4, <1>5

(* A line leads to the lines of what its instruction leads to. *)
LEMMA FlowsAre ==
  ASSUME Text, NEW k, NEW a, InstrAt(k, a)
  PROVE  /\ Source!Flows(out, k) \subseteq Source!OpLines(out)
         /\ {at[m] : m \in Source!Flows(out, k)} = {Here(b) : b \in Succ(program, a)}
         /\ Follows(Here(a)) = {Here(b) : b \in Succ(program, a)}
<1>0. GraphIs /\ a \in Code /\ Succ(program, a) \subseteq Code
  BY CodeFacts DEF Text, GraphIs, InstrAt, Code
<1> DEFINE t == program.instr[a].target
           down == IF Source!Ends(out, k) THEN {} ELSE Source!After(out, k)
           off == IF Source!Jumping(out, k) THEN {Source!Target(out, out[k].label)} ELSE {}
<1>1. Source!Flows(out, k) = down \cup off
  BY DEF Source!Flows
<1>2. \/ ~ Flow(a) /\ down = {}
      \/ Flow(a) /\ \E j : InstrAt(j, a + 1) /\ down = {j}
  BY AfterIs, EndsOrNot
<1>3. \/ ~ Jumps(program, a) /\ off = {}
      \/ Jumps(program, a) /\ \E j : InstrAt(j, t) /\ off = {j}
  <2>1. CASE ~ Jumps(program, a)
    BY <2>1, EndsOrNot
  <2>2. CASE Jumps(program, a)
    <3>1. t \in Labels /\ out[k].label = names[Here(t)]
      BY <1>0, <2>2, InstrLineIs DEF GraphIs
    <3>2. PICK j : j = Source!Target(out, out[k].label)
      OBVIOUS
    <3>3. InstrAt(j, t)
      BY <3>1, <3>2, TargetIs
    <3>4. off = {j}
      BY <2>2, <3>2, EndsOrNot
    <3> QED
      BY <2>2, <3>3, <3>4
  <2> QED
    BY <2>1, <2>2
<1> HIDE DEF down, off
<1>4. \A j, b : InstrAt(j, b) => at[j] = Here(b) /\ j \in Source!OpLines(out)
  BY IsCode DEF InstrAt, ShownAt
<1>5. {at[m] : m \in down} = IF Flow(a) THEN {Here(a + 1)} ELSE {}
  BY <1>2, <1>4
<1>6. {at[m] : m \in off} = IF Jumps(program, a) THEN {Here(t)} ELSE {}
  BY <1>3, <1>4
<1>7. down \cup off \subseteq Source!OpLines(out)
  BY <1>2, <1>3, <1>4
<1>8. {Here(b) : b \in Succ(program, a)} =
        (IF Flow(a) THEN {Here(a + 1)} ELSE {}) \cup
        (IF Jumps(program, a) THEN {Here(t)} ELSE {})
  BY DEF Succ, Flow
<1>9. Follows(Here(a)) = {Here(b) : b \in Succ(program, a)}
  <2>1. PICK x : x = Here(a)
    OBVIOUS
  <2>2. /\ iscript.instr[x].next = IF Flow(a) THEN Here(a + 1) ELSE NULL
        /\ iscript.instr[x].jump = IF Jumps(program, a) THEN Here(t) ELSE NULL
        /\ Flow(a) => Here(a + 1) # NULL
        /\ Jumps(program, a) => Here(t) # NULL /\ iscript.label[Here(t)].bc = Here(t)
    BY <1>0, <2>1 DEF GraphIs
  <2>3. {iscript.instr[x].next} \ {NULL} = IF Flow(a) THEN {Here(a + 1)} ELSE {}
    BY <2>2
  <2>4. {iscript.label[st].bc : st \in {iscript.instr[x].jump} \ {NULL}} =
          IF Jumps(program, a) THEN {Here(t)} ELSE {}
    BY <2>2
  <2> QED
    BY <1>8, <2>1, <2>3, <2>4 DEF Follows
<1>10. {at[m] : m \in down \cup off} = {at[m] : m \in down} \cup {at[m] : m \in off}
  OBVIOUS
<1> QED
  BY <1>1, <1>5, <1>6, <1>7, <1>8, <1>9, <1>10

-----------------------------------------------------------------------------
(* The text as a source: its headers *)

AnimName(h, i) ==
  IF iscript.headers[h].st_entries[i] = NULL THEN NoLabel
  ELSE names[iscript.headers[h].st_entries[i]]

IsVar(k, var, val) == out[k].is = "var" /\ out[k].var = var /\ out[k].val = val

(* The n + 4 lines after line b. *)
BlockIs(h, b, n) ==
  /\ b \in Nat /\ n \in 1 .. MaxAnims /\ n \in Nat /\ b + n + 4 \in 1 .. Len(out)
  /\ b + 1 \in 1 .. Len(out)
  /\ out[b + 1].is = "start" /\ out[b + n + 4].is = "end"
  /\ IsVar(b + 2, Source!Id, h) /\ IsVar(b + 3, Source!Type, n)
  /\ \A i \in 1 .. n : IsVar(b + 3 + i, Source!Anim(i - 1), AnimName(h, i))

(* The lines in the block of a header. *)
LEMMA BlockLines ==
  ASSUME Text, NEW h \in DOMAIN program.headers, NEW b, BlockAt(h, b)
  PROVE  \E n : /\ n = Len(program.headers[h]) /\ Size(h) = n + 4 /\ BlockIs(h, b, n)
                /\ \A k : k \in b + 1 .. b + n + 4 =>
                     \/ k = b + 1 \/ k = b + n + 4
                     \/ k \in b + 2 .. b + n + 3 /\ out[k].is = "var"
<1>1. HeaderIs(h)
  BY DEF Text
<1>2. PICK n \in Nat : n = Len(program.headers[h]) /\ n \in 1 .. MaxAnims
  <2>1. PICK m : m = Len(program.headers[h])
    OBVIOUS
  <2>2. m \in 1 .. MaxAnims /\ DOMAIN program.headers[h] = 1 .. m
    BY <1>1, <2>1 DEF HeaderIs
  <2>3. m \in Nat
    BY <2>2
  <2> QED
    BY <2>1, <2>2, <2>3
<1>3. PICK lines : lines = HeaderLines(h)
  OBVIOUS
<1>4. /\ lines[1] = [is |-> "start"]
      /\ lines[2] = Var("id", 0, h) /\ lines[3] = Var("type", 0, n)
      /\ \A i \in 1 .. n : lines[3 + i] = AnimVar(h, i)
      /\ lines[n + 4] = [is |-> "end"]
  BY <1>1, <1>2, <1>3, HeaderLinesFacts DEF HeaderLinesAre
<1>5. /\ b \in Nat /\ b + (n + 4) <= Len(out) /\ Len(out) \in Nat
      /\ \A j \in 1 .. n + 4 : out[b + j] = lines[j]
  BY <1>2, <1>3 DEF BlockAt, Size, Text, Pages
<1>6. /\ b + n + 4 = b + (n + 4) /\ b + n + 4 \in 1 .. Len(out) /\ b + 1 \in 1 .. Len(out)
      /\ 1 \in 1 .. n + 4 /\ 2 \in 1 .. n + 4 /\ 3 \in 1 .. n + 4 /\ n + 4 \in 1 .. n + 4
      /\ \A i \in 1 .. n : 3 + i \in 1 .. n + 4 /\ b + (3 + i) = b + 3 + i
  BY <1>2, <1>5
<1>7. /\ out[b + 1] = lines[1] /\ out[b + n + 4] = lines[n + 4]
      /\ out[b + 2] = lines[2] /\ out[b + 3] = lines[3]
      /\ \A i \in 1 .. n : out[b + 3 + i] = lines[3 + i]
  <2>1. out[b + 1] = lines[1] /\ out[b + 2] = lines[2] /\ out[b + 3] = lines[3] /\ out[b + (n + 4)] = lines[n + 4]
    BY <1>5, <1>6
  <2>2. \A i \in 1 .. n : out[b + (3 + i)] = lines[3 + i]
    BY <1>5, <1>6
  <2> QED
    BY <1>6, <2>1, <2>2
<1>8. \A kind, num, val : /\ Var(kind, num, val).is = "var" /\ Var(kind, num, val).var = <<kind, num>>
                          /\ Var(kind, num, val).val = val
  BY DEF Var
<1>9. out[b + 1].is = "start" /\ out[b + n + 4].is = "end"
  BY <1>4, <1>7
<1>10. IsVar(b + 2, Source!Id, h) /\ IsVar(b + 3, Source!Type, n)
  BY <1>4, <1>7, <1>8 DEF IsVar, Source!Id, Source!Type
<1>11. ASSUME NEW i \in 1 .. n PROVE IsVar(b + 3 + i, Source!Anim(i - 1), AnimName(h, i))
  <2>1. PICK line : line = out[b + 3 + i] /\ line = AnimVar(h, i)
    BY <1>4, <1>7
  <2>2. line.is = "var" /\ line.var = <<"anim", i - 1>> /\ line.val = AnimName(h, i)
    <3>1. line = Var("anim", i - 1, AnimName(h, i))
      BY <2>1 DEF AnimVar, AnimName
    <3> QED
      BY <1>8, <3>1
  <2> QED
    BY <2>1, <2>2 DEF IsVar, Source!Anim
<1>12. BlockIs(h, b, n)
  BY <1>2, <1>5, <1>6, <1>9, <1>10, <1>11 DEF BlockIs
<1>15. b \in Nat /\ n \in Nat
  BY <1>5
<1>13. ASSUME NEW k \in b + 1 .. b + n + 4
       PROVE  \/ k = b + 1 \/ k = b + n + 4
              \/ k \in b + 2 .. b + n + 3 /\ out[k].is = "var"
  <2>1. \/ k = b + 1 \/ k = b + n + 4 \/ k = b + 2 \/ k = b + 3
        \/ k - (b + 3) \in 1 .. n /\ b + 3 + (k - (b + 3)) = k
    BY <1>15
  <2>2. k \in Int /\ (k = b + 1 \/ k = b + n + 4 \/ k \in b + 2 .. b + n + 3)
    BY <1>15
  <2> QED
    BY <1>10, <1>11, <2>1, <2>2 DEF IsVar
<1>14. Size(h) = n + 4
  BY <1>2 DEF Size
<1> QED
  BY <1>2, <1>12, <1>13, <1>14

BlockOf(off, h) == <<off[h] + 1, off[h] + Size(h)>>

(* The blocks of the text are those of the headers. *)
LEMMA BlocksAre ==
  ASSUME Text, NEW off, BlocksAll(off)
  PROVE  Source!Blocks(out) = {BlockOf(off, h) : h \in DOMAIN program.headers}
<1>0. DOMAIN out = 1 .. Len(out) /\ Len(out) \in Nat
      /\ \A k, what : k \in Source!Is(out, what) <=> k \in 1 .. Len(out) /\ out[k].is = what
  BY IsCode
<1>1. ASSUME NEW h \in DOMAIN program.headers PROVE BlockOf(off, h) \in Source!Blocks(out)
  <2>1. PICK b : b = off[h] /\ BlockAt(h, b)
    BY DEF BlocksAll
  <2>2. PICK n : /\ Size(h) = n + 4 /\ BlockIs(h, b, n)
                 /\ \A k : k \in b + 1 .. b + n + 4 =>
                      \/ k = b + 1 \/ k = b + n + 4
                      \/ k \in b + 2 .. b + n + 3 /\ out[k].is = "var"
    BY <2>1, BlockLines
  <2>3. b \in Nat /\ n \in Nat
    BY <2>2 DEF BlockIs
  <2>4. PICK x, y : x = b + 1 /\ y = b + n + 4 /\ y = b + Size(h)
    BY <2>2, <2>3
  <2>5. x \in Source!Is(out, "start") /\ y \in Source!Is(out, "end")
    BY <1>0, <2>2, <2>4 DEF BlockIs
  <2>6. x < y /\ \A k \in x + 1 .. y - 1 : out[k].is = "var"
    <3>1. \A k \in x + 1 .. y - 1 : k \in b + 1 .. b + n + 4 /\ k # b + 1 /\ k # b + n + 4
      BY <2>3, <2>4
    <3>2. x < y
      BY <2>3, <2>4
    <3> QED
      BY <2>2, <3>1, <3>2
  <2>7. BlockOf(off, h) = <<x, y>>
    BY <2>1, <2>4 DEF BlockOf
  <2> QED
    BY <2>5, <2>6, <2>7 DEF Source!Blocks
<1>2. ASSUME NEW c \in Source!Blocks(out)
      PROVE  \E h \in DOMAIN program.headers : c = BlockOf(off, h)
  <2>1. PICK x \in Source!Is(out, "start"), y \in Source!Is(out, "end") :
          /\ c = <<x, y>> /\ x < y /\ \A k \in x + 1 .. y - 1 : out[k].is = "var"
    BY DEF Source!Blocks
  <2>2. x \in 1 .. Len(out) /\ out[x].is = "start" /\ y \in 1 .. Len(out) /\ out[y].is = "end"
    BY <1>0
  <2>3. x \in Nat /\ y \in Nat
    BY <1>0, <2>2
  <2>4. PICK h \in DOMAIN program.headers : off[h] < x /\ x <= off[h] + Size(h)
    BY <2>2 DEF BlocksAll
  <2>5. PICK b : b = off[h] /\ BlockAt(h, b)
    BY DEF BlocksAll
  <2>6. PICK n : /\ Size(h) = n + 4 /\ BlockIs(h, b, n)
                 /\ \A k : k \in b + 1 .. b + n + 4 =>
                      \/ k = b + 1 \/ k = b + n + 4
                      \/ k \in b + 2 .. b + n + 3 /\ out[k].is = "var"
    BY <2>5, BlockLines
  <2>7. b \in Nat /\ n \in Nat /\ out[b + 1].is = "start" /\ out[b + n + 4].is = "end"
    BY <2>6 DEF BlockIs
  <2>8. b < x /\ x <= b + (n + 4)
    BY <2>4, <2>5, <2>6
  <2>9. x \in b + 1 .. b + n + 4
    BY <2>3, <2>7, <2>8
  <2>10. x = b + 1
    BY <2>2, <2>6, <2>7, <2>9
  <2>11. ~ b + n + 4 < y
    <3> SUFFICES ASSUME b + n + 4 < y PROVE FALSE
      OBVIOUS
    <3>1. b + n + 4 \in x + 1 .. y - 1
      BY <2>3, <2>7, <2>10
    <3> QED
      BY <2>1, <2>7, <3>1
  <2>12. y \in b + 1 .. b + n + 4
    BY <2>1, <2>3, <2>7, <2>10, <2>11
  <2>13. y = b + n + 4
    BY <2>2, <2>6, <2>7, <2>12
  <2>14. y = off[h] + Size(h) /\ x = off[h] + 1
    BY <2>5, <2>6, <2>7, <2>10, <2>13
  <2> QED
    BY <2>1, <2>14 DEF BlockOf
<1> QED
  BY <1>1, <1>2

(* The values that a block gives. *)
LEMMA ValueIs ==
  ASSUME NEW s, NEW b, NEW var, NEW k, Source!Vars(s, b) \subseteq Nat,
         k \in Source!Vars(s, b), s[k].var = var,
         \A j \in Source!Vars(s, b) : s[j].var = var => j = k
  PROVE  Source!Value(s, b, var) = s[k].val
<1> DEFINE given == {j \in Source!Vars(s, b) : s[j].var = var}
<1>1. given = {k}
  OBVIOUS
<1>2. k \in Nat
  OBVIOUS
<1> HIDE DEF given
<1>3. (CHOOSE m \in given : \A j \in given : j <= m) = k
  <2>1. \A m : (m \in given /\ \A j \in given : j <= m) <=> m = k
    BY <1>1, <1>2
  <2> QED
    BY <2>1
<1>4. Source!Value(s, b, var) =
        IF given = {} THEN NULL ELSE s[CHOOSE m \in given : \A j \in given : j <= m].val
  BY DEF Source!Value, given
<1> QED
  BY <1>1, <1>3, <1>4

(* Or does not. *)
LEMMA NoValueIs ==
  ASSUME NEW s, NEW b, NEW var, \A j \in Source!Vars(s, b) : s[j].var # var
  PROVE  Source!Value(s, b, var) = NULL
BY DEF Source!Value

(* What the block of a header says. *)
Says(b, h, n) ==
  /\ Source!Vars(out, b) \subseteq Nat
  /\ \A k \in Source!Vars(out, b) : out[k].var # Source!Bad
  /\ Source!Value(out, b, Source!Id) = h /\ Source!Value(out, b, Source!Type) = n
  /\ \A i \in 1 .. n : Source!Value(out, b, Source!Anim(i - 1)) = AnimName(h, i)
  /\ Source!Value(out, b, Source!Anim(n)) = NULL

(* It gives the id, the type and each animation. *)
LEMMA BlockSays ==
  ASSUME Text, NEW off, BlocksAll(off), NEW h \in DOMAIN program.headers
  PROVE  \E n : n = Len(program.headers[h]) /\ n \in Nat /\ n \in 1 .. MaxAnims
                /\ Says(BlockOf(off, h), h, n)
<1>1. PICK b : b = off[h] /\ BlockAt(h, b)
  BY DEF BlocksAll
<1>2. PICK n : /\ n = Len(program.headers[h]) /\ Size(h) = n + 4 /\ BlockIs(h, b, n)
               /\ \A k : k \in b + 1 .. b + n + 4 =>
                    \/ k = b + 1 \/ k = b + n + 4
                    \/ k \in b + 2 .. b + n + 3 /\ out[k].is = "var"
  BY <1>1, BlockLines
<1>3. b \in Nat /\ n \in Nat /\ n \in 1 .. MaxAnims
  BY <1>2 DEF BlockIs
<1>4. PICK blk : blk = BlockOf(off, h) /\ blk[1] = b + 1 /\ blk[2] = b + n + 4
  <2>1. PICK x, y : x = b + 1 /\ y = b + n + 4
    OBVIOUS
  <2>2. y = b + Size(h)
    BY <1>2, <1>3, <2>1
  <2>3. BlockOf(off, h) = <<x, y>>
    BY <1>1, <2>1, <2>2 DEF BlockOf
  <2> QED
    BY <2>1, <2>3
<1>5. Source!Vars(out, blk) = b + 2 .. b + n + 3
  <2>1. ASSUME NEW k \in Source!Vars(out, blk) PROVE k \in b + 2 .. b + n + 3
    <3>1. k \in b + 1 .. b + n + 4 /\ out[k].is = "var"
      BY <1>4, <2>1 DEF Source!Vars
    <3> QED
      BY <1>2, <3>1 DEF BlockIs
  <2>2. ASSUME NEW k \in b + 2 .. b + n + 3 PROVE k \in Source!Vars(out, blk)
    <3>1. k \in b + 1 .. b + n + 4 /\ k # b + 1 /\ k # b + n + 4
      BY <1>3, <2>2
    <3> QED
      BY <1>2, <1>4, <3>1 DEF Source!Vars
  <2> QED
    BY <2>1, <2>2
<1>6. ASSUME NEW k \in Source!Vars(out, blk)
      PROVE  \/ k = b + 2 /\ out[k].var = <<"id", 0>>
             \/ k = b + 3 /\ out[k].var = <<"type", 0>>
             \/ k - (b + 3) \in 1 .. n /\ out[k].var = <<"anim", k - (b + 3) - 1>>
  <2>1. \/ k = b + 2 \/ k = b + 3
        \/ k - (b + 3) \in 1 .. n /\ b + 3 + (k - (b + 3)) = k
    BY <1>3, <1>5
  <2>2. k = b + 2 => out[k].var = <<"id", 0>>
    BY <1>2 DEF BlockIs, IsVar, Source!Id
  <2>3. k = b + 3 => out[k].var = <<"type", 0>>
    BY <1>2 DEF BlockIs, IsVar, Source!Type
  <2>4. k - (b + 3) \in 1 .. n /\ b + 3 + (k - (b + 3)) = k => out[k].var = <<"anim", k - (b + 3) - 1>>
    BY <1>2 DEF BlockIs, IsVar, Source!Anim
  <2> QED
    BY <2>1, <2>2, <2>3, <2>4
<1>7. Source!Vars(out, blk) \subseteq Nat
  BY <1>3, <1>5
<1>8. \A k \in Source!Vars(out, blk) : out[k].var # Source!Bad
  BY <1>6 DEF Source!Bad
<1>9. Source!Value(out, blk, Source!Id) = h
  <2>1. b + 2 \in Source!Vars(out, blk) /\ out[b + 2].var = Source!Id /\ out[b + 2].val = h
    BY <1>2, <1>3, <1>5 DEF BlockIs, IsVar
  <2>2. \A j \in Source!Vars(out, blk) : out[j].var = Source!Id => j = b + 2
    BY <1>6 DEF Source!Id
  <2> QED
    BY <1>7, <2>1, <2>2, ValueIs
<1>10. Source!Value(out, blk, Source!Type) = n
  <2>1. b + 3 \in Source!Vars(out, blk) /\ out[b + 3].var = Source!Type /\ out[b + 3].val = n
    BY <1>2, <1>3, <1>5 DEF BlockIs, IsVar
  <2>2. \A j \in Source!Vars(out, blk) : out[j].var = Source!Type => j = b + 3
    BY <1>6 DEF Source!Type
  <2> QED
    BY <1>7, <2>1, <2>2, ValueIs
<1>11. ASSUME NEW i \in 1 .. n PROVE Source!Value(out, blk, Source!Anim(i - 1)) = AnimName(h, i)
  <2>1. b + 3 + i \in Source!Vars(out, blk)
    BY <1>3, <1>5
  <2>2. out[b + 3 + i].var = Source!Anim(i - 1) /\ out[b + 3 + i].val = AnimName(h, i)
    BY <1>2 DEF BlockIs, IsVar
  <2>3. ASSUME NEW j \in Source!Vars(out, blk), out[j].var = Source!Anim(i - 1) PROVE j = b + 3 + i
    <3>1. j - (b + 3) \in 1 .. n /\ j - (b + 3) - 1 = i - 1
      BY <1>6, <2>3 DEF Source!Anim
    <3>2. j \in Nat
      BY <1>7
    <3> QED
      BY <1>3, <3>1, <3>2
  <2> QED
    BY <1>7, <2>1, <2>2, <2>3, ValueIs
<1>12. Source!Value(out, blk, Source!Anim(n)) = NULL
  <2>1. ASSUME NEW j \in Source!Vars(out, blk), out[j].var = Source!Anim(n) PROVE FALSE
    <3>1. j - (b + 3) \in 1 .. n /\ j - (b + 3) - 1 = n
      BY <1>6, <2>1 DEF Source!Anim
    <3> QED
      BY <1>3, <3>1
  <2> QED
    BY <2>1, NoValueIs
<1>13. Says(blk, h, n)
  BY <1>7, <1>8, <1>9, <1>10, <1>11, <1>12 DEF Says
<1> QED
  BY <1>2, <1>3, <1>4, <1>13

(* No label has the name of a tag. *)
LEMMA TagFacts ==
  /\ \A x \in LabelName : x # NULL /\ \A tag \in Tags : x # Tag(tag)
  /\ \A tag \in Tags : Tag(tag) # NULL
<1>1. "" \in Bases
  BY DEF Bases
<1>2. \A tag \in Tags : Tag(tag) \in AnyName
  BY <1>1 DEF Tag, AnyName
<1>3. ASSUME NEW x \in LabelName PROVE x \in AnyName /\ x[2] \in {"", "long", "Local"}
  <2>1. x[2] \in {"", "long", "Local"}
    BY DEF LabelName
  <2>2. PICK A, B, C, E : A = Bases /\ B = {"", "long", "Local"} /\ C = Nat /\ E = B \cup Tags
    OBVIOUS
  <2>3. x \in A \X B \X C \X C /\ B \subseteq E
    BY <2>2 DEF LabelName
  <2>4. x \in A \X E \X C \X C
    BY <2>3
  <2> QED
    BY <2>1, <2>2, <2>4 DEF AnyName
<1>4. \A tag \in Tags : Tag(tag)[2] = tag /\ tag \notin {"", "long", "Local"}
  BY DEF Tag, Tags
<1>5. \A x \in AnyName : x # NULL
  BY PrintAssumption
<1> QED
  BY <1>2, <1>3, <1>4, <1>5

(* An animation is none or the name of its label. *)
LEMMA AnimNameIs ==
  ASSUME Text, NEW h \in DOMAIN program.headers, NEW i \in 1 .. Len(program.headers[h])
  PROVE  /\ AnimName(h, i) # NULL
         /\ AnimName(h, i) \notin {Tag(".headerstart"), Tag(".headerend")}
         /\ iscript.headers[h].st_entries[i] = NULL => AnimName(h, i) = NoLabel
         /\ iscript.headers[h].st_entries[i] # NULL =>
              \E a \in Labels : /\ program.headers[h][i] = a
                                /\ iscript.headers[h].st_entries[i] = Here(a)
                                /\ AnimName(h, i) = names[Here(a)] /\ AnimName(h, i) # NoLabel
<1>1. HeaderIs(h)
  BY DEF Text
<1>2. PICK st : st = iscript.headers[h].st_entries[i]
  OBVIOUS
<1>3. CASE st = NULL
  <2>1. AnimName(h, i) = NoLabel
    BY <1>2, <1>3 DEF AnimName
  <2>2. "[NONE]" # ".headerstart" /\ "[NONE]" # ".headerend" /\ "[NONE]" \in Tags
    BY DEF Tags
  <2>3. \A tag : Tag(tag)[2] = tag
    BY DEF Tag
  <2>4. NoLabel[2] = "[NONE]" /\ NoLabel # NULL
    BY <2>2, <2>3, TagFacts DEF NoLabel
  <2> QED
    BY <1>2, <1>3, <2>1, <2>2, <2>3, <2>4
<1>4. CASE st # NULL
  <2>1. PICK a \in Labels : program.headers[h][i] = a /\ st = Here(a)
    BY <1>1, <1>2, <1>4 DEF HeaderIs
  <2>2. AnimName(h, i) = names[Here(a)] /\ names[Here(a)] \in LabelName
    BY <1>2, <1>4, <2>1 DEF AnimName, Text
  <2>3. "[NONE]" \in Tags /\ ".headerstart" \in Tags /\ ".headerend" \in Tags
    BY DEF Tags
  <2>4. /\ names[Here(a)] # NULL /\ names[Here(a)] # NoLabel
        /\ names[Here(a)] # Tag(".headerstart") /\ names[Here(a)] # Tag(".headerend")
    BY <2>2, <2>3, TagFacts DEF NoLabel
  <2> QED
    BY <1>2, <1>4, <2>1, <2>2, <2>4
<1> QED
  BY <1>3, <1>4

(* The animations that have a name. *)
LEMMA NamedAre ==
  ASSUME Text, NEW off, BlocksAll(off), NEW h \in DOMAIN program.headers
  PROVE  /\ Source!Named(out, BlockOf(off, h)) =
              {i - 1 : i \in {k \in DOMAIN iscript.headers[h].st_entries :
                                iscript.headers[h].st_entries[k] # NULL}}
         /\ \A i \in Source!Named(out, BlockOf(off, h)) :
              \E a \in Labels : /\ program.headers[h][i + 1] = a
                                /\ i + 1 \in 1 .. Len(program.headers[h])
                                /\ iscript.headers[h].st_entries[i + 1] = Here(a)
                                /\ Source!Value(out, BlockOf(off, h), Source!Anim(i)) =
                                     names[Here(a)]
<1>1. PICK n : n = Len(program.headers[h]) /\ n \in Nat /\ n \in 1 .. MaxAnims
               /\ Says(BlockOf(off, h), h, n)
  BY BlockSays
<1>2. PICK b, anims : b = BlockOf(off, h) /\ anims = iscript.headers[h].st_entries
  OBVIOUS
<1>3. DOMAIN anims = 1 .. n
  BY <1>1, <1>2 DEF Text, HeaderIs
<1>4. Source!LastAnim(out, b) = n
  BY <1>1, <1>2 DEF Source!LastAnim, Says
<1>5. \A i \in 1 .. n : /\ Source!Value(out, b, Source!Anim(i - 1)) = AnimName(h, i)
                        /\ AnimName(h, i) # NULL
                        /\ anims[i] = NULL => AnimName(h, i) = NoLabel
                        /\ anims[i] # NULL =>
                             \E a \in Labels : /\ program.headers[h][i] = a
                                               /\ anims[i] = Here(a)
                                               /\ AnimName(h, i) = names[Here(a)]
                                               /\ AnimName(h, i) # NoLabel
  BY <1>1, <1>2, AnimNameIs DEF Says
<1>6. \A i : i \in Source!Named(out, b) <=>
               i \in 0 .. n - 1 /\ Source!Value(out, b, Source!Anim(i)) \notin {NULL, NoLabel}
  BY <1>4 DEF Source!Named
<1>7. \A i \in 0 .. n - 1 : i + 1 \in 1 .. n /\ (i + 1) - 1 = i
  BY <1>1
<1>8. \A i : i \in Source!Named(out, b) <=> i \in 0 .. n - 1 /\ anims[i + 1] # NULL
  <2> SUFFICES ASSUME NEW i \in 0 .. n - 1
               PROVE  Source!Value(out, b, Source!Anim(i)) \notin {NULL, NoLabel} <=> anims[i + 1] # NULL
    BY <1>6
  <2>1. PICK j : j = i + 1 /\ j \in 1 .. n /\ j - 1 = i
    BY <1>7
  <2>2. Source!Value(out, b, Source!Anim(i)) = AnimName(h, j)
    BY <1>5, <2>1
  <2> QED
    BY <1>5, <2>1, <2>2
<1>9. Source!Named(out, b) = {i - 1 : i \in {k \in DOMAIN anims : anims[k] # NULL}}
  <2>1. ASSUME NEW i \in Source!Named(out, b)
        PROVE  i \in {j - 1 : j \in {k \in DOMAIN anims : anims[k] # NULL}}
    <3>1. i + 1 \in 1 .. n /\ (i + 1) - 1 = i /\ anims[i + 1] # NULL
      BY <1>7, <1>8
    <3> QED
      BY <1>3, <3>1
  <2>2. ASSUME NEW j \in DOMAIN anims, anims[j] # NULL PROVE j - 1 \in Source!Named(out, b)
    <3>1. j - 1 \in 0 .. n - 1 /\ (j - 1) + 1 = j
      BY <1>1, <1>3
    <3> QED
      BY <1>8, <2>2, <3>1
  <2> QED
    BY <2>1, <2>2
<1>10. ASSUME NEW i \in Source!Named(out, b)
       PROVE  \E a \in Labels : /\ program.headers[h][i + 1] = a
                                /\ i + 1 \in 1 .. n
                                /\ anims[i + 1] = Here(a)
                                /\ Source!Value(out, b, Source!Anim(i)) = names[Here(a)]
  <2>1. PICK j : j = i + 1 /\ j \in 1 .. n /\ j - 1 = i /\ anims[j] # NULL
    BY <1>7, <1>8
  <2>2. PICK a \in Labels : /\ program.headers[h][j] = a /\ anims[j] = Here(a)
                            /\ AnimName(h, j) = names[Here(a)]
    BY <1>5, <2>1
  <2>3. Source!Value(out, b, Source!Anim(i)) = AnimName(h, j)
    BY <1>5, <2>1
  <2> QED
    BY <2>1, <2>2, <2>3
<1> QED
  BY <1>1, <1>2, <1>9, <1>10

-----------------------------------------------------------------------------
(* The text is accepted *)

(* Headers are complete and name labels that are there. *)
LEMMA HeadersAreOk ==
  ASSUME Text, NEW off, BlocksAll(off), NEW h \in DOMAIN program.headers
  PROVE  /\ Source!HeaderIsOk(out, BlockOf(off, h))
         /\ Source!Value(out, BlockOf(off, h), Source!Id) = h
<1>1. PICK n : n = Len(program.headers[h]) /\ n \in Nat /\ n \in 1 .. MaxAnims
               /\ Says(BlockOf(off, h), h, n)
  BY BlockSays
<1>2. PICK b : b = BlockOf(off, h)
  OBVIOUS
<1>3. /\ Source!Value(out, b, Source!Id) = h /\ Source!Value(out, b, Source!Type) = n
      /\ \A k \in Source!Vars(out, b) : out[k].var # Source!Bad
      /\ Source!LastAnim(out, b) = n
  BY <1>1, <1>2 DEF Says, Source!LastAnim
<1>4. h # NULL
  <2>1. NULL \notin Nat
    BY PrintAssumption
  <2>2. DOMAIN program.headers \subseteq Nat
    BY DEF Text, GraphIs, IsProgram
  <2> QED
    BY <2>1, <2>2
<1>5. n \in DOMAIN [m \in 1 .. MaxAnims |-> m]
  BY <1>1
<1>6. ASSUME NEW i \in 0 .. n
      PROVE  Source!Value(out, b, Source!Anim(i)) \notin {Tag(".headerstart"), Tag(".headerend")}
  <2>1. CASE i = n
    <3>1. ".headerstart" \in Tags /\ ".headerend" \in Tags
      BY DEF Tags
    <3>2. Source!Value(out, b, Source!Anim(i)) = NULL
      BY <1>1, <1>2, <2>1 DEF Says
    <3> QED
      BY <3>1, <3>2, TagFacts
  <2>2. CASE i # n
    <3>1. PICK j : j = i + 1 /\ j \in 1 .. n /\ j - 1 = i
      BY <1>1, <2>2
    <3>2. Source!Value(out, b, Source!Anim(i)) = AnimName(h, j)
      BY <1>1, <1>2, <3>1 DEF Says
    <3> QED
      BY <1>1, <3>1, <3>2, AnimNameIs
  <2> QED
    BY <2>1, <2>2
<1>7. \A i \in Source!Named(out, b) : Source!Value(out, b, Source!Anim(i)) \in Source!Names(out)
  BY <1>2, NamedAre, NamesAre
<1>8. Source!HeaderIsOk(out, b)
  BY <1>3, <1>4, <1>5, <1>6, <1>7 DEF Source!HeaderIsOk
<1> QED
  BY <1>2, <1>3, <1>8

(* Instructions have a name or follow others, and jump to labels. *)
LEMMA InstrsAreOk ==
  ASSUME Text, NEW k \in Source!OpLines(out)
  PROVE  Source!CodeIsOk(out, k)
<1>1. PICK a : InstrAt(k, a)
  BY IsCode
<1>2. out[k].op # "bad" /\ a \in Code
  BY <1>1, InstrLineIs DEF Text, Kinds, InstrAt
<1>3. ASSUME Source!Labelled(out, k) = {}
      PROVE  \E j \in Source!Before(out, k) : ~ Source!Ends(out, j)
  <2>1. CASE a \in Labels
    <3>1. NameOf(k - 1, a) /\ k \in Nat
      BY <1>1, <2>1, BeforeInstr
    <3>2. k - 1 \in Source!Is(out, "code") /\ out[k - 1].names # <<>>
      <4>1. PICK x : x = names[Here(a)]
        OBVIOUS
      <4>2. out[k - 1].names = <<x>>
        BY <3>1, <4>1, LabelLineIs
      <4> QED
        BY <3>1, <4>2, LabelLineIs, IsCode DEF NameOf
    <3>3. Source!Marked(out, k - 1) = (k - 1) + 1 /\ (k - 1) + 1 = k /\ k - 1 <= k
      BY <3>1, MarkedAre
    <3>4. k - 1 \in Source!Labelled(out, k)
      BY <3>2, <3>3 DEF Source!Labelled
    <3> QED
      BY <1>3, <3>4
  <2>2. CASE a \notin Labels
    <3>1. Follows1(a) /\ InstrAt(k - 1, a - 1) /\ k \in Nat
      BY <1>1, <2>2, BeforeInstr
    <3>2. k - 1 \in Source!OpLines(out) /\ Source!OpLines(out) \subseteq Nat
      BY <3>1, IsCode
    <3>3. k - 1 \in Source!Before(out, k)
      BY <3>1, <3>2 DEF Source!Before
    <3>4. ~ Source!Ends(out, k - 1)
      BY <3>1, EndsOrNot DEF Follows1
    <3> QED
      BY <3>3, <3>4
  <2> QED
    BY <2>1, <2>2
<1>4. ASSUME Source!Jumping(out, k) PROVE out[k].label \in Source!Names(out)
  <2>1. Jumps(program, a)
    BY <1>1, <1>4, EndsOrNot
  <2>2. PICK t : t = program.instr[a].target
    OBVIOUS
  <2>3. t \in Labels /\ out[k].label = names[Here(t)]
    BY <1>1, <1>2, <2>1, <2>2, InstrLineIs DEF Text, GraphIs
  <2> QED
    BY <2>3, NamesAre
<1> QED
  BY <1>2, <1>3, <1>4 DEF Source!CodeIsOk

(* So icecc accepts the text. *)
LEMMA TextIsWellFormed ==
  ASSUME Text, NEW off, BlocksAll(off)
  PROVE  Source!WellFormed(out)
<1>0. DOMAIN out = 1 .. Len(out) /\ Len(out) \in Nat
      /\ \A k, what : k \in Source!Is(out, what) <=> k \in 1 .. Len(out) /\ out[k].is = what
  BY IsCode
<1>1. ASSUME NEW k \in Source!Is(out, "start") \cup Source!Is(out, "end") \cup Source!Is(out, "var")
      PROVE  \E b \in Source!Blocks(out) : k \in b[1] .. b[2]
  <2>1. k \in 1 .. Len(out) /\ out[k].is # "code"
    BY <1>0
  <2>2. PICK h \in DOMAIN program.headers : off[h] < k /\ k <= off[h] + Size(h)
    BY <2>1 DEF BlocksAll
  <2>3. BlockAt(h, off[h])
    BY DEF BlocksAll
  <2>4. PICK b, n : b = off[h] /\ BlockIs(h, b, n) /\ Size(h) = n + 4
    BY <2>3, BlockLines
  <2>5. b \in Nat /\ n \in Nat /\ k \in Nat
    BY <1>0, <2>1, <2>4 DEF BlockIs
  <2>6. PICK x, y : x = b + 1 /\ y = b + Size(h) /\ k \in x .. y
    BY <2>2, <2>4, <2>5
  <2>7. BlockOf(off, h) = <<x, y>>
    BY <2>4, <2>6 DEF BlockOf
  <2>8. <<x, y>> \in Source!Blocks(out)
    BY <2>7, BlocksAre
  <2> QED
    BY <2>6, <2>8
<1>2. \A b \in Source!Blocks(out) : Source!HeaderIsOk(out, b)
  BY BlocksAre, HeadersAreOk
<1>3. \A b, c \in Source!Blocks(out) :
        Source!Value(out, b, Source!Id) = Source!Value(out, c, Source!Id) => b = c
  BY BlocksAre, HeadersAreOk
<1>4. ASSUME NEW k \in Source!Is(out, "code") \ Source!OpLines(out)
      PROVE  k + 1 \in Source!Is(out, "code")
  <2>1. k \in 1 .. Len(out) /\ out[k].is = "code"
    BY <1>0
  <2>2. PICK a : NameOf(k, a)
    BY <2>1, CodeLines, IsCode
  <2>3. InstrAt(k + 1, a)
    BY <2>2, MarkedAre
  <2> QED
    BY <1>0, <2>3, InstrLineIs DEF Text
<1>5. \A k \in Source!OpLines(out) : Source!CodeIsOk(out, k)
  BY InstrsAreOk
<1>6. ASSUME NEW k \in Source!Before(out, Source!Len(out) + 1) PROVE Source!Ends(out, k)
  <2>1. /\ k \in Source!OpLines(out)
        /\ \A i \in Source!OpLines(out) : i < Len(out) + 1 => i <= k
    BY <1>6, SameLen DEF Source!Before
  <2>2. PICK a : InstrAt(k, a)
    BY <2>1, IsCode
  <2>3. CASE Flow(a)
    <3>1. PICK j : InstrAt(j, a + 1) /\ k < j /\ j \in Nat
      BY <2>2, <2>3, NextLine
    <3>2. j \in Source!OpLines(out) /\ j \in 1 .. Len(out) /\ k \in Nat
      BY <2>1, <3>1, IsCode
    <3>3. j <= k
      BY <1>0, <2>1, <3>2
    <3> QED
      BY <3>1, <3>2, <3>3
  <2>4. CASE ~ Flow(a)
    BY <2>2, <2>4, EndsOrNot
  <2> QED
    BY <2>3, <2>4
<1>7. Source!Names(out) \cap ({NoLabel} \cup {Tag(".headerstart"), Tag(".headerend")}) = {}
  <2>1. "[NONE]" \in Tags /\ ".headerstart" \in Tags /\ ".headerend" \in Tags
    BY DEF Tags
  <2>2. Source!Names(out) \subseteq LabelName
    BY NamesAre DEF Text
  <2> QED
    BY <2>1, <2>2, TagFacts DEF NoLabel
<1>8. ASSUME NEW j \in Source!Is(out, "code"), NEW k \in Source!Is(out, "code"),
             Source!NamesAt(out, j) \cap Source!NamesAt(out, k) # {}
      PROVE  Source!Marked(out, j) = Source!Marked(out, k)
  <2>1. PICK name : name \in Source!NamesAt(out, j) /\ name \in Source!NamesAt(out, k)
    BY <1>8
  <2>2. PICK a : NameOf(j, a) /\ name = names[Here(a)]
    BY <2>1, NamesAre
  <2>3. PICK c : NameOf(k, c) /\ name = names[Here(c)]
    BY <2>1, NamesAre
  <2>4. a = c
    BY <2>2, <2>3, NamesDiffer DEF NameOf
  <2>5. /\ InstrAt(j + 1, a) /\ Source!Marked(out, j) = j + 1
        /\ InstrAt(k + 1, a) /\ Source!Marked(out, k) = k + 1
    BY <2>2, <2>3, <2>4, MarkedAre
  <2>6. a \in Code
    BY <2>5 DEF InstrAt
  <2>7. j + 1 = k + 1
    BY <2>5, <2>6, PlaceOf
  <2> QED
    BY <2>5, <2>7
<1> QED
  BY <1>1, <1>2, <1>3, <1>4, <1>5, <1>6, <1>7, <1>8 DEF Source!WellFormed

-----------------------------------------------------------------------------
(* The text says what the graph says *)

(* Everything printed is executed. *)
LEMMA ExecutedLines ==
  ASSUME Text, NEW off, BlocksAll(off)
  PROVE  /\ Source!Executed(out) \subseteq Source!OpLines(out)
         /\ \A a \in Code : \E k \in Source!Executed(out) : InstrAt(k, a)
<1> DEFINE D == Source!OpLines(out)
           next == [k \in Source!OpLines(out) |-> Source!Flows(out, k)]
           S == Source!Starts(out)
           R == Source!Executed(out)
<1>1. R = Closure(S, next)
  BY SameClosure DEF Source!Executed
<1>2. IsFiniteSet(D)
  <2>1. IsFiniteSet(1 .. Len(out))
    BY IsCode, FS_Interval
  <2>2. D \subseteq 1 .. Len(out)
    BY IsCode
  <2> QED
    BY <2>1, <2>2, FS_Subset
<1>3. next \in [D -> SUBSET D]
  <2>1. \A k \in D : Source!Flows(out, k) \subseteq D
    BY FlowsAre, IsCode
  <2> QED
    BY <2>1
<1>4. S \subseteq D
  <2> SUFFICES ASSUME NEW b \in Source!Blocks(out), NEW i \in Source!Named(out, b)
               PROVE  Source!Target(out, Source!Value(out, b, Source!Anim(i))) \in D
    BY DEF Source!Starts
  <2>1. PICK h \in DOMAIN program.headers : b = BlockOf(off, h)
    BY BlocksAre
  <2>2. PICK a \in Labels : Source!Value(out, b, Source!Anim(i)) = names[Here(a)]
    BY <2>1, NamedAre
  <2> QED
    BY <2>2, TargetIs, IsCode
<1>5. S \subseteq R /\ R \subseteq D /\ \A k \in R : Source!Flows(out, k) \subseteq R
  <2>1. \A k \in D : next[k] = Source!Flows(out, k)
    OBVIOUS
  <2>2. PICK nx : nx = next
    OBVIOUS
  <2>3. nx \in [D -> SUBSET D] /\ R = Closure(S, nx) /\ \A k \in D : nx[k] = Source!Flows(out, k)
    BY <1>1, <1>3, <2>1, <2>2
  <2> HIDE DEF D, S, R, next
  <2>4. S \subseteq R /\ R \subseteq S \cup D /\ Closed(R, nx)
    BY <1>2, <2>3, ClosureIsLeast
  <2>5. DOMAIN nx = D
    BY <2>3
  <2> QED
    BY <1>4, <2>3, <2>4, <2>5 DEF Closed
<1>6. \A a \in Code : \E k \in R : InstrAt(k, a)
  <2> DEFINE T == {a \in Code : \E k \in R : InstrAt(k, a)}
  <2>1. ASSUME NEW h \in DOMAIN program.headers PROVE Entries(program, h) \subseteq T
    <3> SUFFICES ASSUME NEW a \in Entries(program, h) PROVE a \in T
      OBVIOUS
    <3>1. HeaderIs(h)
      BY DEF Text
    <3>2. PICK j \in 1 .. Len(program.headers[h]) : a = program.headers[h][j] /\ a # 0
      BY <3>1 DEF Entries, HeaderIs
    <3>3. a \in Labels /\ iscript.headers[h].st_entries[j] = Here(a) /\ a \in Code /\ Here(a) # NULL
      BY <3>1, <3>2 DEF HeaderIs, Text, GraphIs
    <3>4. PICK b : b = BlockOf(off, h) /\ b \in Source!Blocks(out)
      BY BlocksAre
    <3>5. j - 1 \in Source!Named(out, b) /\ j \in Nat
      <4>1. DOMAIN iscript.headers[h].st_entries = 1 .. Len(program.headers[h])
        BY <3>1 DEF HeaderIs
      <4> QED
        BY <3>3, <3>4, <4>1, NamedAre
    <3>6. PICK c \in Labels : /\ program.headers[h][(j - 1) + 1] = c
                              /\ Source!Value(out, b, Source!Anim(j - 1)) = names[Here(c)]
      BY <3>4, <3>5, NamedAre
    <3>7. c = a
      <4>1. (j - 1) + 1 = j
        BY <3>5
      <4> QED
        BY <3>2, <3>6, <4>1
    <3>8. PICK k : k = Source!Target(out, names[Here(a)]) /\ InstrAt(k, a)
      BY <3>3, TargetIs
    <3>9. k \in S
      BY <3>4, <3>5, <3>6, <3>7, <3>8 DEF Source!Starts
    <3> QED
      BY <1>5, <3>3, <3>8, <3>9
  <2>2. ASSUME NEW a \in T \cap CodeOf(program) PROVE Succ(program, a) \subseteq T
    <3>1. PICK k \in R : InstrAt(k, a)
      OBVIOUS
    <3>2. a \in Code /\ Succ(program, a) \subseteq Code
      BY CodeFacts DEF Text, GraphIs, Code
    <3> SUFFICES ASSUME NEW c \in Succ(program, a) PROVE c \in T
      OBVIOUS
    <3>3. PICK m \in Source!Flows(out, k) : at[m] = Here(c)
      BY <3>1, FlowsAre
    <3>4. m \in R /\ m \in D
      BY <1>5, <3>1, <3>3
    <3>5. InstrAt(m, c)
      BY <3>2, <3>3, <3>4, CodeLines, IsCode
    <3> QED
      BY <3>2, <3>4, <3>5
  <2>3. Code \subseteq T
    <3> HIDE DEF T
    <3> QED
      BY <2>1, <2>2, CodeFacts DEF Text, GraphIs, Code
  <2> QED
    BY <2>3
<1> QED
  BY <1>5, <1>6

(* And everything in the graph. *)
LEMMA ExecutedGraph ==
  ASSUME Text
  PROVE  Executed = {0} \X Code
<1> DEFINE X == {0} \X Code
<1>0. GraphIs /\ DOMAIN iscript.instr = X /\ DOMAIN iscript.headers = DOMAIN program.headers
  BY DEF Text, GraphIs
<1> DEFINE Mark(l) == {iscript.label[k].bc : k \in {l} \cap DOMAIN iscript.label}
           Step(x) == ({iscript.instr[x].next} \cup Mark(iscript.instr[x].jump)) \cap X
           next == [x \in X |-> Step(x)]
           starts(h) == (UNION {Mark(iscript.headers[h].st_entries[i]) :
                                  i \in DOMAIN iscript.headers[h].st_entries}) \cap X
           R(h) == Executes(iscript.instr, iscript.label, iscript.headers[h])
<1>1. ASSUME NEW h \in DOMAIN program.headers
      PROVE  starts(h) \subseteq R(h) /\ R(h) \subseteq X /\ \A x \in R(h) : Step(x) \subseteq R(h)
  <2>1. R(h) = Closure(starts(h), next)
    BY <1>0 DEF Executes
  <2>2. next \in [X -> SUBSET X] /\ \A x \in X : next[x] = Step(x)
    OBVIOUS
  <2>3. IsFiniteSet(X)
    <3>1. IsFiniteSet(Code)
      BY <1>0 DEF GraphIs
    <3>2. IsFiniteSet({0})
      BY FS_Singleton
    <3> QED
      BY <3>1, <3>2, FS_Product
  <2>4. PICK nx, s, r : nx = next /\ s = starts(h) /\ r = R(h)
    OBVIOUS
  <2>5. r = Closure(s, nx) /\ nx \in [X -> SUBSET X] /\ s \subseteq X
    BY <2>1, <2>2, <2>4
  <2>6. s \subseteq r /\ r \subseteq s \cup X /\ Closed(r, nx)
    <3> HIDE DEF X, next, starts, R, Step, Mark
    <3> QED
      BY <2>3, <2>5, ClosureIsLeast
  <2>7. DOMAIN nx = X /\ \A x \in X : nx[x] = Step(x)
    BY <2>2, <2>4
  <2> HIDE DEF X, next, starts, R, Step, Mark
  <2> QED
    BY <2>4, <2>5, <2>6, <2>7 DEF Closed
<1>2. ASSUME NEW a \in Labels PROVE Mark(Here(a)) = {Here(a)} /\ Here(a) \in X
  <2>1. Here(a) \in DOMAIN iscript.label /\ iscript.label[Here(a)].bc = Here(a) /\ a \in Code
    BY <1>0 DEF GraphIs, Here
  <2>2. {Here(a)} \cap DOMAIN iscript.label = {Here(a)}
    BY <2>1
  <2>3. Here(a) \in X
    BY <2>1 DEF Here
  <2> QED
    BY <2>1, <2>2, <2>3
<1> HIDE DEF Mark, R
<1>3. ASSUME NEW a \in Code, NEW c \in Succ(program, a) PROVE Here(c) \in Step(Here(a))
  <2>1. CASE Flow(a) /\ c = a + 1
    <3>1. iscript.instr[Here(a)].next = Here(c) /\ c \in Code
      BY <1>0, <2>1 DEF GraphIs
    <3>2. Here(c) \in X
      BY <3>1 DEF Here
    <3> QED
      BY <3>1, <3>2
  <2>2. CASE Jumps(program, a) /\ c = program.instr[a].target
    <3>1. c \in Labels /\ iscript.instr[Here(a)].jump = Here(c)
      BY <1>0, <2>2 DEF GraphIs
    <3>2. Here(c) \in Mark(iscript.instr[Here(a)].jump) /\ Here(c) \in X
      BY <1>2, <3>1
    <3> QED
      BY <3>2
  <2> QED
    BY <1>3, <2>1, <2>2 DEF Succ, Flow
<1>4. Executed = UNION {R(h) : h \in DOMAIN program.headers}
  BY <1>0 DEF Executed, R
<1>5. Code \subseteq {a \in Code : Here(a) \in Executed}
  <2> DEFINE T == {a \in Code : Here(a) \in Executed}
  <2>1. ASSUME NEW h \in DOMAIN program.headers PROVE Entries(program, h) \subseteq T
    <3> SUFFICES ASSUME NEW a \in Entries(program, h) PROVE a \in T
      OBVIOUS
    <3>1. HeaderIs(h)
      BY DEF Text
    <3>2. PICK j \in 1 .. Len(program.headers[h]) : a = program.headers[h][j] /\ a # 0
      BY <3>1 DEF Entries, HeaderIs
    <3>3. a \in Labels /\ iscript.headers[h].st_entries[j] = Here(a) /\ a \in Code
          /\ j \in DOMAIN iscript.headers[h].st_entries
      BY <1>0, <3>1, <3>2 DEF HeaderIs, GraphIs
    <3>4. Here(a) \in starts(h)
      BY <1>2, <3>3
    <3> QED
      BY <1>1, <1>4, <3>3, <3>4
  <2>2. ASSUME NEW a \in T \cap CodeOf(program) PROVE Succ(program, a) \subseteq T
    <3> SUFFICES ASSUME NEW c \in Succ(program, a) PROVE c \in T
      OBVIOUS
    <3>1. a \in Code /\ Here(a) \in Executed /\ c \in Code
      BY <1>0, CodeFacts DEF GraphIs, Code
    <3>2. PICK h \in DOMAIN program.headers : Here(a) \in R(h)
      BY <1>4, <3>1
    <3>3. Here(c) \in R(h)
      BY <1>1, <1>3, <3>1, <3>2
    <3> QED
      BY <1>4, <3>1, <3>3
  <2> HIDE DEF T
  <2>3. Code \subseteq T
    BY <1>0, <2>1, <2>2, CodeFacts DEF GraphIs, Code
  <2> QED
    BY <2>3 DEF T
<1>6. X \subseteq Executed
  BY <1>5 DEF Here
<1>7. Executed \subseteq X
  BY <1>1, <1>4
<1> QED
  BY <1>6, <1>7

(* Line by line it says what the graph says. *)
LEMMA TextSaysTheProgram ==
  ASSUME Text
  PROVE  PrintedIsTheProgram
<1>1. PICK off : BlocksAll(off)
  BY DEF Text
<1>2. Source!WellFormed(out)
  BY <1>1, TextIsWellFormed
<1>3. {Source!Value(out, b, Source!Id) : b \in Source!Blocks(out)} = DOMAIN iscript.headers
  <2>1. DOMAIN iscript.headers = DOMAIN program.headers
    BY DEF Text
  <2> QED
    BY <1>1, <2>1, BlocksAre, HeadersAreOk
<1>4. ASSUME NEW b \in Source!Blocks(out)
      PROVE  LET h == Source!Value(out, b, Source!Id)
                 anims == iscript.headers[h].st_entries
             IN /\ Source!Named(out, b) = {i - 1 : i \in {k \in DOMAIN anims : anims[k] # NULL}}
                /\ \A i \in Source!Named(out, b) :
                     at[Source!Target(out, Source!Value(out, b, Source!Anim(i)))] =
                       iscript.label[anims[i + 1]].bc
  <2>1. PICK h \in DOMAIN program.headers : b = BlockOf(off, h)
    BY <1>1, BlocksAre
  <2>2. Source!Value(out, b, Source!Id) = h
    BY <1>1, <2>1, HeadersAreOk
  <2>3. PICK anims : anims = iscript.headers[h].st_entries
    OBVIOUS
  <2>4. Source!Named(out, b) = {i - 1 : i \in {k \in DOMAIN anims : anims[k] # NULL}}
    BY <1>1, <2>1, <2>3, NamedAre
  <2>5. ASSUME NEW i \in Source!Named(out, b)
        PROVE  at[Source!Target(out, Source!Value(out, b, Source!Anim(i)))] =
                 iscript.label[anims[i + 1]].bc
    <3>1. PICK a \in Labels : /\ anims[i + 1] = Here(a)
                              /\ Source!Value(out, b, Source!Anim(i)) = names[Here(a)]
      BY <1>1, <2>1, <2>3, NamedAre
    <3>2. InstrAt(Source!Target(out, names[Here(a)]), a)
      BY TargetIs
    <3>3. iscript.label[Here(a)].bc = Here(a)
      BY DEF Text, GraphIs
    <3> QED
      BY <3>1, <3>2, <3>3 DEF InstrAt, ShownAt
  <2> QED
    BY <2>2, <2>3, <2>4, <2>5
<1>5. {at[k] : k \in Source!Executed(out)} = Executed
  <2>1. \A k \in Source!Executed(out) : \E a : InstrAt(k, a)
    BY <1>1, ExecutedLines, IsCode
  <2>2. \A k, a : InstrAt(k, a) => at[k] = <<0, a>> /\ a \in Code
    BY DEF InstrAt, ShownAt, Here
  <2>3. \A a \in Code : \E k \in Source!Executed(out) : InstrAt(k, a)
    BY <1>1, ExecutedLines
  <2>4. {at[k] : k \in Source!Executed(out)} = {0} \X Code
    BY <2>1, <2>2, <2>3
  <2> QED
    BY <2>4, ExecutedGraph
<1>6. ASSUME NEW k \in Source!Executed(out)
      PROVE  {at[m] : m \in Source!Flows(out, k)} = Follows(at[k])
  <2>1. PICK a : InstrAt(k, a)
    BY <1>1, ExecutedLines, IsCode
  <2>2. at[k] = Here(a)
    BY <2>1 DEF InstrAt, ShownAt
  <2> QED
    BY <2>1, <2>2, FlowsAre
<1>7. \A k, m \in DOMAIN at : (at[k] # NULL /\ at[k] = at[m]) => k = m
  BY DEF Text, Pages, Once
<1> QED
  BY <1>2, <1>3, <1>4, <1>5, <1>6, <1>7 DEF PrintedIsTheProgram

(* What icedc prints, icecc accepts and reads as what the Iscript says: the *)
(* same headers with the same animations, the same instructions, each       *)
(* leading to the same ones and printed once.  For every program, whatever  *)
(* the names and the gaps are and in whatever order the labels and headers  *)
(* are taken, unless a routine that only a long jump leads to is lost.      *)
THEOREM PrintedSaysTheProgram == Spec => []PrintedIsTheProgram
<1>1. PrintInv => PrintedIsTheProgram
  <2> SUFFICES ASSUME PrintInv PROVE PrintedIsTheProgram
    OBVIOUS
  <2>1. CASE pc = "done" /\ NothingLost
    BY <2>1, AllIsPrinted, TextSaysTheProgram
  <2>2. CASE ~ (pc = "done" /\ NothingLost)
    BY <2>2 DEF PrintedIsTheProgram
  <2> QED
    BY <2>1, <2>2
<1> QED
  BY <1>1, InitPrintInv, NextPrintInv, PTL DEF Spec
=============================================================================
