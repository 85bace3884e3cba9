------------------------ MODULE IscriptCompileProofs ------------------------
(***************************************************************************)
(* Proofs about IscriptCompile, for every source: what icecc refuses, and  *)
(* that what it compiles is the source.                                    *)
(***************************************************************************)
EXTENDS IscriptCompile, IscriptGraphProofs

-----------------------------------------------------------------------------
(* What has been read of source s when n lines have.                       *)

OpTo(s, n) == {k \in OpLines(s) : k <= n}
BlocksTo(s, n) == {b \in Blocks(s) : b[2] <= n}
Heads(s) == {j \in OpLines(s) : Labelled(s, j) # {}}
Unfit == {NoLabel} \cup Illegal

(* The lines of code whose instruction has not been read; the others.      *)
Pending(s, n) == {k \in Is(s, "code") : k <= n /\ \A j \in OpLines(s) : k <= j => n < j}
Settled(s, n) == {k \in Is(s, "code") : \E j \in OpLines(s) : k <= j /\ j <= n}

(* Every line but those of code is in a block that has been read.          *)
InBlocks(s, n) == \A k \in 1 .. n : s[k].is = "code" \/ \E b \in BlocksTo(s, n) : k \in b[1] .. b[2]

(* In a header that started in line f, tok is what the lines since say.    *)
InHeader(s, f, n, tok) ==
  /\ f \in 1 .. n /\ s[f].is = "start" /\ InBlocks(s, f - 1)
  /\ \A k \in f + 1 .. n : s[k].is # "end"
  /\ tok.bad <=> \E k \in f + 1 .. n : s[k].is # "var" \/ s[k].var = Bad
  /\ tok = [id |-> Value(s, <<f, n>>, Id), type |-> Value(s, <<f, n>>, Type),
            labels |-> [i \in AnimNos |-> Value(s, <<f, n>>, Anim(i))], bad |-> tok.bad]

(* A header, when the uses of labels in waiting are not connected yet: its *)
(* block has no error but names that may be unknown.                       *)
HeaderUse(s, b, i) ==
  [hp |-> Value(s, b, Id), animno |-> i, jump |-> NULL, name |-> Value(s, b, Anim(i))]
HeaderFits(s, b) ==
  /\ \A k \in Vars(s, b) : s[k].var # Bad
  /\ Value(s, b, Id) # NULL /\ Value(s, b, Type) \in DOMAIN NumAnims
  /\ \A i \in 0 .. LastAnim(s, b) : Value(s, b, Anim(i)) \notin Illegal
Enters(s, b, i, st) ==
  i \in Named(s, b) /\ Value(s, b, Anim(i)) \in Names(s) /\ st = Target(s, Value(s, b, Anim(i)))
EntryIs(s, b, i, st, labels, waiting) ==
  /\ st # NULL => /\ Enters(s, b, i, st)
                  /\ st \in DOMAIN labels /\ HeaderAnim(Value(s, b, Id)) \in labels[st].anims
  /\ i \in Named(s, b) /\ HeaderUse(s, b, i) \notin waiting => st # NULL
HeaderIs(s, b, header, labels, waiting) ==
  /\ header = [ptr |-> <<0, Value(s, b, Id)>>, st_entries |-> header.st_entries]
  /\ DOMAIN header.st_entries = 0 .. LastAnim(s, b) - 1
  /\ \A i \in 0 .. LastAnim(s, b) - 1 : EntryIs(s, b, i, header.st_entries[i], labels, waiting)
HeadersTo(s, n, headers, labels, waiting) ==
  /\ \A b \in BlocksTo(s, n) :
       HeaderFits(s, b) /\ HeaderIs(s, b, headers[Value(s, b, Id)], labels, waiting)
  /\ \A b, c \in BlocksTo(s, n) : Value(s, b, Id) = Value(s, c, Id) => b = c
  /\ DOMAIN headers = {Value(s, b, Id) : b \in BlocksTo(s, n)}

(* The same of an instruction.                                             *)
JumpUse(s, k) == [hp |-> NULL, animno |-> NULL, jump |-> k, name |-> s[k].label]
CodeFits(s, k) ==
  /\ s[k].op # "bad"
  /\ Labelled(s, k) = {} => \E j \in Before(s, k) : ~Ends(s, j)
  /\ Jumping(s, k) => s[k].label \notin Unfit
Targets(s, k, st) == Jumping(s, k) /\ s[k].label \in Names(s) /\ st = Target(s, s[k].label)
JumpIs(s, k, st, labels, waiting) ==
  /\ st # NULL => Targets(s, k, st) /\ st \in DOMAIN labels /\ k \in labels[st].jumps
  /\ Jumping(s, k) /\ JumpUse(s, k) \notin waiting => st # NULL
InstrIs(s, k, n, i) ==
  /\ i = [op |-> k, next |-> i.next, prev |-> i.prev, st_entry |-> i.st_entry, jump |-> i.jump]
  /\ {i.next} \ {NULL} = IF Ends(s, k) THEN {} ELSE After(s, k) \cap 1 .. n
  /\ {i.prev} \ {NULL} = {j \in Before(s, k) : ~Ends(s, j)}
CodeTo(s, n, heap, labels, waiting) ==
  /\ DOMAIN heap = OpTo(s, n)
  /\ \A k \in OpTo(s, n) :
       /\ CodeFits(s, k) /\ InstrIs(s, k, n, heap[k]) /\ JumpIs(s, k, heap[k].jump, labels, waiting)
       /\ heap[k].st_entry = IF k \in Heads(s) THEN k ELSE NULL
  /\ \A k \in Is(s, "code") \ OpLines(s) : k < n => k + 1 \in Is(s, "code")

(* The instruction that the next one is connected to.                      *)
CurrentIs(s, n, current) == {current} \ {NULL} = {j \in Before(s, n + 1) : ~Ends(s, j)}

TableTo(s, n, table) ==
  /\ \A e \in table : /\ e.name \notin Unfit
                      /\ \E k \in Settled(s, n) : e.name \in NamesAt(s, k) /\ e.st = Marked(s, k)
  /\ \A k \in Settled(s, n) : \A x \in NamesAt(s, k) :
       \E e \in table : e.name = x /\ e.st = Marked(s, k)
  /\ \A e, f \in table : e.name = f.name => e.st = f.st

LabelIs(s, n, st, l, heap, headers) ==
  /\ l = [id |-> l.id, bc |-> st, anims |-> l.anims, jumps |-> l.jumps]
  /\ \A an \in l.anims : \E b \in BlocksTo(s, n) : \E i \in Named(s, b) :
       /\ an = HeaderAnim(Value(s, b, Id)) /\ Enters(s, b, i, st)
       /\ headers[Value(s, b, Id)].st_entries[i] = st
  /\ \A k \in l.jumps : k \in OpTo(s, n) /\ Targets(s, k, st) /\ heap[k].jump = st
LabelsTo(s, n, labels, heap, headers) ==
  /\ DOMAIN labels = Heads(s) \cap OpTo(s, n)
  /\ \A st \in DOMAIN labels : LabelIs(s, n, st, labels[st], heap, headers)

SymTblIs(symtbl, next_id, labels) ==
  /\ next_id \in Nat /\ DOMAIN symtbl \subseteq 0 .. next_id - 1
  /\ \A st \in DOMAIN labels : labels[st].id \in DOMAIN symtbl /\ symtbl[labels[st].id] = st
  /\ \A k \in DOMAIN symtbl : symtbl[k] \in DOMAIN labels /\ labels[symtbl[k]].id = k

UsesTo(s, n, waiting) ==
  \A use \in waiting :
    \/ \E b \in BlocksTo(s, n) : \E i \in Named(s, b) : use = HeaderUse(s, b, i)
    \/ \E k \in OpTo(s, n) : Jumping(s, k) /\ use = JumpUse(s, k)

GraphTo(s, n, headers, heap, labels, table, waiting) ==
  /\ HeadersTo(s, n, headers, labels, waiting) /\ CodeTo(s, n, heap, labels, waiting)
  /\ TableTo(s, n, table) /\ LabelsTo(s, n, labels, heap, headers) /\ UsesTo(s, n, waiting)

Elements(q) == {q[m] : m \in DOMAIN q}
Waiting == Elements(relocq)
Reading == pc \in {"next", "header", "label"}

PositionInv ==
  /\ src \in Sources /\ lineno \in 0 .. Len(src) /\ error \in BOOLEAN
  /\ Reading \/ pc \in {"relocate", "check", "remove", "compiled", "error"}
  /\ ~Reading => lineno = Len(src)
  /\ pc = "error" => error
  /\ pc \in {"remove", "compiled"} => ~error
  /\ error => ~WellFormed(src)
  /\ ~error /\ pc \in {"check", "remove", "compiled"} => WellFormed(src)

BlocksInv == IF pc = "header" THEN \E f \in 1 .. lineno : InHeader(src, f, lineno, htok)
                              ELSE InBlocks(src, lineno)
NamesInv ==
  /\ names \in Seq(Elements(names))
  /\ Elements(names) = UNION {NamesAt(src, k) : k \in Pending(src, lineno)}
  /\ pc = "label" => lineno \in Pending(src, lineno)
  /\ pc # "label" => Pending(src, lineno) = {}
CurrentInv ==
  IF Reading THEN CurrentIs(src, lineno, current_instr) ELSE CurrentIs(src, lineno, NULL)
GraphInv ==
  /\ GraphTo(src, lineno, table_headers, instr, label, table_names, Waiting)
  /\ SymTblIs(table_symtbl, uniqid, label)
  /\ relocq \in Seq(Waiting)

(* The lines of code in a header that lacks its end are not read as code.  *)
Clean == ~error /\ (pc = "header" => ~htok.bad)
Building == Reading \/ pc \in {"relocate", "check"}
ParseInv ==
  /\ ~error /\ Building => BlocksInv
  /\ Clean /\ Building => /\ GraphInv /\ NamesInv /\ CurrentInv
                          /\ freeinstrs = {} /\ ~misread
                          /\ bad_labels = <<>> \/ pc = "check"
                          /\ pc = "check" => relocq = <<>>

-----------------------------------------------------------------------------
(* A label that may go: nothing refers to it, or nothing that is executed. *)
Entered(s, st) == \E b \in Blocks(s) : \E i \in Named(s, b) : st = Target(s, Value(s, b, Anim(i)))
JumpedTo(s, st) == \E k \in OpLines(s) : Jumping(s, k) /\ st = Target(s, s[k].label)
MayGo(s, st) ==
  st \in Heads(s) /\ ~Entered(s, st) /\ (~JumpedTo(s, st) \/ st \notin Executed(s))

CheckInv ==
  ~error /\ pc = "check" =>
    /\ todo \subseteq table_names
    /\ bad_labels \in Seq(Heads(src))
    /\ \A st \in Elements(bad_labels) : MayGo(src, st)
    /\ \A st \in Heads(src) \ Executed(src) : st \in Elements(bad_labels) \/ \E e \in todo : e.st = st

(* The graph of the source, with only some of the labels. *)
GraphIs(s, heap, labels) ==
  /\ DOMAIN heap = OpLines(s)
  /\ \A k \in OpLines(s) :
       /\ InstrIs(s, k, Len(s), heap[k])
       /\ heap[k].jump = IF Jumping(s, k) THEN Target(s, s[k].label) ELSE NULL
       /\ heap[k].st_entry = IF k \in DOMAIN labels THEN k ELSE NULL
  /\ DOMAIN labels \subseteq Heads(s)
  /\ \A st \in Heads(s) \ DOMAIN labels : MayGo(s, st)
  /\ \A st \in DOMAIN labels :
       /\ labels[st] = [id |-> labels[st].id, bc |-> st, anims |-> labels[st].anims,
                        jumps |-> {k \in OpLines(s) : Jumping(s, k) /\ st = Target(s, s[k].label)}]
       /\ labels[st].anims = {HeaderAnim(Value(s, b, Id)) :
             b \in {c \in Blocks(s) : \E i \in Named(s, c) : st = Target(s, Value(s, c, Anim(i)))}}

HeadersAre(s, headers) ==
  /\ DOMAIN headers = {Value(s, b, Id) : b \in Blocks(s)}
  /\ \A b \in Blocks(s) :
       LET header == headers[Value(s, b, Id)] IN
       /\ header.ptr = <<0, Value(s, b, Id)>>
       /\ DOMAIN header.st_entries = 0 .. LastAnim(s, b) - 1
       /\ \A i \in 0 .. LastAnim(s, b) - 1 :
            header.st_entries[i] =
              IF i \in Named(s, b) THEN Target(s, Value(s, b, Anim(i))) ELSE NULL

RemoveInv ==
  pc = "remove" /\ ~misread =>
    /\ GraphIs(src, instr, label) /\ SymTblIs(table_symtbl, uniqid, label)
    /\ HeadersAre(src, table_headers)
    /\ bad_labels \in Seq(Heads(src))
    /\ \A st \in Elements(bad_labels) : MayGo(src, st)
    /\ freeinstrs \subseteq OpLines(src) \ Executed(src)
    /\ \A k \in freeinstrs : Ends(src, k) \/ After(src, k) \subseteq freeinstrs \cup Executed(src)
    /\ \A st \in Heads(src) \ Executed(src) :
         IF st \in DOMAIN label THEN st \in Elements(bad_labels) ELSE st \in freeinstrs

CompileInv ==
  /\ PositionInv /\ ParseInv /\ CheckInv /\ RemoveInv
  /\ CompiledIsTheSource /\ NoDeadCode /\ CompiledAgree
-----------------------------------------------------------------------------
(* Sources *)

LEMMA GreatestNumber ==
  ASSUME NEW T, NEW n \in Nat, T \subseteq 0 .. n, T # {}
  PROVE  \E x \in T : \A y \in T : y <= x
<1> DEFINE from == {n - x : x \in T}
<1>1. from \subseteq Nat /\ from # {}
  <2>1. \A x \in T : n - x \in Nat
    OBVIOUS
  <2> QED
    BY <2>1
<1>2. PICK m \in from : \A y \in from : m <= y
  BY <1>1, LeastNumber
<1>3. PICK x \in T : m = n - x
  BY <1>2
<1>4. ASSUME NEW y \in T PROVE y <= x
  <2>1. m <= n - y
    BY <1>2
  <2> QED
    BY <1>3, <2>1
<1> QED
  BY <1>4

LEMMA SourceFacts ==
  ASSUME NEW s, IsSource(s)
  PROVE  /\ Len(s) \in Nat /\ DOMAIN s = 1 .. Len(s)
         /\ OpLines(s) \subseteq 1 .. Len(s) /\ OpLines(s) \subseteq Is(s, "code")
         /\ IsFiniteSet(OpLines(s)) /\ \A what : Is(s, what) \subseteq 1 .. Len(s)
<1>1. Len(s) \in Nat /\ DOMAIN s = 1 .. Len(s)
  BY SeqIsFunction DEF IsSource
<1>2. IsFiniteSet(1 .. Len(s))
  BY <1>1, FS_Interval
<1>3. OpLines(s) \subseteq 1 .. Len(s) /\ \A what : Is(s, what) \subseteq 1 .. Len(s)
  BY <1>1 DEF OpLines, Is
<1> QED
  BY <1>1, <1>2, <1>3, FS_Subset DEF OpLines

(* What kinds of lines there are. *)
LEMMA LineFacts ==
  ASSUME NEW s, IsSource(s), NEW k \in DOMAIN s
  PROVE  /\ s[k].is \in {"start", "end", "var", "code"}
         /\ k \in Is(s, s[k].is) /\ \A what : k \in Is(s, what) => s[k].is = what
         /\ s[k].is = "var" => s[k].var \in {Id, Type, Bad} \cup {Anim(i) : i \in AnimNos}
         /\ s[k].is = "code" => /\ s[k].op \in Kinds \cup {"none", "bad"}
                                /\ s[k].names \in Seq(NamesAt(s, k))
                                /\ s[k].names = <<>> => s[k].op # "none"
                                /\ s[k].names = <<>> <=> NamesAt(s, k) = {}
                                /\ k \in OpLines(s) <=> s[k].op # "none"
<1>1. IsLine(s[k])
  BY DEF IsSource
<1>2. s[k].is = "code" => s[k].names \in Seq(NamesAt(s, k))
  BY <1>1 DEF IsLine, NamesAt
<1>3. ASSUME s[k].is = "code" PROVE s[k].names = <<>> <=> NamesAt(s, k) = {}
  <2>1. PICK q \in Seq(NamesAt(s, k)) : q = s[k].names
    BY <1>2, <1>3
  <2>2. NamesAt(s, k) = {q[m] : m \in DOMAIN q}
    BY <2>1 DEF NamesAt
  <2>3. q = <<>> <=> DOMAIN q = {}
    OBVIOUS
  <2> QED
    BY <2>1, <2>2, <2>3
<1> QED
  BY <1>1, <1>2, <1>3 DEF IsLine, Is, OpLines

LEMMA BeforeFacts ==
  ASSUME NEW s, IsSource(s), NEW k \in Nat
  PROVE  /\ \A j \in Before(s, k) : j \in OpLines(s) /\ j < k
         /\ \A i, j \in Before(s, k) : i = j
         /\ \A j \in Before(s, k) : \A i \in OpLines(s) : i < k => i <= j
         /\ (\E j \in OpLines(s) : j < k) => Before(s, k) # {}
<1>1. OpLines(s) \subseteq 1 .. Len(s) /\ Len(s) \in Nat
  BY SourceFacts
<1>2. ASSUME NEW i \in Before(s, k), NEW j \in Before(s, k) PROVE i = j
  BY <1>1 DEF Before
<1>3. ASSUME NEW j \in OpLines(s), j < k PROVE Before(s, k) # {}
  <2> DEFINE T == {x \in OpLines(s) : x < k}
  <2>1. T \subseteq 0 .. Len(s) /\ T # {}
    BY <1>1, <1>3
  <2>2. PICK x \in T : \A y \in T : y <= x
    BY <1>1, <2>1, GreatestNumber
  <2>3. x \in Before(s, k)
    BY <2>2 DEF Before
  <2> QED
    BY <2>3
<1>4. \A j \in Before(s, k) : /\ j \in OpLines(s) /\ j < k
                              /\ \A i \in OpLines(s) : i < k => i <= j
  BY DEF Before
<1> QED
  BY <1>2, <1>3, <1>4

LEMMA MarkedFacts ==
  ASSUME NEW s, IsSource(s), NEW k \in Nat, NEW j \in OpLines(s), k <= j
  PROVE  /\ Marked(s, k) \in OpLines(s) /\ k <= Marked(s, k) /\ Marked(s, k) <= j
         /\ (\A i \in OpLines(s) : k <= i => j <= i) => Marked(s, k) = j
<1>1. OpLines(s) \subseteq 1 .. Len(s) /\ Len(s) \in Nat
  BY SourceFacts
<1> DEFINE T == {x \in OpLines(s) : k <= x}
<1>2. T \subseteq Nat /\ T # {}
  BY <1>1
<1>3. PICK x \in T : \A y \in T : x <= y
  BY <1>2, LeastNumber
<1>4. \E x1 \in OpLines(s) : x1 >= k /\ \A i \in OpLines(s) : i >= k => x1 <= i
  BY <1>1, <1>3
<1>5. Marked(s, k) \in OpLines(s) /\ Marked(s, k) >= k /\ \A i \in OpLines(s) : i >= k => Marked(s, k) <= i
  BY <1>4 DEF Marked
<1> QED
  BY <1>1, <1>5

LEMMA AfterFacts ==
  ASSUME NEW s, IsSource(s), NEW k \in OpLines(s)
  PROVE  /\ \A j \in After(s, k) : j \in OpLines(s) /\ k < j /\ k \in Before(s, j)
         /\ \A i, j \in After(s, k) : i = j
         /\ \A j \in OpLines(s) : k < j => \E i \in After(s, k) : i <= j
         /\ \A j \in OpLines(s) : k \in Before(s, j) => j \in After(s, k)
<1>1. OpLines(s) \subseteq 1 .. Len(s) /\ Len(s) \in Nat
  BY SourceFacts
<1>2. ASSUME NEW i \in After(s, k), NEW j \in After(s, k) PROVE i = j
  <2>1. /\ i \in OpLines(s) /\ j \in OpLines(s) /\ k < i /\ k < j
        /\ \A x \in OpLines(s) : (x < i => x <= k) /\ (x < j => x <= k)
    BY DEF After, Before
  <2> QED
    BY <1>1, <2>1
<1>3. ASSUME NEW j \in OpLines(s), k < j PROVE \E i \in After(s, k) : i <= j
  <2>1. k + 1 \in Nat /\ k + 1 <= j
    BY <1>1, <1>3
  <2> DEFINE T == {x \in OpLines(s) : k + 1 <= x}
  <2>2. T \subseteq Nat /\ T # {}
    BY <1>1, <2>1
  <2>3. PICK i \in T : \A y \in T : i <= y
    BY <2>2, LeastNumber
  <2>4. \A x \in OpLines(s) : x < i => x <= k
    BY <1>1, <2>3
  <2>5. i \in After(s, k) /\ i <= j
    BY <1>1, <2>1, <2>3, <2>4 DEF After, Before
  <2> QED
    BY <2>5
<1>4. \A j \in After(s, k) : j \in OpLines(s) /\ k < j /\ k \in Before(s, j)
  BY DEF After, Before
<1>5. \A j \in OpLines(s) : k \in Before(s, j) => j \in After(s, k)
  BY DEF After
<1> QED
  BY <1>2, <1>3, <1>4, <1>5

-----------------------------------------------------------------------------
(* One more line: what it adds. *)

LEMMA PendingFacts ==
  ASSUME NEW s, IsSource(s), NEW n \in Nat
  PROVE  /\ Pending(s, n) \cap Settled(s, n) = {}
         /\ \A k \in Is(s, "code") : k <= n => k \in Pending(s, n) \cup Settled(s, n)
         /\ \A k \in Settled(s, n) : /\ k \in Is(s, "code") /\ k <= n
                                     /\ Marked(s, k) \in OpTo(s, n) /\ k <= Marked(s, k)
         /\ \A k \in Pending(s, n) : k \in Is(s, "code") /\ k \notin OpLines(s) /\ k <= n
         /\ OpTo(s, n) \subseteq Settled(s, n)
<1>1. /\ OpLines(s) \subseteq 1 .. Len(s) /\ Len(s) \in Nat /\ Is(s, "code") \subseteq 1 .. Len(s)
      /\ OpLines(s) \subseteq Is(s, "code")
  BY SourceFacts
<1>2. ASSUME NEW k \in Settled(s, n)
      PROVE  k \in Is(s, "code") /\ k <= n /\ Marked(s, k) \in OpTo(s, n) /\ k <= Marked(s, k)
  <2>1. PICK j \in OpLines(s) : k <= j /\ j <= n
    BY DEF Settled
  <2>2. k \in Is(s, "code") /\ k \in Nat /\ k <= n
    BY <1>1, <2>1 DEF Settled
  <2>3. Marked(s, k) \in OpLines(s) /\ k <= Marked(s, k) /\ Marked(s, k) <= j
    BY <2>1, <2>2, MarkedFacts
  <2> QED
    BY <1>1, <2>1, <2>2, <2>3 DEF OpTo
<1>3. \A k \in Pending(s, n) : k \in Is(s, "code") /\ k \notin OpLines(s) /\ k <= n
  BY <1>1 DEF Pending
<1>4. Pending(s, n) \cap Settled(s, n) = {}
  BY <1>1 DEF Pending, Settled
<1>5. \A k \in Is(s, "code") : k <= n => k \in Pending(s, n) \cup Settled(s, n)
  BY <1>1 DEF Pending, Settled
<1>6. OpTo(s, n) \subseteq Settled(s, n)
  BY <1>1 DEF OpTo, Settled
<1> QED
  BY <1>2, <1>3, <1>4, <1>5, <1>6

LEMMA NoInstr ==
  ASSUME NEW s, IsSource(s), NEW n \in Nat, n + 1 \in DOMAIN s, n + 1 \notin OpLines(s)
  PROVE  /\ OpTo(s, n + 1) = OpTo(s, n) /\ Before(s, (n + 1) + 1) = Before(s, n + 1)
         /\ Settled(s, n + 1) = Settled(s, n)
         /\ Pending(s, n + 1) = Pending(s, n) \cup ({n + 1} \cap Is(s, "code"))
         /\ \A k : After(s, k) \cap 1 .. n + 1 = After(s, k) \cap 1 .. n
<1>1. /\ OpLines(s) \subseteq 1 .. Len(s) /\ Len(s) \in Nat /\ Is(s, "code") \subseteq 1 .. Len(s)
      /\ \A j \in OpLines(s) : j # n + 1
  BY SourceFacts
<1>2. \A j \in OpLines(s) : /\ j <= n + 1 <=> j <= n
                            /\ j < (n + 1) + 1 <=> j < n + 1
                            /\ n < j <=> n + 1 < j
  BY <1>1
<1>3. OpTo(s, n + 1) = OpTo(s, n)
  BY <1>2 DEF OpTo
<1>4. Before(s, (n + 1) + 1) = Before(s, n + 1)
  BY <1>2 DEF Before
<1>5. Settled(s, n + 1) = Settled(s, n)
  BY <1>2 DEF Settled
<1>6. Pending(s, n + 1) = Pending(s, n) \cup ({n + 1} \cap Is(s, "code"))
  <2>1. \A k \in Is(s, "code") : k <= n + 1 <=> k <= n \/ k = n + 1
    BY <1>1
  <2>2. \A j \in OpLines(s) : n + 1 <= j => n + 1 < j
    BY <1>1
  <2> QED
    BY <1>2, <2>1, <2>2 DEF Pending
<1>7. ASSUME NEW k PROVE After(s, k) \cap 1 .. n + 1 = After(s, k) \cap 1 .. n
  <2>1. \A j \in OpLines(s) : j \in 1 .. n + 1 <=> j \in 1 .. n
    BY <1>1
  <2> QED
    BY <2>1 DEF After
<1> QED
  BY <1>3, <1>4, <1>5, <1>6, <1>7

LEMMA OneInstr ==
  ASSUME NEW s, IsSource(s), NEW n \in Nat, n + 1 \in OpLines(s)
  PROVE  /\ OpTo(s, n + 1) = OpTo(s, n) \cup {n + 1} /\ n + 1 \notin OpTo(s, n)
         /\ Before(s, (n + 1) + 1) = {n + 1} /\ Pending(s, n + 1) = {}
         /\ Settled(s, n + 1) = Settled(s, n) \cup Pending(s, n) \cup {n + 1}
         /\ \A k \in Pending(s, n) \cup {n + 1} : Marked(s, k) = n + 1
         /\ Labelled(s, n + 1) = {k \in Pending(s, n) \cup {n + 1} : s[k].names # <<>>}
         /\ \A k \in OpTo(s, n) :
              After(s, k) \cap 1 .. n + 1 =
                (After(s, k) \cap 1 .. n) \cup (IF k \in Before(s, n + 1) THEN {n + 1} ELSE {})
         /\ After(s, n + 1) \cap 1 .. n + 1 = {}
<1>1. /\ OpLines(s) \subseteq 1 .. Len(s) /\ Len(s) \in Nat /\ Is(s, "code") \subseteq 1 .. Len(s)
      /\ OpLines(s) \subseteq Is(s, "code")
  BY SourceFacts
<1>2. OpTo(s, n + 1) = OpTo(s, n) \cup {n + 1} /\ n + 1 \notin OpTo(s, n)
  <2>1. \A j \in OpLines(s) : j <= n + 1 <=> j <= n \/ j = n + 1
    BY <1>1
  <2> QED
    BY <2>1 DEF OpTo
<1>3. Before(s, (n + 1) + 1) = {n + 1}
  <2>1. \A j \in OpLines(s) : j < (n + 1) + 1 <=> j <= n + 1
    BY <1>1
  <2>2. \A j \in OpLines(s) : j <= n + 1 /\ n + 1 <= j => j = n + 1
    BY <1>1
  <2> QED
    BY <1>1, <2>1, <2>2 DEF Before
<1>4. Pending(s, n + 1) = {}
  <2>1. ASSUME NEW k \in Pending(s, n + 1) PROVE FALSE
    <3>1. k <= n + 1 /\ (k <= n + 1 => n + 1 < n + 1)
      BY DEF Pending
    <3> QED
      BY <3>1
  <2> QED
    BY <2>1
<1>5. Settled(s, n + 1) = {k \in Is(s, "code") : k <= n + 1}
  BY <1>1 DEF Settled
<1>6. {k \in Is(s, "code") : k <= n} = Settled(s, n) \cup Pending(s, n)
  BY PendingFacts
<1>7. Settled(s, n + 1) = Settled(s, n) \cup Pending(s, n) \cup {n + 1}
  <2>1. \A k \in Is(s, "code") : k <= n + 1 <=> k <= n \/ k = n + 1
    BY <1>1
  <2> QED
    BY <1>1, <1>5, <1>6, <2>1
<1>8. ASSUME NEW k \in Pending(s, n) \cup {n + 1} PROVE Marked(s, k) = n + 1
  <2>1. k \in Nat /\ k <= n + 1
    BY <1>1 DEF Pending
  <2>2. \A i \in OpLines(s) : k <= i => n + 1 <= i
    BY <1>1 DEF Pending
  <2> QED
    BY <2>1, <2>2, MarkedFacts
<1>9. Labelled(s, n + 1) = {k \in Pending(s, n) \cup {n + 1} : s[k].names # <<>>}
  <2>1. ASSUME NEW k \in Settled(s, n) PROVE Marked(s, k) # n + 1
    BY <1>2, PendingFacts
  <2>2. \A k \in Is(s, "code") : k <= n + 1 => k \in Settled(s, n) \cup Pending(s, n) \cup {n + 1}
    BY <1>5, <1>7
  <2>3. \A k \in Pending(s, n) \cup {n + 1} : k \in Is(s, "code") /\ k <= n + 1
    BY <1>1 DEF Pending
  <2> QED
    BY <1>8, <2>1, <2>2, <2>3 DEF Labelled
<1>10. ASSUME NEW k \in OpTo(s, n)
       PROVE After(s, k) \cap 1 .. n + 1 =
               (After(s, k) \cap 1 .. n) \cup (IF k \in Before(s, n + 1) THEN {n + 1} ELSE {})
  <2>1. \A j \in OpLines(s) : j \in 1 .. n + 1 <=> j \in 1 .. n \/ j = n + 1
    BY <1>1
  <2>2. n + 1 \in After(s, k) <=> k \in Before(s, n + 1)
    BY DEF After
  <2>3. n + 1 \notin 1 .. n
    OBVIOUS
  <2> QED
    BY <2>1, <2>2, <2>3 DEF After
<1>11. After(s, n + 1) \cap 1 .. n + 1 = {}
  <2>1. \A j \in After(s, n + 1) : n + 1 < j /\ j \in OpLines(s)
    BY AfterFacts
  <2> QED
    BY <1>1, <2>1
<1> QED
  BY <1>2, <1>3, <1>4, <1>7, <1>8, <1>9, <1>10, <1>11

LEMMA BlocksAreRead ==
  ASSUME NEW s, IsSource(s), NEW n \in Nat
  PROVE  /\ \A b \in Blocks(s) :
              /\ b[1] \in Nat \ {0} /\ b[2] \in Nat /\ b[1] < b[2] /\ b = <<b[1], b[2]>>
              /\ b[1] \in DOMAIN s /\ s[b[1]].is = "start" /\ b[2] \in DOMAIN s /\ s[b[2]].is = "end"
              /\ \A k \in (b[1] + 1) .. (b[2] - 1) : s[k].is = "var"
         /\ BlocksTo(s, n) \subseteq BlocksTo(s, n + 1)
         /\ (n + 1 \in DOMAIN s => s[n + 1].is # "end") => BlocksTo(s, n + 1) = BlocksTo(s, n)
         /\ BlocksTo(s, Len(s)) = Blocks(s)
         /\ BlocksTo(s, n) \subseteq Blocks(s)
<1>1. Len(s) \in Nat /\ DOMAIN s = 1 .. Len(s)
  BY SourceFacts
<1>2. ASSUME NEW b \in Blocks(s)
      PROVE  /\ b[1] \in Nat \ {0} /\ b[2] \in Nat /\ b[1] < b[2] /\ b = <<b[1], b[2]>>
             /\ b[1] \in DOMAIN s /\ s[b[1]].is = "start" /\ b[2] \in DOMAIN s /\ s[b[2]].is = "end"
             /\ \A k \in (b[1] + 1) .. (b[2] - 1) : s[k].is = "var"
  BY <1>1 DEF Blocks, Is
<1>3. BlocksTo(s, n) \subseteq BlocksTo(s, n + 1)
  BY <1>2 DEF BlocksTo
<1>4. ASSUME n + 1 \in DOMAIN s => s[n + 1].is # "end" PROVE BlocksTo(s, n + 1) = BlocksTo(s, n)
  <2>1. \A b \in Blocks(s) : b[2] # n + 1
    BY <1>2, <1>4
  <2>2. \A b \in Blocks(s) : b[2] <= n + 1 <=> b[2] <= n
    BY <1>2, <2>1
  <2> QED
    BY <2>2 DEF BlocksTo
<1>5. BlocksTo(s, Len(s)) = Blocks(s)
  BY <1>1, <1>2 DEF BlocksTo
<1> QED
  BY <1>2, <1>3, <1>4, <1>5 DEF BlocksTo

(* A line that is neither an instruction nor the end of a header adds      *)
(* nothing to the graph.                                                   *)
LEMMA SkipLine ==
  ASSUME NEW s, IsSource(s), NEW n \in Nat, n + 1 \in DOMAIN s, n + 1 \notin OpLines(s),
         s[n + 1].is # "end", Pending(s, n) = {} \/ s[n + 1].is = "code",
         NEW headers, NEW heap, NEW labels, NEW table, NEW waiting,
         GraphTo(s, n, headers, heap, labels, table, waiting)
  PROVE  GraphTo(s, n + 1, headers, heap, labels, table, waiting)
<1>1. /\ OpTo(s, n + 1) = OpTo(s, n) /\ Settled(s, n + 1) = Settled(s, n)
      /\ \A k : After(s, k) \cap 1 .. n + 1 = After(s, k) \cap 1 .. n
  BY NoInstr
<1>2. BlocksTo(s, n + 1) = BlocksTo(s, n)
  BY BlocksAreRead
<1>3. HeadersTo(s, n + 1, headers, labels, waiting)
  BY <1>2 DEF GraphTo, HeadersTo
<1>4. CodeTo(s, n + 1, heap, labels, waiting)
  <2>1. CodeTo(s, n, heap, labels, waiting)
    BY DEF GraphTo
  <2>2. ASSUME NEW k \in Is(s, "code") \ OpLines(s), k < n + 1 PROVE k + 1 \in Is(s, "code")
    <3>1. k \in Nat
      BY SourceFacts
    <3>2. CASE k < n
      BY <2>1, <3>2 DEF CodeTo
    <3>3. CASE k = n
      <4>1. k \in Pending(s, n)
        BY <3>1, <3>3, SourceFacts DEF Pending
      <4> QED
        BY <3>3, <4>1 DEF Is
    <3> QED
      BY <2>2, <3>1, <3>2, <3>3
  <2>3. \A k, i : InstrIs(s, k, n, i) => InstrIs(s, k, n + 1, i)
    BY <1>1 DEF InstrIs
  <2> QED
    BY <1>1, <2>1, <2>2, <2>3 DEF CodeTo
<1>5. TableTo(s, n + 1, table)
  BY <1>1 DEF GraphTo, TableTo
<1>6. LabelsTo(s, n + 1, labels, heap, headers)
  BY <1>1, <1>2 DEF GraphTo, LabelsTo, LabelIs
<1>7. UsesTo(s, n + 1, waiting)
  BY <1>1, <1>2 DEF GraphTo, UsesTo
<1> QED
  BY <1>3, <1>4, <1>5, <1>6, <1>7 DEF GraphTo

(* What is known of a label or a header is kept when the graph grows.      *)
Grows(heap, labels, heap2, labels2) ==
  /\ \A k \in DOMAIN heap : k \in DOMAIN heap2 /\ heap2[k].jump = heap[k].jump
  /\ \A st \in DOMAIN labels : st \in DOMAIN labels2 /\ labels2[st] = labels[st]

LEMMA HeadersKept ==
  ASSUME NEW s, NEW b, NEW header, NEW labels, NEW waiting, NEW labels2, NEW waiting2,
         HeaderIs(s, b, header, labels, waiting), waiting \subseteq waiting2,
         \A st \in DOMAIN labels : st \in DOMAIN labels2 /\ labels2[st] = labels[st]
  PROVE  HeaderIs(s, b, header, labels2, waiting2)
BY DEF HeaderIs, EntryIs

LEMMA JumpsKept ==
  ASSUME NEW s, NEW k, NEW st, NEW labels, NEW waiting, NEW labels2, NEW waiting2,
         JumpIs(s, k, st, labels, waiting), waiting \subseteq waiting2,
         \A x \in DOMAIN labels : x \in DOMAIN labels2 /\ labels2[x] = labels[x]
  PROVE  JumpIs(s, k, st, labels2, waiting2)
BY DEF JumpIs

(* An instruction that is read: heap2 and labels2 have it.                 *)
ReadsInstr(s, i, heap, heap2, current, st) ==
  /\ DOMAIN heap2 = DOMAIN heap \cup {i}
  /\ heap2[i] = [op |-> i, next |-> NULL, prev |-> current, st_entry |-> st, jump |-> NULL]
  /\ \A x \in DOMAIN heap : x # i => heap2[x] = [heap[x] EXCEPT !.next = IF x = current THEN i ELSE @]

LEMMA CodeGrows ==
  ASSUME NEW s, IsSource(s), NEW n \in Nat, n + 1 \in OpLines(s), NULL \notin Nat,
         NEW heap, NEW labels, NEW waiting, CodeTo(s, n, heap, labels, waiting),
         NEW current, CurrentIs(s, n, current), CodeFits(s, n + 1),
         NEW heap2, NEW labels2, NEW waiting2,
         ReadsInstr(s, n + 1, heap, heap2, current, IF n + 1 \in Heads(s) THEN n + 1 ELSE NULL),
         \A st \in DOMAIN labels : st \in DOMAIN labels2 /\ labels2[st] = labels[st],
         waiting \subseteq waiting2, Jumping(s, n + 1) => JumpUse(s, n + 1) \in waiting2
  PROVE  CodeTo(s, n + 1, heap2, labels2, waiting2)
<1> DEFINE i == n + 1
<1>1. /\ OpTo(s, i) = OpTo(s, n) \cup {i} /\ i \notin OpTo(s, n)
      /\ \A k \in OpTo(s, n) :
           After(s, k) \cap 1 .. i =
             (After(s, k) \cap 1 .. n) \cup (IF k \in Before(s, i) THEN {i} ELSE {})
      /\ After(s, i) \cap 1 .. i = {}
  BY OneInstr
<1>2. DOMAIN heap = OpTo(s, n) /\ DOMAIN heap2 = OpTo(s, i)
  BY <1>1 DEF CodeTo, ReadsInstr
<1>3. i \in Nat /\ OpTo(s, n) \subseteq Nat
  BY SourceFacts DEF OpTo
<1>4. \A j, k \in Before(s, i) : j = k
  BY <1>3, BeforeFacts
<1>5. ASSUME NEW k \in OpTo(s, n) PROVE (k = current) <=> k \in Before(s, i) /\ ~Ends(s, k)
  <2>1. k # NULL
    BY <1>3
  <2> QED
    BY <1>4, <2>1 DEF CurrentIs
<1>6. ASSUME NEW k \in OpTo(s, n)
      PROVE  /\ CodeFits(s, k) /\ InstrIs(s, k, i, heap2[k])
             /\ JumpIs(s, k, heap2[k].jump, labels2, waiting2)
             /\ heap2[k].st_entry = IF k \in Heads(s) THEN k ELSE NULL
  <2>1. /\ CodeFits(s, k) /\ InstrIs(s, k, n, heap[k]) /\ JumpIs(s, k, heap[k].jump, labels, waiting)
        /\ heap[k].st_entry = IF k \in Heads(s) THEN k ELSE NULL
    BY DEF CodeTo
  <2>2. heap2[k] = [heap[k] EXCEPT !.next = IF k = current THEN i ELSE @]
    BY <1>1, <1>2 DEF ReadsInstr
  <2>3. heap[k] = [op |-> k, next |-> heap[k].next, prev |-> heap[k].prev,
                   st_entry |-> heap[k].st_entry, jump |-> heap[k].jump]
    BY <2>1 DEF InstrIs
  <2>4. heap2[k] = [op |-> k, next |-> IF k = current THEN i ELSE heap[k].next, prev |-> heap[k].prev,
                    st_entry |-> heap[k].st_entry, jump |-> heap[k].jump]
    BY <2>2, <2>3
  <2>5. JumpIs(s, k, heap2[k].jump, labels2, waiting2)
    BY <2>1, <2>4, JumpsKept
  <2>6. {heap2[k].next} \ {NULL} = IF Ends(s, k) THEN {} ELSE After(s, k) \cap 1 .. i
    <3>1. {heap[k].next} \ {NULL} = IF Ends(s, k) THEN {} ELSE After(s, k) \cap 1 .. n
      BY <2>1 DEF InstrIs
    <3>2. CASE k = current
      <4>1. k \in Before(s, i) /\ ~Ends(s, k)
        BY <1>5, <3>2
      <4>2. i \in After(s, k)
        BY <4>1 DEF After
      <4>3. \A j \in After(s, k) : j = i
        BY <4>2, AfterFacts DEF OpTo
      <4>4. After(s, k) \cap 1 .. i = {i} /\ i # NULL
        BY <1>3, <4>2, <4>3
      <4> QED
        BY <2>4, <3>2, <4>1, <4>4
    <3>3. CASE k # current
      <4>1. k \notin Before(s, i) \/ Ends(s, k)
        BY <1>5, <3>3
      <4>2. heap2[k].next = heap[k].next
        BY <2>4, <3>3
      <4> QED
        BY <1>1, <3>1, <4>1, <4>2
    <3> QED
      BY <3>2, <3>3
  <2>7. {heap2[k].prev} \ {NULL} = {j \in Before(s, k) : ~Ends(s, j)}
    BY <2>1, <2>4 DEF InstrIs
  <2>8. heap2[k] = [op |-> k, next |-> heap2[k].next, prev |-> heap2[k].prev,
                    st_entry |-> heap2[k].st_entry, jump |-> heap2[k].jump]
    BY <2>4
  <2>9. heap2[k].st_entry = heap[k].st_entry
    BY <2>4
  <2> QED
    BY <2>1, <2>5, <2>6, <2>7, <2>8, <2>9 DEF InstrIs
<1>7. /\ CodeFits(s, i) /\ InstrIs(s, i, i, heap2[i]) /\ JumpIs(s, i, heap2[i].jump, labels2, waiting2)
      /\ heap2[i].st_entry = IF i \in Heads(s) THEN i ELSE NULL
  <2>1. heap2[i] = [op |-> i, next |-> NULL, prev |-> current,
                    st_entry |-> IF i \in Heads(s) THEN i ELSE NULL, jump |-> NULL]
    BY DEF ReadsInstr
  <2>2. InstrIs(s, i, i, heap2[i])
    BY <1>1, <2>1 DEF InstrIs, CurrentIs
  <2>3. JumpIs(s, i, NULL, labels2, waiting2)
    BY DEF JumpIs
  <2> QED
    BY <2>1, <2>2, <2>3
<1>8. ASSUME NEW k \in Is(s, "code") \ OpLines(s), k < i PROVE k + 1 \in Is(s, "code")
  <2>1. k \in Nat /\ i \in Is(s, "code")
    BY SourceFacts
  <2>2. k < n \/ k = n
    BY <1>8, <2>1
  <2> QED
    BY <2>1, <2>2 DEF CodeTo
<1> QED
  BY <1>1, <1>2, <1>6, <1>7, <1>8 DEF CodeTo

-----------------------------------------------------------------------------
(* Headers *)

LEMMA FiniteIsBounded ==
  ASSUME NEW S, IsFiniteSet(S), S \subseteq Nat
  PROVE  \E n \in Nat : S \subseteq 0 .. n
<1> DEFINE bad == {k \in Nat : \E T : /\ IsFiniteSet(T) /\ T \subseteq Nat /\ Cardinality(T) = k
                                     /\ ~ \E n \in Nat : T \subseteq 0 .. n}
<1>1. SUFFICES ASSUME bad # {} PROVE FALSE
  <2>1. Cardinality(S) \in Nat
    BY FS_CardinalityType
  <2> QED
    BY <2>1
<1>2. PICK k \in bad : \A y \in bad : k <= y
  BY <1>1, LeastNumber
<1>3. PICK T : /\ IsFiniteSet(T) /\ T \subseteq Nat /\ Cardinality(T) = k
               /\ ~ \E n \in Nat : T \subseteq 0 .. n
  BY <1>2
<1>4. T # {}
  BY <1>3
<1>5. PICK x \in T : TRUE
  BY <1>4
<1>6. IsFiniteSet(T \ {x}) /\ Cardinality(T \ {x}) = k - 1
  BY <1>3, <1>5, FS_RemoveElement
<1>7. k - 1 \in Nat /\ ~ (k <= k - 1)
  BY <1>6, FS_CardinalityType
<1>8. PICK n \in Nat : T \ {x} \subseteq 0 .. n
  BY <1>2, <1>3, <1>6, <1>7
<1>9. x \in Nat
  BY <1>3
<1>10. T \subseteq 0 .. n + x
  BY <1>8, <1>9
<1>11. n + x \in Nat
  BY <1>8, <1>9
<1> QED
  BY <1>3, <1>10, <1>11

LEMMA AnimNosFacts ==
  /\ \E m \in Nat : AnimNos = 0 .. m
  /\ \A t \in DOMAIN NumAnims : NumAnims[t] \in Nat \ {0} /\ 0 .. NumAnims[t] \subseteq AnimNos
<1> DEFINE S == {NumAnims[t] : t \in DOMAIN NumAnims}
<1>1. S \subseteq Nat \ {0} /\ S # {}
  BY NumAnimsAssumption
<1>2. IsFiniteSet(S)
  <2> DEFINE f == [t \in DOMAIN NumAnims |-> NumAnims[t]]
  <2>1. f \in Surjection(DOMAIN NumAnims, S)
    BY DEF Surjection
  <2> QED
    BY <2>1, FS_Surjection, NumAnimsAssumption
<1>3. PICK n \in Nat : S \subseteq 0 .. n
  BY <1>1, <1>2, FiniteIsBounded
<1>4. PICK x \in S : \A y \in S : y <= x
  BY <1>1, <1>3, GreatestNumber
<1> DEFINE top == CHOOSE x1 \in S : \A t \in DOMAIN NumAnims : NumAnims[t] <= x1
<1>5. top \in S /\ \A t \in DOMAIN NumAnims : NumAnims[t] <= top
  BY <1>4
<1>6. AnimNos = 0 .. 1 + top
  BY DEF AnimNos
<1>7. top \in Nat /\ 1 + top \in Nat
  BY <1>1, <1>5
<1> HIDE DEF top
<1>8. ASSUME NEW t \in DOMAIN NumAnims
      PROVE  NumAnims[t] \in Nat \ {0} /\ 0 .. NumAnims[t] \subseteq 0 .. 1 + top
  <2>1. NumAnims[t] \in Nat \ {0} /\ NumAnims[t] <= top
    BY <1>1, <1>5
  <2> QED
    BY <1>7, <2>1
<1> QED
  BY <1>6, <1>7, <1>8

(* What one more line makes of the values of a header. *)
LEMMA ValueGrows ==
  ASSUME NEW s, IsSource(s), NEW n \in Nat, n + 1 \in DOMAIN s, NEW f \in 1 .. n, NEW v
  PROVE  Value(s, <<f, n + 1>>, v) =
           IF s[n + 1].is = "var" /\ s[n + 1].var = v THEN s[n + 1].val ELSE Value(s, <<f, n>>, v)
<1> DEFINE old == {k \in Vars(s, <<f, n>>) : s[k].var = v}
           new == {k \in Vars(s, <<f, n + 1>>) : s[k].var = v}
<1>1. Vars(s, <<f, n + 1>>) = Vars(s, <<f, n>>) \cup (IF s[n + 1].is = "var" THEN {n + 1} ELSE {})
  <2>1. f .. n + 1 = (f .. n) \cup {n + 1}
    OBVIOUS
  <2> QED
    BY <2>1 DEF Vars
<1>2. CASE ~ (s[n + 1].is = "var" /\ s[n + 1].var = v)
  <2>1. new = old
    BY <1>1, <1>2
  <2>2. Value(s, <<f, n + 1>>, v) = IF new = {} THEN NULL
                                    ELSE s[CHOOSE k \in new : \A j \in new : j <= k].val
    BY DEF Value
  <2>3. Value(s, <<f, n>>, v) = IF old = {} THEN NULL
                                ELSE s[CHOOSE k \in old : \A j \in old : j <= k].val
    BY DEF Value
  <2> HIDE DEF new, old
  <2>4. Value(s, <<f, n + 1>>, v) = Value(s, <<f, n>>, v)
    BY <2>1, <2>2, <2>3
  <2> QED
    BY <1>2, <2>4
<1>3. CASE s[n + 1].is = "var" /\ s[n + 1].var = v
  <2>1. new = old \cup {n + 1} /\ old \subseteq 1 .. n
    BY <1>1, <1>3 DEF Vars
  <2>2. \A k \in new : (\A j \in new : j <= k) <=> k = n + 1
    BY <2>1
  <2>3. (CHOOSE k \in new : \A j \in new : j <= k) = n + 1
    BY <2>1, <2>2
  <2>4. Value(s, <<f, n + 1>>, v) = s[CHOOSE k \in new : \A j \in new : j <= k].val
    BY <2>1 DEF Value
  <2> QED
    BY <1>3, <2>3, <2>4
<1> QED
  BY <1>2, <1>3

LEMMA NoValue ==
  ASSUME NEW s, NEW f \in Nat, s[f].is = "start", NEW v
  PROVE  Value(s, <<f, f>>, v) = NULL
<1>1. \A k \in f .. f : k = f
  OBVIOUS
<1>2. Vars(s, <<f, f>>) = {}
  BY <1>1 DEF Vars
<1> QED
  BY <1>2 DEF Value

(* The block that ends a header without errors in its lines. *)
LEMMA HeaderCloses ==
  ASSUME NEW s, IsSource(s), NEW n \in Nat, n + 1 \in DOMAIN s, s[n + 1].is = "end",
         NEW f, NEW tok, InHeader(s, f, n, tok), ~ tok.bad
  PROVE  /\ <<f, n + 1>> \in Blocks(s) /\ <<f, n + 1>> \notin BlocksTo(s, n)
         /\ BlocksTo(s, n + 1) = BlocksTo(s, n) \cup {<<f, n + 1>>}
         /\ InBlocks(s, n + 1)
         /\ \A v : Value(s, <<f, n + 1>>, v) = Value(s, <<f, n>>, v)
         /\ \A k \in Vars(s, <<f, n + 1>>) : s[k].var # Bad
<1>1. /\ f \in 1 .. n /\ s[f].is = "start" /\ InBlocks(s, f - 1)
      /\ \A k \in f + 1 .. n : s[k].is = "var" /\ s[k].var # Bad
  BY DEF InHeader
<1>2. Len(s) \in Nat /\ DOMAIN s = 1 .. Len(s)
  BY SourceFacts
<1>3. f \in DOMAIN s
  BY <1>1, <1>2
<1>4. <<f, n + 1>> \in Blocks(s) /\ <<f, n + 1>> \notin BlocksTo(s, n)
  <2>1. f \in Is(s, "start") /\ n + 1 \in Is(s, "end") /\ f < n + 1
    BY <1>1, <1>3 DEF Is
  <2>2. \A k \in f + 1 .. (n + 1) - 1 : s[k].is = "var"
    BY <1>1
  <2> QED
    BY <2>1, <2>2 DEF Blocks, BlocksTo
<1>5. ASSUME NEW b \in Blocks(s), b[2] = n + 1 PROVE b = <<f, n + 1>>
  <2>1. /\ b[1] \in Nat \ {0} /\ b[1] < b[2] /\ b = <<b[1], b[2]>> /\ s[b[1]].is = "start"
        /\ \A k \in (b[1] + 1) .. (b[2] - 1) : s[k].is = "var"
    BY BlocksAreRead
  <2>2. ~ (f \in b[1] + 1 .. b[2] - 1)
    BY <1>1, <2>1
  <2>3. ~ (b[1] \in f + 1 .. n)
    BY <1>1, <2>1
  <2>4. b[1] = f
    BY <1>1, <1>5, <2>1, <2>2, <2>3
  <2> QED
    BY <1>5, <2>1, <2>4
<1>6. BlocksTo(s, n + 1) = BlocksTo(s, n) \cup {<<f, n + 1>>}
  <2>1. \A b \in Blocks(s) : b[2] <= n + 1 <=> b[2] <= n \/ b[2] = n + 1
    BY BlocksAreRead
  <2> QED
    BY <1>4, <1>5, <2>1 DEF BlocksTo
<1>7. InBlocks(s, n + 1)
  <2>1. ASSUME NEW k \in 1 .. f - 1, s[k].is # "code"
        PROVE  \E b \in BlocksTo(s, n + 1) : k \in b[1] .. b[2]
    <3>1. PICK b \in BlocksTo(s, f - 1) : k \in b[1] .. b[2]
      BY <1>1, <2>1 DEF InBlocks
    <3>2. b \in BlocksTo(s, n + 1)
      BY <1>1, BlocksAreRead DEF BlocksTo
    <3> QED
      BY <3>1, <3>2
  <2>2. ASSUME NEW k \in f .. n + 1 PROVE \E b \in BlocksTo(s, n + 1) : k \in b[1] .. b[2]
    <3>1. PICK b \in BlocksTo(s, n + 1) : b = <<f, n + 1>>
      BY <1>6
    <3>2. b[1] = f /\ b[2] = n + 1
      BY <3>1
    <3>3. k \in b[1] .. b[2]
      BY <3>2
    <3> QED
      BY <3>3
  <2>3. \A k \in 1 .. n + 1 : k \in 1 .. f - 1 \/ k \in f .. n + 1
    BY <1>1
  <2> QED
    BY <2>1, <2>2, <2>3 DEF InBlocks
<1>8. \A v : Value(s, <<f, n + 1>>, v) = Value(s, <<f, n>>, v)
  BY <1>1, ValueGrows
<1>9. ASSUME NEW k \in Vars(s, <<f, n + 1>>) PROVE s[k].var # Bad
  <2>1. k \in f .. n + 1 /\ s[k].is = "var"
    BY DEF Vars
  <2>2. k \in f + 1 .. n
    BY <1>1, <2>1
  <2> QED
    BY <1>1, <2>2
<1> QED
  BY <1>4, <1>6, <1>7, <1>8, <1>9

(* A header with an error in a line, or without its end, is one of the     *)
(* source.                                                                 *)
LEMMA HeaderFails ==
  ASSUME NEW s, IsSource(s), NEW n \in 0 .. Len(s), NEW f, NEW tok, InHeader(s, f, n, tok),
         tok.bad \/ n = Len(s)
  PROVE  ~ WellFormed(s)
<1> SUFFICES ASSUME WellFormed(s) PROVE FALSE
  OBVIOUS
<1>1. f \in 1 .. n /\ s[f].is = "start" /\ \A k \in f + 1 .. n : s[k].is # "end"
  BY DEF InHeader
<1>2. Len(s) \in Nat /\ DOMAIN s = 1 .. Len(s) /\ f \in DOMAIN s
  BY <1>1, SourceFacts
<1>3. PICK b \in Blocks(s) : f \in b[1] .. b[2]
  <2>1. f \in Is(s, "start")
    BY <1>1, <1>2 DEF Is
  <2> QED
    BY <2>1 DEF WellFormed
<1>4. /\ b[1] \in Nat \ {0} /\ b[2] \in Nat /\ b[1] < b[2] /\ s[b[2]].is = "end" /\ b[2] \in DOMAIN s
      /\ \A k \in (b[1] + 1) .. (b[2] - 1) : s[k].is = "var"
  BY BlocksAreRead
<1>5. b[1] = f
  <2>1. f # b[2]
    BY <1>1, <1>4
  <2>2. ~ (f \in b[1] + 1 .. b[2] - 1)
    BY <1>1, <1>4
  <2> QED
    BY <1>3, <1>4, <2>1, <2>2
<1>6. n < b[2]
  <2>1. ~ (b[2] \in f + 1 .. n)
    BY <1>1, <1>4
  <2> QED
    BY <1>1, <1>4, <1>5, <2>1
<1>7. tok.bad
  <2>1. PICK e, m : e = b[2] /\ m = Len(s)
    OBVIOUS
  <2>2. e \in 1 .. m /\ m \in Nat /\ n < e
    BY <1>2, <1>4, <1>6, <2>1
  <2>3. n # m
    BY <2>2
  <2>4. n # Len(s)
    BY <2>1, <2>3
  <2> QED
    BY <2>4
<1>8. PICK k \in f + 1 .. n : s[k].is # "var" \/ s[k].var = Bad
  BY <1>7 DEF InHeader
<1>9. k \in b[1] .. b[2] /\ s[k].is = "var"
  BY <1>1, <1>4, <1>5, <1>6
<1>10. k \in Vars(s, b) /\ s[k].var = Bad
  BY <1>8, <1>9 DEF Vars
<1> QED
  BY <1>10 DEF WellFormed, HeaderIsOk

LEMMA ConcatFacts ==
  ASSUME NEW S, NEW q \in Seq(S), NEW T, NEW r \in Seq(T)
  PROVE  /\ q \o r \in Seq(Elements(q) \cup Elements(r))
         /\ Elements(q \o r) = Elements(q) \cup Elements(r)
<1>1. /\ Len(q) \in Nat /\ DOMAIN q = 1 .. Len(q) /\ Len(r) \in Nat /\ DOMAIN r = 1 .. Len(r)
  OBVIOUS
<1>2. /\ q \in Seq(S \cup T) /\ r \in Seq(S \cup T)
  OBVIOUS
<1>3. q \o r \in Seq(S \cup T) /\ Len(q \o r) = Len(q) + Len(r)
  BY <1>2
<1>4. DOMAIN (q \o r) = 1 .. Len(q) + Len(r)
  BY <1>3
<1>5. \A m \in 1 .. Len(q) + Len(r) : (q \o r)[m] = IF m <= Len(q) THEN q[m] ELSE r[m - Len(q)]
  BY <1>1, <1>2
<1>6. Elements(q \o r) = Elements(q) \cup Elements(r)
  <2>1. ASSUME NEW x \in Elements(q \o r) PROVE x \in Elements(q) \cup Elements(r)
    <3>1. PICK m \in 1 .. Len(q) + Len(r) : x = (q \o r)[m]
      BY <1>4, <2>1 DEF Elements
    <3>2. CASE m <= Len(q)
      BY <1>1, <1>5, <3>1, <3>2 DEF Elements
    <3>3. CASE ~ (m <= Len(q))
      <4>1. m - Len(q) \in 1 .. Len(r)
        BY <1>1, <3>3
      <4> QED
        BY <1>1, <1>5, <3>1, <3>3, <4>1 DEF Elements
    <3> QED
      BY <3>2, <3>3
  <2>2. ASSUME NEW m \in 1 .. Len(q) PROVE q[m] \in Elements(q \o r)
    <3>1. m \in 1 .. Len(q) + Len(r) /\ (q \o r)[m] = q[m]
      BY <1>1, <1>5
    <3> QED
      BY <1>4, <3>1 DEF Elements
  <2>3. ASSUME NEW m \in 1 .. Len(r) PROVE r[m] \in Elements(q \o r)
    <3>1. Len(q) + m \in 1 .. Len(q) + Len(r) /\ ~ (Len(q) + m <= Len(q)) /\ Len(q) + m - Len(q) = m
      BY <1>1
    <3>2. (q \o r)[Len(q) + m] = r[m]
      BY <1>5, <3>1
    <3> QED
      BY <1>4, <3>1, <3>2 DEF Elements
  <2> QED
    BY <1>1, <2>1, <2>2, <2>3 DEF Elements
<1>7. q \o r \in Seq(Elements(q \o r))
  <2>1. PICK z : z = q \o r
    OBVIOUS
  <2>2. z \in Seq(S \cup T)
    BY <1>3, <2>1
  <2>3. z \in Seq({z[m] : m \in DOMAIN z})
    BY <2>2
  <2> QED
    BY <2>1, <2>3 DEF Elements
<1> QED
  BY <1>6, <1>7

(* What the last header read uses, as a sequence made step by step.        *)
UseAt(i) == [hp |-> htok.id, animno |-> i, jump |-> NULL, name |-> htok.labels[i]]
UsedUpTo(n) == {UseAt(i) : i \in {j \in 0 .. n - 1 : Used(j)}}
UsesUpTo(n, f) ==
  f = [k \in 0 .. n |-> IF k = 0 THEN <<>>
                        ELSE IF Used(k - 1) THEN Append(f[k - 1], UseAt(k - 1)) ELSE f[k - 1]]

LEMMA UsesExist ==
  ASSUME NEW n \in Nat
  PROVE  \E f : UsesUpTo(n, f)
<1> DEFINE none == {m \in Nat : ~ \E f : UsesUpTo(m, f)}
<1> SUFFICES ASSUME none # {} PROVE FALSE
  OBVIOUS
<1>1. PICK m \in none : \A y \in none : m <= y
  BY LeastNumber
<1>2. m # 0
  <2>1. UsesUpTo(0, [k \in 0 .. 0 |-> <<>>])
    BY DEF UsesUpTo
  <2> QED
    BY <2>1
<1>3. m \in Nat /\ m - 1 \in Nat /\ m - 1 \notin none
  BY <1>1, <1>2
<1>4. PICK f : UsesUpTo(m - 1, f)
  BY <1>3
<1> DEFINE Next2(q, i) == IF Used(i) THEN Append(q, UseAt(i)) ELSE q
<1> DEFINE g == [k \in 0 .. m |-> IF k = m THEN Next2(f[m - 1], m - 1) ELSE f[k]]
<1>5. /\ DOMAIN f = 0 .. m - 1
      /\ \A k \in 0 .. m - 1 : f[k] = IF k = 0 THEN <<>> ELSE Next2(f[k - 1], k - 1)
  BY <1>4 DEF UsesUpTo
<1> HIDE DEF Next2
<1>6. \A k \in 0 .. m : g[k] = IF k = 0 THEN <<>> ELSE Next2(g[k - 1], k - 1)
  <2> SUFFICES ASSUME NEW k \in 0 .. m
               PROVE  g[k] = IF k = 0 THEN <<>> ELSE Next2(g[k - 1], k - 1)
    OBVIOUS
  <2>1. CASE k = m
    <3>1. m - 1 \in 0 .. m /\ m - 1 # m /\ m \in 0 .. m
      BY <1>3
    <3>2. g[m - 1] = f[m - 1]
      BY <3>1
    <3> QED
      BY <1>2, <2>1, <3>1, <3>2
  <2>2. CASE k # m /\ k # 0
    <3>1. k \in 0 .. m - 1 /\ k - 1 \in 0 .. m /\ k - 1 # m
      BY <1>3, <2>2
    <3> QED
      BY <1>5, <2>2, <3>1
  <2>3. CASE k # m /\ k = 0
    <3>1. k \in 0 .. m - 1
      BY <1>3, <2>3
    <3> QED
      BY <1>5, <2>3, <3>1
  <2> QED
    BY <2>1, <2>2, <2>3
<1>7. UsesUpTo(m, g)
  BY <1>6 DEF UsesUpTo, Next2
<1> QED
  BY <1>1, <1>7

LEMMA HeaderUsesFacts ==
  ASSUME htok.type \in DOMAIN NumAnims
  PROVE  /\ HeaderUses \in Seq(Elements(HeaderUses))
         /\ Elements(HeaderUses) = UsedUpTo(NumAnims[htok.type])
<1> DEFINE n == NumAnims[htok.type]
           last == CHOOSE f : UsesUpTo(n, f)
           Upto(k) == UsedUpTo(k)
           Good(k) == /\ last[k] \in Seq(Upto(k)) /\ Elements(last[k]) = Upto(k)
<1>1. n \in Nat
  BY AnimNosFacts
<1>2. UsesUpTo(n, last)
  BY <1>1, UsesExist
<1>3. HeaderUses = last[n]
  BY DEF HeaderUses, UsesUpTo, UseAt
<1>4. last[0] = <<>> /\ \A k \in 1 .. n : last[k] = IF Used(k - 1) THEN Append(last[k - 1], UseAt(k - 1))
                                                    ELSE last[k - 1]
  <2>1. 0 \in 0 .. n /\ \A k \in 1 .. n : k \in 0 .. n /\ k # 0
    BY <1>1
  <2> QED
    BY <1>2, <2>1 DEF UsesUpTo
<1> HIDE DEF n, last
<1>5. Good(0)
  <2>1. {j \in 0 .. 0 - 1 : Used(j)} = {}
    OBVIOUS
  <2>2. Upto(0) = {}
    BY <2>1 DEF UsedUpTo
  <2>3. \A S : <<>> \in Seq(S)
    OBVIOUS
  <2>4. Elements(<<>>) = {}
    BY DEF Elements
  <2> QED
    BY <1>4, <2>2, <2>3, <2>4
<1>6. ASSUME NEW k \in 1 .. n, Good(k - 1) PROVE Good(k)
  <2>1. {j \in 0 .. k - 1 : Used(j)} =
          {j \in 0 .. k - 1 - 1 : Used(j)} \cup {j \in {k - 1} : Used(j)}
    <3>1. 0 .. k - 1 = (0 .. k - 1 - 1) \cup {k - 1}
      BY <1>1
    <3> QED
      BY <3>1
  <2>2. CASE ~ Used(k - 1)
    <3>1. Upto(k) = Upto(k - 1)
      BY <2>1, <2>2 DEF UsedUpTo
    <3>2. last[k] = last[k - 1]
      BY <1>4, <2>2
    <3> HIDE DEF Upto
    <3> QED
      BY <1>6, <3>1, <3>2
  <2>3. CASE Used(k - 1)
    <3>1. Upto(k) = Upto(k - 1) \cup {UseAt(k - 1)}
      BY <2>1, <2>3 DEF UsedUpTo
    <3>2. last[k] = Append(last[k - 1], UseAt(k - 1))
      BY <1>4, <2>3
    <3> HIDE DEF Upto
    <3>3. PICK q, e : q = last[k - 1] /\ e = UseAt(k - 1)
      OBVIOUS
    <3>4. q \in Seq(Upto(k)) /\ e \in Upto(k)
      BY <1>6, <3>1, <3>3
    <3>5. /\ Append(q, e) \in Seq(Upto(k)) /\ Len(q) \in Nat
          /\ DOMAIN q = 1 .. Len(q) /\ DOMAIN Append(q, e) = 1 .. Len(q) + 1
          /\ Append(q, e)[Len(q) + 1] = e /\ \A m \in DOMAIN q : Append(q, e)[m] = q[m]
      BY <3>4, AppendFacts
    <3>6. DOMAIN Append(q, e) = DOMAIN q \cup {Len(q) + 1}
      BY <3>5
    <3>7. Elements(Append(q, e)) = Elements(q) \cup {e}
      BY <3>5, <3>6 DEF Elements
    <3> QED
      BY <1>6, <3>1, <3>2, <3>3, <3>5, <3>7
  <2> QED
    BY <2>2, <2>3
<1>7. Good(n)
  <2> DEFINE bad == {k \in Nat : k <= n /\ ~ Good(k)}
  <2> HIDE DEF Good
  <2> SUFFICES ASSUME bad # {} PROVE FALSE
    BY <1>1
  <2>1. PICK k \in bad : \A y \in bad : k <= y
    <3>1. bad \subseteq Nat
      OBVIOUS
    <3> QED
      BY <3>1, LeastNumber
  <2>2. k # 0
    BY <1>5
  <2>3. k \in 1 .. n /\ k - 1 \in Nat /\ k - 1 <= n /\ ~ (k <= k - 1)
    BY <1>1, <2>2
  <2>4. Good(k - 1)
    BY <2>1, <2>3
  <2> QED
    BY <1>6, <2>3, <2>4
<1>8. last[n] \in Seq(Elements(last[n])) /\ Elements(last[n]) = Upto(n)
  <2> HIDE DEF Upto
  <2> QED
    BY <1>7
<1> QED
  BY <1>3, <1>8 DEF n

(* A header that is read, when everything about it but its names is right. *)
UsesOf(s, b) == {HeaderUse(s, b, i) : i \in Named(s, b)}
NewHeader(s, b) ==
  [ptr |-> <<0, Value(s, b, Id)>>, st_entries |-> [i \in 0 .. LastAnim(s, b) - 1 |-> NULL]]

LEMMA HeaderAdds ==
  ASSUME NEW s, IsSource(s), NEW n \in Nat, n + 1 \in DOMAIN s, s[n + 1].is = "end",
         Pending(s, n) = {}, NEW headers, NEW heap, NEW labels, NEW table, NEW waiting,
         GraphTo(s, n, headers, heap, labels, table, waiting),
         NEW b \in Blocks(s), b \notin BlocksTo(s, n), BlocksTo(s, n + 1) = BlocksTo(s, n) \cup {b},
         HeaderFits(s, b), Value(s, b, Id) \notin DOMAIN headers,
         NEW headers2, headers2 = Put(headers, Value(s, b, Id), NewHeader(s, b)),
         NEW waiting2, waiting2 = waiting \cup UsesOf(s, b)
  PROVE  GraphTo(s, n + 1, headers2, heap, labels, table, waiting2)
<1>1. /\ OpTo(s, n + 1) = OpTo(s, n) /\ Settled(s, n + 1) = Settled(s, n)
      /\ \A k : After(s, k) \cap 1 .. n + 1 = After(s, k) \cap 1 .. n
  <2>1. n + 1 \notin OpLines(s)
    BY LineFacts, SourceFacts
  <2> QED
    BY <2>1, NoInstr
<1>2. /\ HeadersTo(s, n, headers, labels, waiting) /\ CodeTo(s, n, heap, labels, waiting)
      /\ TableTo(s, n, table) /\ LabelsTo(s, n, labels, heap, headers) /\ UsesTo(s, n, waiting)
  BY DEF GraphTo
<1>3. /\ DOMAIN headers = {Value(s, c, Id) : c \in BlocksTo(s, n)}
      /\ DOMAIN headers2 = DOMAIN headers \cup {Value(s, b, Id)}
      /\ headers2[Value(s, b, Id)] = NewHeader(s, b)
      /\ \A h \in DOMAIN headers : headers2[h] = headers[h]
  BY <1>2 DEF Put, HeadersTo
<1>4. \A c \in BlocksTo(s, n) : /\ Value(s, c, Id) # Value(s, b, Id)
                                /\ headers2[Value(s, c, Id)] = headers[Value(s, c, Id)]
  BY <1>3
<1>5. HeaderIs(s, b, NewHeader(s, b), labels, waiting2)
  <2>1. PICK h : h = NewHeader(s, b)
    OBVIOUS
  <2>2. /\ h = [ptr |-> <<0, Value(s, b, Id)>>, st_entries |-> h.st_entries]
        /\ h.st_entries = [i \in 0 .. LastAnim(s, b) - 1 |-> NULL]
    BY <2>1 DEF NewHeader
  <2>3. ASSUME NEW i \in 0 .. LastAnim(s, b) - 1
        PROVE  EntryIs(s, b, i, h.st_entries[i], labels, waiting2)
    BY <2>2 DEF EntryIs, UsesOf
  <2> QED
    BY <2>1, <2>2, <2>3 DEF HeaderIs
<1>6. HeadersTo(s, n + 1, headers2, labels, waiting2)
  <2>1. ASSUME NEW c \in BlocksTo(s, n)
        PROVE  HeaderFits(s, c) /\ HeaderIs(s, c, headers2[Value(s, c, Id)], labels, waiting2)
    <3>1. HeaderFits(s, c) /\ HeaderIs(s, c, headers[Value(s, c, Id)], labels, waiting)
      BY <1>2 DEF HeadersTo
    <3>2. HeaderIs(s, c, headers[Value(s, c, Id)], labels, waiting2)
      BY <3>1, HeadersKept
    <3> QED
      BY <1>4, <3>1, <3>2
  <2>2. \A c \in BlocksTo(s, n + 1) :
          HeaderFits(s, c) /\ HeaderIs(s, c, headers2[Value(s, c, Id)], labels, waiting2)
    BY <1>3, <1>5, <2>1
  <2>3. \A c, d \in BlocksTo(s, n + 1) : Value(s, c, Id) = Value(s, d, Id) => c = d
    BY <1>2, <1>4 DEF HeadersTo
  <2>4. DOMAIN headers2 = {Value(s, c, Id) : c \in BlocksTo(s, n + 1)}
    BY <1>3
  <2> QED
    BY <2>2, <2>3, <2>4 DEF HeadersTo
<1>7. CodeTo(s, n + 1, heap, labels, waiting2)
  <2>1. ASSUME NEW k \in Is(s, "code") \ OpLines(s), k < n + 1 PROVE k + 1 \in Is(s, "code")
    <3>1. k \in Nat
      BY SourceFacts
    <3>2. k \notin Pending(s, n)
      OBVIOUS
    <3>3. k # n
      BY <2>1, <3>1, <3>2, PendingFacts, SourceFacts DEF Pending
    <3> QED
      BY <1>2, <2>1, <3>1, <3>3 DEF CodeTo
  <2>2. \A k, i : InstrIs(s, k, n, i) => InstrIs(s, k, n + 1, i)
    BY <1>1 DEF InstrIs
  <2>3. \A k, st : JumpIs(s, k, st, labels, waiting) => JumpIs(s, k, st, labels, waiting2)
    BY DEF JumpIs
  <2> QED
    BY <1>1, <1>2, <2>1, <2>2, <2>3 DEF CodeTo
<1>8. TableTo(s, n + 1, table)
  BY <1>1, <1>2 DEF TableTo
<1>9. LabelsTo(s, n + 1, labels, heap, headers2)
  <2>1. ASSUME NEW st \in DOMAIN labels PROVE LabelIs(s, n + 1, st, labels[st], heap, headers2)
    <3>1. LabelIs(s, n, st, labels[st], heap, headers)
      BY <1>2 DEF LabelsTo
    <3> QED
      BY <1>1, <1>4, <3>1 DEF LabelIs
  <2> QED
    BY <1>1, <1>2, <2>1 DEF LabelsTo
<1>10. UsesTo(s, n + 1, waiting2)
  <2>1. ASSUME NEW use \in waiting
        PROVE  \/ \E c \in BlocksTo(s, n + 1) : \E i \in Named(s, c) : use = HeaderUse(s, c, i)
               \/ \E k \in OpTo(s, n + 1) : Jumping(s, k) /\ use = JumpUse(s, k)
    BY <1>1, <1>2 DEF UsesTo
  <2> QED
    BY <2>1 DEF UsesTo, UsesOf
<1> QED
  BY <1>6, <1>7, <1>8, <1>9, <1>10 DEF GraphTo

-----------------------------------------------------------------------------
(* The steps of the parser. *)

(* While it reads, the removal of labels is still to come. *)
LEMMA WhileParsing ==
  ASSUME PositionInv', ParseInv', pc' \in {"next", "header", "label", "relocate"}
  PROVE  CompileInv'
<1>1. CheckInv' /\ RemoveInv'
  BY DEF CheckInv, RemoveInv
<1>2. CompiledIsTheSource' /\ NoDeadCode' /\ CompiledAgree'
  BY DEF CompiledIsTheSource, NoDeadCode, CompiledAgree
<1> QED
  BY <1>1, <1>2 DEF CompileInv

LEMMA ReadLineFacts ==
  ASSUME CompileInv, NEW mode \in {"next", "header", "label"}, ReadsLine(mode)
  PROVE  /\ IsSource(src) /\ lineno \in Nat /\ lineno + 1 \in DOMAIN src /\ lineno + 1 <= Len(src)
         /\ lineno + 1 \in 0 .. Len(src) /\ lineno' = lineno + 1 /\ Reading /\ Building
         /\ error \in BOOLEAN /\ (error => ~ WellFormed(src)) /\ src \in Sources
         /\ NULL \notin Nat
         /\ ~error => BlocksInv
         /\ Clean => GraphInv /\ NamesInv /\ CurrentInv /\ freeinstrs = {} /\ ~misread
                     /\ bad_labels = <<>>
<1>1. src \in Sources /\ lineno \in 0 .. Len(src) /\ error \in BOOLEAN /\ (error => ~ WellFormed(src))
  BY DEF CompileInv, PositionInv
<1>2. IsSource(src) /\ NULL \notin Nat
  BY <1>1, CompileAssumption
<1>3. Len(src) \in Nat /\ DOMAIN src = 1 .. Len(src)
  BY <1>2, SourceFacts
<1>4. /\ lineno \in Nat /\ lineno + 1 \in DOMAIN src /\ lineno + 1 <= Len(src)
      /\ lineno + 1 \in 0 .. Len(src) /\ lineno' = lineno + 1
  BY <1>1, <1>3 DEF ReadsLine
<1>5. Reading /\ Building /\ pc # "check"
  BY DEF ReadsLine, Reading, Building
<1>6. /\ ~error => BlocksInv
      /\ Clean => GraphInv /\ NamesInv /\ CurrentInv /\ freeinstrs = {} /\ ~misread
                  /\ bad_labels = <<>>
  BY <1>5 DEF CompileInv, ParseInv
<1> QED
  BY <1>1, <1>2, <1>4, <1>5, <1>6

(* The position after a line. *)
LEMMA NextPosition ==
  ASSUME CompileInv, NEW mode \in {"next", "header", "label"}, ReadsLine(mode), src' = src,
         pc' \in {"next", "header", "label"}, error' \in BOOLEAN, error' => error \/ ~ WellFormed(src)
  PROVE  PositionInv' /\ Reading' /\ Building'
<1>1. /\ lineno + 1 \in 0 .. Len(src) /\ lineno' = lineno + 1 /\ src \in Sources
      /\ (error => ~ WellFormed(src))
  BY ReadLineFacts
<1>2. Reading' /\ Building'
  BY DEF Reading, Building
<1> QED
  BY <1>1, <1>2 DEF PositionInv

(* A line of a header changes nothing but the header. *)
LEMMA HeaderLine ==
  ASSUME CompileInv, NEW mode \in {"next", "header"}, ReadsLine(mode), Clean,
         Line.is \in {"start", "var"}, pc' \in {"next", "header"},
         UNCHANGED <<src, names, current_instr, instr, label, tables, relocq, badness>>
  PROVE  /\ GraphInv' /\ NamesInv' /\ CurrentInv' /\ freeinstrs' = {} /\ ~ misread'
         /\ bad_labels' = <<>>
<1> DEFINE n == lineno
           s == src
<1>1. /\ IsSource(s) /\ n \in Nat /\ n + 1 \in DOMAIN s /\ lineno' = n + 1
      /\ GraphInv /\ NamesInv /\ CurrentInv /\ freeinstrs = {} /\ ~misread /\ bad_labels = <<>>
      /\ Reading
  BY ReadLineFacts
<1>2. /\ s[n + 1].is # "code" /\ s[n + 1].is # "end" /\ n + 1 \notin OpLines(s)
      /\ n + 1 \notin Is(s, "code") /\ s' = s
  BY <1>1, LineFacts, SourceFacts DEF Line
<1>3. Pending(s, n) = {}
  <2>1. pc # "label"
    BY DEF ReadsLine
  <2> QED
    BY <1>1, <2>1 DEF NamesInv
<1>4. /\ Before(s, (n + 1) + 1) = Before(s, n + 1) /\ Pending(s, n + 1) = Pending(s, n)
  <2>1. {n + 1} \cap Is(s, "code") = {}
    BY <1>2
  <2>2. /\ Before(s, (n + 1) + 1) = Before(s, n + 1)
        /\ Pending(s, n + 1) = Pending(s, n) \cup ({n + 1} \cap Is(s, "code"))
    BY <1>1, <1>2, NoInstr
  <2> QED
    BY <2>1, <2>2
<1>5. GraphTo(s, n, table_headers, instr, label, table_names, Waiting)
  BY <1>1 DEF GraphInv
<1>6. GraphTo(s, n + 1, table_headers, instr, label, table_names, Waiting)
  BY <1>1, <1>2, <1>3, <1>5, SkipLine
<1>7. GraphInv'
  BY <1>1, <1>2, <1>6 DEF GraphInv, tables, Waiting
<1>8. NamesInv'
  BY <1>1, <1>2, <1>3, <1>4 DEF NamesInv
<1>9. CurrentInv'
  <2>1. Reading'
    BY DEF Reading
  <2>2. CurrentIs(s, n, current_instr)
    BY <1>1 DEF CurrentInv
  <2>3. CurrentIs(s, n + 1, current_instr)
    BY <1>4, <2>2 DEF CurrentIs
  <2> QED
    BY <1>1, <1>2, <2>1, <2>3 DEF CurrentInv
<1> QED
  BY <1>1, <1>7, <1>8, <1>9 DEF badness

LEMMA HeaderStartStep ==
  ASSUME CompileInv, HeaderStart
  PROVE  CompileInv'
<1> DEFINE n == lineno
           s == src
<1>1. ReadsLine("next") /\ Line.is = "start" /\ pc = "next" /\ pc' = "header"
  BY DEF HeaderStart, ReadsLine
<1>2. /\ IsSource(s) /\ n \in Nat /\ n + 1 \in DOMAIN s /\ lineno' = n + 1
      /\ (~error => BlocksInv) /\ error \in BOOLEAN
  BY <1>1, ReadLineFacts
<1>3. htok' = EmptyHeader /\ src' = src /\ error' = error
  BY DEF HeaderStart
<1>4. PositionInv' /\ Building'
  BY <1>1, <1>2, <1>3, NextPosition
<1>5. ASSUME ~error PROVE BlocksInv'
  <2>1. InBlocks(s, n)
    BY <1>1, <1>2, <1>5 DEF BlocksInv
  <2>2. s[n + 1].is = "start"
    BY <1>1 DEF Line
  <2>3. \A v : Value(s, <<n + 1, n + 1>>, v) = NULL
    BY <1>2, <2>2, NoValue
  <2>4. \A k \in n + 1 + 1 .. n + 1 : FALSE
    BY <1>2
  <2>5. /\ EmptyHeader = [id |-> NULL, type |-> NULL, labels |-> [i \in AnimNos |-> NULL], bad |-> FALSE]
        /\ EmptyHeader.bad = FALSE
    BY DEF EmptyHeader
  <2>6. n + 1 \in 1 .. n + 1 /\ n + 1 - 1 = n
    BY <1>2
  <2>7. EmptyHeader = [id |-> Value(s, <<n + 1, n + 1>>, Id), type |-> Value(s, <<n + 1, n + 1>>, Type),
                       labels |-> [i \in AnimNos |-> Value(s, <<n + 1, n + 1>>, Anim(i))],
                       bad |-> EmptyHeader.bad]
    <3>1. [i \in AnimNos |-> Value(s, <<n + 1, n + 1>>, Anim(i))] = [i \in AnimNos |-> NULL]
      BY <2>3
    <3> QED
      BY <2>3, <2>5, <3>1
  <2>8. InHeader(s, n + 1, n + 1, EmptyHeader)
    <3>1. PICK m, tok : m = n + 1 /\ tok = EmptyHeader
      OBVIOUS
    <3>2. /\ m \in 1 .. m /\ s[m].is = "start" /\ InBlocks(s, m - 1)
          /\ \A k \in m + 1 .. m : s[k].is # "end"
      <4>1. m \in 1 .. m /\ m - 1 = n /\ \A k \in m + 1 .. m : FALSE
        BY <1>2, <3>1
      <4> QED
        BY <2>1, <2>2, <3>1, <4>1
    <3>3. ~ tok.bad /\ \A k \in m + 1 .. m : FALSE
      BY <2>4, <2>5, <3>1
    <3>4. tok.bad <=> \E k \in m + 1 .. m : s[k].is # "var" \/ s[k].var = Bad
      BY <3>3
    <3>5. tok = [id |-> Value(s, <<m, m>>, Id), type |-> Value(s, <<m, m>>, Type),
                 labels |-> [i \in AnimNos |-> Value(s, <<m, m>>, Anim(i))], bad |-> tok.bad]
      BY <2>7, <3>1
    <3>6. InHeader(s, m, m, tok)
      BY <3>2, <3>5, <3>4 DEF InHeader
    <3> QED
      BY <3>1, <3>6
  <2>9. \E f \in 1 .. lineno' : InHeader(src', f, lineno', htok')
    BY <1>2, <1>3, <2>6, <2>8
  <2> QED
    BY <1>1, <2>9 DEF BlocksInv
<1>6. ASSUME ~error
      PROVE  /\ GraphInv' /\ NamesInv' /\ CurrentInv' /\ freeinstrs' = {} /\ ~ misread'
             /\ bad_labels' = <<>>
  <2>1. Clean
    BY <1>1, <1>6 DEF Clean
  <2>2. UNCHANGED <<src, names, current_instr, instr, label, tables, relocq, badness>>
    BY DEF HeaderStart
  <2> QED
    BY <1>1, <2>1, <2>2, HeaderLine
<1>7. ParseInv'
  BY <1>1, <1>3, <1>5, <1>6 DEF ParseInv, Clean
<1> QED
  BY <1>1, <1>4, <1>7, WhileParsing

(* The token of a header after one more line. *)
NextTok(l, tok) ==
  CASE l.is = "var" /\ l.var = Id       -> [tok EXCEPT !.id = l.val]
    [] l.is = "var" /\ l.var = Type     -> [tok EXCEPT !.type = l.val]
    [] l.is = "var" /\ l.var[1] = "anim"  -> [tok EXCEPT !.labels[l.var[2]] = l.val]
    [] OTHER                            -> [tok EXCEPT !.bad = TRUE]

LEMMA VarsDiffer ==
  /\ Id # Type /\ Id # Bad /\ Type # Bad /\ Id[1] # "anim" /\ Type[1] # "anim" /\ Bad[1] # "anim"
  /\ \A i : Anim(i)[1] = "anim" /\ Anim(i)[2] = i /\ Anim(i) # Id /\ Anim(i) # Type /\ Anim(i) # Bad
  /\ \A i, j : Anim(i) = Anim(j) => i = j
BY DEF Id, Type, Bad, Anim

LEMMA TokFields ==
  ASSUME NEW a, NEW b, NEW c, NEW d, NEW tok, tok = [id |-> a, type |-> b, labels |-> c, bad |-> d]
  PROVE  /\ tok.id = a /\ tok.type = b /\ tok.labels = c /\ tok.bad = d
         /\ \A x : [tok EXCEPT !.id = x] = [id |-> x, type |-> b, labels |-> c, bad |-> d]
         /\ \A x : [tok EXCEPT !.type = x] = [id |-> a, type |-> x, labels |-> c, bad |-> d]
         /\ \A i, x : [tok EXCEPT !.labels[i] = x] =
                       [id |-> a, type |-> b, labels |-> [c EXCEPT ![i] = x], bad |-> d]
         /\ \A x : [tok EXCEPT !.bad = x] = [id |-> a, type |-> b, labels |-> c, bad |-> x]
OBVIOUS

LEMMA HeaderGrows ==
  ASSUME NEW s, IsSource(s), NEW n \in Nat, n + 1 \in DOMAIN s, s[n + 1].is # "end",
         NEW f, NEW tok, InHeader(s, f, n, tok)
  PROVE  /\ InHeader(s, f, n + 1, NextTok(s[n + 1], tok))
         /\ ~ NextTok(s[n + 1], tok).bad => ~ tok.bad /\ s[n + 1].is = "var"
<1> DEFINE l == s[n + 1]
           new == NextTok(l, tok)
           Bads(m) == \E k \in f + 1 .. m : s[k].is # "var" \/ s[k].var = Bad
           values(b) == [i \in AnimNos |-> Value(s, b, Anim(i))]
<1>1. /\ f \in 1 .. n /\ s[f].is = "start" /\ InBlocks(s, f - 1)
      /\ \A k \in f + 1 .. n : s[k].is # "end"
      /\ tok.bad <=> Bads(n)
      /\ tok = [id |-> Value(s, <<f, n>>, Id), type |-> Value(s, <<f, n>>, Type),
                labels |-> values(<<f, n>>), bad |-> tok.bad]
  BY DEF InHeader
<1>2. f \in 1 .. n + 1 /\ \A k \in f + 1 .. n + 1 : s[k].is # "end"
  <2>1. \A k \in f + 1 .. n + 1 : k \in f + 1 .. n \/ k = n + 1
    BY <1>1
  <2>2. f \in 1 .. n + 1
    BY <1>1
  <2> QED
    BY <1>1, <2>1, <2>2
<1>3. Bads(n + 1) <=> Bads(n) \/ l.is # "var" \/ l.var = Bad
  <2>1. \A k : k \in f + 1 .. n + 1 <=> k \in f + 1 .. n \/ k = n + 1
    BY <1>1
  <2> QED
    BY <2>1
<1>4. \A v : Value(s, <<f, n + 1>>, v) =
               IF l.is = "var" /\ l.var = v THEN l.val ELSE Value(s, <<f, n>>, v)
  BY <1>1, ValueGrows
<1>5. l.is = "var" => l.var \in {Id, Type, Bad} \cup {Anim(i) : i \in AnimNos}
  BY LineFacts
<1> DEFINE vals == values(<<f, n>>)
           v1 == Value(s, <<f, n>>, Id)
           v2 == Value(s, <<f, n>>, Type)
           IsNext(a, b, c, d) == /\ a = Value(s, <<f, n + 1>>, Id) /\ b = Value(s, <<f, n + 1>>, Type)
                                 /\ c = values(<<f, n + 1>>) /\ (d <=> Bads(n + 1))
                                 /\ new = [id |-> a, type |-> b, labels |-> c, bad |-> d]
<1>6. ASSUME l.is = "var", l.var = Id PROVE IsNext(l.val, v2, vals, tok.bad)
  <2>1. new = [tok EXCEPT !.id = l.val]
    BY <1>6, VarsDiffer DEF NextTok
  <2>2. new = [id |-> l.val, type |-> v2, labels |-> vals, bad |-> tok.bad]
    BY <1>1, <2>1, TokFields
  <2>3. /\ values(<<f, n + 1>>) = vals /\ Value(s, <<f, n + 1>>, Type) = v2
        /\ Value(s, <<f, n + 1>>, Id) = l.val
    BY <1>4, <1>6, VarsDiffer
  <2>4. tok.bad <=> Bads(n + 1)
    BY <1>1, <1>3, <1>6, VarsDiffer
  <2> HIDE DEF Bads, values, v2
  <2> QED
    BY <2>2, <2>3, <2>4
<1>7. ASSUME l.is = "var", l.var = Type PROVE IsNext(v1, l.val, vals, tok.bad)
  <2>1. new = [tok EXCEPT !.type = l.val]
    BY <1>7, VarsDiffer DEF NextTok
  <2>2. new = [id |-> v1, type |-> l.val, labels |-> vals, bad |-> tok.bad]
    BY <1>1, <2>1, TokFields
  <2>3. /\ values(<<f, n + 1>>) = vals /\ Value(s, <<f, n + 1>>, Id) = v1
        /\ Value(s, <<f, n + 1>>, Type) = l.val
    BY <1>4, <1>7, VarsDiffer
  <2>4. tok.bad <=> Bads(n + 1)
    BY <1>1, <1>3, <1>7, VarsDiffer
  <2> HIDE DEF Bads, values, v1
  <2> QED
    BY <2>2, <2>3, <2>4
<1>8. ASSUME NEW i \in AnimNos, l.is = "var", l.var = Anim(i)
      PROVE  IsNext(v1, v2, [vals EXCEPT ![i] = l.val], tok.bad)
  <2>1. new = [tok EXCEPT !.labels[i] = l.val]
    BY <1>8, VarsDiffer DEF NextTok
  <2>2. new = [id |-> v1, type |-> v2, labels |-> [vals EXCEPT ![i] = l.val], bad |-> tok.bad]
    BY <1>1, <2>1, TokFields
  <2>3. values(<<f, n + 1>>) = [vals EXCEPT ![i] = l.val]
    <3>1. \A j \in AnimNos : Value(s, <<f, n + 1>>, Anim(j)) =
                               IF j = i THEN l.val ELSE Value(s, <<f, n>>, Anim(j))
      BY <1>4, <1>8, VarsDiffer
    <3> QED
      BY <3>1
  <2>4. Value(s, <<f, n + 1>>, Id) = v1 /\ Value(s, <<f, n + 1>>, Type) = v2
    BY <1>4, <1>8, VarsDiffer
  <2>5. tok.bad <=> Bads(n + 1)
    BY <1>1, <1>3, <1>8, VarsDiffer
  <2> HIDE DEF Bads, values, v1, v2
  <2> QED
    BY <2>2, <2>3, <2>4, <2>5
<1>9. ASSUME l.is # "var" \/ l.var = Bad PROVE IsNext(v1, v2, vals, TRUE)
  <2>1. new = [tok EXCEPT !.bad = TRUE]
    BY <1>9, VarsDiffer DEF NextTok
  <2>2. new = [id |-> v1, type |-> v2, labels |-> vals, bad |-> TRUE]
    <3>1. \A x : [tok EXCEPT !.bad = x] = [id |-> v1, type |-> v2, labels |-> vals, bad |-> x]
      BY <1>1, TokFields
    <3> HIDE DEF new, vals, v1, v2
    <3> QED
      BY <2>1, <3>1, Zenon
  <2>3. /\ values(<<f, n + 1>>) = vals /\ Value(s, <<f, n + 1>>, Id) = v1
        /\ Value(s, <<f, n + 1>>, Type) = v2
    BY <1>4, <1>9, VarsDiffer
  <2>4. TRUE <=> Bads(n + 1)
    BY <1>1, <1>3, <1>9
  <2> HIDE DEF Bads, values, v1, v2
  <2> QED
    BY <2>2, <2>3, <2>4
<1>10. \E a, b, c, d : IsNext(a, b, c, d)
  <2> HIDE DEF IsNext
  <2> QED
    BY <1>5, <1>6, <1>7, <1>8, <1>9
<1>11. /\ new.bad <=> Bads(n + 1)
       /\ new = [id |-> Value(s, <<f, n + 1>>, Id), type |-> Value(s, <<f, n + 1>>, Type),
                 labels |-> values(<<f, n + 1>>), bad |-> new.bad]
  <2>1. PICK a, b, c, d : IsNext(a, b, c, d)
    BY <1>10
  <2>2. new.bad = d
    BY <2>1, TokFields
  <2> HIDE DEF Bads, values
  <2> QED
    BY <2>1, <2>2
<1>12. InHeader(s, f, n + 1, new)
  <2> HIDE DEF new
  <2> QED
    BY <1>1, <1>2, <1>11 DEF InHeader
<1> QED
  BY <1>1, <1>3, <1>11, <1>12

LEMMA HeaderVarStep ==
  ASSUME CompileInv, HeaderVar
  PROVE  CompileInv'
<1> DEFINE n == lineno
           s == src
<1>1. ReadsLine("header") /\ Line.is # "end" /\ pc = "header" /\ pc' = "header"
  BY DEF HeaderVar, ReadsLine
<1>2. /\ IsSource(s) /\ n \in Nat /\ n + 1 \in DOMAIN s /\ lineno' = n + 1
      /\ (~error => BlocksInv) /\ error \in BOOLEAN
  BY <1>1, ReadLineFacts
<1>3. htok' = NextTok(s[n + 1], htok) /\ src' = src /\ error' = error
  BY DEF HeaderVar, NextTok, Line
<1>4. PositionInv' /\ Building'
  BY <1>1, <1>2, <1>3, NextPosition
<1>5. ASSUME ~error PROVE BlocksInv' /\ (~htok'.bad => ~htok.bad /\ Line.is = "var")
  <2>1. PICK f \in 1 .. n : InHeader(s, f, n, htok)
    BY <1>1, <1>2, <1>5 DEF BlocksInv
  <2>2. s[n + 1].is # "end" /\ Line = s[n + 1]
    BY <1>1 DEF Line
  <2>3. /\ InHeader(s, f, n + 1, htok')
        /\ ~ htok'.bad => ~ htok.bad /\ s[n + 1].is = "var"
    BY <1>2, <1>3, <2>1, <2>2, HeaderGrows
  <2>4. f \in 1 .. n + 1
    BY <1>2
  <2>5. \E g \in 1 .. lineno' : InHeader(src', g, lineno', htok')
    BY <1>2, <1>3, <2>3, <2>4
  <2> QED
    BY <1>1, <2>2, <2>3, <2>5 DEF BlocksInv
<1>6. ASSUME ~error, ~htok'.bad
      PROVE  /\ GraphInv' /\ NamesInv' /\ CurrentInv' /\ freeinstrs' = {} /\ ~ misread'
             /\ bad_labels' = <<>>
  <2>1. Clean /\ Line.is \in {"start", "var"}
    BY <1>1, <1>5, <1>6 DEF Clean
  <2>2. UNCHANGED <<src, names, current_instr, instr, label, tables, relocq, badness>>
    BY DEF HeaderVar
  <2> QED
    BY <1>1, <2>1, <2>2, HeaderLine
<1>7. ParseInv'
  BY <1>1, <1>3, <1>5, <1>6 DEF ParseInv, Clean
<1> QED
  BY <1>1, <1>4, <1>7, WhileParsing


(* The token holds what the block says. *)
LEMMA TokenOfBlock ==
  ASSUME NEW s, IsSource(s), NEW n \in Nat, n + 1 \in DOMAIN s, s[n + 1].is = "end",
         NEW f, InHeader(s, f, n, htok), ~ htok.bad, NEW b, b = <<f, n + 1>>
  PROVE  /\ htok.id = Value(s, b, Id) /\ htok.type = Value(s, b, Type)
         /\ htok.labels = [i \in AnimNos |-> Value(s, b, Anim(i))]
         /\ (~ htok.bad /\ htok.id # NULL /\ htok.type # NULL /\ htok.type \in DOMAIN NumAnims
             /\ \A i \in AnimNos : i <= NumAnims[htok.type] => htok.labels[i] \notin Illegal)
            <=> HeaderFits(s, b)
<1>1. /\ \A v : Value(s, b, v) = Value(s, <<f, n>>, v)
      /\ \A k \in Vars(s, b) : s[k].var # Bad
  BY HeaderCloses
<1>2. htok.id = Value(s, b, Id) /\ htok.type = Value(s, b, Type)
  <2>1. htok = [id |-> Value(s, <<f, n>>, Id), type |-> Value(s, <<f, n>>, Type),
                labels |-> [i \in AnimNos |-> Value(s, <<f, n>>, Anim(i))], bad |-> htok.bad]
    BY DEF InHeader
  <2>2. htok.id = Value(s, <<f, n>>, Id) /\ htok.type = Value(s, <<f, n>>, Type)
    BY <2>1, TokFields
  <2> QED
    BY <1>1, <2>2
<1>3. htok.labels = [i \in AnimNos |-> Value(s, b, Anim(i))]
  <2>1. htok = [id |-> Value(s, <<f, n>>, Id), type |-> Value(s, <<f, n>>, Type),
                labels |-> [i \in AnimNos |-> Value(s, <<f, n>>, Anim(i))], bad |-> htok.bad]
    BY DEF InHeader
  <2>2. htok.labels = [i \in AnimNos |-> Value(s, <<f, n>>, Anim(i))]
    BY <2>1, TokFields
  <2>3. [i \in AnimNos |-> Value(s, <<f, n>>, Anim(i))] = [i \in AnimNos |-> Value(s, b, Anim(i))]
    BY <1>1
  <2> QED
    BY <2>2, <2>3
<1>4. ASSUME htok.type \in DOMAIN NumAnims
      PROVE  /\ LastAnim(s, b) = NumAnims[htok.type] /\ LastAnim(s, b) \in Nat
             /\ 0 .. LastAnim(s, b) \subseteq AnimNos
  BY <1>2, <1>4, AnimNosFacts DEF LastAnim
<1>5. ASSUME htok.type \in DOMAIN NumAnims
      PROVE  (\A i \in AnimNos : i <= NumAnims[htok.type] => htok.labels[i] \notin Illegal)
               <=> \A i \in 0 .. LastAnim(s, b) : Value(s, b, Anim(i)) \notin Illegal
  <2>1. PICK m \in Nat : AnimNos = 0 .. m
    BY AnimNosFacts
  <2>2. \A i \in AnimNos : i <= NumAnims[htok.type] <=> i \in 0 .. LastAnim(s, b)
    BY <1>4, <1>5, <2>1
  <2>3. \A i \in AnimNos : htok.labels[i] = Value(s, b, Anim(i))
    BY <1>3
  <2> QED
    BY <1>4, <1>5, <2>2, <2>3
<1>6. (~ htok.bad /\ htok.id # NULL /\ htok.type # NULL /\ htok.type \in DOMAIN NumAnims
       /\ \A i \in AnimNos : i <= NumAnims[htok.type] => htok.labels[i] \notin Illegal)
      <=> HeaderFits(s, b)
  <2>1. NULL \notin DOMAIN NumAnims
    BY NumAnimsAssumption
  <2> QED
    BY <1>1, <1>2, <1>5, <2>1 DEF HeaderFits
<1> QED
  BY <1>2, <1>3, <1>6

LEMMA TokenUses ==
  ASSUME NEW s, NEW b, HeaderFits(s, b), htok.id = Value(s, b, Id), htok.type = Value(s, b, Type),
         htok.labels = [i \in AnimNos |-> Value(s, b, Anim(i))]
  PROVE  /\ LastAnim(s, b) = NumAnims[htok.type] /\ LastAnim(s, b) \in Nat
         /\ htok.type \in DOMAIN NumAnims
         /\ UsedUpTo(LastAnim(s, b)) = UsesOf(s, b)
<1>1. htok.type \in DOMAIN NumAnims
  BY DEF HeaderFits
<1>2. /\ LastAnim(s, b) = NumAnims[htok.type] /\ LastAnim(s, b) \in Nat
      /\ 0 .. LastAnim(s, b) \subseteq AnimNos
  BY <1>1, AnimNosFacts DEF LastAnim
<1>3. \A i \in 0 .. LastAnim(s, b) - 1 : i \in AnimNos
  BY <1>2
<1>4. \A i \in 0 .. LastAnim(s, b) - 1 : htok.labels[i] = Value(s, b, Anim(i))
  BY <1>3
<1>5. Named(s, b) = {j \in 0 .. LastAnim(s, b) - 1 : Used(j)}
  BY <1>4 DEF Named, Used
<1>6. \A i \in Named(s, b) : UseAt(i) = HeaderUse(s, b, i)
  BY <1>4, <1>5 DEF UseAt, HeaderUse
<1> QED
  BY <1>1, <1>2, <1>5, <1>6 DEF UsedUpTo, UsesOf

(* A header that is not accepted is not one of a right source. *)
LEMMA HeaderIsRefused ==
  ASSUME NEW s, IsSource(s), NEW n \in Nat, NEW headers, NEW labels, NEW waiting,
         HeadersTo(s, n, headers, labels, waiting), NEW b \in Blocks(s), b \notin BlocksTo(s, n),
         ~ HeaderFits(s, b) \/ Value(s, b, Id) \in DOMAIN headers
  PROVE  ~ WellFormed(s)
<1>1. CASE ~ HeaderFits(s, b)
  BY <1>1 DEF HeaderFits, WellFormed, HeaderIsOk
<1>2. CASE Value(s, b, Id) \in DOMAIN headers
  <2>1. PICK c \in BlocksTo(s, n) : Value(s, b, Id) = Value(s, c, Id)
    BY <1>2 DEF HeadersTo
  <2>2. c \in Blocks(s) /\ c # b
    BY <2>1 DEF BlocksTo
  <2> QED
    BY <2>1, <2>2 DEF WellFormed
<1> QED
  BY <1>1, <1>2

LEMMA HeaderEndStep ==
  ASSUME CompileInv, HeaderEnd
  PROVE  CompileInv'
<1> DEFINE n == lineno
           s == src
<1>1. ReadsLine("header") /\ Line.is = "end" /\ pc = "header" /\ pc' = "next"
  BY DEF HeaderEnd, ReadsLine
<1>2. /\ IsSource(s) /\ n \in Nat /\ n + 1 \in DOMAIN s /\ lineno' = n + 1 /\ n + 1 \in 0 .. Len(s)
      /\ (~error => BlocksInv) /\ error \in BOOLEAN
      /\ Clean => GraphInv /\ NamesInv /\ CurrentInv /\ freeinstrs = {} /\ ~misread
                  /\ bad_labels = <<>>
  BY <1>1, ReadLineFacts
<1>3. /\ src' = src /\ s[n + 1].is = "end"
      /\ UNCHANGED <<parsing, instr, label, table_symtbl, uniqid, table_names, badness>>
  BY <1>1 DEF HeaderEnd, Line
<1>4. error' = (error \/ ~HeaderOk)
  BY <1>2 DEF HeaderEnd
<1>5. HeaderOk => /\ table_headers' = Put(table_headers, htok.id,
                       [ptr |-> <<0, htok.id>>,
                        st_entries |-> [i \in 0 .. NumAnims[htok.type] - 1 |-> NULL]])
                  /\ relocq' = relocq \o HeaderUses
  BY DEF HeaderEnd
<1>6. ASSUME ~error PROVE \E f \in 1 .. n : InHeader(s, f, n, htok)
  BY <1>1, <1>2, <1>6 DEF BlocksInv
<1>7. ASSUME ~error, NEW f, InHeader(s, f, n, htok)
      PROVE  /\ htok.bad => ~ WellFormed(s)
             /\ ~ htok.bad /\ ~ HeaderOk => ~ WellFormed(s)
             /\ ~ htok.bad /\ HeaderOk =>
                  /\ HeaderFits(s, <<f, n + 1>>) /\ Value(s, <<f, n + 1>>, Id) \notin DOMAIN table_headers
                  /\ InBlocks(s, n + 1)
  <2>1. ASSUME htok.bad PROVE ~ WellFormed(s)
    <3>1. n \in 0 .. Len(s)
      BY <1>2, SourceFacts
    <3> QED
      BY <1>2, <1>7, <2>1, <3>1, HeaderFails
  <2>2. ASSUME ~ htok.bad
        PROVE  /\ ~ HeaderOk => ~ WellFormed(s)
               /\ HeaderOk => /\ HeaderFits(s, <<f, n + 1>>) /\ InBlocks(s, n + 1)
                              /\ Value(s, <<f, n + 1>>, Id) \notin DOMAIN table_headers
    <3> DEFINE b == <<f, n + 1>>
    <3>1. /\ htok.id = Value(s, b, Id)
          /\ (~ htok.bad /\ htok.id # NULL /\ htok.type # NULL /\ htok.type \in DOMAIN NumAnims
              /\ \A i \in AnimNos : i <= NumAnims[htok.type] => htok.labels[i] \notin Illegal)
             <=> HeaderFits(s, b)
      BY <1>2, <1>3, <1>7, <2>2, TokenOfBlock
    <3>2. b \in Blocks(s) /\ b \notin BlocksTo(s, n) /\ InBlocks(s, n + 1)
      BY <1>2, <1>3, <1>7, <2>2, HeaderCloses
    <3>3. HeaderOk <=> HeaderFits(s, b) /\ Value(s, b, Id) \notin DOMAIN table_headers
      BY <3>1 DEF HeaderOk
    <3>4. HeadersTo(s, n, table_headers, label, Waiting)
      BY <1>2, <1>7, <2>2 DEF Clean, GraphInv, GraphTo
    <3>5. ~ HeaderOk => ~ WellFormed(s)
      BY <1>2, <3>2, <3>3, <3>4, HeaderIsRefused
    <3> QED
      BY <3>2, <3>3, <3>5
  <2> QED
    BY <2>1, <2>2
<1>8. error' \in BOOLEAN /\ (error' => error \/ ~ WellFormed(s))
  BY <1>2, <1>4, <1>6, <1>7 DEF HeaderOk
<1>9. PositionInv' /\ Reading' /\ Building'
  BY <1>1, <1>3, <1>8, NextPosition
<1>10. ASSUME ~error'
       PROVE  /\ BlocksInv' /\ GraphInv' /\ NamesInv' /\ CurrentInv' /\ freeinstrs' = {} /\ ~ misread'
              /\ bad_labels' = <<>>
  <2>1. ~error /\ HeaderOk /\ ~ htok.bad
    BY <1>4, <1>10 DEF HeaderOk
  <2>2. PICK f \in 1 .. n : InHeader(s, f, n, htok)
    BY <1>6, <2>1
  <2> DEFINE b == <<f, n + 1>>
  <2>3. HeaderFits(s, b) /\ Value(s, b, Id) \notin DOMAIN table_headers /\ InBlocks(s, n + 1)
    BY <1>7, <2>1, <2>2
  <2>4. /\ b \in Blocks(s) /\ b \notin BlocksTo(s, n)
        /\ BlocksTo(s, n + 1) = BlocksTo(s, n) \cup {b}
    BY <1>2, <1>3, <2>1, <2>2, HeaderCloses
  <2>5. /\ htok.id = Value(s, b, Id) /\ LastAnim(s, b) = NumAnims[htok.type]
        /\ htok.type \in DOMAIN NumAnims
        /\ UsedUpTo(LastAnim(s, b)) = UsesOf(s, b)
    <3>1. b = <<f, n + 1>>
      OBVIOUS
    <3> HIDE DEF b
    <3>2. IsSource(s) /\ n \in Nat /\ n + 1 \in DOMAIN s
      BY <1>2
    <3>3. s[n + 1].is = "end" /\ InHeader(s, f, n, htok) /\ ~ htok.bad
      BY <1>3, <2>1, <2>2
    <3>4. /\ htok.id = Value(s, b, Id) /\ htok.type = Value(s, b, Type)
          /\ htok.labels = [i \in AnimNos |-> Value(s, b, Anim(i))]
      BY <3>1, <3>2, <3>3, TokenOfBlock
    <3>5. HeaderFits(s, b)
      BY <2>3
    <3> QED
      BY <3>4, <3>5, TokenUses
  <2>6. table_headers' = Put(table_headers, Value(s, b, Id), NewHeader(s, b))
    BY <1>5, <2>1, <2>5 DEF NewHeader
  <2>7. GraphInv /\ NamesInv /\ CurrentInv /\ freeinstrs = {} /\ ~misread /\ bad_labels = <<>>
    BY <1>2, <2>1 DEF Clean
  <2>8. /\ relocq' \in Seq(Waiting')
        /\ Waiting' = Waiting \cup UsesOf(s, b)
    <3>1. /\ HeaderUses \in Seq(Elements(HeaderUses))
          /\ Elements(HeaderUses) = UsesOf(s, b)
      BY <2>5, HeaderUsesFacts
    <3>2. relocq \in Seq(Waiting) /\ Waiting = Elements(relocq)
      BY <2>7 DEF GraphInv, Waiting
    <3>3. /\ relocq \o HeaderUses \in Seq(Elements(relocq) \cup Elements(HeaderUses))
          /\ Elements(relocq \o HeaderUses) = Elements(relocq) \cup Elements(HeaderUses)
      BY <3>1, <3>2, ConcatFacts
    <3>4. Waiting' = Elements(relocq')
      BY DEF Waiting
    <3>5. relocq' = relocq \o HeaderUses
      BY <1>5, <2>1
    <3> QED
      BY <3>1, <3>2, <3>3, <3>4, <3>5
  <2>9. pc # "label" /\ Pending(s, n) = {}
    BY <1>1, <2>7 DEF NamesInv
  <2>10. n + 1 \notin OpLines(s) /\ n + 1 \notin Is(s, "code")
    BY <1>2, <1>3, LineFacts, SourceFacts
  <2>11. Before(s, (n + 1) + 1) = Before(s, n + 1) /\ Pending(s, n + 1) = {}
    <3>1. {n + 1} \cap Is(s, "code") = {}
      BY <2>10
    <3>2. /\ Before(s, (n + 1) + 1) = Before(s, n + 1)
          /\ Pending(s, n + 1) = Pending(s, n) \cup ({n + 1} \cap Is(s, "code"))
      BY <1>2, <2>10, NoInstr
    <3> QED
      BY <2>9, <3>1, <3>2
  <2>12. GraphTo(s, n + 1, table_headers', instr, label, table_names, Waiting')
    <3>1. GraphTo(s, n, table_headers, instr, label, table_names, Waiting)
      BY <2>7 DEF GraphInv
    <3> HIDE DEF b
    <3> QED
      BY <1>2, <1>3, <2>3, <2>4, <2>6, <2>8, <2>9, <3>1, HeaderAdds
  <2>13. GraphInv'
    BY <1>2, <1>3, <2>7, <2>8, <2>12 DEF GraphInv
  <2>14. NamesInv'
    BY <1>1, <1>2, <1>3, <2>7, <2>9, <2>11 DEF NamesInv, parsing
  <2>15. CurrentInv'
    <3>1. CurrentIs(s, n, current_instr)
      BY <1>1, <2>7 DEF CurrentInv, Reading
    <3>2. CurrentIs(s, n + 1, current_instr)
      BY <2>11, <3>1 DEF CurrentIs
    <3> QED
      BY <1>2, <1>3, <1>9, <3>2 DEF CurrentInv, parsing
  <2>16. BlocksInv'
    BY <1>1, <1>2, <1>3, <2>3 DEF BlocksInv
  <2> QED
    BY <1>3, <2>7, <2>13, <2>14, <2>15, <2>16 DEF badness
<1>11. ParseInv'
  BY <1>1, <1>10 DEF ParseInv, Clean
<1> QED
  BY <1>1, <1>9, <1>11, WhileParsing

(* A line outside the headers that is neither code nor starts one. *)
LEMMA LineOutside ==
  ASSUME NEW s, IsSource(s), NEW n \in Nat, n + 1 \in DOMAIN s, InBlocks(s, n),
         s[n + 1].is \in {"end", "var"}
  PROVE  ~ WellFormed(s)
<1> SUFFICES ASSUME WellFormed(s) PROVE FALSE
  OBVIOUS
<1>1. n + 1 \in Is(s, "end") \cup Is(s, "var")
  BY DEF Is
<1>2. PICK b \in Blocks(s) : n + 1 \in b[1] .. b[2]
  BY <1>1 DEF WellFormed
<1>3. /\ b[1] \in Nat \ {0} /\ b[2] \in Nat /\ b[1] < b[2] /\ s[b[1]].is = "start"
      /\ \A k \in (b[1] + 1) .. (b[2] - 1) : s[k].is = "var"
  BY BlocksAreRead
<1>4. b[1] # n + 1
  BY <1>3
<1>5. b[1] \in 1 .. n
  BY <1>2, <1>3, <1>4
<1>6. PICK c \in BlocksTo(s, n) : b[1] \in c[1] .. c[2]
  BY <1>3, <1>5 DEF InBlocks
<1>7. /\ c[1] \in Nat \ {0} /\ c[2] \in Nat /\ c[1] < c[2] /\ s[c[2]].is = "end" /\ c[2] <= n
      /\ \A k \in (c[1] + 1) .. (c[2] - 1) : s[k].is = "var"
  BY BlocksAreRead DEF BlocksTo
<1>8. b[1] # c[2] /\ ~ (b[1] \in (c[1] + 1) .. (c[2] - 1))
  BY <1>3, <1>7
<1>9. b[1] = c[1]
  BY <1>3, <1>6, <1>7, <1>8
<1>10. c[2] \in (b[1] + 1) .. (b[2] - 1)
  <2>1. n + 1 <= b[2]
    BY <1>2, <1>3
  <2> QED
    BY <1>3, <1>7, <1>9, <2>1
<1> QED
  BY <1>3, <1>7, <1>10

(* An instruction that is refused. *)
InstrFits(s, l) ==
  /\ l.is = "code" /\ l.op # "bad"
  /\ l.op \in {"jmp", "cond"} => l.label \notin Unfit

LEMMA InstrIsRefused ==
  ASSUME NEW s, IsSource(s), NEW k \in OpLines(s), ~ CodeFits(s, k)
  PROVE  ~ WellFormed(s)
<1> SUFFICES ASSUME WellFormed(s) PROVE FALSE
  OBVIOUS
<1>1. CodeIsOk(s, k) /\ Names(s) \cap Unfit = {}
  BY DEF WellFormed, Unfit
<1> QED
  BY <1>1 DEF CodeIsOk, CodeFits

LEMMA BlocksStay ==
  ASSUME NEW s, NEW n \in Nat, InBlocks(s, n), s[n + 1].is = "code",
         BlocksTo(s, n) \subseteq BlocksTo(s, n + 1)
  PROVE  InBlocks(s, n + 1)
<1>1. \A k \in 1 .. n + 1 : k \in 1 .. n \/ k = n + 1
  OBVIOUS
<1> QED
  BY <1>1 DEF InBlocks

LEMMA ReadNamesStep ==
  ASSUME CompileInv, ReadNames
  PROVE  CompileInv'
<1> DEFINE n == lineno
           s == src
<1>1. PICK mode \in {"next", "label"} : ReadsLine(mode)
  BY DEF ReadNames
<1>2. /\ IsSource(s) /\ n \in Nat /\ n + 1 \in DOMAIN s /\ lineno' = n + 1 /\ Reading
      /\ (~error => BlocksInv) /\ error \in BOOLEAN
      /\ Clean => GraphInv /\ NamesInv /\ CurrentInv /\ freeinstrs = {} /\ ~misread
                  /\ bad_labels = <<>>
  BY <1>1, ReadLineFacts
<1>3. /\ s[n + 1].is = "code" /\ s[n + 1].op = "none" /\ names' = names \o s[n + 1].names
      /\ pc' = "label" /\ pc \in {"next", "label"} /\ pc # "header"
      /\ UNCHANGED <<src, error, htok, current_instr, instr, label, tables, relocq, badness>>
  BY <1>1 DEF ReadNames, Line, ReadsLine
<1>4. PositionInv' /\ Reading' /\ Building'
  BY <1>1, <1>2, <1>3, NextPosition
<1>5. ASSUME ~error
      PROVE  /\ BlocksInv' /\ GraphInv' /\ NamesInv' /\ CurrentInv' /\ freeinstrs' = {} /\ ~ misread'
             /\ bad_labels' = <<>>
  <2>1. GraphInv /\ NamesInv /\ CurrentInv /\ freeinstrs = {} /\ ~misread /\ bad_labels = <<>>
    BY <1>2, <1>3, <1>5 DEF Clean
  <2>2. n + 1 \in Is(s, "code") /\ n + 1 \notin OpLines(s) /\ s[n + 1].is # "end"
        /\ s[n + 1].names \in Seq(NamesAt(s, n + 1))
    BY <1>2, <1>3, LineFacts
  <2>3. BlocksInv'
    <3>1. InBlocks(s, n)
      BY <1>2, <1>3, <1>5 DEF BlocksInv
    <3>2. InBlocks(s, n + 1)
      BY <1>2, <1>3, <3>1, BlocksAreRead, BlocksStay
    <3> QED
      BY <1>2, <1>3, <3>2 DEF BlocksInv
  <2>4. GraphTo(s, n + 1, table_headers, instr, label, table_names, Waiting)
    <3>1. GraphTo(s, n, table_headers, instr, label, table_names, Waiting)
      BY <2>1 DEF GraphInv
    <3> QED
      BY <1>2, <1>3, <2>2, <3>1, SkipLine
  <2>5. GraphInv'
    BY <1>2, <1>3, <2>1, <2>4 DEF GraphInv, Waiting, tables
  <2>6. /\ Before(s, (n + 1) + 1) = Before(s, n + 1)
        /\ Pending(s, n + 1) = Pending(s, n) \cup ({n + 1} \cap Is(s, "code"))
    BY <1>2, <2>2, NoInstr
  <2>7. Pending(s, n + 1) = Pending(s, n) \cup {n + 1}
    BY <2>2, <2>6
  <2>8. NamesInv'
    <3>1. names \in Seq(Elements(names)) /\ Elements(names) = UNION {NamesAt(s, k) : k \in Pending(s, n)}
      BY <2>1 DEF NamesInv
    <3>2. PICK q, r : q = names /\ r = s[n + 1].names
      OBVIOUS
    <3>3. /\ q \o r \in Seq(Elements(q) \cup Elements(r))
          /\ Elements(q \o r) = Elements(q) \cup Elements(r)
      BY <2>2, <3>1, <3>2, ConcatFacts
    <3>4. Elements(r) = NamesAt(s, n + 1)
      BY <3>2 DEF Elements, NamesAt
    <3>5. Elements(q \o r) = UNION {NamesAt(s, k) : k \in Pending(s, n + 1)}
      BY <2>7, <3>1, <3>2, <3>3, <3>4
    <3>6. names' = q \o r
      BY <1>3, <3>2
    <3>7. lineno' \in Pending(s, lineno')
      BY <1>2, <2>7
    <3>8. /\ names' \in Seq(Elements(names'))
          /\ Elements(names') = UNION {NamesAt(s, k) : k \in Pending(s, lineno')}
      BY <1>2, <3>3, <3>5, <3>6
    <3> QED
      BY <1>3, <3>7, <3>8 DEF NamesInv
  <2>9. CurrentInv'
    <3>1. CurrentIs(s, n, current_instr)
      BY <1>2, <2>1 DEF CurrentInv
    <3>2. CurrentIs(s, n + 1, current_instr)
      BY <2>6, <3>1 DEF CurrentIs
    <3> QED
      BY <1>2, <1>3, <1>4, <3>2 DEF CurrentInv
  <2> QED
    BY <1>3, <2>1, <2>3, <2>5, <2>8, <2>9 DEF badness
<1>6. ParseInv'
  BY <1>3, <1>5 DEF ParseInv, Clean
<1> QED
  BY <1>3, <1>4, <1>6, WhileParsing

LEMMA EndOfSourceStep ==
  ASSUME CompileInv, EndOfSource
  PROVE  CompileInv'
<1> DEFINE n == lineno
           s == src
<1>1. /\ pc \in {"next", "header", "label"} /\ n = Len(s) /\ pc' = "relocate"
      /\ error' = (error \/ pc # "next" \/ current_instr # NULL)
      /\ UNCHANGED <<src, lineno, parsing, instr, label, tables, relocq, badness>>
  BY DEF EndOfSource
<1>2. /\ s \in Sources /\ n \in 0 .. Len(s) /\ error \in BOOLEAN /\ (error => ~ WellFormed(s))
      /\ IsSource(s) /\ Reading /\ Building
  <2>1. s \in Sources /\ n \in 0 .. Len(s) /\ error \in BOOLEAN /\ (error => ~ WellFormed(s))
    BY DEF CompileInv, PositionInv
  <2> QED
    BY <1>1, <2>1, CompileAssumption DEF Reading, Building
<1>3. Len(s) \in Nat /\ DOMAIN s = 1 .. Len(s)
  BY <1>2, SourceFacts
<1>4. /\ ~error => BlocksInv
      /\ Clean => GraphInv /\ NamesInv /\ CurrentInv /\ freeinstrs = {} /\ ~misread
                  /\ bad_labels = <<>>
  BY <1>1, <1>2 DEF CompileInv, ParseInv
<1>5. ASSUME ~error, pc = "header" PROVE ~ WellFormed(s)
  <2>1. PICK f \in 1 .. n : InHeader(s, f, n, htok)
    BY <1>4, <1>5 DEF BlocksInv
  <2> QED
    BY <1>1, <1>2, <2>1, HeaderFails
<1>6. ASSUME ~error, pc = "label" PROVE ~ WellFormed(s)
  <2>1. n \in Pending(s, n)
    BY <1>4, <1>6 DEF Clean, NamesInv
  <2>2. n \in Is(s, "code") /\ n \notin OpLines(s)
    BY <1>2, <1>3, <2>1, PendingFacts
  <2>3. n + 1 \notin Is(s, "code")
    BY <1>1, <1>3 DEF Is
  <2> QED
    BY <2>2, <2>3 DEF WellFormed
<1>7. ASSUME ~error, pc = "next", current_instr # NULL PROVE ~ WellFormed(s)
  <2>1. CurrentIs(s, n, current_instr)
    BY <1>2, <1>4, <1>7 DEF Clean, CurrentInv
  <2>2. current_instr \in Before(s, Len(s) + 1) /\ ~ Ends(s, current_instr)
    BY <1>1, <1>7, <2>1 DEF CurrentIs
  <2> QED
    BY <2>2 DEF WellFormed
<1>8. error' \in BOOLEAN /\ (error' => ~ WellFormed(s))
  BY <1>1, <1>2, <1>5, <1>6, <1>7
<1>9. PositionInv' /\ Building' /\ ~ Reading'
  <2>1. Building' /\ ~ Reading'
    BY <1>1 DEF Reading, Building
  <2> QED
    BY <1>1, <1>2, <1>8, <2>1 DEF PositionInv
<1>10. ASSUME ~error'
       PROVE  /\ BlocksInv' /\ GraphInv' /\ NamesInv' /\ CurrentInv' /\ freeinstrs' = {} /\ ~ misread'
              /\ bad_labels' = <<>>
  <2>1. ~error /\ pc = "next" /\ current_instr = NULL
    BY <1>1, <1>10
  <2>2. BlocksInv /\ GraphInv /\ NamesInv /\ CurrentInv /\ freeinstrs = {} /\ ~misread /\ bad_labels = <<>>
    BY <1>4, <2>1 DEF Clean
  <2>3. BlocksInv'
    BY <1>1, <2>1, <2>2 DEF BlocksInv
  <2>4. GraphInv'
    BY <1>1, <2>2 DEF GraphInv, Waiting, tables
  <2>5. NamesInv'
    BY <1>1, <2>1, <2>2 DEF NamesInv, parsing
  <2>6. CurrentInv'
    <3>1. CurrentIs(s, n, NULL)
      BY <1>2, <2>1, <2>2 DEF CurrentInv
    <3> QED
      BY <1>1, <1>9, <3>1 DEF CurrentInv
  <2> QED
    BY <1>1, <2>2, <2>3, <2>4, <2>5, <2>6 DEF badness
<1>11. ParseInv'
  BY <1>1, <1>10 DEF ParseInv, Clean
<1> QED
  BY <1>1, <1>9, <1>11, WhileParsing

(* An instruction that is read, with the label before it if it has one.    *)
LEMMA InstrAdds ==
  ASSUME NEW s, IsSource(s), NEW n \in Nat, n + 1 \in OpLines(s), NULL \notin Nat,
         NEW headers, NEW heap, NEW labels, NEW table, NEW waiting,
         GraphTo(s, n, headers, heap, labels, table, waiting),
         NEW current, CurrentIs(s, n, current), CodeFits(s, n + 1),
         NEW heap2,
         ReadsInstr(s, n + 1, heap, heap2, current, IF n + 1 \in Heads(s) THEN n + 1 ELSE NULL),
         NEW labels2, DOMAIN labels2 = DOMAIN labels \cup ({n + 1} \cap Heads(s)),
         \A st \in DOMAIN labels : labels2[st] = labels[st],
         n + 1 \in Heads(s) =>
           labels2[n + 1] = [id |-> labels2[n + 1].id, bc |-> n + 1, anims |-> {}, jumps |-> {}],
         NEW table2, TableTo(s, n + 1, table2),
         NEW waiting2,
         waiting2 = waiting \cup (IF Jumping(s, n + 1) THEN {JumpUse(s, n + 1)} ELSE {})
  PROVE  GraphTo(s, n + 1, headers, heap2, labels2, table2, waiting2)
<1> DEFINE i == n + 1
<1>1. /\ OpTo(s, i) = OpTo(s, n) \cup {i} /\ i \notin OpTo(s, n)
  BY OneInstr
<1>2. /\ HeadersTo(s, n, headers, labels, waiting) /\ CodeTo(s, n, heap, labels, waiting)
      /\ LabelsTo(s, n, labels, heap, headers) /\ UsesTo(s, n, waiting)
  BY DEF GraphTo
<1>3. BlocksTo(s, i) = BlocksTo(s, n)
  <2>1. s[i].is = "code"
    BY DEF OpLines, Is
  <2> QED
    BY <2>1, BlocksAreRead
<1>4. \A st \in DOMAIN labels : st \in DOMAIN labels2 /\ labels2[st] = labels[st]
  OBVIOUS
<1>5. HeadersTo(s, i, headers, labels2, waiting2)
  <2>1. ASSUME NEW b \in BlocksTo(s, n)
        PROVE  HeaderFits(s, b) /\ HeaderIs(s, b, headers[Value(s, b, Id)], labels2, waiting2)
    <3>1. HeaderFits(s, b) /\ HeaderIs(s, b, headers[Value(s, b, Id)], labels, waiting)
      BY <1>2 DEF HeadersTo
    <3> QED
      BY <1>4, <3>1, HeadersKept
  <2> QED
    BY <1>2, <1>3, <2>1 DEF HeadersTo
<1>6. CodeTo(s, i, heap2, labels2, waiting2)
  BY <1>2, <1>4, CodeGrows
<1>7. ASSUME NEW k \in OpTo(s, n) PROVE heap2[k].jump = heap[k].jump
  <2>1. k \in DOMAIN heap /\ k # i /\ InstrIs(s, k, n, heap[k])
    BY <1>1, <1>2 DEF CodeTo
  <2>2. heap2[k] = [heap[k] EXCEPT !.next = IF k = current THEN i ELSE @]
    BY <2>1 DEF ReadsInstr
  <2>3. heap[k] = [op |-> k, next |-> heap[k].next, prev |-> heap[k].prev,
                   st_entry |-> heap[k].st_entry, jump |-> heap[k].jump]
    BY <2>1 DEF InstrIs
  <2> QED
    BY <2>2, <2>3
<1>8. LabelsTo(s, i, labels2, heap2, headers)
  <2>1. DOMAIN labels2 = Heads(s) \cap OpTo(s, i)
    BY <1>1, <1>2 DEF LabelsTo
  <2>2. ASSUME NEW st \in DOMAIN labels PROVE LabelIs(s, i, st, labels2[st], heap2, headers)
    <3>1. LabelIs(s, n, st, labels[st], heap, headers)
      BY <1>2 DEF LabelsTo
    <3>2. LabelIs(s, i, st, labels[st], heap2, headers)
      BY <1>1, <1>3, <1>7, <3>1 DEF LabelIs
    <3> QED
      BY <1>4, <3>2
  <2>3. ASSUME i \in Heads(s) PROVE LabelIs(s, i, i, labels2[i], heap2, headers)
    <3>1. PICK l : l = labels2[i]
      OBVIOUS
    <3>2. l = [id |-> l.id, bc |-> i, anims |-> {}, jumps |-> {}]
      BY <2>3, <3>1
    <3>3. l.anims = {} /\ l.jumps = {} /\ l = [id |-> l.id, bc |-> i, anims |-> l.anims, jumps |-> l.jumps]
      BY <3>2
    <3> QED
      BY <3>1, <3>3 DEF LabelIs
  <2> QED
    BY <2>1, <2>2, <2>3 DEF LabelsTo
<1>9. UsesTo(s, i, waiting2)
  BY <1>1, <1>2, <1>3 DEF UsesTo
<1> QED
  BY <1>5, <1>6, <1>8, <1>9 DEF GraphTo

LEMMA TableStays ==
  ASSUME NEW s, IsSource(s), NEW n \in Nat, n + 1 \in OpLines(s), Pending(s, n) = {},
         NamesAt(s, n + 1) = {}, NEW table, TableTo(s, n, table)
  PROVE  TableTo(s, n + 1, table)
<1>1. Settled(s, n + 1) = Settled(s, n) \cup {n + 1}
  BY OneInstr
<1> QED
  BY <1>1 DEF TableTo

(* The names of a label: all of them are new, and fit. *)
Unread(s, n) == UNION {NamesAt(s, k) : k \in Pending(s, n) \cup {n + 1}}

LEMMA TableGrows ==
  ASSUME NEW s, IsSource(s), NEW n \in Nat, n + 1 \in OpLines(s),
         NEW table, TableTo(s, n, table), NEW new,
         \A e \in new : e.name \in Unread(s, n) /\ e.st = n + 1 /\ e.name \notin Unfit,
         \A x \in Unread(s, n) : \E e \in new : e.name = x,
         \A e \in new : \A f \in table : f.name # e.name
  PROVE  TableTo(s, n + 1, table \cup new)
<1>1. /\ Settled(s, n + 1) = Settled(s, n) \cup Pending(s, n) \cup {n + 1}
      /\ \A k \in Pending(s, n) \cup {n + 1} : Marked(s, k) = n + 1
  BY OneInstr
<1>2. ASSUME NEW e \in table \cup new
      PROVE  /\ e.name \notin Unfit
             /\ \E k \in Settled(s, n + 1) : e.name \in NamesAt(s, k) /\ e.st = Marked(s, k)
  <2>1. CASE e \in table
    BY <1>1, <2>1 DEF TableTo
  <2>2. CASE e \in new
    <3>1. PICK k \in Pending(s, n) \cup {n + 1} : e.name \in NamesAt(s, k)
      BY <2>2 DEF Unread
    <3> QED
      BY <1>1, <2>2, <3>1
  <2> QED
    BY <2>1, <2>2
<1>3. ASSUME NEW k \in Settled(s, n + 1), NEW x \in NamesAt(s, k)
      PROVE  \E e \in table \cup new : e.name = x /\ e.st = Marked(s, k)
  <2>1. CASE k \in Settled(s, n)
    BY <2>1 DEF TableTo
  <2>2. CASE k \in Pending(s, n) \cup {n + 1}
    <3>1. x \in Unread(s, n)
      BY <2>2 DEF Unread
    <3> QED
      BY <1>1, <2>2, <3>1
  <2> QED
    BY <1>1, <2>1, <2>2
<1>4. \A e, f \in table \cup new : e.name = f.name => e.st = f.st
  BY DEF TableTo
<1> QED
  BY <1>2, <1>3, <1>4 DEF TableTo

(* A name that may not be defined. *)
LEMMA NameIsRefused ==
  ASSUME NEW s, IsSource(s), NEW n \in Nat, n + 1 \in OpLines(s), NEW table, TableTo(s, n, table),
         NEW x \in Unread(s, n), x \in Unfit \/ \E e \in table : e.name = x
  PROVE  ~ WellFormed(s)
<1> SUFFICES ASSUME WellFormed(s) PROVE FALSE
  OBVIOUS
<1>1. PICK k \in Pending(s, n) \cup {n + 1} : x \in NamesAt(s, k)
  BY DEF Unread
<1>2. k \in Is(s, "code") /\ Marked(s, k) = n + 1
  BY <1>1, OneInstr, PendingFacts, SourceFacts
<1>3. x \in Names(s)
  BY <1>1, <1>2 DEF Names
<1>4. x \notin Unfit
  BY <1>3 DEF WellFormed, Unfit
<1>5. PICK e \in table : e.name = x
  BY <1>4
<1>6. PICK j \in Settled(s, n) : x \in NamesAt(s, j)
  BY <1>5 DEF TableTo
<1>7. j \in Is(s, "code") /\ Marked(s, j) \in OpTo(s, n)
  BY <1>6, PendingFacts
<1>8. Marked(s, j) # n + 1
  BY <1>7, OneInstr
<1>9. NamesAt(s, j) \cap NamesAt(s, k) # {}
  BY <1>1, <1>6
<1> QED
  BY <1>2, <1>7, <1>8, <1>9 DEF WellFormed

(* What makes an instruction right. *)
LEMMA FitsHere ==
  ASSUME NEW s, IsSource(s), NEW n \in Nat, n + 1 \in OpLines(s), NEW current, CurrentIs(s, n, current),
         NULL \notin Nat
  PROVE  /\ InstrFits(s, s[n + 1]) /\ (Labelled(s, n + 1) # {} \/ current # NULL) <=> CodeFits(s, n + 1)
         /\ Labelled(s, n + 1) # {} <=> n + 1 \in Heads(s)
<1>1. s[n + 1].is = "code"
  BY DEF OpLines, Is
<1>2. current # NULL <=> \E j \in Before(s, n + 1) : ~ Ends(s, j)
  <2>1. \A j \in Before(s, n + 1) : j # NULL
    BY BeforeFacts, SourceFacts
  <2> QED
    BY <2>1 DEF CurrentIs
<1> QED
  BY <1>1, <1>2 DEF InstrFits, CodeFits, Jumping, Heads

LEMMA NowCurrent ==
  ASSUME NEW s, IsSource(s), NEW n \in Nat, n + 1 \in OpLines(s), NULL \notin Nat
  PROVE  CurrentIs(s, n + 1, IF s[n + 1].op \in {"term", "jmp"} THEN NULL ELSE n + 1)
<1>1. Before(s, (n + 1) + 1) = {n + 1}
  BY OneInstr
<1> QED
  BY <1>1 DEF CurrentIs, Ends

LEMMA AppendElements ==
  ASSUME NEW q, q \in Seq(Elements(q)), NEW e
  PROVE  /\ Append(q, e) \in Seq(Elements(Append(q, e)))
         /\ Elements(Append(q, e)) = Elements(q) \cup {e}
<1> DEFINE S == Elements(q) \cup {e}
<1>1. q \in Seq(S) /\ e \in S
  OBVIOUS
<1> HIDE DEF S
<1>2. /\ Append(q, e) \in Seq(S) /\ Len(q) \in Nat
      /\ DOMAIN q = 1 .. Len(q) /\ DOMAIN Append(q, e) = 1 .. Len(q) + 1
      /\ Append(q, e)[Len(q) + 1] = e /\ \A m \in DOMAIN q : Append(q, e)[m] = q[m]
  BY <1>1, AppendFacts
<1>3. DOMAIN Append(q, e) = DOMAIN q \cup {Len(q) + 1}
  BY <1>2
<1>4. Elements(Append(q, e)) = S
  BY <1>2, <1>3 DEF Elements, S
<1> QED
  BY <1>2, <1>4 DEF S

LEMMA ReadsTok ==
  ASSUME NEW i, i = lineno + 1, NEW st, ReadInstrTok(i, st), relocq \in Seq(Waiting)
  PROVE  /\ ReadsInstr(src, i, instr, instr', current_instr, st)
         /\ relocq' \in Seq(Waiting')
         /\ Waiting' = Waiting \cup (IF Jumping(src, i) THEN {JumpUse(src, i)} ELSE {})
         /\ current_instr' = IF src[i].op \in {"term", "jmp"} THEN NULL ELSE i
<1>1. ReadsInstr(src, i, instr, instr', current_instr, st)
  BY DEF ReadInstrTok, ReadsInstr
<1>2. current_instr' = IF src[i].op \in {"term", "jmp"} THEN NULL ELSE i
  BY DEF ReadInstrTok, CurrentInstr, Line
<1>3. Waiting = Elements(relocq) /\ Waiting' = Elements(relocq')
  BY DEF Waiting
<1>4. CASE Jumping(src, i)
  <2>1. relocq' = Append(relocq, JumpUse(src, i))
    BY <1>4 DEF ReadInstrTok, Jumping, JumpUse, Line
  <2>2. PICK q, e : q = relocq /\ e = JumpUse(src, i)
    OBVIOUS
  <2>3. /\ Append(q, e) \in Seq(Elements(Append(q, e)))
        /\ Elements(Append(q, e)) = Elements(q) \cup {e}
    BY <1>3, <2>2, AppendElements
  <2> QED
    BY <1>1, <1>2, <1>3, <1>4, <2>1, <2>2, <2>3
<1>5. CASE ~ Jumping(src, i)
  <2>1. relocq' = relocq
    BY <1>5 DEF ReadInstrTok, Jumping, Line
  <2> QED
    BY <1>1, <1>2, <1>3, <1>5, <2>1
<1> QED
  BY <1>4, <1>5

LEMMA ReadInstrStep ==
  ASSUME CompileInv, ReadInstr
  PROVE  CompileInv'
<1> DEFINE n == lineno
           s == src
           Ok == InstrOk /\ current_instr # NULL
<1>1. /\ ReadsLine("next") /\ pc = "next" /\ pc' = "next" /\ s[n + 1].is # "start"
      /\ s[n + 1].is = "code" => s[n + 1].names = <<>>
      /\ IF Ok THEN ReadInstrTok(n + 1, NULL) /\ error' = error ELSE error' = TRUE
      /\ UNCHANGED <<src, pc, htok, names, label, tables, badness>>
  BY DEF ReadInstr, ReadsLine, Line
<1>2. /\ IsSource(s) /\ n \in Nat /\ n + 1 \in DOMAIN s /\ lineno' = n + 1 /\ Reading
      /\ (~error => BlocksInv) /\ error \in BOOLEAN /\ NULL \notin Nat
      /\ Clean => GraphInv /\ NamesInv /\ CurrentInv /\ freeinstrs = {} /\ ~misread
                  /\ bad_labels = <<>>
  BY <1>1, ReadLineFacts
<1>3. InstrOk <=> InstrFits(s, s[n + 1])
  BY DEF InstrOk, InstrFits, Unfit, Line
<1>4. ASSUME ~error
      PROVE  /\ GraphInv /\ NamesInv /\ CurrentInv /\ freeinstrs = {} /\ ~misread
             /\ bad_labels = <<>> /\ InBlocks(s, n) /\ Pending(s, n) = {}
             /\ CurrentIs(s, n, current_instr)
  <2>1. GraphInv /\ NamesInv /\ CurrentInv /\ freeinstrs = {} /\ ~misread /\ bad_labels = <<>>
    BY <1>1, <1>2, <1>4 DEF Clean
  <2> QED
    BY <1>1, <1>2, <1>4, <2>1 DEF NamesInv, CurrentInv, BlocksInv
<1>5. ASSUME ~error, s[n + 1].is = "code"
      PROVE  /\ n + 1 \in OpLines(s) /\ NamesAt(s, n + 1) = {} /\ n + 1 \notin Heads(s)
             /\ Ok <=> CodeFits(s, n + 1)
  <2>1. n + 1 \in OpLines(s) /\ NamesAt(s, n + 1) = {}
    BY <1>1, <1>2, <1>5, LineFacts
  <2>2. Labelled(s, n + 1) = {}
    <3>1. Pending(s, n) = {} /\ s[n + 1].names = <<>>
      BY <1>1, <1>4, <1>5
    <3>2. Labelled(s, n + 1) = {k \in Pending(s, n) \cup {n + 1} : s[k].names # <<>>}
      BY <1>2, <2>1, OneInstr
    <3> QED
      BY <3>1, <3>2
  <2> QED
    BY <1>2, <1>3, <1>4, <1>5, <2>1, <2>2, FitsHere
<1>6. ASSUME ~error, ~Ok PROVE ~ WellFormed(s)
  <2>1. CASE s[n + 1].is = "code"
    BY <1>2, <1>5, <1>6, <2>1, InstrIsRefused
  <2>2. CASE s[n + 1].is # "code"
    <3>1. s[n + 1].is \in {"end", "var"}
      BY <1>1, <1>2, <2>2, LineFacts
    <3> QED
      BY <1>2, <1>4, <1>6, <3>1, LineOutside
  <2> QED
    BY <2>1, <2>2
<1>7. error' \in BOOLEAN /\ (error' => error \/ ~ WellFormed(s))
  BY <1>1, <1>2, <1>6
<1>8. PositionInv' /\ Reading' /\ Building'
  BY <1>1, <1>7, NextPosition
<1>9. ASSUME ~error'
      PROVE  /\ BlocksInv' /\ GraphInv' /\ NamesInv' /\ CurrentInv' /\ freeinstrs' = {} /\ ~ misread'
             /\ bad_labels' = <<>>
  <2>1. ~error /\ Ok /\ ReadInstrTok(n + 1, NULL) /\ s[n + 1].is = "code"
    BY <1>1, <1>3, <1>9 DEF InstrFits
  <2>2. /\ n + 1 \in OpLines(s) /\ NamesAt(s, n + 1) = {} /\ n + 1 \notin Heads(s)
        /\ CodeFits(s, n + 1)
    BY <1>5, <2>1
  <2>3. relocq \in Seq(Waiting) /\ GraphTo(s, n, table_headers, instr, label, table_names, Waiting)
        /\ SymTblIs(table_symtbl, uniqid, label)
    BY <1>4, <2>1 DEF GraphInv
  <2>4. /\ ReadsInstr(s, n + 1, instr, instr', current_instr, NULL)
        /\ relocq' \in Seq(Waiting')
        /\ Waiting' = Waiting \cup (IF Jumping(s, n + 1) THEN {JumpUse(s, n + 1)} ELSE {})
        /\ current_instr' = IF s[n + 1].op \in {"term", "jmp"} THEN NULL ELSE n + 1
    BY <2>1, <2>3, ReadsTok
  <2>5. TableTo(s, n + 1, table_names)
    <3>1. TableTo(s, n, table_names)
      BY <2>3 DEF GraphTo
    <3> QED
      BY <1>2, <1>4, <2>1, <2>2, <3>1, TableStays
  <2>6. ReadsInstr(s, n + 1, instr, instr', current_instr,
                   IF n + 1 \in Heads(s) THEN n + 1 ELSE NULL)
    BY <2>2, <2>4
  <2>7. DOMAIN label = DOMAIN label \cup ({n + 1} \cap Heads(s))
    BY <2>2
  <2>8. GraphTo(s, n + 1, table_headers, instr', label, table_names, Waiting')
    <3>1. CurrentIs(s, n, current_instr)
      BY <1>4, <2>1
    <3> QED
      BY <1>2, <2>2, <2>3, <2>4, <2>5, <2>6, <2>7, <3>1, InstrAdds
  <2>9. GraphInv'
    BY <1>1, <1>2, <2>3, <2>4, <2>8 DEF GraphInv, tables
  <2>10. NamesInv'
    <3>1. Pending(s, n + 1) = {}
      BY <1>2, <2>2, OneInstr
    <3>2. names \in Seq(Elements(names)) /\ Elements(names) = UNION {NamesAt(s, k) : k \in {}}
      BY <1>4, <2>1 DEF NamesInv
    <3>3. Elements(names) = UNION {NamesAt(s, k) : k \in Pending(s, n + 1)}
      BY <3>1, <3>2
    <3> QED
      BY <1>1, <1>2, <3>1, <3>2, <3>3 DEF NamesInv
  <2>11. CurrentInv'
    <3>1. CurrentIs(s, n + 1, current_instr')
      BY <1>2, <2>2, <2>4, NowCurrent
    <3> QED
      BY <1>1, <1>2, <1>8, <3>1 DEF CurrentInv
  <2>12. BlocksInv'
    <3>1. InBlocks(s, n + 1)
      BY <1>2, <1>4, <2>1, BlocksAreRead, BlocksStay
    <3> QED
      BY <1>1, <1>2, <3>1 DEF BlocksInv
  <2>13. freeinstrs = {} /\ ~misread /\ bad_labels = <<>>
    BY <1>4, <2>1
  <2> QED
    BY <1>1, <2>9, <2>10, <2>11, <2>12, <2>13 DEF badness
<1>10. ParseInv'
  BY <1>1, <1>9 DEF ParseInv, Clean
<1> QED
  BY <1>1, <1>8, <1>10, WhileParsing

LEMMA SymTblGrows ==
  ASSUME NEW symtbl, NEW next_id, NEW labels, SymTblIs(symtbl, next_id, labels),
         NEW i, i \notin DOMAIN labels, NEW l, l.id = next_id
  PROVE  SymTblIs(Put(symtbl, next_id, i), next_id + 1, Put(labels, i, l))
<1> DEFINE symtbl2 == Put(symtbl, next_id, i)
           labels2 == Put(labels, i, l)
<1>1. /\ next_id \in Nat /\ DOMAIN symtbl \subseteq 0 .. next_id - 1
      /\ \A st \in DOMAIN labels : labels[st].id \in DOMAIN symtbl /\ symtbl[labels[st].id] = st
      /\ \A k \in DOMAIN symtbl : symtbl[k] \in DOMAIN labels /\ labels[symtbl[k]].id = k
  BY DEF SymTblIs
<1>2. next_id \notin DOMAIN symtbl /\ next_id + 1 \in Nat
  BY <1>1
<1>3. /\ DOMAIN symtbl2 = DOMAIN symtbl \cup {next_id} /\ symtbl2[next_id] = i
      /\ \A k \in DOMAIN symtbl : symtbl2[k] = symtbl[k]
      /\ DOMAIN labels2 = DOMAIN labels \cup {i} /\ labels2[i] = l
      /\ \A st \in DOMAIN labels : labels2[st] = labels[st]
  BY <1>2 DEF Put
<1> HIDE DEF symtbl2, labels2
<1>4. DOMAIN symtbl2 \subseteq 0 .. (next_id + 1) - 1
  BY <1>1, <1>3
<1>5. \A st \in DOMAIN labels2 : labels2[st].id \in DOMAIN symtbl2 /\ symtbl2[labels2[st].id] = st
  BY <1>1, <1>3
<1>6. \A k \in DOMAIN symtbl2 : symtbl2[k] \in DOMAIN labels2 /\ labels2[symtbl2[k]].id = k
  BY <1>1, <1>3
<1>7. SymTblIs(symtbl2, next_id + 1, labels2)
  BY <1>2, <1>4, <1>5, <1>6 DEF SymTblIs
<1> QED
  BY <1>7 DEF symtbl2, labels2

(* The names read before an instruction and with it. *)
LEMMA AllNames ==
  ASSUME NEW s, IsSource(s), NEW n \in Nat, n + 1 \in DOMAIN s, s[n + 1].is = "code",
         NEW ns, ns \in Seq(Elements(ns)), Elements(ns) = UNION {NamesAt(s, k) : k \in Pending(s, n)}
  PROVE  Elements(ns \o s[n + 1].names) = Unread(s, n)
<1>1. PICK r : r = s[n + 1].names
  OBVIOUS
<1>2. r \in Seq(NamesAt(s, n + 1)) /\ Elements(r) = NamesAt(s, n + 1)
  BY <1>1, LineFacts DEF Elements, NamesAt
<1>3. Elements(ns \o r) = Elements(ns) \cup Elements(r)
  BY <1>2, ConcatFacts
<1> QED
  BY <1>1, <1>2, <1>3 DEF Unread

LEMMA ReadSymTblEntStep ==
  ASSUME CompileInv, ReadSymTblEnt
  PROVE  CompileInv'
<1> DEFINE n == lineno
           s == src
           i == lineno + 1
           all == names \o IF Line.is = "code" THEN Line.names ELSE <<>>
           Ok == InstrOk /\ NamesOk(all)
           NamesFit == \A x \in Unread(s, n) : x \notin Unfit /\ \A e \in table_names : e.name # x
           new == {[name |-> all[k], at |-> <<i, k>>, st |-> i] : k \in DOMAIN all}
<1>1. PICK mode \in {"next", "label"} : ReadsLine(mode)
  BY DEF ReadSymTblEnt
<1>2. /\ IsSource(s) /\ n \in Nat /\ n + 1 \in DOMAIN s /\ lineno' = n + 1 /\ Reading
      /\ (~error => BlocksInv) /\ error \in BOOLEAN /\ NULL \notin Nat
      /\ Clean => GraphInv /\ NamesInv /\ CurrentInv /\ freeinstrs = {} /\ ~misread
                  /\ bad_labels = <<>>
  BY <1>1, ReadLineFacts
<1>3. /\ pc \in {"next", "label"} /\ pc # "header" /\ pc' = "next" /\ names' = <<>>
      /\ pc = "next" => s[n + 1].is = "code" /\ s[n + 1].names # <<>>
      /\ s[n + 1].is = "code" => s[n + 1].op # "none"
      /\ UNCHANGED <<src, htok, table_headers, badness>>
  BY DEF ReadSymTblEnt, ReadsLine, Line
<1>4. /\ Ok => /\ ReadInstrTok(i, i)
               /\ label' = Put(label, i, [id |-> uniqid, bc |-> i, anims |-> {}, jumps |-> {}])
               /\ table_names' = table_names \cup new
               /\ table_symtbl' = Put(table_symtbl, uniqid, i)
               /\ uniqid' = uniqid + 1 /\ error' = error
      /\ ~Ok => error' = TRUE
  BY DEF ReadSymTblEnt
<1>5. InstrOk <=> InstrFits(s, s[n + 1])
  BY DEF InstrOk, InstrFits, Unfit, Line
<1>6. ASSUME ~error
      PROVE  /\ GraphInv /\ NamesInv /\ CurrentInv /\ freeinstrs = {} /\ ~misread
             /\ bad_labels = <<>> /\ InBlocks(s, n)
             /\ CurrentIs(s, n, current_instr) /\ TableTo(s, n, table_names)
             /\ pc = "label" => n \in Pending(s, n)
  <2>1. GraphInv /\ NamesInv /\ CurrentInv /\ freeinstrs = {} /\ ~misread /\ bad_labels = <<>>
    BY <1>2, <1>3, <1>6 DEF Clean
  <2>2. InBlocks(s, n)
    BY <1>2, <1>3, <1>6 DEF BlocksInv
  <2> QED
    BY <1>2, <1>3, <2>1, <2>2 DEF NamesInv, CurrentInv, GraphInv, GraphTo
<1>7. ASSUME ~error, s[n + 1].is = "code"
      PROVE  /\ i \in OpLines(s) /\ i \in Heads(s) /\ (InstrFits(s, s[i]) <=> CodeFits(s, i))
             /\ Elements(all) = Unread(s, n)
             /\ NamesOk(all) <=> NamesFit
  <2>1. i \in OpLines(s)
    BY <1>2, <1>3, <1>7, LineFacts
  <2>2. Labelled(s, n + 1) = {k \in Pending(s, n) \cup {n + 1} : s[k].names # <<>>}
    BY <1>2, <2>1, OneInstr
  <2>3. Labelled(s, i) # {}
    <3>1. CASE pc = "next"
      BY <1>3, <2>2, <3>1
    <3>2. CASE pc = "label"
      <4>1. n \in Pending(s, n) /\ n \in Is(s, "code") /\ n \notin OpLines(s)
        BY <1>2, <1>6, <1>7, <3>2, PendingFacts
      <4>2. n \in DOMAIN s /\ s[n].is = "code"
        BY <4>1 DEF Is
      <4>3. s[n].names # <<>>
        BY <1>2, <4>1, <4>2, LineFacts
      <4> QED
        BY <2>2, <4>1, <4>3
    <3> QED
      BY <1>3, <3>1, <3>2
  <2>4. i \in Heads(s) /\ (InstrFits(s, s[i]) <=> CodeFits(s, i))
    <3>1. CurrentIs(s, n, current_instr)
      BY <1>6, <1>7
    <3> QED
      BY <1>2, <2>1, <2>3, <3>1, FitsHere
  <2>5. all = names \o s[n + 1].names
    BY <1>7 DEF Line
  <2>6. Elements(all) = Unread(s, n)
    <3>1. names \in Seq(Elements(names)) /\ Elements(names) = UNION {NamesAt(s, k) : k \in Pending(s, n)}
      BY <1>6, <1>7 DEF NamesInv
    <3> QED
      BY <1>2, <1>7, <2>5, <3>1, AllNames
  <2>7. NamesOk(all) <=> NamesFit
    <3> HIDE DEF all
    <3>1. NamesOk(all) <=> \A x \in Elements(all) : x \notin Unfit /\ \A e \in table_names : e.name # x
      BY DEF NamesOk, Elements, Unfit
    <3> QED
      BY <2>6, <3>1
  <2> HIDE DEF all, NamesFit
  <2> QED
    BY <2>1, <2>4, <2>6, <2>7
<1>8. ASSUME ~error, ~Ok PROVE ~ WellFormed(s)
  <2>1. CASE s[n + 1].is = "code"
    <3>1. CASE ~ InstrOk
      <4>1. i \in OpLines(s) /\ ~ CodeFits(s, i)
        <5> HIDE DEF all
        <5> QED
          BY <1>5, <1>7, <1>8, <2>1, <3>1
      <4> QED
        BY <1>2, <4>1, InstrIsRefused
    <3>2. CASE ~ NamesOk(all)
      <4>1. ~ NamesFit
        <5> HIDE DEF all, NamesFit
        <5> QED
          BY <1>7, <1>8, <2>1, <3>2
      <4>2. PICK x \in Unread(s, n) : x \in Unfit \/ \E e \in table_names : e.name = x
        BY <4>1
      <4>3. TableTo(s, n, table_names) /\ n + 1 \in OpLines(s)
        BY <1>6, <1>7, <1>8, <2>1
      <4> QED
        BY <1>2, <4>2, <4>3, NameIsRefused
    <3> QED
      BY <1>8, <3>1, <3>2
  <2>2. CASE s[n + 1].is # "code"
    <3>1. n \in Pending(s, n)
      BY <1>3, <1>6, <1>8, <2>2
    <3>2. n \in Is(s, "code") /\ n \notin OpLines(s)
      BY <1>2, <3>1, PendingFacts
    <3>3. n + 1 \notin Is(s, "code")
      BY <2>2 DEF Is
    <3> QED
      BY <3>2, <3>3 DEF WellFormed
  <2> QED
    BY <2>1, <2>2
<1>9. error' \in BOOLEAN /\ (error' => error \/ ~ WellFormed(s))
  <2>1. CASE Ok
    <3>1. error' = error
      BY <1>4, <2>1
    <3> QED
      BY <1>2, <3>1
  <2>2. CASE ~Ok
    <3>1. error' = TRUE
      BY <1>4, <2>2
    <3>2. error \/ ~ WellFormed(s)
      BY <1>8, <2>2
    <3> QED
      BY <3>1, <3>2
  <2> QED
    BY <2>1, <2>2
<1>10. PositionInv' /\ Reading' /\ Building'
  BY <1>1, <1>3, <1>9, NextPosition
<1>11. ASSUME ~error'
       PROVE  /\ BlocksInv' /\ GraphInv' /\ NamesInv' /\ CurrentInv' /\ freeinstrs' = {} /\ ~ misread'
              /\ bad_labels' = <<>>
  <2>1. ~error /\ Ok /\ s[n + 1].is = "code"
    BY <1>4, <1>5, <1>11 DEF InstrFits
  <2>2. /\ i \in OpLines(s) /\ i \in Heads(s) /\ CodeFits(s, i) /\ Elements(all) = Unread(s, n)
        /\ NamesFit
    <3> HIDE DEF all, NamesFit
    <3> QED
      BY <1>5, <1>7, <2>1
  <2>3. relocq \in Seq(Waiting) /\ GraphTo(s, n, table_headers, instr, label, table_names, Waiting)
        /\ SymTblIs(table_symtbl, uniqid, label)
    BY <1>6, <2>1 DEF GraphInv
  <2>4. /\ ReadsInstr(s, i, instr, instr', current_instr, i)
        /\ relocq' \in Seq(Waiting')
        /\ Waiting' = Waiting \cup (IF Jumping(s, i) THEN {JumpUse(s, i)} ELSE {})
        /\ current_instr' = IF s[i].op \in {"term", "jmp"} THEN NULL ELSE i
    BY <1>4, <2>1, <2>3, ReadsTok
  <2>5. TableTo(s, n + 1, table_names')
    <3>1. \A e \in new : e.name \in Elements(all) /\ e.st = n + 1
      BY DEF Elements
    <3>2. \A x \in Elements(all) : \E e \in new : e.name = x
      <4> SUFFICES ASSUME NEW x \in Elements(all) PROVE \E e \in new : e.name = x
        OBVIOUS
      <4>1. PICK k \in DOMAIN all : x = all[k]
        BY DEF Elements
      <4>2. [name |-> all[k], at |-> <<i, k>>, st |-> i] \in new
        OBVIOUS
      <4> QED
        BY <4>1, <4>2
    <3>3. table_names' = table_names \cup new
      BY <1>4, <2>1
    <3>4. TableTo(s, n, table_names)
      BY <1>6, <2>1
    <3> HIDE DEF new, all
    <3>5. /\ \A e \in new : e.name \in Unread(s, n) /\ e.st = n + 1 /\ e.name \notin Unfit
          /\ \A x \in Unread(s, n) : \E e \in new : e.name = x
          /\ \A e \in new : \A f \in table_names : f.name # e.name
      BY <2>2, <3>1, <3>2
    <3>6. TableTo(s, n + 1, table_names \cup new)
      BY <1>2, <2>2, <3>4, <3>5, TableGrows
    <3> QED
      BY <3>3, <3>6
  <2>6. /\ DOMAIN label' = DOMAIN label \cup {i}
        /\ label'[i] = [id |-> uniqid, bc |-> i, anims |-> {}, jumps |-> {}]
        /\ \A st \in DOMAIN label : st # i => label'[st] = label[st]
    BY <1>4, <2>1 DEF Put
  <2>7. i \notin DOMAIN label
    <3>1. DOMAIN label \subseteq OpTo(s, n)
      BY <2>3 DEF GraphTo, LabelsTo
    <3> QED
      BY <1>2, <2>2, <3>1, OneInstr
  <2>8. GraphTo(s, n + 1, table_headers, instr', label', table_names', Waiting')
    <3>1. CurrentIs(s, n, current_instr)
      BY <1>6, <2>1
    <3>2. ReadsInstr(s, n + 1, instr, instr', current_instr, IF n + 1 \in Heads(s) THEN n + 1 ELSE NULL)
      BY <2>2, <2>4
    <3>3. DOMAIN label' = DOMAIN label \cup ({n + 1} \cap Heads(s))
      BY <2>2, <2>6
    <3>4. \A st \in DOMAIN label : label'[st] = label[st]
      BY <2>6, <2>7
    <3>5. label'[n + 1] = [id |-> label'[n + 1].id, bc |-> n + 1, anims |-> {}, jumps |-> {}]
      BY <2>6
    <3> QED
      BY <1>2, <2>2, <2>3, <2>4, <2>5, <3>1, <3>2, <3>3, <3>4, <3>5, InstrAdds
  <2>9. SymTblIs(table_symtbl', uniqid', label')
    <3>1. PICK l : l = [id |-> uniqid, bc |-> i, anims |-> {}, jumps |-> {}]
      OBVIOUS
    <3>2. l.id = uniqid
      BY <3>1
    <3>3. SymTblIs(Put(table_symtbl, uniqid, i), uniqid + 1, Put(label, i, l))
      BY <2>3, <2>7, <3>2, SymTblGrows
    <3> QED
      BY <1>4, <2>1, <3>1, <3>3
  <2>10. GraphInv'
    BY <1>2, <1>3, <2>4, <2>8, <2>9 DEF GraphInv
  <2>11. NamesInv'
    <3>1. Pending(s, n + 1) = {}
      BY <1>2, <2>2, OneInstr
    <3>2. names' \in Seq(Elements(names')) /\ Elements(names') = {}
      BY <1>3 DEF Elements
    <3>3. Elements(names') = UNION {NamesAt(s, k) : k \in Pending(s, n + 1)}
      BY <3>1, <3>2
    <3> QED
      BY <1>2, <1>3, <3>1, <3>2, <3>3 DEF NamesInv
  <2>12. CurrentInv'
    <3>1. CurrentIs(s, n + 1, current_instr')
      BY <1>2, <2>2, <2>4, NowCurrent
    <3> QED
      BY <1>2, <1>3, <1>10, <3>1 DEF CurrentInv
  <2>13. BlocksInv'
    <3>1. InBlocks(s, n + 1)
      BY <1>2, <1>6, <2>1, BlocksAreRead, BlocksStay
    <3> QED
      BY <1>2, <1>3, <3>1 DEF BlocksInv
  <2>14. freeinstrs = {} /\ ~misread /\ bad_labels = <<>>
    BY <1>6, <2>1
  <2> QED
    BY <1>3, <2>10, <2>11, <2>12, <2>13, <2>14 DEF badness
<1>12. ParseInv'
  BY <1>3, <1>11 DEF ParseInv, Clean
<1> QED
  BY <1>3, <1>10, <1>12, WhileParsing


-----------------------------------------------------------------------------
(* Relocation *)

LEMMA TailElements ==
  ASSUME NEW q, q \in Seq(Elements(q)), q # <<>>
  PROVE  /\ Tail(q) \in Seq(Elements(Tail(q)))
         /\ Elements(q) = Elements(Tail(q)) \cup {Head(q)} /\ Head(q) \in Elements(q)
<1>1. /\ Tail(q) \in Seq(Elements(q)) /\ Len(q) \in Nat \ {0} /\ DOMAIN q = 1 .. Len(q)
      /\ Head(q) = q[1] /\ Head(q) \in Elements(q)
      /\ Len(Tail(q)) = Len(q) - 1 /\ DOMAIN Tail(q) = 1 .. Len(q) - 1
      /\ \A k \in DOMAIN Tail(q) : k + 1 \in DOMAIN q /\ Tail(q)[k] = q[k + 1]
  BY TailFacts
<1>2. \A k \in DOMAIN q : k = 1 \/ (k - 1 \in DOMAIN Tail(q) /\ Tail(q)[k - 1] = q[k])
  BY <1>1
<1>3. Elements(q) \subseteq Elements(Tail(q)) \cup {Head(q)}
  BY <1>1, <1>2 DEF Elements
<1>4. Elements(Tail(q)) \subseteq Elements(q)
  BY <1>1 DEF Elements
<1>5. PICK t : t = Tail(q)
  OBVIOUS
<1>6. t \in Seq(Elements(t))
  <2>1. t \in Seq(Elements(q))
    BY <1>1, <1>5
  <2> QED
    BY <2>1 DEF Elements
<1> QED
  BY <1>1, <1>3, <1>4, <1>5, <1>6

LEMMA EndFacts ==
  ASSUME NEW s, IsSource(s)
  PROVE  /\ OpTo(s, Len(s)) = OpLines(s) /\ BlocksTo(s, Len(s)) = Blocks(s)
         /\ Len(s) \in Nat
         /\ Pending(s, Len(s)) = {} => Settled(s, Len(s)) = Is(s, "code")
<1>1. Len(s) \in Nat /\ OpLines(s) \subseteq 1 .. Len(s) /\ Is(s, "code") \subseteq 1 .. Len(s)
  BY SourceFacts
<1>2. OpTo(s, Len(s)) = OpLines(s)
  BY <1>1 DEF OpTo
<1>3. BlocksTo(s, Len(s)) = Blocks(s)
  BY <1>1, BlocksAreRead
<1>4. Pending(s, Len(s)) = {} => Settled(s, Len(s)) = Is(s, "code")
  <2>1. \A k \in Is(s, "code") : k \in Pending(s, Len(s)) \cup Settled(s, Len(s))
    BY <1>1, PendingFacts
  <2>2. Settled(s, Len(s)) \subseteq Is(s, "code")
    BY DEF Settled
  <2> QED
    BY <2>1, <2>2
<1> QED
  BY <1>1, <1>2, <1>3, <1>4

(* The names that are defined, and what they lead to. *)
LEMMA TableIsNames ==
  ASSUME NEW s, IsSource(s), Pending(s, Len(s)) = {}, NEW table, TableTo(s, Len(s), table), NEW name
  PROVE  /\ (\E e \in table : e.name = name) <=> name \in Names(s)
         /\ \A e \in table : e.name = name => e.st = Target(s, name)
         /\ name \in Names(s) => Target(s, name) \in Heads(s)
<1>1. Settled(s, Len(s)) = Is(s, "code") /\ Len(s) \in Nat
  BY EndFacts
<1>2. (\E e \in table : e.name = name) <=> name \in Names(s)
  BY <1>1 DEF TableTo, Names
<1>3. ASSUME name \in Names(s)
      PROVE  /\ Target(s, name) \in Heads(s)
             /\ \A e \in table : e.name = name => e.st = Target(s, name)
  <2>1. \E k \in Is(s, "code") : name \in NamesAt(s, k)
    BY <1>3 DEF Names
  <2>2. PICK k \in Is(s, "code") : name \in NamesAt(s, k) /\ Target(s, name) = Marked(s, k)
    BY <2>1 DEF Target
  <2>3. Marked(s, k) \in OpTo(s, Len(s)) /\ k <= Marked(s, k)
    BY <1>1, PendingFacts
  <2>4. s[k].names # <<>>
    BY <2>2, LineFacts DEF Is
  <2>5. Marked(s, k) \in Heads(s)
    BY <2>3, <2>4 DEF Heads, Labelled, OpTo
  <2>6. PICK f \in table : f.name = name /\ f.st = Marked(s, k)
    BY <1>1, <2>2 DEF TableTo
  <2>7. \A e \in table : e.name = name => e.st = f.st
    BY <2>6 DEF TableTo
  <2> QED
    BY <2>2, <2>5, <2>6, <2>7
<1> QED
  BY <1>2, <1>3

(* A label that a use has been connected to. *)
Refers(labels, labels2, st, anims, jumps) ==
  /\ DOMAIN labels2 = DOMAIN labels
  /\ \A x \in DOMAIN labels : x # st => labels2[x] = labels[x]
  /\ labels2[st] = [id |-> labels[st].id, bc |-> st, anims |-> labels[st].anims \cup anims,
                    jumps |-> labels[st].jumps \cup jumps]

LEMMA LabelFields ==
  ASSUME NEW labels, NEW labels2, NEW st, NEW anims, NEW jumps,
         Refers(labels, labels2, st, anims, jumps), st \in DOMAIN labels, labels[st].bc = st
  PROVE  /\ labels2[st].id = labels[st].id /\ labels2[st].bc = st
         /\ labels2[st].anims = labels[st].anims \cup anims
         /\ labels2[st].jumps = labels[st].jumps \cup jumps
         /\ \A x \in DOMAIN labels : /\ x \in DOMAIN labels2 /\ labels2[x].id = labels[x].id
                                     /\ labels[x].anims \subseteq labels2[x].anims
                                     /\ labels[x].jumps \subseteq labels2[x].jumps
<1>1. PICK l : l = labels2[st]
  OBVIOUS
<1>2. l = [id |-> labels[st].id, bc |-> st, anims |-> labels[st].anims \cup anims,
           jumps |-> labels[st].jumps \cup jumps]
  BY <1>1 DEF Refers
<1>3. /\ l.id = labels[st].id /\ l.bc = st /\ l.anims = labels[st].anims \cup anims
      /\ l.jumps = labels[st].jumps \cup jumps
  BY <1>2
<1> QED
  BY <1>1, <1>3 DEF Refers

LEMMA SymTblKept ==
  ASSUME NEW symtbl, NEW next_id, NEW labels, SymTblIs(symtbl, next_id, labels),
         NEW labels2, DOMAIN labels2 = DOMAIN labels,
         \A x \in DOMAIN labels : labels2[x].id = labels[x].id
  PROVE  SymTblIs(symtbl, next_id, labels2)
BY DEF SymTblIs

LEMMA HeaderConnects ==
  ASSUME NEW s, IsSource(s), NEW n \in Nat, NULL \notin Nat,
         NEW headers, NEW heap, NEW labels, NEW table, NEW waiting,
         GraphTo(s, n, headers, heap, labels, table, waiting),
         NEW b \in BlocksTo(s, n), NEW i \in Named(s, b), NEW st, Enters(s, b, i, st),
         st \in DOMAIN labels,
         NEW waiting2, waiting2 \subseteq waiting, waiting \subseteq waiting2 \cup {HeaderUse(s, b, i)},
         NEW headers2,
         headers2 = [headers EXCEPT ![Value(s, b, Id)].st_entries[i] = st],
         NEW labels2, Refers(labels, labels2, st, {HeaderAnim(Value(s, b, Id))}, {})
  PROVE  GraphTo(s, n, headers2, heap, labels2, table, waiting2)
<1> DEFINE h == Value(s, b, Id)
<1>1. /\ HeadersTo(s, n, headers, labels, waiting) /\ CodeTo(s, n, heap, labels, waiting)
      /\ TableTo(s, n, table) /\ LabelsTo(s, n, labels, heap, headers) /\ UsesTo(s, n, waiting)
  BY DEF GraphTo
<1>2. labels[st].bc = st
  <2>1. PICK l : l = labels[st]
    OBVIOUS
  <2>2. l = [id |-> l.id, bc |-> st, anims |-> l.anims, jumps |-> l.jumps]
    BY <1>1, <2>1 DEF LabelsTo, LabelIs
  <2>3. l.bc = st
    BY <2>2
  <2> QED
    BY <2>1, <2>3
<1>3. /\ labels2[st].id = labels[st].id /\ labels2[st].bc = st
      /\ labels2[st].anims = labels[st].anims \cup {HeaderAnim(h)}
      /\ labels2[st].jumps = labels[st].jumps
      /\ \A x \in DOMAIN labels : /\ x \in DOMAIN labels2 /\ labels2[x].id = labels[x].id
                                  /\ labels[x].anims \subseteq labels2[x].anims
                                  /\ labels[x].jumps \subseteq labels2[x].jumps
  <2>1. /\ labels2[st].id = labels[st].id /\ labels2[st].bc = st
        /\ labels2[st].anims = labels[st].anims \cup {HeaderAnim(h)}
        /\ labels2[st].jumps = labels[st].jumps \cup {}
        /\ \A x \in DOMAIN labels : /\ x \in DOMAIN labels2 /\ labels2[x].id = labels[x].id
                                    /\ labels[x].anims \subseteq labels2[x].anims
                                    /\ labels[x].jumps \subseteq labels2[x].jumps
    BY <1>2, LabelFields
  <2> QED
    BY <2>1
<1>4. st # NULL
  <2>1. st \in OpLines(s)
    BY <1>1 DEF LabelsTo, OpTo
  <2> QED
    BY <2>1, SourceFacts
<1>5. /\ HeaderFits(s, b) /\ HeaderIs(s, b, headers[h], labels, waiting) /\ h \in DOMAIN headers
      /\ h # NULL
  BY <1>1 DEF HeadersTo, HeaderFits
<1>6. i \in 0 .. LastAnim(s, b) - 1
  BY DEF Named
<1>7. PICK entries : /\ headers[h] = [ptr |-> <<0, h>>, st_entries |-> entries]
                     /\ headers[h].st_entries = entries
                     /\ DOMAIN entries = 0 .. LastAnim(s, b) - 1
                     /\ \A j \in 0 .. LastAnim(s, b) - 1 : EntryIs(s, b, j, entries[j], labels, waiting)
  BY <1>5 DEF HeaderIs
<1>8. /\ DOMAIN headers2 = DOMAIN headers /\ \A g \in DOMAIN headers : g # h => headers2[g] = headers[g]
      /\ headers2[h] = [headers[h] EXCEPT !.st_entries[i] = st]
  BY <1>5
<1>9. PICK entries2 : /\ headers2[h] = [ptr |-> <<0, h>>, st_entries |-> entries2]
                      /\ headers2[h].st_entries = entries2
                      /\ entries2 = [entries EXCEPT ![i] = st]
  <2>1. PICK x : x = headers[h]
    OBVIOUS
  <2>2. x = [ptr |-> <<0, h>>, st_entries |-> entries]
    BY <1>7, <2>1
  <2>3. [x EXCEPT !.st_entries[i] = st] = [ptr |-> <<0, h>>, st_entries |-> [entries EXCEPT ![i] = st]]
    BY <2>2
  <2>4. headers2[h] = [ptr |-> <<0, h>>, st_entries |-> [entries EXCEPT ![i] = st]]
    BY <1>8, <2>1, <2>3
  <2>5. headers2[h].st_entries = [entries EXCEPT ![i] = st]
    BY <2>4
  <2> QED
    BY <2>4, <2>5
<1>10. \A c \in BlocksTo(s, n) : \A j \in 0 .. LastAnim(s, c) - 1 :
         /\ HeaderUse(s, c, j) \in waiting => (c = b /\ j = i) \/ HeaderUse(s, c, j) \in waiting2
  <2> SUFFICES ASSUME NEW c \in BlocksTo(s, n), NEW j, HeaderUse(s, c, j) = HeaderUse(s, b, i)
               PROVE  c = b /\ j = i
    OBVIOUS
  <2>1. Value(s, c, Id) = h /\ j = i
    BY DEF HeaderUse
  <2> QED
    BY <1>1, <2>1 DEF HeadersTo
<1>11. HeaderIs(s, b, headers2[h], labels2, waiting2)
  <2>1. ASSUME NEW j \in 0 .. LastAnim(s, b) - 1 PROVE EntryIs(s, b, j, entries2[j], labels2, waiting2)
    <3>1. CASE j = i
      <4>1. entries2[j] = st
        BY <1>6, <1>7, <1>9, <3>1
      <4> QED
        BY <1>3, <1>4, <3>1, <4>1 DEF EntryIs
    <3>2. CASE j # i
      <4>1. entries2[j] = entries[j] /\ EntryIs(s, b, j, entries[j], labels, waiting)
        BY <1>7, <1>9, <3>2
      <4>2. HeaderUse(s, b, j) \in waiting => HeaderUse(s, b, j) \in waiting2
        BY <1>10, <3>2
      <4> QED
        BY <1>3, <4>1, <4>2 DEF EntryIs
    <3> QED
      BY <3>1, <3>2
  <2>2. DOMAIN entries2 = 0 .. LastAnim(s, b) - 1
    BY <1>7, <1>9
  <2>3. PICK k : k = headers2[h]
    OBVIOUS
  <2>4. k = [ptr |-> <<0, h>>, st_entries |-> k.st_entries] /\ k.st_entries = entries2
    BY <1>9, <2>3
  <2> QED
    BY <2>1, <2>2, <2>3, <2>4 DEF HeaderIs
<1>12. HeadersTo(s, n, headers2, labels2, waiting2)
  <2>1. ASSUME NEW c \in BlocksTo(s, n), c # b
        PROVE  HeaderIs(s, c, headers2[Value(s, c, Id)], labels2, waiting2)
    <3>1. Value(s, c, Id) # h /\ Value(s, c, Id) \in DOMAIN headers
      BY <1>1, <2>1 DEF HeadersTo
    <3>2. headers2[Value(s, c, Id)] = headers[Value(s, c, Id)]
      BY <1>8, <3>1
    <3>3. HeaderIs(s, c, headers[Value(s, c, Id)], labels, waiting)
      BY <1>1 DEF HeadersTo
    <3>4. \A j \in 0 .. LastAnim(s, c) - 1 :
            HeaderUse(s, c, j) \in waiting => HeaderUse(s, c, j) \in waiting2
      BY <1>10, <2>1
    <3>5. \A j \in 0 .. LastAnim(s, c) - 1 : \A x :
            EntryIs(s, c, j, x, labels, waiting) => EntryIs(s, c, j, x, labels2, waiting2)
      BY <1>3, <3>4 DEF EntryIs
    <3> QED
      BY <3>2, <3>3, <3>5 DEF HeaderIs
  <2> QED
    BY <1>1, <1>8, <1>11, <2>1 DEF HeadersTo
<1>13. CodeTo(s, n, heap, labels2, waiting2)
  <2>1. \A k : JumpUse(s, k) \in waiting => JumpUse(s, k) \in waiting2
    <3>1. \A k : JumpUse(s, k).hp = NULL
      BY DEF JumpUse
    <3>2. HeaderUse(s, b, i).hp = h
      BY DEF HeaderUse
    <3> QED
      BY <1>5, <3>1, <3>2
  <2>2. \A k, x : JumpIs(s, k, x, labels, waiting) => JumpIs(s, k, x, labels2, waiting2)
    BY <1>3, <2>1 DEF JumpIs
  <2> QED
    BY <1>1, <2>2 DEF CodeTo
<1>14. \A c \in BlocksTo(s, n) : \A j \in Named(s, c) : \A x :
         Enters(s, c, j, x) /\ headers[Value(s, c, Id)].st_entries[j] = x
           => headers2[Value(s, c, Id)].st_entries[j] = x
  <2> SUFFICES ASSUME NEW c \in BlocksTo(s, n), NEW j \in Named(s, c), NEW x, Enters(s, c, j, x),
                      headers[Value(s, c, Id)].st_entries[j] = x
               PROVE  headers2[Value(s, c, Id)].st_entries[j] = x
    OBVIOUS
  <2>1. j \in 0 .. LastAnim(s, c) - 1
    BY DEF Named
  <2>2. CASE c = b /\ j = i
    <3>1. x = st
      BY <2>2 DEF Enters
    <3>2. entries2[i] = st
      BY <1>6, <1>7, <1>9
    <3> QED
      BY <1>9, <2>2, <3>1, <3>2
  <2>3. CASE c = b /\ j # i
    <3>1. entries2[j] = entries[j]
      BY <1>7, <1>9, <2>1, <2>3
    <3> QED
      BY <1>7, <1>9, <2>3, <3>1
  <2>4. CASE c # b
    <3>1. Value(s, c, Id) # h /\ Value(s, c, Id) \in DOMAIN headers
      BY <1>1, <2>4 DEF HeadersTo
    <3> QED
      BY <1>8, <3>1
  <2> QED
    BY <2>2, <2>3, <2>4
<1>15. LabelsTo(s, n, labels2, heap, headers2)
  <2>1. DOMAIN labels2 = Heads(s) \cap OpTo(s, n)
    BY <1>1 DEF LabelsTo, Refers
  <2>2. ASSUME NEW x \in DOMAIN labels PROVE LabelIs(s, n, x, labels2[x], heap, headers2)
    <3>1. LabelIs(s, n, x, labels[x], heap, headers)
      BY <1>1 DEF LabelsTo
    <3>2. LabelIs(s, n, x, labels[x], heap, headers2)
      BY <1>14, <3>1 DEF LabelIs
    <3>3. CASE x # st
      BY <3>2, <3>3 DEF Refers
    <3>4. CASE x = st
      <4>1. PICK l : l = labels2[st]
        OBVIOUS
      <4>2. l = [id |-> l.id, bc |-> st, anims |-> l.anims, jumps |-> l.jumps]
        <5>1. l = [id |-> labels[st].id, bc |-> st, anims |-> labels[st].anims \cup {HeaderAnim(h)},
                   jumps |-> labels[st].jumps \cup {}]
          BY <4>1 DEF Refers
        <5> QED
          BY <5>1
      <4>3. l.anims = labels[st].anims \cup {HeaderAnim(h)} /\ l.jumps = labels[st].jumps
        BY <1>3, <4>1
      <4>4. headers2[h].st_entries[i] = st
        BY <1>6, <1>7, <1>9
      <4>5. /\ \A an \in labels[st].anims : \E c \in BlocksTo(s, n) : \E j \in Named(s, c) :
                 /\ an = HeaderAnim(Value(s, c, Id)) /\ Enters(s, c, j, st)
                 /\ headers2[Value(s, c, Id)].st_entries[j] = st
            /\ \A k \in labels[st].jumps : k \in OpTo(s, n) /\ Targets(s, k, st) /\ heap[k].jump = st
        BY <3>2, <3>4 DEF LabelIs
      <4>6. \A an \in l.anims : \E c \in BlocksTo(s, n) : \E j \in Named(s, c) :
                 /\ an = HeaderAnim(Value(s, c, Id)) /\ Enters(s, c, j, st)
                 /\ headers2[Value(s, c, Id)].st_entries[j] = st
        BY <4>3, <4>4, <4>5
      <4> QED
        BY <3>4, <4>1, <4>2, <4>3, <4>5, <4>6 DEF LabelIs
    <3> QED
      BY <3>3, <3>4
  <2> QED
    BY <2>1, <2>2 DEF LabelsTo, Refers
<1> QED
  BY <1>1, <1>12, <1>13, <1>15 DEF GraphTo, UsesTo

LEMMA JumpConnects ==
  ASSUME NEW s, IsSource(s), NEW n \in Nat, NULL \notin Nat,
         NEW headers, NEW heap, NEW labels, NEW table, NEW waiting,
         GraphTo(s, n, headers, heap, labels, table, waiting),
         NEW i \in OpTo(s, n), NEW st, Targets(s, i, st), st \in DOMAIN labels,
         NEW waiting2, waiting2 \subseteq waiting, waiting \subseteq waiting2 \cup {JumpUse(s, i)},
         NEW heap2, heap2 = [heap EXCEPT ![i].jump = st],
         NEW labels2, Refers(labels, labels2, st, {}, {i})
  PROVE  GraphTo(s, n, headers, heap2, labels2, table, waiting2)
<1>1. /\ HeadersTo(s, n, headers, labels, waiting) /\ CodeTo(s, n, heap, labels, waiting)
      /\ TableTo(s, n, table) /\ LabelsTo(s, n, labels, heap, headers) /\ UsesTo(s, n, waiting)
  BY DEF GraphTo
<1>2. labels[st].bc = st
  <2>1. PICK l : l = labels[st]
    OBVIOUS
  <2>2. l = [id |-> l.id, bc |-> st, anims |-> l.anims, jumps |-> l.jumps]
    BY <1>1, <2>1 DEF LabelsTo, LabelIs
  <2>3. l.bc = st
    BY <2>2
  <2> QED
    BY <2>1, <2>3
<1>3. /\ labels2[st].id = labels[st].id /\ labels2[st].bc = st
      /\ labels2[st].anims = labels[st].anims
      /\ labels2[st].jumps = labels[st].jumps \cup {i}
      /\ \A x \in DOMAIN labels : /\ x \in DOMAIN labels2 /\ labels2[x].id = labels[x].id
                                  /\ labels[x].anims \subseteq labels2[x].anims
                                  /\ labels[x].jumps \subseteq labels2[x].jumps
  <2>1. /\ labels2[st].id = labels[st].id /\ labels2[st].bc = st
        /\ labels2[st].anims = labels[st].anims \cup {}
        /\ labels2[st].jumps = labels[st].jumps \cup {i}
        /\ \A x \in DOMAIN labels : /\ x \in DOMAIN labels2 /\ labels2[x].id = labels[x].id
                                    /\ labels[x].anims \subseteq labels2[x].anims
                                    /\ labels[x].jumps \subseteq labels2[x].jumps
    BY <1>2, LabelFields
  <2> QED
    BY <2>1
<1>4. st # NULL /\ i # NULL
  <2>1. st \in OpLines(s) /\ i \in OpLines(s)
    BY <1>1 DEF LabelsTo, OpTo
  <2> QED
    BY <2>1, SourceFacts
<1>5. DOMAIN heap = OpTo(s, n) /\ DOMAIN heap2 = OpTo(s, n)
  BY <1>1 DEF CodeTo
<1>6. \A k \in OpTo(s, n) :
        heap[k] = [op |-> k, next |-> heap[k].next, prev |-> heap[k].prev,
                   st_entry |-> heap[k].st_entry, jump |-> heap[k].jump]
  BY <1>1 DEF CodeTo, InstrIs
<1>7. ASSUME NEW k \in OpTo(s, n)
      PROVE  /\ heap2[k] = [op |-> k, next |-> heap[k].next, prev |-> heap[k].prev,
                            st_entry |-> heap[k].st_entry, jump |-> IF k = i THEN st ELSE heap[k].jump]
             /\ heap2[k].next = heap[k].next /\ heap2[k].prev = heap[k].prev
             /\ heap2[k].st_entry = heap[k].st_entry
             /\ heap2[k].jump = IF k = i THEN st ELSE heap[k].jump
  <2>1. PICK x : x = heap[k]
    OBVIOUS
  <2>2. x = [op |-> k, next |-> x.next, prev |-> x.prev, st_entry |-> x.st_entry, jump |-> x.jump]
    BY <1>6, <2>1
  <2>3. heap2[k] = IF k = i THEN [x EXCEPT !.jump = st] ELSE x
    BY <1>5, <2>1
  <2>4. heap2[k] = [op |-> k, next |-> x.next, prev |-> x.prev, st_entry |-> x.st_entry,
                    jump |-> IF k = i THEN st ELSE x.jump]
    BY <2>2, <2>3
  <2>5. PICK y : y = heap2[k]
    OBVIOUS
  <2>6. y = [op |-> k, next |-> x.next, prev |-> x.prev, st_entry |-> x.st_entry,
             jump |-> IF k = i THEN st ELSE x.jump]
    BY <2>4, <2>5
  <2>7. /\ y.next = x.next /\ y.prev = x.prev /\ y.st_entry = x.st_entry
        /\ y.jump = IF k = i THEN st ELSE x.jump
    BY <2>6
  <2> QED
    BY <2>1, <2>4, <2>5, <2>7
<1>8. \A k \in OpTo(s, n) : JumpUse(s, k) \in waiting => k = i \/ JumpUse(s, k) \in waiting2
  <2> SUFFICES ASSUME NEW k \in OpTo(s, n), JumpUse(s, k) = JumpUse(s, i) PROVE k = i
    OBVIOUS
  <2> QED
    BY DEF JumpUse
<1>9. HeadersTo(s, n, headers, labels2, waiting2)
  <2>1. ASSUME NEW b \in BlocksTo(s, n)
        PROVE  HeaderIs(s, b, headers[Value(s, b, Id)], labels2, waiting2)
    <3>1. HeaderIs(s, b, headers[Value(s, b, Id)], labels, waiting) /\ Value(s, b, Id) # NULL
      BY <1>1 DEF HeadersTo, HeaderFits
    <3>2. \A j : HeaderUse(s, b, j) \in waiting => HeaderUse(s, b, j) \in waiting2
      <4>1. \A j : HeaderUse(s, b, j).hp = Value(s, b, Id)
        BY DEF HeaderUse
      <4>2. JumpUse(s, i).hp = NULL
        BY DEF JumpUse
      <4> QED
        BY <3>1, <4>1, <4>2
    <3>3. \A j, x : EntryIs(s, b, j, x, labels, waiting) => EntryIs(s, b, j, x, labels2, waiting2)
      BY <1>3, <3>2 DEF EntryIs
    <3> QED
      BY <3>1, <3>3 DEF HeaderIs
  <2> QED
    BY <1>1, <2>1 DEF HeadersTo
<1>10. CodeTo(s, n, heap2, labels2, waiting2)
  <2>1. ASSUME NEW k \in OpTo(s, n)
        PROVE  /\ CodeFits(s, k) /\ InstrIs(s, k, n, heap2[k])
               /\ JumpIs(s, k, heap2[k].jump, labels2, waiting2)
               /\ heap2[k].st_entry = IF k \in Heads(s) THEN k ELSE NULL
    <3>1. /\ CodeFits(s, k) /\ InstrIs(s, k, n, heap[k])
          /\ JumpIs(s, k, heap[k].jump, labels, waiting)
          /\ heap[k].st_entry = IF k \in Heads(s) THEN k ELSE NULL
      BY <1>1 DEF CodeTo
    <3>2. InstrIs(s, k, n, heap2[k])
      <4>1. PICK y : y = heap2[k]
        OBVIOUS
      <4>2. y = [op |-> k, next |-> heap[k].next, prev |-> heap[k].prev,
                 st_entry |-> heap[k].st_entry, jump |-> IF k = i THEN st ELSE heap[k].jump]
        BY <1>7, <4>1
      <4>3. y = [op |-> k, next |-> y.next, prev |-> y.prev, st_entry |-> y.st_entry, jump |-> y.jump]
        BY <4>2
      <4>4. y.next = heap[k].next /\ y.prev = heap[k].prev
        BY <4>2
      <4> QED
        BY <3>1, <4>1, <4>3, <4>4 DEF InstrIs
    <3>3. JumpIs(s, k, heap2[k].jump, labels2, waiting2)
      <4>1. CASE k = i
        <5>1. heap2[k].jump = st
          BY <1>7, <4>1
        <5> QED
          BY <1>3, <1>4, <4>1, <5>1 DEF JumpIs
      <4>2. CASE k # i
        <5>1. heap2[k].jump = heap[k].jump
          BY <1>7, <4>2
        <5>2. JumpUse(s, k) \in waiting => JumpUse(s, k) \in waiting2
          BY <1>8, <4>2
        <5> QED
          BY <1>3, <3>1, <5>1, <5>2 DEF JumpIs
      <4> QED
        BY <4>1, <4>2
    <3> QED
      BY <1>7, <3>1, <3>2, <3>3
  <2> QED
    BY <1>1, <1>5, <2>1 DEF CodeTo
<1>11. LabelsTo(s, n, labels2, heap2, headers)
  <2>1. DOMAIN labels2 = Heads(s) \cap OpTo(s, n)
    BY <1>1 DEF LabelsTo, Refers
  <2>2. ASSUME NEW x \in DOMAIN labels PROVE LabelIs(s, n, x, labels2[x], heap2, headers)
    <3>1. LabelIs(s, n, x, labels[x], heap, headers)
      BY <1>1 DEF LabelsTo
    <3>2. \A k \in OpTo(s, n) : Targets(s, k, x) /\ heap[k].jump = x => heap2[k].jump = x
      <4>1. \A y : Targets(s, i, y) => y = st
        BY DEF Targets
      <4> QED
        BY <1>7, <4>1
    <3>3. LabelIs(s, n, x, labels[x], heap2, headers)
      BY <3>1, <3>2 DEF LabelIs
    <3>4. CASE x # st
      BY <3>3, <3>4 DEF Refers
    <3>5. CASE x = st
      <4>1. PICK l : l = labels2[st]
        OBVIOUS
      <4>2. l = [id |-> l.id, bc |-> st, anims |-> l.anims, jumps |-> l.jumps]
        <5>1. l = [id |-> labels[st].id, bc |-> st, anims |-> labels[st].anims \cup {},
                   jumps |-> labels[st].jumps \cup {i}]
          BY <4>1 DEF Refers
        <5> QED
          BY <5>1
      <4>3. l.anims = labels[st].anims /\ l.jumps = labels[st].jumps \cup {i}
        BY <1>3, <4>1
      <4>4. heap2[i].jump = st
        BY <1>7
      <4>5. /\ \A an \in labels[st].anims : \E c \in BlocksTo(s, n) : \E j \in Named(s, c) :
                 /\ an = HeaderAnim(Value(s, c, Id)) /\ Enters(s, c, j, st)
                 /\ headers[Value(s, c, Id)].st_entries[j] = st
            /\ \A k \in labels[st].jumps : k \in OpTo(s, n) /\ Targets(s, k, st) /\ heap2[k].jump = st
        BY <3>3, <3>5 DEF LabelIs
      <4>6. \A k \in l.jumps : k \in OpTo(s, n) /\ Targets(s, k, st) /\ heap2[k].jump = st
        BY <4>3, <4>4, <4>5
      <4> QED
        BY <3>5, <4>1, <4>2, <4>3, <4>5, <4>6 DEF LabelIs
    <3> QED
      BY <3>4, <3>5
  <2> QED
    BY <2>1, <2>2 DEF LabelsTo, Refers
<1> QED
  BY <1>1, <1>9, <1>10, <1>11 DEF GraphTo, UsesTo

(* A label that is looked up is not found in a wrong source only. *)
LEMMA UseIsRefused ==
  ASSUME NEW s, IsSource(s), NEW waiting, UsesTo(s, Len(s), waiting),
         NEW use \in waiting, use.name \notin Names(s)
  PROVE  ~ WellFormed(s)
<1>1. BlocksTo(s, Len(s)) = Blocks(s) /\ OpTo(s, Len(s)) = OpLines(s)
  BY EndFacts
<1>2. CASE \E b \in Blocks(s) : \E i \in Named(s, b) : use = HeaderUse(s, b, i)
  <2>1. PICK b \in Blocks(s) : \E i \in Named(s, b) : use = HeaderUse(s, b, i)
    BY <1>2
  <2>2. PICK i \in Named(s, b) : use = HeaderUse(s, b, i)
    BY <2>1
  <2>3. use.name = Value(s, b, Anim(i))
    BY <2>2 DEF HeaderUse
  <2>4. ~ HeaderIsOk(s, b)
    BY <2>3 DEF HeaderIsOk
  <2> QED
    BY <2>4 DEF WellFormed
<1>3. CASE \E k \in OpLines(s) : Jumping(s, k) /\ use = JumpUse(s, k)
  <2>1. PICK k \in OpLines(s) : Jumping(s, k) /\ use = JumpUse(s, k)
    BY <1>3
  <2>2. use.name = s[k].label
    BY <2>1 DEF JumpUse
  <2>3. ~ CodeIsOk(s, k)
    BY <2>1, <2>2 DEF CodeIsOk
  <2> QED
    BY <2>3 DEF WellFormed
<1> QED
  BY <1>1, <1>2, <1>3 DEF UsesTo

(* When the source has been read. *)
LEMMA WhenRead ==
  ASSUME CompileInv, pc \in {"relocate", "check"}
  PROVE  /\ IsSource(src) /\ lineno = Len(src) /\ Len(src) \in Nat /\ NULL \notin Nat /\ src \in Sources
         /\ error \in BOOLEAN /\ (error => ~ WellFormed(src)) /\ ~Reading /\ Building
         /\ ~error => /\ GraphTo(src, Len(src), table_headers, instr, label, table_names, Waiting)
                      /\ SymTblIs(table_symtbl, uniqid, label) /\ relocq \in Seq(Waiting)
                      /\ Pending(src, Len(src)) = {} /\ NamesInv
                      /\ CurrentInv /\ CurrentIs(src, Len(src), NULL)
                      /\ BlocksInv /\ InBlocks(src, Len(src))
                      /\ freeinstrs = {} /\ ~misread
                      /\ (pc = "relocate" => bad_labels = <<>>) /\ (pc = "check" => relocq = <<>>)
<1>1. /\ src \in Sources /\ error \in BOOLEAN /\ (error => ~ WellFormed(src))
      /\ ~Reading => lineno = Len(src)
  BY DEF CompileInv, PositionInv
<1>2. ~Reading /\ Building /\ pc # "header" /\ pc # "label"
  BY DEF Reading, Building
<1>3. IsSource(src) /\ NULL \notin Nat
  BY <1>1, CompileAssumption
<1>4. Len(src) \in Nat
  BY <1>3, SourceFacts
<1>5. ASSUME ~error
      PROVE  /\ GraphInv /\ NamesInv /\ CurrentInv /\ freeinstrs = {} /\ ~misread /\ BlocksInv
             /\ (bad_labels = <<>> \/ pc = "check") /\ (pc = "check" => relocq = <<>>)
  BY <1>2, <1>5 DEF CompileInv, ParseInv, Clean
<1>6. ASSUME ~error
      PROVE  /\ GraphTo(src, Len(src), table_headers, instr, label, table_names, Waiting)
             /\ SymTblIs(table_symtbl, uniqid, label) /\ relocq \in Seq(Waiting)
             /\ Pending(src, Len(src)) = {} /\ CurrentIs(src, Len(src), NULL)
             /\ InBlocks(src, Len(src))
  BY <1>1, <1>2, <1>5, <1>6 DEF GraphInv, NamesInv, CurrentInv, BlocksInv
<1> QED
  BY <1>1, <1>2, <1>3, <1>4, <1>5, <1>6

LEMMA LabelExcept ==
  ASSUME NEW d, NEW st, NEW an, NEW j, NEW l, l = [id |-> d, bc |-> st, anims |-> an, jumps |-> j]
  PROVE  /\ \A x : [l EXCEPT !.anims = @ \cup x] =
                   [id |-> d, bc |-> st, anims |-> an \cup x, jumps |-> j]
         /\ \A x : [l EXCEPT !.jumps = @ \cup x] =
                   [id |-> d, bc |-> st, anims |-> an, jumps |-> j \cup x]
OBVIOUS

LEMMA ConnectsLabel ==
  ASSUME NEW labels, NEW st \in DOMAIN labels,
         NEW l, l = labels[st], l = [id |-> l.id, bc |-> st, anims |-> l.anims, jumps |-> l.jumps],
         NEW use, NEW labels2, labels2 = [labels EXCEPT ![st] = Connected(@, use)]
  PROVE  /\ use.hp # NULL => Refers(labels, labels2, st, {HeaderAnim(use.hp)}, {})
         /\ use.hp = NULL => Refers(labels, labels2, st, {}, {use.jump})
<1>1. /\ DOMAIN labels2 = DOMAIN labels /\ \A x \in DOMAIN labels : x # st => labels2[x] = labels[x]
      /\ labels2[st] = Connected(l, use)
  OBVIOUS
<1>2. PICK d, an, j : d = l.id /\ an = l.anims /\ j = l.jumps
  OBVIOUS
<1>3. l = [id |-> d, bc |-> st, anims |-> an, jumps |-> j]
  BY <1>2
<1>4. /\ \A x : [l EXCEPT !.anims = @ \cup x] =
                 [id |-> d, bc |-> st, anims |-> an \cup x, jumps |-> j]
      /\ \A x : [l EXCEPT !.jumps = @ \cup x] =
                 [id |-> d, bc |-> st, anims |-> an, jumps |-> j \cup x]
  BY <1>3, LabelExcept
<1>5. an \cup {} = an /\ j \cup {} = j
  OBVIOUS
<1>6. ASSUME use.hp # NULL PROVE Refers(labels, labels2, st, {HeaderAnim(use.hp)}, {})
  <2>1. Connected(l, use) = [l EXCEPT !.anims = @ \cup {HeaderAnim(use.hp)}]
    BY <1>6 DEF Connected
  <2>2. PICK x : x = {HeaderAnim(use.hp)}
    OBVIOUS
  <2>3. Connected(l, use) = [id |-> d, bc |-> st, anims |-> an \cup x, jumps |-> j]
    BY <1>4, <2>1, <2>2
  <2> QED
    BY <1>1, <1>2, <1>5, <2>2, <2>3 DEF Refers
<1>7. ASSUME use.hp = NULL PROVE Refers(labels, labels2, st, {}, {use.jump})
  <2>1. Connected(l, use) = [l EXCEPT !.jumps = @ \cup {use.jump}]
    BY <1>7 DEF Connected
  <2>2. PICK x : x = {use.jump}
    OBVIOUS
  <2>3. Connected(l, use) = [id |-> d, bc |-> st, anims |-> an, jumps |-> j \cup x]
    BY <1>4, <2>1, <2>2
  <2> QED
    BY <1>1, <1>2, <1>5, <2>2, <2>3 DEF Refers
<1> QED
  BY <1>6, <1>7

(* The use that is connected next, when the label it names is defined.     *)
LEMMA RelocatesUse ==
  ASSUME CompileInv, pc = "relocate", ~error, relocq # <<>>, relocq' = Tail(relocq),
         NEW use, use = Head(relocq), NEW st, Defined(use.name), st = Lookup(use.name),
         label' = [label EXCEPT ![st] = Connected(@, use)],
         IF use.hp # NULL
         THEN /\ table_headers' = [table_headers EXCEPT ![use.hp].st_entries[use.animno] = st]
              /\ instr' = instr
         ELSE instr' = [instr EXCEPT ![use.jump].jump = st] /\ table_headers' = table_headers
  PROVE  /\ GraphTo(src, Len(src), table_headers', instr', label', table_names, Waiting')
         /\ SymTblIs(table_symtbl, uniqid, label') /\ relocq' \in Seq(Waiting')
<1> DEFINE s == src
           n == Len(src)
<1>1. /\ IsSource(s) /\ n \in Nat /\ NULL \notin Nat
      /\ GraphTo(s, n, table_headers, instr, label, table_names, Waiting)
      /\ SymTblIs(table_symtbl, uniqid, label) /\ relocq \in Seq(Waiting) /\ Pending(s, n) = {}
  BY WhenRead
<1>2. /\ relocq' \in Seq(Waiting') /\ use \in Waiting
      /\ Waiting' \subseteq Waiting /\ Waiting \subseteq Waiting' \cup {use}
  <2>1. Waiting = Elements(relocq) /\ Waiting' = Elements(Tail(relocq))
    BY DEF Waiting
  <2>2. /\ Tail(relocq) \in Seq(Elements(Tail(relocq)))
        /\ Elements(relocq) = Elements(Tail(relocq)) \cup {Head(relocq)}
        /\ Head(relocq) \in Elements(relocq)
    BY <1>1, <2>1, TailElements
  <2> QED
    BY <2>1, <2>2
<1>3. /\ TableTo(s, n, table_names) /\ LabelsTo(s, n, label, instr, table_headers)
      /\ HeadersTo(s, n, table_headers, label, Waiting) /\ CodeTo(s, n, instr, label, Waiting)
      /\ UsesTo(s, n, Waiting)
  BY <1>1 DEF GraphTo
<1>4. use.name \in Names(s) /\ st = Target(s, use.name) /\ st \in DOMAIN label
  <2>1. \E e \in table_names : e.name = use.name
    BY DEF Defined
  <2>2. PICK e \in table_names : e.name = use.name /\ e.st = st
    BY <2>1 DEF Lookup
  <2>3. use.name \in Names(s) /\ st = Target(s, use.name) /\ st \in Heads(s)
    <3>1. PICK name : name = use.name
      OBVIOUS
    <3>2. /\ (\E f \in table_names : f.name = name) <=> name \in Names(s)
          /\ \A f \in table_names : f.name = name => f.st = Target(s, name)
          /\ name \in Names(s) => Target(s, name) \in Heads(s)
      BY <1>1, <1>3, TableIsNames
    <3> QED
      BY <2>2, <3>1, <3>2
  <2>4. DOMAIN label = Heads(s) \cap OpLines(s)
    BY <1>1, <1>3, EndFacts DEF LabelsTo
  <2> QED
    BY <2>3, <2>4 DEF Heads
<1>5. PICK l : l = label[st] /\ l = [id |-> l.id, bc |-> st, anims |-> l.anims, jumps |-> l.jumps]
  BY <1>3, <1>4 DEF LabelsTo, LabelIs
<1>6. /\ DOMAIN label' = DOMAIN label /\ \A x \in DOMAIN label : x # st => label'[x] = label[x]
      /\ label'[st] = Connected(l, use)
  BY <1>4, <1>5
<1>7. CASE \E b \in BlocksTo(s, n) : \E i \in Named(s, b) : use = HeaderUse(s, b, i)
  <2>1. PICK b \in BlocksTo(s, n) : \E i \in Named(s, b) : use = HeaderUse(s, b, i)
    BY <1>7
  <2>2. PICK i \in Named(s, b) : use = HeaderUse(s, b, i)
    BY <2>1
  <2>3. /\ use.hp = Value(s, b, Id) /\ use.animno = i /\ use.name = Value(s, b, Anim(i))
        /\ use.hp # NULL
    BY <1>3, <2>2 DEF HeaderUse, HeadersTo, HeaderFits
  <2>4. Enters(s, b, i, st)
    BY <1>4, <2>3 DEF Enters
  <2>5. Refers(label, label', st, {HeaderAnim(Value(s, b, Id))}, {})
    <3>1. Refers(label, label', st, {HeaderAnim(use.hp)}, {})
      BY <1>4, <1>5, <2>3, ConnectsLabel
    <3> QED
      BY <2>3, <3>1
  <2>6. table_headers' = [table_headers EXCEPT ![Value(s, b, Id)].st_entries[i] = st] /\ instr' = instr
    BY <2>3
  <2>7. Waiting \subseteq Waiting' \cup {HeaderUse(s, b, i)}
    BY <1>2, <2>2
  <2>8. GraphTo(s, n, table_headers', instr, label', table_names, Waiting')
    BY <1>1, <1>2, <1>4, <2>4, <2>5, <2>6, <2>7, HeaderConnects
  <2>9. SymTblIs(table_symtbl, uniqid, label')
    <3>1. label[st].bc = st
      BY <1>5
    <3>2. \A x \in DOMAIN label : label'[x].id = label[x].id
      BY <1>4, <2>5, <3>1, LabelFields, SMTT(30)
    <3> QED
      BY <1>1, <1>6, <3>2, SymTblKept
  <2> QED
    BY <1>2, <2>6, <2>8, <2>9
<1>8. CASE \E k \in OpTo(s, n) : Jumping(s, k) /\ use = JumpUse(s, k)
  <2>1. PICK k \in OpTo(s, n) : Jumping(s, k) /\ use = JumpUse(s, k)
    BY <1>8
  <2>2. use.hp = NULL /\ use.jump = k /\ use.name = s[k].label
    BY <2>1 DEF JumpUse
  <2>3. Targets(s, k, st)
    BY <1>4, <2>1, <2>2 DEF Targets
  <2>4. Refers(label, label', st, {}, {k})
    <3>1. Refers(label, label', st, {}, {use.jump})
      BY <1>4, <1>5, <2>2, ConnectsLabel
    <3> QED
      BY <2>2, <3>1
  <2>5. instr' = [instr EXCEPT ![k].jump = st] /\ table_headers' = table_headers
    BY <2>2
  <2>6. Waiting \subseteq Waiting' \cup {JumpUse(s, k)}
    BY <1>2, <2>1
  <2>7. GraphTo(s, n, table_headers, instr', label', table_names, Waiting')
    BY <1>1, <1>2, <1>4, <2>3, <2>4, <2>5, <2>6, JumpConnects
  <2>8. SymTblIs(table_symtbl, uniqid, label')
    <3>1. label[st].bc = st
      BY <1>5
    <3>2. \A x \in DOMAIN label : label'[x].id = label[x].id
      BY <1>4, <2>4, <3>1, LabelFields
    <3> QED
      BY <1>1, <1>6, <3>2, SymTblKept
  <2> QED
    BY <1>2, <2>5, <2>7, <2>8
<1> QED
  BY <1>2, <1>3, <1>7, <1>8 DEF UsesTo

LEMMA RelocateStep ==
  ASSUME CompileInv, Relocate
  PROVE  CompileInv'
<1>1. /\ pc = "relocate" /\ pc' = pc /\ relocq # <<>> /\ relocq' = Tail(relocq)
      /\ UNCHANGED <<src, lineno, parsing, table_symtbl, uniqid, table_names, badness>>
  BY DEF Relocate
<1>2. /\ IsSource(src) /\ lineno = Len(src) /\ Len(src) \in Nat /\ NULL \notin Nat /\ src \in Sources
      /\ error \in BOOLEAN /\ (error => ~ WellFormed(src)) /\ ~Reading /\ Building
      /\ ~error => /\ GraphTo(src, Len(src), table_headers, instr, label, table_names, Waiting)
                   /\ SymTblIs(table_symtbl, uniqid, label) /\ relocq \in Seq(Waiting)
                   /\ Pending(src, Len(src)) = {} /\ NamesInv
                   /\ CurrentInv /\ CurrentIs(src, Len(src), NULL)
                   /\ BlocksInv /\ InBlocks(src, Len(src))
                   /\ freeinstrs = {} /\ ~misread
                   /\ (pc = "relocate" => bad_labels = <<>>)
  BY <1>1, WhenRead
<1>3. PICK use, st : use = Head(relocq) /\ st = Lookup(use.name)
  OBVIOUS
<1>4. \/ ~Defined(use.name) /\ error' = TRUE
      \/ /\ Defined(use.name) /\ error' = error
         /\ label' = [label EXCEPT ![st] = Connected(@, use)]
         /\ IF use.hp # NULL
            THEN /\ table_headers' = [table_headers EXCEPT ![use.hp].st_entries[use.animno] = st]
                 /\ instr' = instr
            ELSE instr' = [instr EXCEPT ![use.jump].jump = st] /\ table_headers' = table_headers
  BY <1>3 DEF Relocate
<1>5. ASSUME ~error, ~Defined(use.name) PROVE ~ WellFormed(src)
  <2>1. use \in Waiting
    <3>1. Waiting = Elements(relocq) /\ Head(relocq) \in Elements(relocq)
      BY <1>1, <1>2, <1>5, TailElements DEF Waiting
    <3> QED
      BY <1>3, <3>1
  <2>2. use.name \notin Names(src)
    <3>1. TableTo(src, Len(src), table_names)
      BY <1>2, <1>5 DEF GraphTo
    <3> QED
      BY <1>2, <1>5, <3>1, TableIsNames DEF Defined
  <2>3. UsesTo(src, Len(src), Waiting)
    BY <1>2, <1>5 DEF GraphTo
  <2> QED
    BY <1>2, <2>1, <2>2, <2>3, UseIsRefused
<1>6. error' \in BOOLEAN /\ (error' => error \/ ~ WellFormed(src))
  <2>1. CASE ~Defined(use.name) /\ error' = TRUE
    BY <1>2, <1>5, <2>1
  <2>2. CASE error' = error
    BY <1>2, <2>2
  <2> QED
    BY <1>4, <2>1, <2>2
<1>7. PositionInv' /\ ~Reading'
  BY <1>1, <1>2, <1>6 DEF PositionInv, Reading
<1>8. ASSUME ~error'
      PROVE  /\ BlocksInv' /\ GraphInv' /\ NamesInv' /\ CurrentInv' /\ freeinstrs' = {} /\ ~misread'
             /\ bad_labels' = <<>>
  <2>1. /\ ~error /\ Defined(use.name)
        /\ label' = [label EXCEPT ![st] = Connected(@, use)]
        /\ IF use.hp # NULL
           THEN /\ table_headers' = [table_headers EXCEPT ![use.hp].st_entries[use.animno] = st]
                /\ instr' = instr
           ELSE instr' = [instr EXCEPT ![use.jump].jump = st] /\ table_headers' = table_headers
    BY <1>4, <1>8
  <2>2. /\ GraphTo(src, Len(src), table_headers', instr', label', table_names, Waiting')
        /\ SymTblIs(table_symtbl, uniqid, label') /\ relocq' \in Seq(Waiting')
    BY <1>1, <1>3, <2>1, RelocatesUse
  <2>3. GraphInv'
    BY <1>1, <1>2, <2>2 DEF GraphInv
  <2>4. NamesInv'
    BY <1>1, <1>2, <2>1 DEF NamesInv, parsing
  <2>5. CurrentInv'
    BY <1>1, <1>2, <1>7, <2>1 DEF CurrentInv
  <2>6. BlocksInv'
    BY <1>1, <1>2, <2>1 DEF BlocksInv
  <2> QED
    BY <1>1, <1>2, <2>1, <2>3, <2>4, <2>5, <2>6 DEF badness
<1>9. ParseInv'
  BY <1>1, <1>8 DEF ParseInv, Clean
<1> QED
  BY <1>1, <1>7, <1>9, WhileParsing

(* Everything has been read and connected without an error. *)
Complete(s, headers, heap, labels, table) ==
  /\ InBlocks(s, Len(s)) /\ Pending(s, Len(s)) = {} /\ CurrentIs(s, Len(s), NULL)
  /\ GraphTo(s, Len(s), headers, heap, labels, table, {})

LEMMA CompleteParts ==
  ASSUME NEW s, IsSource(s), NULL \notin Nat,
         NEW headers, NEW heap, NEW labels, NEW table, Complete(s, headers, heap, labels, table)
  PROVE  /\ DOMAIN headers = {Value(s, b, Id) : b \in Blocks(s)}
         /\ \A b, c \in Blocks(s) : Value(s, b, Id) = Value(s, c, Id) => b = c
         /\ \A b \in Blocks(s) :
              /\ HeaderFits(s, b) /\ headers[Value(s, b, Id)].ptr = <<0, Value(s, b, Id)>>
              /\ DOMAIN headers[Value(s, b, Id)].st_entries = 0 .. LastAnim(s, b) - 1
              /\ \A i \in 0 .. LastAnim(s, b) - 1 :
                   EntryIs(s, b, i, headers[Value(s, b, Id)].st_entries[i], labels, {})
         /\ DOMAIN heap = OpLines(s) /\ DOMAIN labels = Heads(s)
         /\ \A k \in OpLines(s) :
              /\ CodeFits(s, k) /\ InstrIs(s, k, Len(s), heap[k]) /\ JumpIs(s, k, heap[k].jump, labels, {})
              /\ heap[k].st_entry = IF k \in Heads(s) THEN k ELSE NULL
         /\ \A st \in Heads(s) : LabelIs(s, Len(s), st, labels[st], heap, headers)
         /\ TableTo(s, Len(s), table) /\ Settled(s, Len(s)) = Is(s, "code")
<1>1. /\ HeadersTo(s, Len(s), headers, labels, {}) /\ CodeTo(s, Len(s), heap, labels, {})
      /\ TableTo(s, Len(s), table) /\ LabelsTo(s, Len(s), labels, heap, headers)
      /\ Pending(s, Len(s)) = {}
  BY DEF Complete, GraphTo
<1>2. /\ BlocksTo(s, Len(s)) = Blocks(s) /\ OpTo(s, Len(s)) = OpLines(s)
      /\ Settled(s, Len(s)) = Is(s, "code")
  BY <1>1, EndFacts
<1>3. ASSUME NEW b \in Blocks(s)
      PROVE  /\ HeaderFits(s, b) /\ headers[Value(s, b, Id)].ptr = <<0, Value(s, b, Id)>>
             /\ DOMAIN headers[Value(s, b, Id)].st_entries = 0 .. LastAnim(s, b) - 1
             /\ \A i \in 0 .. LastAnim(s, b) - 1 :
                  EntryIs(s, b, i, headers[Value(s, b, Id)].st_entries[i], labels, {})
  <2>1. PICK header : header = headers[Value(s, b, Id)]
    OBVIOUS
  <2>2. HeaderFits(s, b) /\ HeaderIs(s, b, header, labels, {})
    BY <1>1, <1>2, <2>1 DEF HeadersTo
  <2>3. header = [ptr |-> <<0, Value(s, b, Id)>>, st_entries |-> header.st_entries]
    BY <2>2 DEF HeaderIs
  <2>4. header.ptr = <<0, Value(s, b, Id)>>
    BY <2>3
  <2> QED
    BY <2>1, <2>2, <2>4 DEF HeaderIs
<1>4. DOMAIN labels = Heads(s)
  BY <1>1, <1>2 DEF LabelsTo, Heads
<1> QED
  BY <1>1, <1>2, <1>3, <1>4 DEF HeadersTo, CodeTo, LabelsTo

LEMMA CompleteIsRight ==
  ASSUME NEW s, IsSource(s), NULL \notin Nat,
         NEW headers, NEW heap, NEW labels, NEW table, Complete(s, headers, heap, labels, table)
  PROVE  WellFormed(s)
<1>1. ASSUME NEW k \in Is(s, "start") \cup Is(s, "end") \cup Is(s, "var")
      PROVE  \E b \in Blocks(s) : k \in b[1] .. b[2]
  <2>1. k \in 1 .. Len(s) /\ s[k].is # "code"
    BY SourceFacts DEF Is
  <2>2. BlocksTo(s, Len(s)) = Blocks(s)
    BY EndFacts
  <2> QED
    BY <2>1, <2>2 DEF Complete, InBlocks
<1>2. ASSUME NEW b \in Blocks(s) PROVE HeaderIsOk(s, b)
  <2>1. HeaderFits(s, b)
    BY CompleteParts
  <2>2. ASSUME NEW i \in Named(s, b) PROVE Value(s, b, Anim(i)) \in Names(s)
    <3>1. i \in 0 .. LastAnim(s, b) - 1
      BY DEF Named
    <3>2. EntryIs(s, b, i, headers[Value(s, b, Id)].st_entries[i], labels, {})
      BY <3>1, CompleteParts
    <3> QED
      BY <3>2 DEF EntryIs, Enters
  <2> QED
    BY <2>1, <2>2 DEF HeaderFits, HeaderIsOk
<1>3. \A b, c \in Blocks(s) : Value(s, b, Id) = Value(s, c, Id) => b = c
  BY CompleteParts
<1>4. ASSUME NEW k \in Is(s, "code") \ OpLines(s) PROVE k + 1 \in Is(s, "code")
  <2>1. k \in 1 .. Len(s) /\ OpLines(s) \subseteq 1 .. Len(s) /\ Len(s) \in Nat
    BY SourceFacts
  <2>2. k # Len(s)
    <3>1. SUFFICES ASSUME k = Len(s) PROVE k \in Pending(s, Len(s))
      BY DEF Complete
    <3> QED
      BY <2>1, <3>1 DEF Pending
  <2>3. CodeTo(s, Len(s), heap, labels, {})
    BY DEF Complete, GraphTo
  <2> QED
    BY <2>1, <2>2, <2>3 DEF CodeTo
<1>5. ASSUME NEW k \in OpLines(s) PROVE CodeIsOk(s, k)
  <2>1. CodeFits(s, k) /\ JumpIs(s, k, heap[k].jump, labels, {})
    BY CompleteParts
  <2>2. Jumping(s, k) => s[k].label \in Names(s)
    BY <2>1 DEF JumpIs, Targets
  <2> QED
    BY <2>1, <2>2 DEF CodeFits, CodeIsOk
<1>6. \A k \in Before(s, Len(s) + 1) : Ends(s, k)
  BY DEF Complete, CurrentIs
<1>7. Names(s) \cap ({NoLabel} \cup Illegal) = {}
  <2> SUFFICES ASSUME NEW x \in Names(s) PROVE x \notin Unfit
    BY DEF Unfit
  <2>1. TableTo(s, Len(s), table) /\ Pending(s, Len(s)) = {}
    BY CompleteParts DEF Complete
  <2>2. PICK e \in table : e.name = x
    BY <2>1, TableIsNames
  <2> QED
    BY <2>1, <2>2 DEF TableTo
<1>8. ASSUME NEW j \in Is(s, "code"), NEW k \in Is(s, "code"), NamesAt(s, j) \cap NamesAt(s, k) # {}
      PROVE  Marked(s, j) = Marked(s, k)
  <2>1. PICK x \in NamesAt(s, j) : x \in NamesAt(s, k)
    BY <1>8
  <2>2. TableTo(s, Len(s), table) /\ j \in Settled(s, Len(s)) /\ k \in Settled(s, Len(s))
    BY CompleteParts
  <2>3. PICK e \in table : e.name = x /\ e.st = Marked(s, j)
    BY <2>1, <2>2 DEF TableTo
  <2>4. PICK f \in table : f.name = x /\ f.st = Marked(s, k)
    BY <2>1, <2>2 DEF TableTo
  <2> QED
    BY <2>2, <2>3, <2>4 DEF TableTo
<1> QED
  BY <1>1, <1>2, <1>3, <1>4, <1>5, <1>6, <1>7, <1>8 DEF WellFormed

LEMMA CompleteGraph ==
  ASSUME NEW s, IsSource(s), NULL \notin Nat,
         NEW headers, NEW heap, NEW labels, NEW table, Complete(s, headers, heap, labels, table)
  PROVE  GraphIs(s, heap, labels) /\ HeadersAre(s, headers)
<1>1. ASSUME NEW b \in Blocks(s), NEW i \in 0 .. LastAnim(s, b) - 1, NEW st,
             st = headers[Value(s, b, Id)].st_entries[i]
      PROVE  /\ st = IF i \in Named(s, b) THEN Target(s, Value(s, b, Anim(i))) ELSE NULL
             /\ i \in Named(s, b) => st \in DOMAIN labels /\ HeaderAnim(Value(s, b, Id)) \in labels[st].anims
  <2>1. EntryIs(s, b, i, st, labels, {})
    BY <1>1, CompleteParts
  <2> QED
    BY <2>1 DEF EntryIs, Enters
<1>2. HeadersAre(s, headers)
  <2>1. ASSUME NEW b \in Blocks(s)
        PROVE  /\ headers[Value(s, b, Id)].ptr = <<0, Value(s, b, Id)>>
               /\ DOMAIN headers[Value(s, b, Id)].st_entries = 0 .. LastAnim(s, b) - 1
               /\ \A i \in 0 .. LastAnim(s, b) - 1 :
                    headers[Value(s, b, Id)].st_entries[i] =
                      IF i \in Named(s, b) THEN Target(s, Value(s, b, Anim(i))) ELSE NULL
    <3>1. \A i \in 0 .. LastAnim(s, b) - 1 :
            headers[Value(s, b, Id)].st_entries[i] =
              IF i \in Named(s, b) THEN Target(s, Value(s, b, Anim(i))) ELSE NULL
      BY <1>1
    <3> QED
      BY <3>1, CompleteParts
  <2>2. DOMAIN headers = {Value(s, b, Id) : b \in Blocks(s)}
    BY CompleteParts
  <2> QED
    BY <2>1, <2>2 DEF HeadersAre
<1>3. ASSUME NEW k \in OpLines(s)
      PROVE  /\ InstrIs(s, k, Len(s), heap[k])
             /\ heap[k].jump = IF Jumping(s, k) THEN Target(s, s[k].label) ELSE NULL
             /\ heap[k].st_entry = IF k \in DOMAIN labels THEN k ELSE NULL
             /\ Jumping(s, k) => k \in labels[Target(s, s[k].label)].jumps
  <2>1. /\ JumpIs(s, k, heap[k].jump, labels, {}) /\ InstrIs(s, k, Len(s), heap[k])
        /\ heap[k].st_entry = IF k \in Heads(s) THEN k ELSE NULL
        /\ DOMAIN labels = Heads(s)
    <3>1. DOMAIN labels = Heads(s)
      BY CompleteParts
    <3>2. JumpIs(s, k, heap[k].jump, labels, {}) /\ InstrIs(s, k, Len(s), heap[k])
      BY CompleteParts
    <3>3. heap[k].st_entry = IF k \in Heads(s) THEN k ELSE NULL
      <4>1. CodeTo(s, Len(s), heap, labels, {}) /\ OpTo(s, Len(s)) = OpLines(s)
        BY EndFacts DEF Complete, GraphTo
      <4> QED
        BY <4>1 DEF CodeTo
    <3> QED
      BY <3>1, <3>2, <3>3
  <2>2. Jumping(s, k) => heap[k].jump # NULL
    BY <2>1 DEF JumpIs
  <2>3. ~ Jumping(s, k) => heap[k].jump = NULL
    BY <2>1 DEF JumpIs, Targets
  <2>4. Jumping(s, k) => /\ heap[k].jump = Target(s, s[k].label)
                         /\ k \in labels[Target(s, s[k].label)].jumps
    BY <2>1, <2>2 DEF JumpIs, Targets
  <2> QED
    BY <2>1, <2>3, <2>4
<1>4. ASSUME NEW st \in DOMAIN labels
      PROVE  /\ labels[st] = [id |-> labels[st].id, bc |-> st, anims |-> labels[st].anims,
                        jumps |-> {k \in OpLines(s) : Jumping(s, k) /\ st = Target(s, s[k].label)}]
             /\ labels[st].anims = {HeaderAnim(Value(s, b, Id)) :
                  b \in {c \in Blocks(s) : \E i \in Named(s, c) : st = Target(s, Value(s, c, Anim(i)))}}
  <2> DEFINE callers == {k \in OpLines(s) : Jumping(s, k) /\ st = Target(s, s[k].label)}
             blocks == {c \in Blocks(s) : \E i \in Named(s, c) : st = Target(s, Value(s, c, Anim(i)))}
  <2>1. PICK l : l = labels[st]
    OBVIOUS
  <2>2. LabelIs(s, Len(s), st, l, heap, headers)
    BY <2>1, CompleteParts, ZenonT(60)
  <2>3. OpTo(s, Len(s)) = OpLines(s) /\ BlocksTo(s, Len(s)) = Blocks(s)
    BY EndFacts
  <2>4. l.jumps = callers
    <3>1. \A k \in l.jumps : k \in OpLines(s) /\ Targets(s, k, st)
      BY <2>2, <2>3 DEF LabelIs
    <3>2. \A k \in callers : k \in l.jumps
      BY <1>3, <2>1
    <3> QED
      BY <3>1, <3>2 DEF Targets
  <2>5. l.anims = {HeaderAnim(Value(s, b, Id)) : b \in blocks}
    <3>1. ASSUME NEW an \in l.anims PROVE \E b \in blocks : an = HeaderAnim(Value(s, b, Id))
      <4>1. PICK b \in Blocks(s) : \E i \in Named(s, b) : /\ an = HeaderAnim(Value(s, b, Id))
                                                          /\ Enters(s, b, i, st)
        BY <2>2, <2>3 DEF LabelIs
      <4>2. b \in blocks
        BY <4>1 DEF Enters
      <4> QED
        BY <4>1, <4>2
    <3>2. ASSUME NEW b \in blocks PROVE HeaderAnim(Value(s, b, Id)) \in l.anims
      <4>1. PICK i \in Named(s, b) : st = Target(s, Value(s, b, Anim(i)))
        OBVIOUS
      <4>2. i \in 0 .. LastAnim(s, b) - 1
        BY DEF Named
      <4>3. PICK x : x = headers[Value(s, b, Id)].st_entries[i]
        OBVIOUS
      <4>4. x = st
        BY <1>1, <4>1, <4>2, <4>3
      <4> QED
        BY <1>1, <2>1, <4>2, <4>3, <4>4
    <3> HIDE DEF blocks
    <3> QED
      BY <3>1, <3>2
  <2>6. l = [id |-> l.id, bc |-> st, anims |-> l.anims, jumps |-> l.jumps]
    BY <2>2 DEF LabelIs
  <2> HIDE DEF callers, blocks
  <2>7. l = [id |-> l.id, bc |-> st, anims |-> l.anims, jumps |-> callers]
    BY <2>4, <2>6
  <2> QED
    BY <2>1, <2>5, <2>7 DEF callers, blocks
<1>5. DOMAIN heap = OpLines(s) /\ DOMAIN labels = Heads(s)
  BY CompleteParts
<1> QED
  BY <1>2, <1>3, <1>4, <1>5 DEF GraphIs

-----------------------------------------------------------------------------
(* What is executed, and what the compiler finds to be.                    *)

LEMMA TargetFacts ==
  ASSUME NEW s, IsSource(s), WellFormed(s)
  PROVE  /\ \A name \in Names(s) : Target(s, name) \in Heads(s)
         /\ \A b \in Blocks(s) : \A i \in Named(s, b) : Target(s, Value(s, b, Anim(i))) \in Heads(s)
         /\ \A k \in OpLines(s) : Jumping(s, k) => Target(s, s[k].label) \in Heads(s)
         /\ \A k \in OpLines(s) : Flows(s, k) \subseteq OpLines(s)
<1>1. /\ OpLines(s) \subseteq 1 .. Len(s) /\ Is(s, "code") \subseteq 1 .. Len(s)
      /\ Len(s) \in Nat /\ DOMAIN s = 1 .. Len(s)
  BY SourceFacts
<1>2. ASSUME NEW k \in Is(s, "code") PROVE \E j \in OpLines(s) : k <= j
  <2> DEFINE T == {j \in k .. Len(s) : \A i \in k .. j : i \in Is(s, "code")}
  <2>1. k \in T
    BY <1>1
  <2>2. T \subseteq 0 .. Len(s)
    BY <1>1
  <2>3. PICK m \in T : \A y \in T : y <= m
    BY <1>1, <2>1, <2>2, GreatestNumber
  <2>4. k <= m /\ m \in Is(s, "code") /\ \A i \in k .. m : i \in Is(s, "code")
    BY <1>1, <2>3
  <2>5. m + 1 \notin T
    BY <1>1, <2>3
  <2>6. m + 1 \notin Is(s, "code")
    <3>1. \A i \in k .. m + 1 : i \in k .. m \/ i = m + 1
      BY <1>1, <2>4
    <3>2. k <= m + 1
      BY <1>1, <2>4
    <3> QED
      BY <1>1, <2>4, <2>5, <3>1, <3>2
  <2>7. m \in OpLines(s)
    BY <2>4, <2>6 DEF WellFormed
  <2> QED
    BY <2>4, <2>7
<1>3. ASSUME NEW name \in Names(s) PROVE Target(s, name) \in Heads(s)
  <2>1. \E k \in Is(s, "code") : name \in NamesAt(s, k)
    BY DEF Names
  <2>2. PICK k \in Is(s, "code") : name \in NamesAt(s, k) /\ Target(s, name) = Marked(s, k)
    BY <2>1 DEF Target
  <2>3. PICK j \in OpLines(s) : k <= j
    BY <1>2
  <2>4. Marked(s, k) \in OpLines(s) /\ k <= Marked(s, k)
    BY <1>1, <2>3, MarkedFacts
  <2>5. s[k].names # <<>>
    BY <2>2, LineFacts DEF Is
  <2> QED
    BY <2>2, <2>4, <2>5 DEF Heads, Labelled
<1>4. ASSUME NEW b \in Blocks(s), NEW i \in Named(s, b)
      PROVE  Target(s, Value(s, b, Anim(i))) \in Heads(s)
  BY <1>3 DEF WellFormed, HeaderIsOk
<1>5. ASSUME NEW k \in OpLines(s), Jumping(s, k) PROVE Target(s, s[k].label) \in Heads(s)
  BY <1>3, <1>5 DEF WellFormed, CodeIsOk
<1>6. ASSUME NEW k \in OpLines(s) PROVE Flows(s, k) \subseteq OpLines(s)
  <2>1. After(s, k) \subseteq OpLines(s)
    BY AfterFacts
  <2>2. Heads(s) \subseteq OpLines(s)
    BY DEF Heads
  <2> QED
    BY <1>5, <2>1, <2>2 DEF Flows
<1> QED
  BY <1>3, <1>4, <1>5, <1>6

LEMMA ExecutedFacts ==
  ASSUME NEW s, IsSource(s), WellFormed(s)
  PROVE  /\ Executed(s) \subseteq OpLines(s)
         /\ \A st : Entered(s, st) <=> st \in Starts(s)
         /\ Starts(s) \subseteq Heads(s) /\ Starts(s) \subseteq Executed(s)
         /\ \A k \in Executed(s) : Flows(s, k) \subseteq Executed(s)
         /\ \A T : Starts(s) \subseteq T /\ (\A k \in T \cap OpLines(s) : Flows(s, k) \subseteq T)
                     => Executed(s) \subseteq T
<1> DEFINE D == OpLines(s)
           next == [k \in D |-> Flows(s, k)]
<1>1. IsFiniteSet(D) /\ next \in [D -> SUBSET D]
  BY SourceFacts, TargetFacts
<1>2. \A st : Entered(s, st) <=> st \in Starts(s)
  BY DEF Entered, Starts
<1>3. Starts(s) \subseteq Heads(s) /\ Heads(s) \subseteq D
  BY TargetFacts DEF Starts, Heads
<1>4. Executed(s) = Closure(Starts(s), next)
  BY DEF Executed
<1>5. DOMAIN next = D /\ \A k \in D : next[k] = Flows(s, k)
  OBVIOUS
<1> HIDE DEF next, D
<1>6. /\ Starts(s) \subseteq Closure(Starts(s), next)
      /\ Closure(Starts(s), next) \subseteq Starts(s) \cup D
      /\ Closed(Closure(Starts(s), next), next)
      /\ \A T : Starts(s) \subseteq T /\ Closed(T, next) => Closure(Starts(s), next) \subseteq T
  BY <1>1, ClosureIsLeast
<1>7. Executed(s) \subseteq D
  BY <1>3, <1>4, <1>6
<1>8. \A k \in Executed(s) : Flows(s, k) \subseteq Executed(s)
  BY <1>4, <1>5, <1>6, <1>7 DEF Closed
<1>9. ASSUME NEW T, Starts(s) \subseteq T, \A k \in T \cap D : Flows(s, k) \subseteq T
      PROVE  Executed(s) \subseteq T
  <2>1. Closed(T, next)
    BY <1>5, <1>9 DEF Closed
  <2> QED
    BY <1>4, <1>6, <1>9, <2>1
<1> QED
  BY <1>2, <1>3, <1>4, <1>6, <1>7, <1>8, <1>9 DEF D

LEMMA LabelParts ==
  ASSUME NEW s, NEW heap, NEW labels, GraphIs(s, heap, labels), NEW st \in DOMAIN labels
  PROVE  /\ labels[st].bc = st
         /\ labels[st].jumps = {k \in OpLines(s) : Jumping(s, k) /\ st = Target(s, s[k].label)}
         /\ labels[st].anims = {HeaderAnim(Value(s, b, Id)) :
              b \in {c \in Blocks(s) : \E i \in Named(s, c) : st = Target(s, Value(s, c, Anim(i)))}}
         /\ labels[st].anims # {} <=> Entered(s, st)
<1> DEFINE callers == {k \in OpLines(s) : Jumping(s, k) /\ st = Target(s, s[k].label)}
           blocks == {c \in Blocks(s) : \E i \in Named(s, c) : st = Target(s, Value(s, c, Anim(i)))}
<1>1. PICK l : l = labels[st]
  OBVIOUS
<1>2. /\ l = [id |-> l.id, bc |-> st, anims |-> l.anims, jumps |-> callers]
      /\ l.anims = {HeaderAnim(Value(s, b, Id)) : b \in blocks}
  BY <1>1 DEF GraphIs
<1>3. l.anims # {} <=> Entered(s, st)
  BY <1>2 DEF Entered
<1> HIDE DEF callers, blocks
<1>4. l.bc = st /\ l.jumps = callers
  BY <1>2
<1> QED
  BY <1>1, <1>2, <1>3, <1>4 DEF callers, blocks

(* isinstr_reached_by finds a header exactly for what is executed.         *)
LEMMA ReachedExact ==
  ASSUME NEW s, IsSource(s), WellFormed(s), NULL \notin Nat,
         NEW heap, NEW labels, GraphIs(s, heap, labels), NEW k \in OpLines(s)
  PROVE  ReachedBy(heap, labels, k) # {} <=> k \in Executed(s)
<1> DEFINE Back(x) == (({heap[x].prev} \ {NULL}) \cup
                       UNION {labels[l].jumps : l \in {heap[x].st_entry} \cap DOMAIN labels})
                      \cap DOMAIN heap
           next == [x \in DOMAIN heap |-> Back(x)]
           R == Closure({k} \ {NULL}, next)
           D == OpLines(s)
           found == {heap[x].st_entry : x \in R} \cap DOMAIN labels
           heads == {b \in UNION {labels[l].anims : l \in found} : b.type = "HEADER"}
<1>1. D \subseteq 1 .. Len(s) /\ Len(s) \in Nat /\ IsFiniteSet(D) /\ DOMAIN heap = D
      /\ DOMAIN labels \subseteq D /\ NULL \notin D /\ {k} \ {NULL} = {k}
  BY SourceFacts DEF GraphIs, Heads
<1>2. \A x \in D : /\ {heap[x].prev} \ {NULL} = {j \in Before(s, x) : ~Ends(s, j)}
                   /\ heap[x].st_entry = IF x \in DOMAIN labels THEN x ELSE NULL
  BY DEF GraphIs, InstrIs
<1>3. \A x \in D : Back(x) = {j \in Before(s, x) : ~Ends(s, j)} \cup
                             (IF x \in DOMAIN labels THEN labels[x].jumps ELSE {})
  <2> SUFFICES ASSUME NEW x \in D
               PROVE  Back(x) = {j \in Before(s, x) : ~Ends(s, j)} \cup
                                (IF x \in DOMAIN labels THEN labels[x].jumps ELSE {})
    OBVIOUS
  <2>1. {j \in Before(s, x) : ~Ends(s, j)} \subseteq D
    BY DEF Before
  <2>2. x \in DOMAIN labels => labels[x].jumps \subseteq D
    BY LabelParts
  <2>3. {heap[x].st_entry} \cap DOMAIN labels = IF x \in DOMAIN labels THEN {x} ELSE {}
    BY <1>1, <1>2
  <2>4. UNION {labels[l].jumps : l \in {heap[x].st_entry} \cap DOMAIN labels} =
          IF x \in DOMAIN labels THEN labels[x].jumps ELSE {}
    BY <2>3
  <2> QED
    BY <1>1, <1>2, <2>1, <2>2, <2>4
<1>4. next \in [D -> SUBSET D] /\ DOMAIN next = D /\ \A x \in D : next[x] = Back(x)
  BY <1>1
<1>5. ReachedBy(heap, labels, k) = {an.header[2] : an \in heads}
  BY DEF ReachedBy
<1> HIDE DEF next, Back
<1>6. /\ k \in R /\ R \subseteq D /\ \A x \in R : Back(x) \subseteq R
      /\ \A T : k \in T /\ (\A x \in T \cap D : Back(x) \subseteq T) => R \subseteq T
  <2>1. /\ {k} \subseteq R /\ R \subseteq {k} \cup D /\ Closed(R, next)
        /\ \A T : {k} \subseteq T /\ Closed(T, next) => R \subseteq T
    BY <1>1, <1>4, ClosureIsLeast, ZenonT(120)
  <2> HIDE DEF R
  <2> QED
    BY <1>4, <2>1 DEF Closed
<1> HIDE DEF R
<1>7. found = R \cap DOMAIN labels
  BY <1>1, <1>2, <1>6
<1>8. ReachedBy(heap, labels, k) # {} <=> \E x \in R \cap DOMAIN labels : Entered(s, x)
  <2>1. \A l \in found : \A an \in labels[l].anims : an.type = "HEADER"
    BY LabelParts DEF HeaderAnim
  <2>2. heads = UNION {labels[l].anims : l \in found}
    BY <2>1
  <2>3. \A l \in found : labels[l].anims # {} <=> Entered(s, l)
    BY LabelParts
  <2> HIDE DEF found
  <2> QED
    BY <1>5, <1>7, <2>2, <2>3
<1>9. ASSUME NEW x \in R \cap DOMAIN labels, Entered(s, x) PROVE k \in Executed(s)
  <2> DEFINE U == {y \in D : y \in Executed(s) => k \in Executed(s)}
  <2>1. k \in U
    OBVIOUS
  <2>2. ASSUME NEW y \in U, NEW w \in Back(y) PROVE w \in U
    <3>1. w \in D /\ y \in Flows(s, w)
      <4>1. CASE w \in Before(s, y) /\ ~Ends(s, w)
        <5>1. w \in D /\ y \in After(s, w)
          BY <4>1 DEF Before, After
        <5> QED
          BY <4>1, <5>1 DEF Flows
      <4>2. CASE y \in DOMAIN labels /\ w \in labels[y].jumps
        <5>1. w \in D /\ Jumping(s, w) /\ y = Target(s, s[w].label)
          BY <4>2, LabelParts
        <5> QED
          BY <5>1 DEF Flows
      <4> QED
        BY <1>3, <2>2, <4>1, <4>2
    <3>2. w \in Executed(s) => y \in Executed(s)
      BY <3>1, ExecutedFacts
    <3> QED
      BY <3>1, <3>2
  <2>3. R \subseteq U
    BY <1>6, <2>1, <2>2
  <2>4. x \in Executed(s)
    BY <1>9, ExecutedFacts
  <2> QED
    BY <2>3, <2>4
<1>10. ASSUME k \in Executed(s) PROVE \E x \in R \cap DOMAIN labels : Entered(s, x)
  <2> SUFFICES ASSUME \A x \in R \cap DOMAIN labels : ~Entered(s, x) PROVE FALSE
    OBVIOUS
  <2> DEFINE T == Executed(s) \ R
  <2>1. \A st \in Heads(s) \ DOMAIN labels : ~Entered(s, st) /\ (~JumpedTo(s, st) \/ st \notin Executed(s))
    BY DEF GraphIs, MayGo
  <2>2. Starts(s) \subseteq T
    BY <2>1, ExecutedFacts
  <2>3. ASSUME NEW y \in T \cap D, NEW z \in Flows(s, y) PROVE z \in T
    <3>1. z \in Executed(s) /\ z \in D
      BY ExecutedFacts
    <3>2. SUFFICES ASSUME z \in R PROVE y \in R
      BY <3>1
    <3>3. CASE z \in After(s, y) /\ ~Ends(s, y)
      <4>1. y \in Back(z)
        BY <1>3, <3>1, <3>3, AfterFacts
      <4> QED
        BY <1>6, <3>2, <4>1
    <3>4. CASE Jumping(s, y) /\ z = Target(s, s[y].label)
      <4>1. z \in Heads(s) /\ JumpedTo(s, z)
        BY <3>4, TargetFacts DEF JumpedTo
      <4>2. z \in DOMAIN labels
        BY <2>1, <3>1, <4>1
      <4>3. y \in labels[z].jumps
        BY <3>4, <4>2, LabelParts
      <4>4. y \in Back(z)
        BY <1>3, <3>1, <4>2, <4>3
      <4> QED
        BY <1>6, <3>2, <4>4
    <3> QED
      BY <2>3, <3>3, <3>4 DEF Flows
  <2>4. Executed(s) \subseteq T
    BY <2>2, <2>3, ExecutedFacts
  <2> QED
    BY <1>6, <1>10, <2>4
<1> QED
  BY <1>8, <1>9, <1>10

-----------------------------------------------------------------------------
(* The end of the relocation, and the labels that may go. *)

LEMMA RelocatedStep ==
  ASSUME CompileInv, Relocated
  PROVE  CompileInv'
<1>1. /\ pc = "relocate" /\ relocq = <<>> /\ todo' = table_names /\ pc' = "check"
      /\ UNCHANGED <<src, lineno, error, parsing, instr, label, tables, relocq, bad_labels,
                     freeinstrs, misread>>
  BY DEF Relocated
<1>2. /\ IsSource(src) /\ lineno = Len(src) /\ Len(src) \in Nat /\ NULL \notin Nat /\ src \in Sources
      /\ error \in BOOLEAN /\ (error => ~ WellFormed(src)) /\ ~Reading
      /\ ~error => /\ GraphTo(src, Len(src), table_headers, instr, label, table_names, Waiting)
                   /\ SymTblIs(table_symtbl, uniqid, label) /\ relocq \in Seq(Waiting)
                   /\ Pending(src, Len(src)) = {} /\ NamesInv
                   /\ CurrentInv /\ CurrentIs(src, Len(src), NULL)
                   /\ BlocksInv /\ InBlocks(src, Len(src))
                   /\ freeinstrs = {} /\ ~misread /\ bad_labels = <<>>
  BY <1>1, WhenRead
<1>3. ASSUME ~error
      PROVE  Complete(src, table_headers, instr, label, table_names)
  <2>1. Waiting = {}
    BY <1>1 DEF Waiting, Elements
  <2> QED
    BY <1>2, <1>3, <2>1 DEF Complete
<1>4. ~error => WellFormed(src)
  BY <1>2, <1>3, CompleteIsRight
<1>5. PositionInv' /\ ~Reading'
  BY <1>1, <1>2, <1>4 DEF PositionInv, Reading
<1>6. ASSUME ~error
      PROVE  GraphInv' /\ NamesInv' /\ CurrentInv' /\ BlocksInv' /\ freeinstrs' = {} /\ ~misread'
  <2>1. GraphInv' /\ CurrentInv'
    BY <1>1, <1>2, <1>5, <1>6 DEF GraphInv, CurrentInv, tables, Waiting
  <2>2. NamesInv' /\ BlocksInv'
    BY <1>1, <1>2, <1>6 DEF NamesInv, BlocksInv, parsing
  <2> QED
    BY <1>1, <1>2, <1>6, <2>1, <2>2
<1>7. ParseInv'
  BY <1>1, <1>6 DEF ParseInv, Clean
<1>8. CheckInv'
  <2> SUFFICES ASSUME ~error
               PROVE  /\ todo' \subseteq table_names' /\ bad_labels' \in Seq(Heads(src'))
                      /\ \A st \in Elements(bad_labels') : MayGo(src', st)
                      /\ \A st \in Heads(src') \ Executed(src') :
                           st \in Elements(bad_labels') \/ \E e \in todo' : e.st = st
    BY <1>1 DEF CheckInv
  <2>1. bad_labels' = <<>> /\ todo' = table_names /\ table_names' = table_names /\ src' = src
    BY <1>1, <1>2 DEF tables
  <2>2. ASSUME NEW st \in Heads(src) PROVE \E e \in table_names : e.st = st
    <3>1. TableTo(src, Len(src), table_names) /\ Settled(src, Len(src)) = Is(src, "code")
      BY <1>2, <1>3, CompleteParts
    <3>2. PICK k \in Is(src, "code") : src[k].names # <<>> /\ Marked(src, k) = st
      BY DEF Heads, Labelled
    <3>3. NamesAt(src, k) # {}
      BY <1>2, <3>2, LineFacts DEF Is
    <3> QED
      BY <3>1, <3>2, <3>3 DEF TableTo
  <2>3. Elements(<<>>) = {}
    BY DEF Elements
  <2> QED
    BY <2>1, <2>2, <2>3
<1>9. RemoveInv' /\ CompiledIsTheSource' /\ NoDeadCode' /\ CompiledAgree'
  BY <1>1 DEF RemoveInv, CompiledIsTheSource, NoDeadCode, CompiledAgree
<1> QED
  BY <1>5, <1>7, <1>8, <1>9 DEF CompileInv

(* When everything is connected: what the checks find. *)
LEMMA WhenChecking ==
  ASSUME CompileInv, pc = "check", ~error
  PROVE  /\ Complete(src, table_headers, instr, label, table_names)
         /\ WellFormed(src) /\ IsSource(src) /\ NULL \notin Nat
         /\ GraphIs(src, instr, label) /\ HeadersAre(src, table_headers) /\ DOMAIN label = Heads(src)
         /\ \A e \in table_names : e.st \in Heads(src)
<1>1. /\ IsSource(src) /\ NULL \notin Nat /\ InBlocks(src, Len(src))
      /\ Pending(src, Len(src)) = {} /\ CurrentIs(src, Len(src), NULL) /\ relocq = <<>>
      /\ GraphTo(src, Len(src), table_headers, instr, label, table_names, Waiting)
  BY WhenRead
<1>2. Waiting = {}
  BY <1>1 DEF Waiting, Elements
<1>3. Complete(src, table_headers, instr, label, table_names)
  BY <1>1, <1>2 DEF Complete
<1>4. GraphIs(src, instr, label) /\ HeadersAre(src, table_headers)
  BY <1>1, <1>3, CompleteGraph
<1>5. WellFormed(src) /\ DOMAIN label = Heads(src)
  BY <1>1, <1>3, CompleteIsRight, CompleteParts
<1>6. ASSUME NEW e \in table_names PROVE e.st \in Heads(src)
  <2>1. TableTo(src, Len(src), table_names)
    BY <1>1, <1>3, CompleteParts
  <2>2. PICK name : e.name = name
    OBVIOUS
  <2>3. e.st = Target(src, name) /\ name \in Names(src)
    BY <1>1, <2>1, <2>2, TableIsNames
  <2> QED
    BY <1>1, <1>5, <2>3, TargetFacts
<1> QED
  BY <1>1, <1>3, <1>4, <1>5, <1>6

LEMMA ElementsAdded ==
  ASSUME NEW S, NEW q, q \in Seq(S), NEW a, a \in Seq(S), NEW b, b \in Seq(S)
  PROVE  /\ q \o a \o b \in Seq(S)
         /\ Elements(q \o a \o b) = Elements(q) \cup Elements(a) \cup Elements(b)
<1>1. q \o a \in Seq(S)
  OBVIOUS
<1>2. Elements(q \o a) = Elements(q) \cup Elements(a)
  BY ConcatFacts
<1>3. PICK t \in Seq(S) : t = q \o a
  BY <1>1
<1>4. t \o b \in Seq(S)
  OBVIOUS
<1>5. Elements(t \o b) = Elements(t) \cup Elements(b)
  BY ConcatFacts
<1> QED
  BY <1>2, <1>3, <1>4, <1>5

LEMMA OneElement ==
  ASSUME NEW x, NEW S, x \in S
  PROVE  /\ <<>> \in Seq(S) /\ <<x>> \in Seq(S) /\ Elements(<<>>) = {} /\ Elements(<<x>>) = {x}
<1>1. <<>> \in Seq(S) /\ <<x>> \in Seq(S)
  OBVIOUS
<1>2. Elements(<<>>) = {}
  BY DEF Elements
<1>3. \A c : c = <<x>> => DOMAIN c = {1} /\ c[1] = x
  OBVIOUS
<1>4. Elements(<<x>>) = {x}
  BY <1>3 DEF Elements
<1> QED
  BY <1>1, <1>2, <1>4

(* The two checks find the labels that may go, and every one that leads to *)
(* code that is not executed.                                              *)
LEMMA CheckFinds ==
  ASSUME CompileInv, pc = "check", ~error, NEW st \in Heads(src)
  PROVE  /\ Unreferenced(st) \/ Unreachable(st) => MayGo(src, st)
         /\ st \notin Executed(src) => Unreachable(st)
         /\ Unreferenced(st) \in BOOLEAN /\ Unreachable(st) \in BOOLEAN
<1>1. /\ WellFormed(src) /\ IsSource(src) /\ NULL \notin Nat
      /\ GraphIs(src, instr, label) /\ st \in DOMAIN label
  BY WhenChecking
<1>2. /\ label[st].bc = st /\ (label[st].anims # {} <=> Entered(src, st))
      /\ label[st].jumps = {k \in OpLines(src) : Jumping(src, k) /\ st = Target(src, src[k].label)}
  BY <1>1, LabelParts
<1>3. label[st].jumps = {} => ~JumpedTo(src, st)
  BY <1>2 DEF JumpedTo
<1>4. ReachedBy(instr, label, st) # {} <=> st \in Executed(src)
  BY <1>1, ReachedExact DEF Heads
<1>5. st \notin Executed(src) => ~Entered(src, st)
  BY <1>1, ExecutedFacts
<1> QED
  BY <1>2, <1>3, <1>4, <1>5 DEF Unreferenced, Unreachable, MayGo

LEMMA CheckLabelStep ==
  ASSUME CompileInv, NEW e \in todo, CheckLabel(e)
  PROVE  CompileInv'
<1>1. /\ pc = "check" /\ pc' = pc /\ todo' = todo \ {e}
      /\ UNCHANGED <<src, lineno, error, parsing, instr, label, tables, relocq, freeinstrs, misread>>
      /\ bad_labels' = bad_labels \o (IF Unreferenced(e.st) THEN <<e.st>> ELSE <<>>)
                                  \o (IF Unreachable(e.st) THEN <<e.st>> ELSE <<>>)
  BY DEF CheckLabel
<1>2. PositionInv'
  BY <1>1 DEF CompileInv, PositionInv, Reading
<1>3. ASSUME ~error
      PROVE  GraphInv /\ NamesInv /\ CurrentInv /\ BlocksInv /\ freeinstrs = {} /\ ~misread /\ relocq = <<>>
  BY <1>1, <1>3 DEF CompileInv, ParseInv, Clean, Building
<1>4. ASSUME ~error
      PROVE  GraphInv' /\ NamesInv' /\ CurrentInv' /\ BlocksInv' /\ freeinstrs' = {} /\ ~misread'
             /\ relocq' = <<>>
  <2>1. GraphInv'
    BY <1>1, <1>3, <1>4 DEF GraphInv, tables, Waiting
  <2>2. NamesInv' /\ BlocksInv' /\ CurrentInv'
    BY <1>1, <1>3, <1>4 DEF NamesInv, BlocksInv, CurrentInv, parsing, Reading
  <2> QED
    BY <1>1, <1>3, <1>4, <2>1, <2>2
<1>5. ParseInv'
  BY <1>1, <1>4 DEF ParseInv, Clean
<1>6. CheckInv'
  <2> SUFFICES ASSUME ~error
               PROVE  /\ todo' \subseteq table_names /\ bad_labels' \in Seq(Heads(src))
                      /\ \A st \in Elements(bad_labels') : MayGo(src, st)
                      /\ \A st \in Heads(src) \ Executed(src) :
                           st \in Elements(bad_labels') \/ \E f \in todo' : f.st = st
    BY <1>1 DEF CheckInv, tables
  <2>1. /\ todo \subseteq table_names /\ bad_labels \in Seq(Heads(src))
        /\ \A st \in Elements(bad_labels) : MayGo(src, st)
        /\ \A st \in Heads(src) \ Executed(src) :
             st \in Elements(bad_labels) \/ \E f \in todo : f.st = st
    BY <1>1 DEF CompileInv, CheckInv
  <2>2. e.st \in Heads(src)
    BY <1>1, <2>1, WhenChecking
  <2>3. /\ Unreferenced(e.st) \/ Unreachable(e.st) => MayGo(src, e.st)
        /\ e.st \notin Executed(src) => Unreachable(e.st)
        /\ Unreferenced(e.st) \in BOOLEAN /\ Unreachable(e.st) \in BOOLEAN
    BY <1>1, <2>2, CheckFinds
  <2>4. /\ bad_labels' \in Seq(Heads(src))
        /\ Elements(bad_labels') = Elements(bad_labels) \cup
             (IF Unreferenced(e.st) \/ Unreachable(e.st) THEN {e.st} ELSE {})
    <3>1. PICK x, r, a, b : /\ x = e.st /\ r = bad_labels'
                            /\ a = (IF Unreferenced(x) THEN <<x>> ELSE <<>>)
                            /\ b = (IF Unreachable(x) THEN <<x>> ELSE <<>>)
      OBVIOUS
    <3>2. r = bad_labels \o a \o b
      BY <1>1, <3>1
    <3>3. x \in Heads(src)
      BY <2>2, <3>1
    <3>4. /\ a \in Seq(Heads(src)) /\ b \in Seq(Heads(src))
          /\ Elements(a) = (IF Unreferenced(x) THEN {x} ELSE {})
          /\ Elements(b) = (IF Unreachable(x) THEN {x} ELSE {})
      BY <3>1, <3>3, OneElement
    <3>5. /\ r \in Seq(Heads(src))
          /\ Elements(r) = Elements(bad_labels) \cup Elements(a) \cup Elements(b)
      BY <2>1, <3>2, <3>4, ElementsAdded, SMTT(30)
    <3> QED
      BY <3>1, <3>4, <3>5
  <2>5. ASSUME NEW st \in Heads(src) \ Executed(src)
        PROVE  st \in Elements(bad_labels') \/ \E f \in todo' : f.st = st
    <3>1. CASE st \in Elements(bad_labels)
      BY <2>4, <3>1
    <3>2. CASE \E f \in todo : f.st = st
      <4>1. PICK f \in todo : f.st = st
        BY <3>2
      <4>2. CASE f = e
        BY <2>3, <2>4, <4>1, <4>2
      <4>3. CASE f # e
        BY <1>1, <4>1, <4>3
      <4> QED
        BY <4>2, <4>3
    <3> QED
      BY <2>1, <3>1, <3>2
  <2> QED
    BY <1>1, <2>1, <2>3, <2>4, <2>5
<1>7. RemoveInv' /\ CompiledIsTheSource' /\ NoDeadCode' /\ CompiledAgree'
  BY <1>1 DEF RemoveInv, CompiledIsTheSource, NoDeadCode, CompiledAgree
<1> QED
  BY <1>2, <1>5, <1>6, <1>7 DEF CompileInv

LEMMA GiveUpStep ==
  ASSUME CompileInv, GiveUp
  PROVE  CompileInv'
<1>1. /\ pc = "check" /\ pc' = "error" /\ error /\ UNCHANGED <<src, lineno, error>>
  BY DEF GiveUp
<1>2. PositionInv'
  BY <1>1 DEF CompileInv, PositionInv, Reading
<1>3. ParseInv' /\ CheckInv' /\ RemoveInv' /\ CompiledIsTheSource' /\ NoDeadCode' /\ CompiledAgree'
  BY <1>1 DEF ParseInv, Clean, CheckInv, RemoveInv, CompiledIsTheSource, NoDeadCode, CompiledAgree
<1> QED
  BY <1>2, <1>3 DEF CompileInv

LEMMA CheckedStep ==
  ASSUME CompileInv, Checked
  PROVE  CompileInv'
<1>1. /\ pc = "check" /\ todo = {} /\ ~error /\ pc' = "remove"
      /\ UNCHANGED <<src, lineno, error, instr, label, table_headers, table_symtbl, uniqid,
                     bad_labels, freeinstrs, misread>>
  BY DEF Checked, tables, badness
<1>2. /\ WellFormed(src) /\ GraphIs(src, instr, label) /\ HeadersAre(src, table_headers)
      /\ DOMAIN label = Heads(src)
  BY <1>1, WhenChecking
<1>3. SymTblIs(table_symtbl, uniqid, label) /\ freeinstrs = {}
  BY <1>1, WhenRead
<1>4. PositionInv'
  BY <1>1, <1>2 DEF CompileInv, PositionInv, Reading
<1>5. RemoveInv'
  <2>1. /\ bad_labels \in Seq(Heads(src)) /\ \A st \in Elements(bad_labels) : MayGo(src, st)
        /\ \A st \in Heads(src) \ Executed(src) : st \in Elements(bad_labels)
    BY <1>1 DEF CompileInv, CheckInv
  <2> QED
    BY <1>1, <1>2, <1>3, <2>1 DEF RemoveInv
<1>6. ParseInv' /\ CheckInv' /\ CompiledIsTheSource' /\ NoDeadCode' /\ CompiledAgree'
  BY <1>1 DEF ParseInv, Clean, Building, Reading, CheckInv, CompiledIsTheSource, NoDeadCode, CompiledAgree
<1> QED
  BY <1>4, <1>5, <1>6 DEF CompileInv

-----------------------------------------------------------------------------
(* The removal of labels. *)

LEMMA NextFacts ==
  ASSUME NEW s, IsSource(s), NULL \notin Nat, NEW k \in OpLines(s), NEW i, InstrIs(s, k, Len(s), i)
  PROVE  /\ k \in Nat
         /\ i.next = NULL => Ends(s, k) \/ After(s, k) = {}
         /\ i.next # NULL => /\ i.next \in OpLines(s) /\ i.next \in Nat /\ k < i.next
                             /\ ~Ends(s, k) /\ After(s, k) = {i.next}
                             /\ \A y \in OpLines(s) : k < y => i.next <= y
         /\ {i.next} \ {NULL} = IF Ends(s, k) THEN {} ELSE After(s, k)
<1>1. OpLines(s) \subseteq 1 .. Len(s) /\ Len(s) \in Nat
  BY SourceFacts
<1>2. After(s, k) \cap 1 .. Len(s) = After(s, k) /\ After(s, k) \subseteq OpLines(s)
  BY <1>1, AfterFacts
<1>3. {i.next} \ {NULL} = IF Ends(s, k) THEN {} ELSE After(s, k)
  BY <1>2 DEF InstrIs
<1>4. i.next = NULL => Ends(s, k) \/ After(s, k) = {}
  BY <1>3
<1>5. ASSUME i.next # NULL
      PROVE  /\ i.next \in OpLines(s) /\ i.next \in Nat /\ k < i.next
             /\ ~Ends(s, k) /\ After(s, k) = {i.next}
             /\ \A y \in OpLines(s) : k < y => i.next <= y
  <2>1. ~Ends(s, k) /\ After(s, k) = {i.next}
    BY <1>3, <1>5
  <2>2. PICK n : n = i.next
    OBVIOUS
  <2>3. n \in After(s, k) /\ \A x \in After(s, k) : x = n
    BY <2>1, <2>2
  <2>4. n \in OpLines(s) /\ k < n /\ n \in Nat
    BY <1>1, <2>3, AfterFacts
  <2>5. \A y \in OpLines(s) : k < y => n <= y
    BY <2>3, AfterFacts
  <2> QED
    BY <2>1, <2>2, <2>4, <2>5
<1> QED
  BY <1>1, <1>3, <1>4, <1>5

DoomedBy(heap, labels, free, f) ==
  f = [x \in DOMAIN heap |->
         IF x \in free \/ ReachedBy(heap, labels, x) # {} THEN {}
         ELSE {x} \cup IF heap[x].next = NULL THEN {} ELSE f[heap[x].next]]

LEMMA DoomedExists ==
  ASSUME NEW s, IsSource(s), NULL \notin Nat, NEW heap, DOMAIN heap = OpLines(s),
         \A k \in OpLines(s) : InstrIs(s, k, Len(s), heap[k]), NEW labels, NEW free
  PROVE  \E f : DoomedBy(heap, labels, free, f)
<1> DEFINE D == OpLines(s)
           stop == {x \in D : x \in free \/ ReachedBy(heap, labels, x) # {}}
           run(x) == {y \in D : /\ x <= y /\ (\A z \in D : x <= z /\ z <= y => z \notin stop)
                                /\ \A z \in D : x <= z /\ z < y => ~Ends(s, z)}
           f == [x \in D |-> run(x)]
<1>1. D \subseteq Nat
  BY SourceFacts
<1>2. ASSUME NEW x \in D
      PROVE  run(x) = IF x \in stop THEN {}
                      ELSE {x} \cup IF heap[x].next = NULL THEN {} ELSE run(heap[x].next)
  <2>1. InstrIs(s, x, Len(s), heap[x])
    OBVIOUS
  <2>2. PICK n : n = heap[x].next
    OBVIOUS
  <2>3. /\ n = NULL => Ends(s, x) \/ After(s, x) = {}
        /\ n # NULL => /\ n \in D /\ x < n /\ ~Ends(s, x)
                       /\ \A y \in D : x < y => n <= y
    BY <2>1, <2>2, NextFacts
  <2> HIDE DEF stop
  <2>4. CASE x \in stop
    BY <1>1, <2>4
  <2>5. CASE x \notin stop /\ n = NULL
    <3>1. ASSUME NEW y \in run(x) PROVE y = x
      <4>1. SUFFICES ASSUME x < y PROVE FALSE
        BY <1>1
      <4>2. Ends(s, x) \/ \E i \in After(s, x) : i <= y
        BY <2>5, <4>1, AfterFacts
      <4>3. ~Ends(s, x)
        BY <1>1, <4>1
      <4> QED
        BY <2>3, <2>5, <4>2, <4>3
    <3>2. x \in run(x)
      BY <1>1, <2>5
    <3>3. run(x) = {x}
      BY <3>1, <3>2
    <3> QED
      BY <2>2, <2>5, <3>3
  <2>6. CASE x \notin stop /\ n # NULL
    <3>1. ASSUME NEW y \in run(x), y # x PROVE y \in run(n)
      <4>1. y \in D /\ x < y /\ n <= y /\ n \in D
        BY <1>1, <2>3, <2>6, <3>1
      <4>2. \A z \in D : n <= z => x <= z
        BY <1>1, <2>3, <2>6
      <4> QED
        BY <4>1, <4>2
    <3>2. ASSUME NEW y \in run(n) PROVE y \in run(x)
      <4>1. y \in D /\ n <= y /\ n \in D /\ x < n
        BY <2>3, <2>6
      <4>2. \A z \in D : x <= z => z = x \/ n <= z
        BY <1>1, <2>3, <2>6
      <4>3. x <= y
        BY <1>1, <4>1
      <4> QED
        BY <2>3, <2>6, <4>1, <4>2, <4>3
    <3>3. x \in run(x)
      BY <1>1, <2>6
    <3> HIDE DEF run
    <3>4. run(x) = {x} \cup run(n)
      BY <3>1, <3>2, <3>3
    <3> QED
      BY <2>2, <2>6, <3>4
  <2> HIDE DEF run
  <2> QED
    BY <2>4, <2>5, <2>6, <2>2
<1>3. ASSUME NEW x \in D
      PROVE  f[x] = IF x \in free \/ ReachedBy(heap, labels, x) # {} THEN {}
                    ELSE {x} \cup IF heap[x].next = NULL THEN {} ELSE f[heap[x].next]
  <2>1. heap[x].next # NULL => heap[x].next \in D
    BY NextFacts
  <2>2. x \in stop <=> x \in free \/ ReachedBy(heap, labels, x) # {}
    OBVIOUS
  <2>3. run(x) = IF x \in stop THEN {}
                 ELSE {x} \cup IF heap[x].next = NULL THEN {} ELSE run(heap[x].next)
    BY <1>2
  <2> HIDE DEF run, stop
  <2> QED
    BY <2>1, <2>2, <2>3
<1>4. DoomedBy(heap, labels, free, f)
  <2> HIDE DEF run
  <2>1. DOMAIN f = D
    OBVIOUS
  <2>2. f = [x \in D |-> f[x]]
    OBVIOUS
  <2> HIDE DEF f
  <2> QED
    BY <1>3, <2>1, <2>2 DEF DoomedBy
<1> QED
  BY <1>4

LEMMA DoomedFacts ==
  ASSUME NEW s, IsSource(s), WellFormed(s), NULL \notin Nat,
         NEW heap, NEW labels, GraphIs(s, heap, labels), NEW st \in OpLines(s)
  PROVE  /\ Doomed(heap, labels, st) \subseteq OpLines(s) \ Executed(s)
         /\ \A k \in Doomed(heap, labels, st) :
              \/ Ends(s, k)
              \/ After(s, k) \subseteq Doomed(heap, labels, st) \cup freeinstrs \cup Executed(s)
         /\ st \in Executed(s) \cup freeinstrs \cup Doomed(heap, labels, st)
<1> DEFINE D == OpLines(s)
           g == CHOOSE f : DoomedBy(heap, labels, freeinstrs, f)
           stop == freeinstrs \cup Executed(s)
<1>1. D \subseteq 1 .. Len(s) /\ Len(s) \in Nat /\ DOMAIN heap = D
      /\ \A k \in D : InstrIs(s, k, Len(s), heap[k])
  BY SourceFacts DEF GraphIs
<1>2. DoomedBy(heap, labels, freeinstrs, g)
  BY <1>1, DoomedExists
<1>3. Doomed(heap, labels, st) = g[st]
  BY DEF Doomed, DoomedBy
<1>4. ASSUME NEW x \in D
      PROVE  g[x] = IF x \in stop THEN {}
                    ELSE {x} \cup IF heap[x].next = NULL THEN {} ELSE g[heap[x].next]
  <2>1. ReachedBy(heap, labels, x) # {} <=> x \in Executed(s)
    BY ReachedExact
  <2>2. g[x] = IF x \in freeinstrs \/ ReachedBy(heap, labels, x) # {} THEN {}
               ELSE {x} \cup IF heap[x].next = NULL THEN {} ELSE g[heap[x].next]
    BY <1>1, <1>2 DEF DoomedBy
  <2> HIDE DEF g
  <2> QED
    BY <2>1, <2>2
<1> HIDE DEF g, stop
<1> DEFINE Good(x) == /\ g[x] \subseteq D \ Executed(s)
                      /\ \A k \in g[x] : Ends(s, k) \/ After(s, k) \subseteq g[x] \cup stop
                      /\ x \in stop \cup g[x]
           bad == {x \in D : ~ Good(x)}
<1>5. ASSUME NEW x \in D, heap[x].next # NULL => Good(heap[x].next) PROVE Good(x)
  <2>1. PICK n : n = heap[x].next
    OBVIOUS
  <2>2. /\ n = NULL => Ends(s, x) \/ After(s, x) = {}
        /\ n # NULL => n \in D /\ After(s, x) = {n} /\ Good(n)
    BY <1>1, <1>5, <2>1, NextFacts
  <2>3. CASE x \in stop
    <3>1. g[x] = {}
      BY <1>4, <2>3
    <3> QED
      BY <2>3, <3>1
  <2>4. CASE x \notin stop /\ n = NULL
    <3>1. g[x] = {x}
      BY <1>4, <2>1, <2>4
    <3> QED
      BY <2>2, <2>4, <3>1 DEF stop
  <2>5. CASE x \notin stop /\ n # NULL
    <3>1. g[x] = {x} \cup g[n]
      BY <1>4, <2>1, <2>5
    <3> QED
      BY <2>2, <2>5, <3>1 DEF stop
  <2> QED
    BY <2>3, <2>4, <2>5
<1>6. bad = {}
  <2> SUFFICES ASSUME bad # {} PROVE FALSE
    OBVIOUS
  <2> HIDE DEF Good
  <2>1. bad \subseteq 0 .. Len(s)
    BY <1>1
  <2>2. PICK x \in bad : \A y \in bad : y <= x
    BY <1>1, <2>1, GreatestNumber
  <2>3. heap[x].next # NULL => heap[x].next \in D /\ x < heap[x].next /\ heap[x].next \in Nat /\ x \in Nat
    BY <1>1, NextFacts
  <2>4. heap[x].next # NULL => Good(heap[x].next)
    <3>1. SUFFICES ASSUME heap[x].next # NULL, heap[x].next \in bad PROVE FALSE
      BY <2>3
    <3>2. heap[x].next <= x
      BY <2>2, <3>1
    <3> QED
      BY <2>3, <3>1, <3>2
  <2> QED
    BY <1>5, <2>4
<1>7. Good(st)
  BY <1>6
<1> QED
  BY <1>3, <1>7 DEF stop

(* A label that may go, goes. *)
LEMMA GraphLoses ==
  ASSUME NEW s, NULL \notin Nat, IsSource(s), NEW heap, NEW labels, GraphIs(s, heap, labels),
         NEW st, st \in DOMAIN labels, MayGo(s, st)
  PROVE  GraphIs(s, [heap EXCEPT ![st].st_entry = NULL], Drop(labels, {st}))
<1> DEFINE heap2 == [heap EXCEPT ![st].st_entry = NULL]
           labels2 == Drop(labels, {st})
<1>1. /\ DOMAIN heap = OpLines(s) /\ DOMAIN labels \subseteq Heads(s) /\ Heads(s) \subseteq OpLines(s)
      /\ \A x \in Heads(s) \ DOMAIN labels : MayGo(s, x)
      /\ \A k \in OpLines(s) :
           /\ InstrIs(s, k, Len(s), heap[k])
           /\ heap[k].jump = IF Jumping(s, k) THEN Target(s, s[k].label) ELSE NULL
           /\ heap[k].st_entry = IF k \in DOMAIN labels THEN k ELSE NULL
  BY DEF GraphIs, Heads
<1>2. DOMAIN labels2 = DOMAIN labels \ {st} /\ \A x \in DOMAIN labels2 : labels2[x] = labels[x]
  BY DEF Drop
<1>3. ASSUME NEW k \in OpLines(s)
      PROVE  /\ InstrIs(s, k, Len(s), heap2[k])
             /\ heap2[k].jump = IF Jumping(s, k) THEN Target(s, s[k].label) ELSE NULL
             /\ heap2[k].st_entry = IF k \in DOMAIN labels2 THEN k ELSE NULL
  <2>1. PICK x, y : x = heap[k] /\ y = heap2[k]
    OBVIOUS
  <2>2. x = [op |-> k, next |-> x.next, prev |-> x.prev, st_entry |-> x.st_entry, jump |-> x.jump]
    BY <1>1, <2>1 DEF InstrIs
  <2>3. y = IF k = st THEN [x EXCEPT !.st_entry = NULL] ELSE x
    BY <1>1, <2>1
  <2>4. y = [op |-> k, next |-> x.next, prev |-> x.prev,
             st_entry |-> IF k = st THEN NULL ELSE x.st_entry, jump |-> x.jump]
    BY <2>2, <2>3
  <2>5. /\ y.next = x.next /\ y.prev = x.prev /\ y.jump = x.jump
        /\ y.st_entry = IF k = st THEN NULL ELSE x.st_entry
    BY <2>4
  <2>6. y = [op |-> k, next |-> y.next, prev |-> y.prev, st_entry |-> y.st_entry, jump |-> y.jump]
    BY <2>4, <2>5
  <2>7. InstrIs(s, k, Len(s), y)
    <3>1. InstrIs(s, k, Len(s), x)
      BY <1>1, <2>1
    <3> QED
      BY <2>5, <2>6, <3>1 DEF InstrIs
  <2>8. x.jump = (IF Jumping(s, k) THEN Target(s, s[k].label) ELSE NULL)
        /\ x.st_entry = (IF k \in DOMAIN labels THEN k ELSE NULL)
    BY <1>1, <2>1
  <2> QED
    BY <1>2, <2>1, <2>5, <2>7, <2>8
<1>4. DOMAIN heap2 = OpLines(s)
  BY <1>1
<1>5. \A x \in Heads(s) \ DOMAIN labels2 : MayGo(s, x)
  BY <1>1, <1>2
<1>6. ASSUME NEW x \in DOMAIN labels2
      PROVE  /\ labels2[x] = [id |-> labels2[x].id, bc |-> x, anims |-> labels2[x].anims,
                        jumps |-> {k \in OpLines(s) : Jumping(s, k) /\ x = Target(s, s[k].label)}]
             /\ labels2[x].anims = {HeaderAnim(Value(s, b, Id)) :
                  b \in {c \in Blocks(s) : \E i \in Named(s, c) : x = Target(s, Value(s, c, Anim(i)))}}
  <2>1. labels2[x] = labels[x] /\ x \in DOMAIN labels
    BY <1>2
  <2> QED
    BY <2>1 DEF GraphIs
<1>7. DOMAIN labels2 \subseteq Heads(s)
  BY <1>1, <1>2
<1> QED
  BY <1>2, <1>3, <1>4, <1>5, <1>6, <1>7 DEF GraphIs

LEMMA SymTblLoses ==
  ASSUME NEW symtbl, NEW next_id, NEW labels, SymTblIs(symtbl, next_id, labels),
         NEW st \in DOMAIN labels
  PROVE  SymTblIs(Drop(symtbl, {labels[st].id}), next_id, Drop(labels, {st}))
<1> DEFINE id == labels[st].id
           symtbl2 == Drop(symtbl, {id})
           labels2 == Drop(labels, {st})
<1>1. /\ next_id \in Nat /\ DOMAIN symtbl \subseteq 0 .. next_id - 1
      /\ \A x \in DOMAIN labels : labels[x].id \in DOMAIN symtbl /\ symtbl[labels[x].id] = x
      /\ \A k \in DOMAIN symtbl : symtbl[k] \in DOMAIN labels /\ labels[symtbl[k]].id = k
  BY DEF SymTblIs
<1>2. /\ DOMAIN symtbl2 = DOMAIN symtbl \ {id} /\ \A k \in DOMAIN symtbl2 : symtbl2[k] = symtbl[k]
      /\ DOMAIN labels2 = DOMAIN labels \ {st} /\ \A x \in DOMAIN labels2 : labels2[x] = labels[x]
  BY DEF Drop
<1>3. id \in DOMAIN symtbl /\ symtbl[id] = st
  BY <1>1
<1> HIDE DEF symtbl2, labels2
<1>4. \A x \in DOMAIN labels2 : labels2[x].id \in DOMAIN symtbl2 /\ symtbl2[labels2[x].id] = x
  BY <1>1, <1>2, <1>3
<1>5. \A k \in DOMAIN symtbl2 : symtbl2[k] \in DOMAIN labels2 /\ labels2[symtbl2[k]].id = k
  BY <1>1, <1>2, <1>3
<1>6. DOMAIN symtbl2 \subseteq 0 .. next_id - 1
  BY <1>1, <1>2
<1>7. SymTblIs(symtbl2, next_id, labels2)
  BY <1>1, <1>4, <1>5, <1>6 DEF SymTblIs
<1> QED
  BY <1>7 DEF symtbl2, labels2

LEMMA WhenRemoving ==
  ASSUME CompileInv, pc = "remove"
  PROVE  /\ IsSource(src) /\ src \in Sources /\ lineno = Len(src) /\ ~error /\ WellFormed(src)
         /\ NULL \notin Nat
         /\ ~misread =>
              /\ GraphIs(src, instr, label) /\ SymTblIs(table_symtbl, uniqid, label)
              /\ HeadersAre(src, table_headers)
              /\ bad_labels \in Seq(Heads(src))
              /\ \A st \in Elements(bad_labels) : MayGo(src, st)
              /\ freeinstrs \subseteq OpLines(src) \ Executed(src)
              /\ \A k \in freeinstrs : Ends(src, k) \/ After(src, k) \subseteq freeinstrs \cup Executed(src)
              /\ \A st \in Heads(src) \ Executed(src) :
                   IF st \in DOMAIN label THEN st \in Elements(bad_labels) ELSE st \in freeinstrs
<1>1. src \in Sources /\ lineno = Len(src) /\ ~error /\ WellFormed(src)
  BY DEF CompileInv, PositionInv, Reading
<1>2. IsSource(src) /\ NULL \notin Nat
  BY <1>1, CompileAssumption
<1> QED
  BY <1>1, <1>2 DEF CompileInv, RemoveInv

LEMMA RemoveLabelStep ==
  ASSUME CompileInv, RemoveLabel
  PROVE  CompileInv'
<1> DEFINE s == src
<1>1. /\ pc = "remove" /\ pc' = pc /\ bad_labels # <<>> /\ bad_labels' = Tail(bad_labels)
      /\ UNCHANGED <<src, lineno, error, parsing, table_headers, uniqid, table_names, relocq, todo>>
  BY DEF RemoveLabel
<1>2. PICK st, id : /\ st = Head(bad_labels) /\ id \in IdRead(st) /\ ErrRemoveLabel(id)
                    /\ misread' = (misread \/ (st \notin DOMAIN label /\ id \in DOMAIN table_symtbl))
  BY DEF RemoveLabel
<1>3. /\ IsSource(s) /\ s \in Sources /\ lineno = Len(s) /\ ~error /\ WellFormed(s) /\ NULL \notin Nat
  BY <1>1, WhenRemoving
<1>4. PositionInv'
  BY <1>1 DEF CompileInv, PositionInv, Reading
<1>5. ASSUME ~misread'
      PROVE  /\ GraphIs(s, instr', label') /\ SymTblIs(table_symtbl', uniqid, label')
             /\ bad_labels' \in Seq(Heads(s))
             /\ \A x \in Elements(bad_labels') : MayGo(s, x)
             /\ freeinstrs' \subseteq OpLines(s) \ Executed(s)
             /\ \A k \in freeinstrs' : Ends(s, k) \/ After(s, k) \subseteq freeinstrs' \cup Executed(s)
             /\ \A x \in Heads(s) \ Executed(s) :
                  IF x \in DOMAIN label' THEN x \in Elements(bad_labels') ELSE x \in freeinstrs'
  <2>1. /\ GraphIs(s, instr, label) /\ SymTblIs(table_symtbl, uniqid, label)
        /\ bad_labels \in Seq(Heads(s))
        /\ \A x \in Elements(bad_labels) : MayGo(s, x)
        /\ freeinstrs \subseteq OpLines(s) \ Executed(s)
        /\ \A k \in freeinstrs : Ends(s, k) \/ After(s, k) \subseteq freeinstrs \cup Executed(s)
        /\ \A x \in Heads(s) \ Executed(s) :
             IF x \in DOMAIN label THEN x \in Elements(bad_labels) ELSE x \in freeinstrs
    BY <1>1, <1>2, <1>5, WhenRemoving
  <2>2. /\ bad_labels' \in Seq(Heads(s)) /\ Elements(bad_labels) = Elements(bad_labels') \cup {st}
        /\ st \in Heads(s) /\ MayGo(s, st)
    <3>1. PICK q : q = bad_labels
      OBVIOUS
    <3>2. /\ Tail(q) \in Seq(Heads(s)) /\ q \in Seq(Elements(q))
      BY <1>1, <2>1, <3>1 DEF Elements
    <3>3. Elements(q) = Elements(Tail(q)) \cup {Head(q)} /\ Head(q) \in Elements(q)
      BY <1>1, <3>1, <3>2, TailElements
    <3>4. MayGo(s, st)
      BY <1>2, <2>1, <3>1, <3>3
    <3> QED
      BY <1>1, <1>2, <3>1, <3>2, <3>3, <3>4 DEF MayGo
  <2>3. \A x \in Elements(bad_labels') : MayGo(s, x)
    BY <2>1, <2>2
  <2>4. CASE st \notin DOMAIN label
    <3>1. id \notin DOMAIN table_symtbl
      BY <1>2, <1>5, <2>4
    <3>2. UNCHANGED <<instr, label, table_symtbl, freeinstrs>>
      BY <1>2, <3>1 DEF ErrRemoveLabel
    <3>3. \A x \in Heads(s) \ Executed(s) :
            IF x \in DOMAIN label THEN x \in Elements(bad_labels') ELSE x \in freeinstrs
      BY <2>1, <2>2, <2>4
    <3> QED
      BY <2>1, <2>2, <2>3, <3>2, <3>3
  <2>5. CASE st \in DOMAIN label
    <3>1. id = label[st].id /\ id \in DOMAIN table_symtbl /\ table_symtbl[id] = st
      BY <1>2, <2>1, <2>5 DEF IdRead, SymTblIs
    <3>2. label[st].bc = st
      BY <2>1, <2>5, LabelParts
    <3>3. /\ table_symtbl' = Drop(table_symtbl, {id}) /\ label' = Drop(label, {st})
          /\ instr' = [instr EXCEPT ![st].st_entry = NULL]
          /\ freeinstrs' = freeinstrs \cup Doomed(instr', label', st)
      <4>1. PICK to, bc : to = table_symtbl[id] /\ bc = label[table_symtbl[id]].bc
        OBVIOUS
      <4>2. /\ table_symtbl' = Drop(table_symtbl, {id}) /\ label' = Drop(label, {to})
            /\ instr' = [instr EXCEPT ![bc].st_entry = NULL]
            /\ freeinstrs' = freeinstrs \cup Doomed([instr EXCEPT ![bc].st_entry = NULL], label', bc)
        BY <1>2, <3>1, <4>1, Zenon DEF ErrRemoveLabel
      <4>3. to = st /\ bc = st
        BY <3>1, <3>2, <4>1
      <4> QED
        BY <4>2, <4>3, Zenon
    <3>4. GraphIs(s, instr', label') /\ DOMAIN label' = DOMAIN label \ {st}
      <4>1. PICK heap, labels, heap2, labels2 :
              heap = instr /\ labels = label /\ heap2 = instr' /\ labels2 = label'
        OBVIOUS
      <4>2. heap2 = [heap EXCEPT ![st].st_entry = NULL] /\ labels2 = Drop(labels, {st})
        BY <3>3, <4>1
      <4>3. GraphIs(s, heap, labels) /\ st \in DOMAIN labels /\ MayGo(s, st)
        BY <2>1, <2>2, <2>5, <4>1
      <4>4. GraphIs(s, heap2, labels2) /\ DOMAIN labels2 = DOMAIN labels \ {st}
        <5>1. IsSource(s) /\ NULL \notin Nat
          BY <1>3
        <5>2. GraphIs(s, [heap EXCEPT ![st].st_entry = NULL], Drop(labels, {st}))
          BY <4>3, <5>1, GraphLoses
        <5>3. DOMAIN Drop(labels, {st}) = DOMAIN labels \ {st}
          BY DEF Drop
        <5> QED
          BY <4>2, <5>2, <5>3, Zenon
      <4> QED
        BY <4>1, <4>4
    <3>5. SymTblIs(table_symtbl', uniqid, label')
      BY <2>1, <2>5, <3>1, <3>3, SymTblLoses
    <3>6. PICK doomed : doomed = Doomed(instr', label', st)
      OBVIOUS
    <3>7. /\ doomed \subseteq OpLines(s) \ Executed(s)
          /\ \A k \in doomed : Ends(s, k) \/ After(s, k) \subseteq doomed \cup freeinstrs \cup Executed(s)
          /\ st \in Executed(s) \cup freeinstrs \cup doomed
      <4>1. st \in OpLines(s)
        BY <2>2 DEF Heads
      <4> QED
        BY <1>3, <3>4, <3>6, <4>1, DoomedFacts
    <3>8. freeinstrs' = freeinstrs \cup doomed
      BY <3>3, <3>6
    <3>9. \A k \in freeinstrs' : Ends(s, k) \/ After(s, k) \subseteq freeinstrs' \cup Executed(s)
      BY <2>1, <3>7, <3>8
    <3>10. \A x \in Heads(s) \ Executed(s) :
             IF x \in DOMAIN label' THEN x \in Elements(bad_labels') ELSE x \in freeinstrs'
      BY <2>1, <2>2, <3>4, <3>7, <3>8
    <3> QED
      BY <2>1, <2>2, <2>3, <3>4, <3>5, <3>7, <3>8, <3>9, <3>10
  <2> QED
    BY <2>4, <2>5
<1>6. RemoveInv'
  <2>1. ASSUME ~misread' PROVE HeadersAre(s, table_headers)
    BY <1>1, <1>2, <2>1, WhenRemoving
  <2> QED
    BY <1>1, <1>5, <2>1 DEF RemoveInv
<1>7. ParseInv' /\ CheckInv' /\ CompiledIsTheSource' /\ NoDeadCode' /\ CompiledAgree'
  BY <1>1 DEF ParseInv, Clean, Building, Reading, CheckInv, CompiledIsTheSource, NoDeadCode, CompiledAgree
<1> QED
  BY <1>4, <1>6, <1>7 DEF CompileInv

(* The heap that is left when the instructions in free have been freed.    *)
IsKept(heap, free, kept) ==
  /\ DOMAIN kept = DOMAIN heap \ free
  /\ \A k \in DOMAIN kept :
       /\ kept[k].next = IF heap[k].next \in free THEN NULL ELSE heap[k].next
       /\ kept[k].prev = IF heap[k].prev \in free THEN NULL ELSE heap[k].prev
       /\ kept[k].st_entry = heap[k].st_entry /\ kept[k].jump = heap[k].jump

(* When every label that is not executed has taken its code with it, all   *)
(* the code that is not executed has gone.                                 *)
LEMMA AllIsFreed ==
  ASSUME NEW s, IsSource(s), WellFormed(s), NEW free, free \subseteq OpLines(s) \ Executed(s),
         \A k \in free : Ends(s, k) \/ After(s, k) \subseteq free \cup Executed(s),
         \A st \in Heads(s) \ Executed(s) : st \in free
  PROVE  free = OpLines(s) \ Executed(s)
<1> DEFINE left == (OpLines(s) \ Executed(s)) \ free
<1> SUFFICES ASSUME left # {} PROVE FALSE
  OBVIOUS
<1>1. OpLines(s) \subseteq Nat
  BY SourceFacts
<1>2. PICK k \in left : \A y \in left : k <= y
  BY <1>1, LeastNumber
<1>3. k \in OpLines(s) /\ k \notin Executed(s) /\ k \notin free /\ k \in Nat
  BY <1>1, <1>2
<1>4. CASE k \in Heads(s)
  BY <1>3, <1>4
<1>5. CASE k \notin Heads(s)
  <2>1. CodeIsOk(s, k) /\ Labelled(s, k) = {}
    BY <1>3, <1>5 DEF WellFormed, Heads
  <2>2. PICK j \in Before(s, k) : ~Ends(s, j)
    BY <2>1 DEF CodeIsOk
  <2>3. j \in OpLines(s) /\ j < k /\ j \in Nat
    BY <1>1, <1>3, <2>2, BeforeFacts
  <2>4. k \in After(s, j)
    BY <1>3, <2>2, <2>3, AfterFacts
  <2>5. CASE j \in Executed(s)
    <3>1. k \in Flows(s, j)
      BY <2>2, <2>4 DEF Flows
    <3> QED
      BY <1>3, <2>5, <3>1, ExecutedFacts
  <2>6. CASE j \notin Executed(s)
    <3>1. j \in free
      <4>1. SUFFICES ASSUME j \in left PROVE FALSE
        BY <2>3, <2>6
      <4>2. k <= j
        BY <1>2, <4>1
      <4> QED
        BY <1>3, <2>3, <4>2
    <3> QED
      BY <1>3, <2>2, <2>4, <3>1
  <2> QED
    BY <2>5, <2>6
<1> QED
  BY <1>4, <1>5

(* What is left: the labels that are executed, and the code.               *)
OnlyExecuted(s, heap, labels) ==
  /\ DOMAIN heap = Executed(s)
  /\ \A k \in Executed(s) :
       /\ k \in OpLines(s) /\ k \in Nat
       /\ {heap[k].next} \ {NULL} = IF Ends(s, k) THEN {} ELSE After(s, k)
       /\ heap[k].next # NULL => heap[k].next \in Executed(s)
       /\ heap[k].prev # NULL => /\ heap[k].prev \in Executed(s) /\ heap[k].prev \in Before(s, k)
                                 /\ ~Ends(s, heap[k].prev)
       /\ \A j \in Before(s, k) : ~Ends(s, j) /\ j \in Executed(s) => heap[k].prev = j
       /\ heap[k].st_entry = IF k \in DOMAIN labels THEN k ELSE NULL
       /\ heap[k].jump = IF Jumping(s, k) THEN Target(s, s[k].label) ELSE NULL
       /\ Jumping(s, k) => Target(s, s[k].label) \in DOMAIN labels
  /\ DOMAIN labels \subseteq Executed(s)
  /\ \A st \in Starts(s) : st \in DOMAIN labels

LEMMA KeptFacts ==
  ASSUME NEW s, IsSource(s), WellFormed(s), NULL \notin Nat,
         NEW heap, NEW labels, GraphIs(s, heap, labels), NEW free, free = OpLines(s) \ Executed(s),
         \A st \in Heads(s) \ Executed(s) : st \notin DOMAIN labels,
         NEW kept, IsKept(heap, free, kept)
  PROVE  OnlyExecuted(s, kept, labels)
<1>1. /\ Executed(s) \subseteq OpLines(s) /\ OpLines(s) \subseteq Nat /\ NULL \notin free
      /\ DOMAIN heap = OpLines(s) /\ DOMAIN labels \subseteq Heads(s)
  BY SourceFacts, ExecutedFacts DEF GraphIs
<1>2. DOMAIN kept = Executed(s)
  BY <1>1 DEF IsKept
<1>3. \A st \in Heads(s) : st \in Executed(s) /\ (Entered(s, st) \/ JumpedTo(s, st)) => st \in DOMAIN labels
  BY DEF GraphIs, MayGo
<1>4. \A st \in Starts(s) : st \in DOMAIN labels
  BY <1>3, ExecutedFacts
<1>5. DOMAIN labels \subseteq Executed(s)
  BY <1>1
<1>6. ASSUME NEW k \in Executed(s)
      PROVE  /\ k \in OpLines(s) /\ k \in Nat
             /\ {kept[k].next} \ {NULL} = IF Ends(s, k) THEN {} ELSE After(s, k)
             /\ kept[k].next # NULL => kept[k].next \in Executed(s)
             /\ kept[k].prev # NULL => /\ kept[k].prev \in Executed(s) /\ kept[k].prev \in Before(s, k)
                                       /\ ~Ends(s, kept[k].prev)
             /\ \A j \in Before(s, k) : ~Ends(s, j) /\ j \in Executed(s) => kept[k].prev = j
             /\ kept[k].st_entry = IF k \in DOMAIN labels THEN k ELSE NULL
             /\ kept[k].jump = IF Jumping(s, k) THEN Target(s, s[k].label) ELSE NULL
             /\ Jumping(s, k) => Target(s, s[k].label) \in DOMAIN labels
  <2>1. k \in OpLines(s) /\ k \in Nat /\ k \in DOMAIN kept
    BY <1>1, <1>2
  <2>2. PICK x, y : x = heap[k] /\ y = kept[k]
    OBVIOUS
  <2>3. /\ y.next = IF x.next \in free THEN NULL ELSE x.next
        /\ y.prev = IF x.prev \in free THEN NULL ELSE x.prev
        /\ y.st_entry = x.st_entry /\ y.jump = x.jump
    BY <2>1, <2>2 DEF IsKept
  <2>4. InstrIs(s, k, Len(s), x)
    BY <2>1, <2>2 DEF GraphIs
  <2>5. /\ x.jump = (IF Jumping(s, k) THEN Target(s, s[k].label) ELSE NULL)
        /\ x.st_entry = (IF k \in DOMAIN labels THEN k ELSE NULL)
    BY <2>1, <2>2 DEF GraphIs
  <2>6. {x.next} \ {NULL} = IF Ends(s, k) THEN {} ELSE After(s, k)
    BY <2>1, <2>4, NextFacts
  <2>7. x.next # NULL => x.next \in Executed(s)
    <3>1. x.next # NULL => x.next \in Flows(s, k)
      BY <2>6 DEF Flows
    <3> QED
      BY <3>1, ExecutedFacts
  <2>8. y.next = x.next
    BY <1>1, <2>3, <2>7
  <2>9. {x.prev} \ {NULL} = {j \in Before(s, k) : ~Ends(s, j)}
    BY <2>4 DEF InstrIs
  <2>10. y.prev # NULL => y.prev \in Executed(s) /\ y.prev \in Before(s, k) /\ ~Ends(s, y.prev)
    <3>1. Before(s, k) \subseteq OpLines(s)
      BY DEF Before
    <3>2. y.prev # NULL => y.prev = x.prev /\ x.prev \notin free /\ x.prev # NULL
      BY <2>3
    <3>3. x.prev # NULL => x.prev \in Before(s, k) /\ ~Ends(s, x.prev)
      BY <2>9
    <3> QED
      BY <3>1, <3>2, <3>3
  <2>11. ASSUME NEW j \in Before(s, k), ~Ends(s, j), j \in Executed(s) PROVE y.prev = j
    <3>1. x.prev = j
      BY <2>9, <2>11
    <3> QED
      BY <2>3, <2>11, <3>1
  <2>12. ASSUME Jumping(s, k) PROVE Target(s, s[k].label) \in DOMAIN labels
    <3>1. PICK t : t = Target(s, s[k].label)
      OBVIOUS
    <3>2. t \in Heads(s) /\ JumpedTo(s, t)
      BY <2>1, <2>12, <3>1, TargetFacts DEF JumpedTo
    <3>3. t \in Executed(s)
      BY <2>12, <3>1, ExecutedFacts DEF Flows
    <3> QED
      BY <1>3, <3>1, <3>2, <3>3
  <2> QED
    BY <2>1, <2>2, <2>3, <2>5, <2>6, <2>7, <2>8, <2>10, <2>11, <2>12
<1> QED
  BY <1>2, <1>4, <1>5, <1>6 DEF OnlyExecuted

LEMMA KeptAgrees ==
  ASSUME NEW s, IsSource(s), WellFormed(s), NULL \notin Nat,
         NEW heap, NEW labels, GraphIs(s, heap, labels), NEW kept, OnlyExecuted(s, kept, labels)
  PROVE  /\ InstrsAgree(kept, labels)
         /\ \A st \in DOMAIN labels : labels[st].bc \in DOMAIN kept /\ kept[labels[st].bc].st_entry = st
<1>1. \A st \in DOMAIN labels : /\ labels[st].bc = st /\ st \in Executed(s) /\ kept[st].st_entry = st
                               /\ st \in DOMAIN kept
  BY LabelParts DEF OnlyExecuted
<1>2. ASSUME NEW x \in Executed(s), kept[x].next # NULL
      PROVE  kept[x].next \in DOMAIN kept /\ kept[kept[x].next].prev = x
  <2>1. PICK n : n = kept[x].next
    OBVIOUS
  <2>2. n \in Executed(s) /\ n \in After(s, x) /\ ~Ends(s, x) /\ x \in OpLines(s)
    BY <1>2, <2>1 DEF OnlyExecuted
  <2>3. x \in Before(s, n)
    BY <2>2, AfterFacts
  <2>4. kept[n].prev = x
    BY <2>2, <2>3 DEF OnlyExecuted
  <2> QED
    BY <2>1, <2>2, <2>4 DEF OnlyExecuted
<1>3. ASSUME NEW x \in Executed(s), kept[x].prev # NULL
      PROVE  kept[x].prev \in DOMAIN kept /\ kept[kept[x].prev].next = x
  <2>1. PICK j : j = kept[x].prev
    OBVIOUS
  <2>2. j \in Executed(s) /\ j \in Before(s, x) /\ ~Ends(s, j) /\ x \in OpLines(s)
    BY <1>3, <2>1 DEF OnlyExecuted
  <2>3. j \in OpLines(s)
    BY <2>2 DEF Before
  <2>4. x \in After(s, j)
    BY <2>2, <2>3, AfterFacts
  <2>5. {kept[j].next} \ {NULL} = After(s, j)
    BY <2>2 DEF OnlyExecuted
  <2>6. kept[j].next = x
    BY <2>4, <2>5
  <2> QED
    BY <2>1, <2>2, <2>6 DEF OnlyExecuted
<1>4. ASSUME NEW x \in Executed(s), kept[x].st_entry # NULL
      PROVE  kept[x].st_entry \in DOMAIN labels /\ labels[kept[x].st_entry].bc = x
  BY <1>1, <1>4 DEF OnlyExecuted
<1>5. ASSUME NEW x \in Executed(s), kept[x].jump # NULL
      PROVE  kept[x].jump \in DOMAIN labels /\ x \in labels[kept[x].jump].jumps
  <2>1. PICK t : t = kept[x].jump
    OBVIOUS
  <2>2. Jumping(s, x) /\ t = Target(s, s[x].label) /\ t \in DOMAIN labels /\ x \in OpLines(s)
    BY <1>5, <2>1 DEF OnlyExecuted
  <2>3. labels[t].jumps = {k \in OpLines(s) : Jumping(s, k) /\ t = Target(s, s[k].label)}
    BY <2>2, LabelParts
  <2> QED
    BY <2>1, <2>2, <2>3
<1>6. DOMAIN kept = Executed(s)
  BY DEF OnlyExecuted
<1>7. InstrsAgree(kept, labels)
  BY <1>2, <1>3, <1>4, <1>5, <1>6 DEF InstrsAgree
<1> QED
  BY <1>1, <1>7

LEMMA KeptHeadersAgree ==
  ASSUME NEW s, IsSource(s), WellFormed(s),
         NEW heap, NEW labels, GraphIs(s, heap, labels), \A st \in Starts(s) : st \in DOMAIN labels,
         NEW headers, HeadersAre(s, headers)
  PROVE  HeadersAgree(headers, labels)
<1>1. ASSUME NEW h \in DOMAIN headers
      PROVE  \E b \in Blocks(s) :
               /\ h = Value(s, b, Id) /\ headers[h].ptr = <<0, h>>
               /\ DOMAIN headers[h].st_entries = 0 .. LastAnim(s, b) - 1
               /\ \A i \in 0 .. LastAnim(s, b) - 1 :
                    headers[h].st_entries[i] =
                      IF i \in Named(s, b) THEN Target(s, Value(s, b, Anim(i))) ELSE NULL
  BY DEF HeadersAre
<1>2. ASSUME NEW h \in DOMAIN headers, NEW i \in DOMAIN headers[h].st_entries,
             NEW l, l = headers[h].st_entries[i], l # NULL
      PROVE  /\ l \in DOMAIN labels
             /\ [header |-> headers[h].ptr, type |-> "HEADER"] \in labels[l].anims
  <2>1. PICK b \in Blocks(s) :
               /\ h = Value(s, b, Id) /\ headers[h].ptr = <<0, h>>
               /\ DOMAIN headers[h].st_entries = 0 .. LastAnim(s, b) - 1
               /\ \A j \in 0 .. LastAnim(s, b) - 1 :
                    headers[h].st_entries[j] =
                      IF j \in Named(s, b) THEN Target(s, Value(s, b, Anim(j))) ELSE NULL
    BY <1>1
  <2>2. i \in Named(s, b) /\ l = Target(s, Value(s, b, Anim(i)))
    BY <1>2, <2>1
  <2>3. l \in DOMAIN labels
    BY <2>2 DEF Starts
  <2>4. HeaderAnim(h) \in labels[l].anims
    BY <2>1, <2>2, <2>3, LabelParts
  <2> QED
    BY <2>1, <2>3, <2>4 DEF HeaderAnim
<1>3. ASSUME NEW l \in DOMAIN labels, NEW an \in labels[l].anims
      PROVE  \E h \in DOMAIN headers :
               /\ an.header = headers[h].ptr
               /\ an.type = "HEADER" =>
                    \E i \in DOMAIN headers[h].st_entries : headers[h].st_entries[i] = l
  <2>1. PICK b \in Blocks(s) :
          an = HeaderAnim(Value(s, b, Id)) /\ \E i \in Named(s, b) : l = Target(s, Value(s, b, Anim(i)))
    BY LabelParts
  <2>2. PICK i \in Named(s, b) : l = Target(s, Value(s, b, Anim(i)))
    BY <2>1
  <2>3. PICK h : h = Value(s, b, Id)
    OBVIOUS
  <2>4. i \in 0 .. LastAnim(s, b) - 1
    BY DEF Named
  <2>5. /\ h \in DOMAIN headers /\ headers[h].ptr = <<0, h>>
        /\ DOMAIN headers[h].st_entries = 0 .. LastAnim(s, b) - 1
        /\ headers[h].st_entries[i] = l
    BY <2>2, <2>3, <2>4 DEF HeadersAre
  <2>6. an.header = <<0, h>>
    BY <2>1, <2>3 DEF HeaderAnim
  <2> QED
    BY <2>4, <2>5, <2>6
<1> QED
  BY <1>2, <1>3 DEF HeadersAgree

LEMMA SymTblFacts ==
  ASSUME NEW symtbl, NEW next_id, NEW labels, SymTblIs(symtbl, next_id, labels)
  PROVE  SymTblAgrees(symtbl, next_id, labels)
<1>1. next_id \in Nat /\ \A k \in DOMAIN symtbl : k \in 0 .. next_id - 1
  BY DEF SymTblIs
<1>2. \A k \in DOMAIN symtbl : k < next_id /\ labels[symtbl[k]].id = k
  BY <1>1 DEF SymTblIs
<1>3. {symtbl[k] : k \in DOMAIN symtbl} = DOMAIN labels
  BY DEF SymTblIs
<1> QED
  BY <1>2, <1>3 DEF SymTblAgrees

LEMMA KeptInstr ==
  ASSUME NEW op, NEW next, NEW prev, NEW st, NEW jump, NEW i, NEW next2, NEW prev2,
         i = [op |-> op, next |-> next, prev |-> prev, st_entry |-> st, jump |-> jump]
  PROVE  /\ [i EXCEPT !.next = next2, !.prev = prev2].next = next2
         /\ [i EXCEPT !.next = next2, !.prev = prev2].prev = prev2
         /\ [i EXCEPT !.next = next2, !.prev = prev2].st_entry = st
         /\ [i EXCEPT !.next = next2, !.prev = prev2].jump = jump
OBVIOUS

LEMMA KeptIsKept ==
  ASSUME NEW s, GraphIs(s, instr, label)
  PROVE  IsKept(instr, freeinstrs, Kept)
<1> DEFINE Ptr(x) == IF x \in freeinstrs THEN NULL ELSE x
<1>1. Kept = [x \in DOMAIN instr \ freeinstrs |->
                [instr[x] EXCEPT !.next = Ptr(instr[x].next), !.prev = Ptr(instr[x].prev)]]
  BY DEF Kept
<1>2. DOMAIN Kept = DOMAIN instr \ freeinstrs
  BY <1>1
<1>3. ASSUME NEW k \in DOMAIN instr \ freeinstrs
      PROVE  /\ Kept[k].next = Ptr(instr[k].next) /\ Kept[k].prev = Ptr(instr[k].prev)
             /\ Kept[k].st_entry = instr[k].st_entry /\ Kept[k].jump = instr[k].jump
  <2>1. PICK i, y, next2, prev2 : /\ i = instr[k] /\ y = Kept[k]
                                  /\ next2 = Ptr(instr[k].next) /\ prev2 = Ptr(instr[k].prev)
    OBVIOUS
  <2>2. Kept[k] = [instr[k] EXCEPT !.next = Ptr(instr[k].next), !.prev = Ptr(instr[k].prev)]
    BY <1>1, Zenon
  <2> HIDE DEF Ptr
  <2>3. y = [i EXCEPT !.next = next2, !.prev = prev2]
    BY <2>1, <2>2, Zenon
  <2>4. i = [op |-> k, next |-> i.next, prev |-> i.prev, st_entry |-> i.st_entry, jump |-> i.jump]
    BY <2>1 DEF GraphIs, InstrIs
  <2>5. y.next = next2 /\ y.prev = prev2 /\ y.st_entry = i.st_entry /\ y.jump = i.jump
    BY <2>3, <2>4, KeptInstr
  <2> QED
    BY <2>1, <2>5
<1> QED
  BY <1>2, <1>3 DEF IsKept

LEMMA FreeInstrsStep ==
  ASSUME CompileInv, FreeInstrs
  PROVE  CompileInv'
<1> DEFINE s == src
<1>1. /\ pc = "remove" /\ bad_labels = <<>> /\ instr' = Kept /\ pc' = "compiled"
      /\ UNCHANGED <<src, lineno, error, label, table_headers, table_symtbl, uniqid, misread>>
  BY DEF FreeInstrs
<1>2. /\ IsSource(s) /\ s \in Sources /\ lineno = Len(s) /\ ~error /\ WellFormed(s) /\ NULL \notin Nat
  BY <1>1, WhenRemoving
<1>3. PositionInv'
  BY <1>1, <1>2 DEF CompileInv, PositionInv, Reading
<1>4. ParseInv' /\ CheckInv' /\ RemoveInv'
  BY <1>1 DEF ParseInv, Clean, Building, Reading, CheckInv, RemoveInv
<1>5. ASSUME ~misread
      PROVE  /\ GraphIs(s, instr, label) /\ SymTblIs(table_symtbl, uniqid, label)
             /\ HeadersAre(s, table_headers) /\ OnlyExecuted(s, instr', label)
  <2>1. /\ GraphIs(s, instr, label) /\ SymTblIs(table_symtbl, uniqid, label)
        /\ HeadersAre(s, table_headers)
        /\ freeinstrs \subseteq OpLines(s) \ Executed(s)
        /\ \A k \in freeinstrs : Ends(s, k) \/ After(s, k) \subseteq freeinstrs \cup Executed(s)
        /\ \A st \in Heads(s) \ Executed(s) :
             IF st \in DOMAIN label THEN st \in Elements(bad_labels) ELSE st \in freeinstrs
    BY <1>1, <1>5, WhenRemoving
  <2>2. Elements(bad_labels) = {}
    BY <1>1, OneElement
  <2>3. \A st \in Heads(s) \ Executed(s) : st \notin DOMAIN label /\ st \in freeinstrs
    BY <2>1, <2>2
  <2>4. PICK free : free = freeinstrs
    OBVIOUS
  <2>5. free = OpLines(s) \ Executed(s)
    BY <1>2, <2>1, <2>3, <2>4, AllIsFreed
  <2>6. IsKept(instr, free, instr')
    <3>1. IsKept(instr, freeinstrs, Kept)
      BY <2>1, KeptIsKept
    <3> QED
      BY <1>1, <2>4, <3>1, Zenon
  <2>7. OnlyExecuted(s, instr', label)
    BY <1>2, <2>1, <2>3, <2>5, <2>6, KeptFacts
  <2> QED
    BY <2>1, <2>7
<1>6. NoDeadCode'
  BY <1>1, <1>5 DEF NoDeadCode, OnlyExecuted
<1>7. CompiledAgree'
  <2> SUFFICES ASSUME ~misread
               PROVE  /\ InstrsAgree(instr', label)
                      /\ \A st \in DOMAIN label : /\ label[st].bc \in DOMAIN instr'
                                                  /\ instr'[label[st].bc].st_entry = st
                      /\ HeadersAgree(table_headers, label)
                      /\ SymTblAgrees(table_symtbl, uniqid, label)
    BY <1>1 DEF CompiledAgree
  <2>1. \A st \in Starts(s) : st \in DOMAIN label
    BY <1>5 DEF OnlyExecuted
  <2>2. HeadersAgree(table_headers, label)
    BY <1>2, <1>5, <2>1, KeptHeadersAgree
  <2>3. SymTblAgrees(table_symtbl, uniqid, label)
    BY <1>5, SymTblFacts
  <2> QED
    BY <1>2, <1>5, <2>2, <2>3, KeptAgrees
<1>8. CompiledIsTheSource'
  <2> SUFFICES ASSUME ~misread
               PROVE  /\ DOMAIN table_headers = {Value(s, b, Id) : b \in Blocks(s)}
                      /\ \A b \in Blocks(s) : \A i \in 0 .. LastAnim(s, b) - 1 :
                           LET st == table_headers[Value(s, b, Id)].st_entries[i] IN
                           IF i \in Named(s, b) THEN Leads(st, Target(s, Value(s, b, Anim(i))))
                                                ELSE st = NULL
                      /\ Executed(s) \subseteq DOMAIN instr'
                      /\ \A k \in Executed(s) :
                           /\ {instr'[k].next} \ {NULL} = IF Ends(s, k) THEN {} ELSE After(s, k)
                           /\ IF Jumping(s, k) THEN Leads(instr'[k].jump, Target(s, s[k].label))
                                               ELSE instr'[k].jump = NULL
    BY <1>1 DEF CompiledIsTheSource, Leads
  <2>1. \A st \in DOMAIN label : Leads(st, st)
    BY <1>5, LabelParts DEF Leads
  <2>2. ASSUME NEW b \in Blocks(s), NEW i \in 0 .. LastAnim(s, b) - 1,
               NEW st, st = table_headers[Value(s, b, Id)].st_entries[i]
        PROVE  IF i \in Named(s, b) THEN Leads(st, Target(s, Value(s, b, Anim(i)))) ELSE st = NULL
    <3>1. st = IF i \in Named(s, b) THEN Target(s, Value(s, b, Anim(i))) ELSE NULL
      BY <1>5, <2>2 DEF HeadersAre
    <3>2. i \in Named(s, b) => Target(s, Value(s, b, Anim(i))) \in Starts(s)
      BY DEF Starts
    <3>3. \A x \in Starts(s) : x \in DOMAIN label
      BY <1>5 DEF OnlyExecuted
    <3> QED
      BY <2>1, <3>1, <3>2, <3>3
  <2>3. ASSUME NEW k \in Executed(s)
        PROVE  /\ {instr'[k].next} \ {NULL} = IF Ends(s, k) THEN {} ELSE After(s, k)
               /\ IF Jumping(s, k) THEN Leads(instr'[k].jump, Target(s, s[k].label))
                                   ELSE instr'[k].jump = NULL
    BY <1>5, <2>1 DEF OnlyExecuted
  <2>4. DOMAIN table_headers = {Value(s, b, Id) : b \in Blocks(s)} /\ DOMAIN instr' = Executed(s)
    BY <1>5 DEF HeadersAre, OnlyExecuted
  <2> QED
    BY <2>2, <2>3, <2>4
<1> QED
  BY <1>3, <1>4, <1>6, <1>7, <1>8 DEF CompileInv

-----------------------------------------------------------------------------
(* Before the first line there is nothing. *)
LEMMA NothingRead ==
  ASSUME NEW s, IsSource(s), NULL \notin Nat
  PROVE  /\ OpTo(s, 0) = {} /\ BlocksTo(s, 0) = {} /\ Pending(s, 0) = {} /\ Settled(s, 0) = {}
         /\ InBlocks(s, 0) /\ CurrentIs(s, 0, NULL)
         /\ GraphTo(s, 0, <<>>, <<>>, <<>>, {}, {})
<1>1. /\ OpLines(s) \subseteq 1 .. Len(s) /\ Is(s, "code") \subseteq 1 .. Len(s) /\ Len(s) \in Nat
      /\ DOMAIN s = 1 .. Len(s)
  BY SourceFacts
<1>2. OpTo(s, 0) = {} /\ Pending(s, 0) = {} /\ Settled(s, 0) = {}
  BY <1>1 DEF OpTo, Pending, Settled
<1>3. BlocksTo(s, 0) = {}
  <2>1. \A b \in Blocks(s) : b[1] \in Nat \ {0} /\ b[2] \in Nat /\ b[1] < b[2]
    BY BlocksAreRead
  <2> QED
    BY <2>1 DEF BlocksTo
<1>4. InBlocks(s, 0)
  BY DEF InBlocks
<1>5. Before(s, 0 + 1) = {}
  <2>1. \A j \in Before(s, 0 + 1) : j \in OpLines(s) /\ j < 1
    BY BeforeFacts
  <2> QED
    BY <1>1, <2>1
<1>6. CurrentIs(s, 0, NULL)
  BY <1>5 DEF CurrentIs
<1>7. DOMAIN <<>> = {}
  OBVIOUS
<1>8. HeadersTo(s, 0, <<>>, <<>>, {})
  BY <1>3, <1>7 DEF HeadersTo
<1>9. CodeTo(s, 0, <<>>, <<>>, {})
  <2>1. \A k \in Is(s, "code") \ OpLines(s) : ~(k < 0)
    BY <1>1
  <2> QED
    BY <1>2, <1>7, <2>1 DEF CodeTo
<1>10. TableTo(s, 0, {}) /\ UsesTo(s, 0, {})
  BY <1>2 DEF TableTo, UsesTo
<1>11. LabelsTo(s, 0, <<>>, <<>>, <<>>)
  BY <1>2, <1>7 DEF LabelsTo
<1> QED
  BY <1>2, <1>3, <1>4, <1>6, <1>8, <1>9, <1>10, <1>11 DEF GraphTo

LEMMA CompileStarts ==
  ASSUME Init
  PROVE  CompileInv
<1>1. /\ src \in Sources /\ lineno = 0 /\ pc = "next" /\ error = FALSE
      /\ names = <<>> /\ current_instr = NULL /\ instr = <<>> /\ label = <<>>
      /\ table_headers = <<>> /\ table_symtbl = <<>> /\ uniqid = 0 /\ table_names = {}
      /\ relocq = <<>> /\ bad_labels = <<>> /\ freeinstrs = {} /\ misread = FALSE
  BY DEF Init
<1>2. IsSource(src) /\ NULL \notin Nat
  BY <1>1, CompileAssumption
<1>3. /\ Pending(src, 0) = {} /\ InBlocks(src, 0) /\ CurrentIs(src, 0, NULL)
      /\ GraphTo(src, 0, <<>>, <<>>, <<>>, {}, {})
  BY <1>2, NothingRead
<1>4. Elements(<<>>) = {} /\ DOMAIN <<>> = {} /\ \A S : <<>> \in Seq(S)
  BY DEF Elements
<1>5. PositionInv
  <2>1. lineno \in 0 .. Len(src)
    <3>1. Len(src) \in Nat
      BY <1>2, SourceFacts
    <3> QED
      BY <1>1, <3>1
  <2>2. ~error /\ error \in BOOLEAN /\ Reading /\ pc \notin {"check", "remove", "compiled", "error"}
    BY <1>1 DEF Reading
  <2> QED
    BY <1>1, <2>1, <2>2 DEF PositionInv
<1>6. BlocksInv /\ CurrentInv
  BY <1>1, <1>3 DEF BlocksInv, CurrentInv, Reading
<1>7. NamesInv
  BY <1>1, <1>3, <1>4 DEF NamesInv
<1>8. SymTblIs(table_symtbl, uniqid, label)
  BY <1>1, <1>4 DEF SymTblIs
<1>9. GraphInv
  BY <1>1, <1>3, <1>4, <1>8 DEF GraphInv, Waiting
<1>10. ParseInv
  BY <1>1, <1>6, <1>7, <1>9 DEF ParseInv
<1> QED
  BY <1>1, <1>5, <1>10 DEF CompileInv, CheckInv, RemoveInv, CompiledIsTheSource, NoDeadCode, CompiledAgree

LEMMA CompileStays ==
  ASSUME CompileInv, UNCHANGED vars
  PROVE  CompileInv'
<1>1. UNCHANGED <<src, lineno, pc, error, htok, names, current_instr, instr, label>>
  BY DEF vars, parsing
<1>2. UNCHANGED <<table_headers, table_symtbl, uniqid, table_names, relocq, todo, bad_labels, freeinstrs, misread>>
  BY DEF vars, tables, badness
<1>3. PositionInv' /\ CheckInv' /\ RemoveInv'
  BY <1>1, <1>2 DEF CompileInv, PositionInv, Reading, CheckInv, RemoveInv
<1>4. /\ (GraphInv => GraphInv') /\ (NamesInv => NamesInv')
      /\ (CurrentInv => CurrentInv') /\ (BlocksInv => BlocksInv')
  BY <1>1, <1>2 DEF GraphInv, Waiting, NamesInv, CurrentInv, BlocksInv, Reading
<1>5. ParseInv'
  <2>1. (~error /\ Building => BlocksInv') /\ (Building' <=> Building) /\ (~error' <=> ~error)
    BY <1>1, <1>4 DEF CompileInv, ParseInv, Building, Reading
  <2>2. ASSUME Clean', Building'
        PROVE  /\ GraphInv' /\ NamesInv' /\ CurrentInv' /\ freeinstrs' = {} /\ ~misread'
               /\ (bad_labels' = <<>> \/ pc' = "check") /\ (pc' = "check" => relocq' = <<>>)
    <3>1. Clean /\ Building
      BY <1>1, <2>2 DEF Clean, Building, Reading
    <3>2. /\ GraphInv /\ NamesInv /\ CurrentInv /\ freeinstrs = {} /\ ~misread
          /\ (bad_labels = <<>> \/ pc = "check") /\ (pc = "check" => relocq = <<>>)
      BY <3>1 DEF CompileInv, ParseInv
    <3> QED
      BY <1>1, <1>2, <1>4, <3>2
  <2>3. ~error' /\ Building' => BlocksInv'
    BY <2>1
  <2> QED
    BY <2>2, <2>3, Zenon DEF ParseInv
<1>6. CompiledIsTheSource' /\ NoDeadCode' /\ CompiledAgree'
  <2>1. NoDeadCode' /\ CompiledAgree'
    BY <1>1, <1>2 DEF CompileInv, NoDeadCode, CompiledAgree
  <2>2. CompiledIsTheSource'
    BY <1>1, <1>2 DEF CompileInv, CompiledIsTheSource, Leads
  <2> QED
    BY <2>1, <2>2
<1> QED
  BY <1>3, <1>5, <1>6 DEF CompileInv

LEMMA CompileInvHolds ==
  Spec => []CompileInv
<1>1. Init => CompileInv
  BY CompileStarts
<1>2. CompileInv /\ [Next]_vars => CompileInv'
  <2> SUFFICES ASSUME CompileInv, [Next]_vars PROVE CompileInv'
    OBVIOUS
  <2>1. CASE HeaderStart \/ HeaderVar \/ HeaderEnd
    BY <2>1, HeaderStartStep, HeaderVarStep, HeaderEndStep
  <2>2. CASE ReadNames \/ ReadInstr \/ ReadSymTblEnt \/ EndOfSource
    BY <2>2, ReadNamesStep, ReadInstrStep, ReadSymTblEntStep, EndOfSourceStep
  <2>3. CASE Relocate \/ Relocated
    BY <2>3, RelocateStep, RelocatedStep
  <2>4. CASE \E e \in todo : CheckLabel(e)
    BY <2>4, CheckLabelStep
  <2>5. CASE GiveUp \/ Checked
    BY <2>5, GiveUpStep, CheckedStep
  <2>6. CASE RemoveLabel \/ FreeInstrs
    BY <2>6, RemoveLabelStep, FreeInstrsStep
  <2>7. CASE Stopped \/ UNCHANGED vars
    BY <2>7, CompileStays DEF Stopped
  <2> QED
    BY <2>1, <2>2, <2>3, <2>4, <2>5, <2>6, <2>7 DEF Next
<1> QED
  BY <1>1, <1>2, PTL DEF Spec

-----------------------------------------------------------------------------
(* iscript_compile returns an Iscript if and only if the source has no     *)
(* error, of whatever kind and in whatever order its lines come: what the  *)
(* reader, the verifiers and relocation find together is WellFormed, which *)
(* is read off the lines.                                                  *)
THEOREM CompilerRefusesErrors ==
  Spec => []RefusesErrors
<1>1. CompileInv => RefusesErrors
  BY DEF CompileInv, PositionInv, RefusesErrors
<1> QED
  BY <1>1, CompileInvHolds, PTL

(* What iscript_compile returns is the program of the source: every header *)
(* leads to the label that the source names, and from each instruction     *)
(* that is executed to the next one and to the one it jumps to, also after *)
(* err_remove_label has taken code away; unless a freed label was misread. *)
THEOREM CompiledTextIsTheSource ==
  Spec => []CompiledIsTheSource
<1>1. CompileInv => CompiledIsTheSource
  BY DEF CompileInv
<1> QED
  BY <1>1, CompileInvHolds, PTL

(* The removal of bad labels frees every instruction that no header        *)
(* executes, also in chains that only jump to each other, and no other;    *)
(* unless a freed label was misread.                                       *)
THEOREM CompiledHasNoDeadCode ==
  Spec => []NoDeadCode
<1>1. CompileInv => NoDeadCode
  BY DEF CompileInv
<1> QED
  BY <1>1, CompileInvHolds, PTL

(* The graph that is left hangs together: what next, prev, the labels of   *)
(* instructions and jumps, the animations of headers and the table of      *)
(* labels point at is there and points back.  The lists of labels may hold *)
(* jumps that were freed.  Unless a freed label was misread.               *)
THEOREM CompiledGraphAgrees ==
  Spec => []CompiledAgree
<1>1. CompileInv => CompiledAgree
  BY DEF CompileInv
<1> QED
  BY <1>1, CompileInvHolds, PTL
=============================================================================
