------------------------- MODULE IscriptGraphProofs -------------------------
(***************************************************************************)
(* Facts about IscriptGraph that the proofs about the modules that work on *)
(* object graphs rest on.                                                  *)
(***************************************************************************)
EXTENDS IscriptGraph, FiniteSetTheorems, TLAPS

(* Induction over Nat, as a fact about sets. *)
LEMMA LeastNumber ==
  ASSUME NEW T, T \subseteq Nat, T # {}
  PROVE  \E x \in T : \A y \in T : x <= y
<1>1. PICK x \in T : \A y \in T : ~ (<<y, x>> \in OpToRel(<, Nat))
  BY WFMin, NatLessThanWellFounded
<1>2. \A y \in T : ~ (y < x)
  BY <1>1 DEF OpToRel
<1> QED
  BY <1>2

-----------------------------------------------------------------------------
(* Closure *)

(* What k rounds lead to, as a sequence of sets; n of them are made.       *)
More(T, next) == T \cup UNION {next[x] : x \in T \cap DOMAIN next}
Rounds(S, next, n, f) ==
  f = [k \in 0 .. n |-> IF k = 0 THEN S ELSE More(f[k - 1], next)]

LEMMA RoundsExist ==
  ASSUME NEW S, NEW next, NEW n \in Nat
  PROVE  \E f : Rounds(S, next, n, f)
<1> DEFINE none == {m \in Nat : ~ \E f : Rounds(S, next, m, f)}
<1> SUFFICES ASSUME none # {} PROVE FALSE
  OBVIOUS
<1>1. PICK m \in none : \A y \in none : m <= y
  BY LeastNumber
<1>2. m # 0
  <2>1. Rounds(S, next, 0, [k \in 0 .. 0 |-> S])
    BY DEF Rounds
  <2> QED
    BY <2>1
<1>3. m \in Nat /\ m - 1 \in Nat /\ m - 1 \notin none
  BY <1>1, <1>2
<1>4. PICK f : Rounds(S, next, m - 1, f)
  BY <1>3
<1> DEFINE g == [k \in 0 .. m |-> IF k = m THEN More(f[m - 1], next) ELSE f[k]]
<1>5. /\ DOMAIN f = 0 .. m - 1
      /\ \A k \in 0 .. m - 1 : f[k] = IF k = 0 THEN S ELSE More(f[k - 1], next)
  BY <1>4 DEF Rounds
<1>6. \A k \in 0 .. m : g[k] = IF k = 0 THEN S ELSE More(g[k - 1], next)
  <2> SUFFICES ASSUME NEW k \in 0 .. m
               PROVE  g[k] = IF k = 0 THEN S ELSE More(g[k - 1], next)
    OBVIOUS
  <2>1. CASE k = m
    <3>1. m - 1 \in 0 .. m /\ m - 1 # m /\ m \in 0 .. m
      BY <1>3
    <3>2. g[m - 1] = f[m - 1]
      BY <3>1
    <3> QED
      BY <1>2, <2>1, <3>1, <3>2
  <2>2. CASE k # m /\ k # 0
    <3>1. k \in 0 .. m - 1 /\ k - 1 \in 0 .. m /\ k - 1 # m
      BY <1>3, <2>2
    <3> QED
      BY <1>5, <2>2, <3>1
  <2>3. CASE k # m /\ k = 0
    <3>1. k \in 0 .. m - 1
      BY <1>3, <2>3
    <3> QED
      BY <1>5, <2>3, <3>1
  <2> QED
    BY <2>1, <2>2, <2>3
<1>7. Rounds(S, next, m, g)
  BY <1>6 DEF Rounds
<1> QED
  BY <1>1, <1>7

(* So Closure is the last of them. *)
LEMMA ClosureIsLast ==
  ASSUME NEW S, NEW next, Cardinality(DOMAIN next) \in Nat
  PROVE  \E f : /\ Rounds(S, next, Cardinality(DOMAIN next), f)
                /\ Closure(S, next) = f[Cardinality(DOMAIN next)]
<1> DEFINE n == Cardinality(DOMAIN next)
           last == CHOOSE f : Rounds(S, next, n, f)
<1>1. Rounds(S, next, n, last)
  BY RoundsExist
<1>2. Closure(S, next) = last[n]
  BY DEF Closure, Rounds, More
<1> QED
  BY <1>1, <1>2

Closed(T, next) == \A x \in T \cap DOMAIN next : next[x] \subseteq T

(* It is the least set that S is in and that no element leads out of.      *)
LEMMA ClosureIsLeast ==
  ASSUME NEW S, NEW D, IsFiniteSet(D), NEW next \in [D -> SUBSET D]
  PROVE  /\ S \subseteq Closure(S, next)
         /\ Closure(S, next) \subseteq S \cup D
         /\ Closed(Closure(S, next), next)
         /\ \A T : S \subseteq T /\ Closed(T, next) => Closure(S, next) \subseteq T
<1> DEFINE n == Cardinality(D)
<1>1. n \in Nat /\ DOMAIN next = D
  BY FS_CardinalityType
<1>2. PICK f : Rounds(S, next, n, f) /\ Closure(S, next) = f[n]
  BY <1>1, ClosureIsLast
<1>3. f[0] = S /\ \A k \in 1 .. n : f[k] = More(f[k - 1], next)
  <2>1. 0 \in 0 .. n /\ \A k \in 1 .. n : k \in 0 .. n /\ k # 0
    BY <1>1
  <2> QED
    BY <1>2, <2>1 DEF Rounds
<1> HIDE DEF n
(* What holds of every round. *)
<1> DEFINE Good(k) == /\ S \subseteq f[k] /\ f[k] \subseteq S \cup D
                      /\ Closed(f[k], next) \/ k <= Cardinality(f[k] \cap D)
                      /\ \A T : S \subseteq T /\ Closed(T, next) => f[k] \subseteq T
<1>4. Good(0)
  <2>1. IsFiniteSet(S \cap D) /\ Cardinality(S \cap D) \in Nat
    BY FS_Subset, FS_CardinalityType
  <2> QED
    BY <1>3, <2>1
<1>5. ASSUME NEW k \in 1 .. n, Good(k - 1) PROVE Good(k)
  <2> DEFINE A == f[k - 1]
             B == f[k]
  <2>1. B = A \cup UNION {next[x] : x \in A \cap D}
    BY <1>1, <1>3 DEF More
  <2>2. S \subseteq B /\ B \subseteq S \cup D
    BY <1>5, <2>1
  <2>3. ASSUME NEW T, S \subseteq T, Closed(T, next) PROVE B \subseteq T
    BY <1>1, <1>5, <2>1, <2>3 DEF Closed
  <2>4. CASE Closed(A, next)
    <3>1. B = A
      BY <1>1, <2>1, <2>4 DEF Closed
    <3> QED
      BY <2>2, <2>3, <2>4, <3>1
  <2>5. CASE ~ Closed(A, next)
    <3>1. PICK y \in D : y \in B /\ y \notin A
      BY <1>1, <2>1, <2>5 DEF Closed
    <3>2. IsFiniteSet(A \cap D) /\ Cardinality(A \cap D) \in Nat
      BY FS_Subset, FS_CardinalityType
    <3>3. /\ IsFiniteSet((A \cap D) \cup {y})
          /\ Cardinality((A \cap D) \cup {y}) = Cardinality(A \cap D) + 1
      BY <3>1, <3>2, FS_AddElement
    <3>4. IsFiniteSet(B \cap D) /\ Cardinality(B \cap D) \in Nat
      BY FS_Subset, FS_CardinalityType
    <3>5. (A \cap D) \cup {y} \subseteq B \cap D
      BY <2>1, <3>1
    <3>6. Cardinality((A \cap D) \cup {y}) <= Cardinality(B \cap D)
      BY <3>4, <3>5, FS_Subset
    <3>7. k - 1 <= Cardinality(A \cap D)
      BY <1>5, <2>5
    <3>8. k <= Cardinality(B \cap D)
      BY <1>1, <3>2, <3>3, <3>4, <3>6, <3>7
    <3> QED
      BY <2>2, <2>3, <3>8
  <2> QED
    BY <2>4, <2>5
<1>6. Good(n)
  <2> DEFINE bad == {k \in Nat : k <= n /\ ~ Good(k)}
  <2> HIDE DEF Good
  <2> SUFFICES ASSUME bad # {} PROVE FALSE
    BY <1>1
  <2>1. PICK k \in bad : \A y \in bad : k <= y
    <3>1. bad \subseteq Nat
      OBVIOUS
    <3> QED
      BY <3>1, LeastNumber
  <2>2. k # 0
    BY <1>4
  <2>3. k \in 1 .. n /\ k - 1 \in Nat /\ k - 1 <= n /\ ~ (k <= k - 1)
    BY <1>1, <2>2
  <2>4. Good(k - 1)
    BY <2>1, <2>3
  <2> QED
    BY <1>5, <2>3, <2>4
<1>7. Closed(f[n], next)
  <2> SUFFICES ASSUME n <= Cardinality(f[n] \cap D) PROVE Closed(f[n], next)
    BY <1>6
  <2>1. /\ Cardinality(f[n] \cap D) <= n
        /\ n = Cardinality(f[n] \cap D) => D = f[n] \cap D
    BY FS_Subset DEF n
  <2>2. D \subseteq f[n]
    <3>1. Cardinality(f[n] \cap D) \in Nat
      BY FS_Subset, FS_CardinalityType
    <3> QED
      BY <1>1, <2>1, <3>1
  <2> QED
    BY <1>1, <2>2 DEF Closed
<1> QED
  BY <1>2, <1>6, <1>7

-----------------------------------------------------------------------------
(* Programs *)

LEMMA SeqIsFunction ==
  ASSUME NEW S, NEW s \in Seq(S)
  PROVE  Len(s) \in Nat /\ s \in [1 .. Len(s) -> S]
OBVIOUS

LEMMA AppendFacts ==
  ASSUME NEW S, NEW s \in Seq(S), NEW e \in S
  PROVE  /\ Append(s, e) \in Seq(S) /\ Len(s) \in Nat
         /\ DOMAIN s = 1 .. Len(s) /\ DOMAIN Append(s, e) = 1 .. Len(s) + 1
         /\ Len(Append(s, e)) = Len(s) + 1
         /\ Append(s, e)[Len(s) + 1] = e
         /\ \A k \in DOMAIN s : Append(s, e)[k] = s[k]
OBVIOUS

LEMMA TailFacts ==
  ASSUME NEW S, NEW s \in Seq(S), s # <<>>
  PROVE  /\ Tail(s) \in Seq(S) /\ Len(s) \in Nat \ {0} /\ DOMAIN s = 1 .. Len(s)
         /\ Head(s) = s[1] /\ Head(s) \in S
         /\ Len(Tail(s)) = Len(s) - 1 /\ DOMAIN Tail(s) = 1 .. Len(s) - 1
         /\ \A k \in DOMAIN Tail(s) : k + 1 \in DOMAIN s /\ Tail(s)[k] = s[k + 1]
OBVIOUS

LEMMA ConsFacts ==
  ASSUME NEW S, NEW s \in Seq(S), NEW e \in S, NEW t, t = <<e>> \o s
  PROVE  /\ t \in Seq(S) /\ Len(s) \in Nat /\ DOMAIN s = 1 .. Len(s)
         /\ Len(t) = Len(s) + 1 /\ DOMAIN t = 1 .. Len(s) + 1
         /\ t[1] = e /\ \A k \in DOMAIN s : k + 1 \in DOMAIN t /\ t[k + 1] = s[k]
OBVIOUS

LEMMA ProgramFacts ==
  ASSUME NEW p, IsProgram(p)
  PROVE  /\ IsFiniteSet(DOMAIN p.instr) /\ DOMAIN p.instr \subseteq Nat \ {0}
         /\ \A a \in DOMAIN p.instr : p.instr[a].kind \in Kinds /\ p.instr[a].target \in Nat
         /\ \A h \in DOMAIN p.headers : /\ p.headers[h] \in Seq(Nat)
                                       /\ DOMAIN p.headers[h] = 1 .. Len(p.headers[h])
                                       /\ Len(p.headers[h]) \in Nat
                                       /\ Entries(p, h) \subseteq Nat
         /\ CodeOf(p) \subseteq DOMAIN p.instr
         /\ \A a \in CodeOf(p) : Succ(p, a) \subseteq DOMAIN p.instr
<1>1. PICK n \in Nat : p.instr \in [1 .. n -> [kind : Kinds, target : Nat]]
  <2>1. PICK s \in Seq([kind : Kinds, target : Nat]) : s = p.instr
    BY DEF IsProgram
  <2>2. Len(s) \in Nat /\ s \in [1 .. Len(s) -> [kind : Kinds, target : Nat]]
    BY SeqIsFunction
  <2> QED
    BY <2>1, <2>2
<1>2. IsFiniteSet(1 .. n) /\ 1 .. n \subseteq Nat \ {0}
  BY FS_Interval
<1>3. ASSUME NEW h \in DOMAIN p.headers
      PROVE  /\ p.headers[h] \in Seq(Nat) /\ Len(p.headers[h]) \in Nat
             /\ DOMAIN p.headers[h] = 1 .. Len(p.headers[h])
             /\ Entries(p, h) \subseteq Nat
  <2>1. PICK s \in Seq(Nat) : s = p.headers[h]
    BY DEF IsProgram
  <2>2. Len(s) \in Nat /\ DOMAIN s = 1 .. Len(s) /\ \A i \in DOMAIN s : s[i] \in Nat
    OBVIOUS
  <2> QED
    BY <2>1, <2>2 DEF Entries
<1> QED
  BY <1>1, <1>2, <1>3 DEF IsProgram

(* The code of a header is where its animations lead to, and no more; it   *)
(* is closed under the successors.                                         *)
LEMMA ReachFacts ==
  ASSUME NEW p, IsProgram(p), NEW h \in DOMAIN p.headers
  PROVE  /\ Entries(p, h) \subseteq ReachIn(p, h) /\ ReachIn(p, h) \subseteq CodeOf(p)
         /\ \A a \in ReachIn(p, h) : Succ(p, a) \subseteq ReachIn(p, h)
         /\ \A T : Entries(p, h) \subseteq T /\ (\A a \in T \cap ReachIn(p, h) : Succ(p, a) \subseteq T)
                  => ReachIn(p, h) \subseteq T
<1> DEFINE D == DOMAIN p.instr
           next == [a \in D |-> Succ(p, a) \cap D]
<1>1. next \in [D -> SUBSET D] /\ IsFiniteSet(D) /\ ReachIn(p, h) = Closure(Entries(p, h), next)
  BY ProgramFacts DEF ReachIn
<1>2. /\ Entries(p, h) \subseteq ReachIn(p, h)
      /\ Closed(ReachIn(p, h), next)
      /\ \A T : Entries(p, h) \subseteq T /\ Closed(T, next) => ReachIn(p, h) \subseteq T
  <2> HIDE DEF next, D
  <2> QED
    BY <1>1, ClosureIsLeast
<1>3. ReachIn(p, h) \subseteq CodeOf(p)
  BY DEF CodeOf
<1>4. ASSUME NEW a \in ReachIn(p, h) PROVE Succ(p, a) \subseteq ReachIn(p, h)
  <2>1. a \in D /\ Succ(p, a) \subseteq D
    BY <1>3, ProgramFacts
  <2> QED
    BY <1>2, <2>1 DEF Closed
<1>5. ASSUME NEW T, Entries(p, h) \subseteq T,
             \A a \in T \cap ReachIn(p, h) : Succ(p, a) \subseteq T
      PROVE  ReachIn(p, h) \subseteq T
  <2>1. Closed(T \cap ReachIn(p, h), next)
    BY <1>4, <1>5 DEF Closed
  <2> HIDE DEF next, D
  <2> QED
    BY <1>2, <1>5, <2>1
<1> QED
  BY <1>2, <1>3, <1>4, <1>5

LEMMA CodeFacts ==
  ASSUME NEW p, IsProgram(p)
  PROVE  /\ \A h \in DOMAIN p.headers : Entries(p, h) \subseteq CodeOf(p)
         /\ \A a \in CodeOf(p) : Succ(p, a) \subseteq CodeOf(p)
         /\ \A T : /\ (\A h \in DOMAIN p.headers : Entries(p, h) \subseteq T)
                  /\ (\A a \in T \cap CodeOf(p) : Succ(p, a) \subseteq T)
                 => CodeOf(p) \subseteq T
<1>1. \A h \in DOMAIN p.headers : Entries(p, h) \subseteq CodeOf(p)
  BY ReachFacts
<1>2. \A a \in CodeOf(p) : Succ(p, a) \subseteq CodeOf(p)
  BY ReachFacts DEF CodeOf
<1>3. ASSUME NEW T, \A h \in DOMAIN p.headers : Entries(p, h) \subseteq T,
             \A a \in T \cap CodeOf(p) : Succ(p, a) \subseteq T,
             NEW h \in DOMAIN p.headers
      PROVE  ReachIn(p, h) \subseteq T
  <2>1. \A a \in T \cap ReachIn(p, h) : Succ(p, a) \subseteq T
    BY <1>3, ReachFacts
  <2> QED
    BY <1>3, <2>1, ReachFacts
<1> QED
  BY <1>1, <1>2, <1>3 DEF CodeOf

-----------------------------------------------------------------------------
(* The graph that is loaded *)

JumpsIn(p) == {a \in CodeOf(p) : Jumps(p, a)}
LabelsOf(p) ==
  (UNION {Entries(p, h) : h \in DOMAIN p.headers}) \cup {p.instr[a].target : a \in JumpsIn(p)}
IdOf(p, l) == Cardinality({k \in LabelsOf(p) : k < l})

LEMMA LabelFacts ==
  ASSUME NEW p, IsProgram(p)
  PROVE  /\ LabelsOf(p) \subseteq CodeOf(p) /\ IsFiniteSet(LabelsOf(p))
         /\ \A a \in JumpsIn(p) : p.instr[a].target \in LabelsOf(p)
         /\ \A h \in DOMAIN p.headers : \A i \in DOMAIN p.headers[h] :
              p.headers[h][i] = 0 \/ p.headers[h][i] \in LabelsOf(p)
         /\ 0 \notin LabelsOf(p)
<1>1. \A a \in JumpsIn(p) : p.instr[a].target \in CodeOf(p)
  BY CodeFacts DEF JumpsIn, Succ
<1>2. LabelsOf(p) \subseteq CodeOf(p)
  BY <1>1, CodeFacts DEF LabelsOf
<1>3. IsFiniteSet(LabelsOf(p))
  BY <1>2, ProgramFacts, FS_Subset
<1> QED
  <2>1. \A a \in JumpsIn(p) : p.instr[a].target \in LabelsOf(p)
    BY DEF LabelsOf
  <2>2. \A h \in DOMAIN p.headers : \A i \in DOMAIN p.headers[h] :
          p.headers[h][i] = 0 \/ p.headers[h][i] \in LabelsOf(p)
    BY DEF LabelsOf, Entries
  <2>3. 0 \notin LabelsOf(p)
    BY <1>2, ProgramFacts
  <2> QED
    BY <1>2, <1>3, <2>1, <2>2, <2>3

FirstOf(p, a) ==
  CHOOSE h \in DOMAIN p.headers :
    /\ a \in ReachIn(p, h)
    /\ \A g \in DOMAIN p.headers : a \in ReachIn(p, g) => h <= g
JumpsTo(p, l) == {a \in JumpsIn(p) : p.instr[a].target = l}
AnimsAt(p, n, l) ==
  {[header |-> <<n, h>>, type |-> "HEADER"] : h \in {g \in DOMAIN p.headers : l \in Entries(p, g)}}
  \cup {[header |-> <<n, FirstOf(p, a)>>, type |-> "JUMP"] : a \in JumpsTo(p, l)}

(* The parts of a loaded graph. *)
InstrsOf(p, n, instr) ==
  /\ DOMAIN instr = {n} \X CodeOf(p)
  /\ \A a \in CodeOf(p) :
       /\ instr[<<n, a>>].op = <<n, a>>
       /\ instr[<<n, a>>].next = IF FallsThrough(p, a) THEN <<n, a + 1>> ELSE NULL
       /\ instr[<<n, a>>].prev = IF a - 1 \in CodeOf(p) /\ FallsThrough(p, a - 1)
                                 THEN <<n, a - 1>> ELSE NULL
       /\ instr[<<n, a>>].st_entry = IF a \in LabelsOf(p) THEN <<n, a>> ELSE NULL
       /\ instr[<<n, a>>].jump = IF Jumps(p, a) THEN <<n, p.instr[a].target>> ELSE NULL

LabelsIn(p, n, label) ==
  /\ DOMAIN label = {n} \X LabelsOf(p)
  /\ \A l \in LabelsOf(p) :
       /\ label[<<n, l>>].id = IdOf(p, l)
       /\ label[<<n, l>>].bc = <<n, l>>
       /\ label[<<n, l>>].anims = AnimsAt(p, n, l)
       /\ label[<<n, l>>].jumps = {n} \X JumpsTo(p, l)

HeadersOf(p, n, headers) ==
  /\ DOMAIN headers = DOMAIN p.headers
  /\ \A h \in DOMAIN p.headers :
       /\ headers[h].ptr = <<n, h>>
       /\ DOMAIN headers[h].st_entries = DOMAIN p.headers[h]
       /\ \A i \in DOMAIN p.headers[h] : headers[h].st_entries[i] =
            IF p.headers[h][i] \in LabelsOf(p) THEN <<n, p.headers[h][i]>> ELSE NULL

SymTblOf(p, n, symtbl) ==
  /\ DOMAIN symtbl = {IdOf(p, l) : l \in LabelsOf(p)}
  /\ \A k \in {IdOf(p, l) : l \in LabelsOf(p)} :
       symtbl[k] = CHOOSE x \in {n} \X LabelsOf(p) : IdOf(p, x[2]) = k

LEMMA LoadedParts ==
  ASSUME NEW p, NEW n
  PROVE  /\ InstrsOf(p, n, LoadedGraph(p, n).instr)
         /\ LabelsIn(p, n, LoadedGraph(p, n).label)
         /\ HeadersOf(p, n, LoadedGraph(p, n).headers)
         /\ SymTblOf(p, n, LoadedGraph(p, n).symtbl)
         /\ LoadedGraph(p, n).uniq_id = Cardinality(LabelsOf(p))
<1>1. InstrsOf(p, n, LoadedGraph(p, n).instr)
  BY ZenonT(60) DEF LoadedGraph, LabelsOf, JumpsIn, InstrsOf
<1>2. LabelsIn(p, n, LoadedGraph(p, n).label)
  BY ZenonT(60) DEF LoadedGraph, LabelsOf, JumpsIn, IdOf, FirstOf, JumpsTo, AnimsAt, LabelsIn
<1>3. HeadersOf(p, n, LoadedGraph(p, n).headers)
  BY ZenonT(60) DEF LoadedGraph, LabelsOf, JumpsIn, HeadersOf
<1>4. SymTblOf(p, n, LoadedGraph(p, n).symtbl)
  BY DEF LoadedGraph, LabelsOf, JumpsIn, IdOf, SymTblOf
<1>5. LoadedGraph(p, n).uniq_id = Cardinality(LabelsOf(p))
  BY DEF LoadedGraph, LabelsOf, JumpsIn
<1> QED
  BY <1>1, <1>2, <1>3, <1>4, <1>5

(* The label of a jump knows a header that leads there. *)
LEMMA FirstFacts ==
  ASSUME NEW p, IsProgram(p), NEW a \in CodeOf(p)
  PROVE  FirstOf(p, a) \in DOMAIN p.headers /\ a \in ReachIn(p, FirstOf(p, a))
<1> DEFINE T == {h \in DOMAIN p.headers : a \in ReachIn(p, h)}
<1>1. T \subseteq Nat /\ T # {}
  BY DEF CodeOf, IsProgram
<1>2. \E h \in T : \A g \in T : h <= g
  BY <1>1, LeastNumber
<1>3. \E h \in DOMAIN p.headers : /\ a \in ReachIn(p, h)
                                 /\ \A g \in DOMAIN p.headers : a \in ReachIn(p, g) => h <= g
  BY <1>2
<1> QED
  BY <1>3, Zenon DEF FirstOf

(* The ids of the labels count them.                                       *)
LEMMA IdFacts ==
  ASSUME NEW p, IsProgram(p), NEW l \in LabelsOf(p)
  PROVE  /\ IdOf(p, l) \in Nat /\ IdOf(p, l) < Cardinality(LabelsOf(p))
         /\ Cardinality(LabelsOf(p)) \in Nat
         /\ \A m \in LabelsOf(p) : l < m => IdOf(p, l) < IdOf(p, m)
<1> DEFINE Below(x) == {k \in LabelsOf(p) : k < x}
<1>1. LabelsOf(p) \subseteq Nat /\ IsFiniteSet(LabelsOf(p))
  BY LabelFacts, ProgramFacts
<1>2. \A x : Below(x) \in SUBSET LabelsOf(p)
  OBVIOUS
<1>3. \A x : IsFiniteSet(Below(x)) /\ Cardinality(Below(x)) \in Nat
  BY <1>1, <1>2, FS_Subset, FS_CardinalityType
<1>4. ASSUME NEW S \in SUBSET LabelsOf(p), IsFiniteSet(S), Below(l) \subseteq S, l \in S
      PROVE  Cardinality(Below(l)) < Cardinality(S)
  <2>1. l \notin Below(l)
    BY <1>1
  <2>2. /\ IsFiniteSet(Below(l) \cup {l})
        /\ Cardinality(Below(l) \cup {l}) = Cardinality(Below(l)) + 1
    BY <1>3, <2>1, FS_AddElement
  <2>3. Cardinality(Below(l) \cup {l}) <= Cardinality(S)
    BY <1>4, FS_Subset
  <2>4. Cardinality(S) \in Nat
    BY <1>4, FS_CardinalityType
  <2> QED
    BY <1>3, <2>2, <2>3, <2>4
<1>5. ASSUME NEW m \in LabelsOf(p), l < m
      PROVE  Cardinality(Below(l)) < Cardinality(Below(m))
  <2>1. Below(l) \subseteq Below(m) /\ l \in Below(m)
    BY <1>1, <1>5
  <2> QED
    BY <1>2, <1>3, <1>4, <2>1
<1>6. Cardinality(Below(l)) < Cardinality(LabelsOf(p)) /\ Cardinality(LabelsOf(p)) \in Nat
  BY <1>1, <1>2, <1>4, FS_CardinalityType
<1> QED
  BY <1>3, <1>5, <1>6 DEF IdOf

(* What is loaded agrees: every pointer has its back pointer, and the      *)
(* symbol table holds the labels under their ids.                          *)
LEMMA LoadedInstrsAgree ==
  ASSUME NEW p, IsProgram(p), NEW n \in Nat, NEW instr, NEW label,
         InstrsOf(p, n, instr), LabelsIn(p, n, label)
  PROVE  InstrsAgree(instr, label)
<1> SUFFICES ASSUME NEW a \in CodeOf(p), NEW x, x = <<n, a>>
             PROVE  /\ instr[x].next # NULL =>
                         instr[x].next \in DOMAIN instr /\ instr[instr[x].next].prev = x
                    /\ instr[x].prev # NULL =>
                         instr[x].prev \in DOMAIN instr /\ instr[instr[x].prev].next = x
                    /\ instr[x].st_entry # NULL =>
                         instr[x].st_entry \in DOMAIN label /\ label[instr[x].st_entry].bc = x
                    /\ instr[x].jump # NULL =>
                         instr[x].jump \in DOMAIN label /\ x \in label[instr[x].jump].jumps
  BY DEF InstrsAgree, InstrsOf
<1>1. a \in Nat \ {0} /\ CodeOf(p) \subseteq Nat
  BY ProgramFacts
<1>2. (a + 1) - 1 = a /\ (a - 1) + 1 = a
  BY <1>1
<1>3. ASSUME instr[x].next # NULL
      PROVE  instr[x].next \in DOMAIN instr /\ instr[instr[x].next].prev = x
  <2>1. FallsThrough(p, a) /\ instr[x].next = <<n, a + 1>>
    BY <1>3 DEF InstrsOf
  <2>2. a + 1 \in CodeOf(p)
    BY <2>1, CodeFacts DEF Succ
  <2> QED
    BY <1>2, <2>1, <2>2 DEF InstrsOf
<1>4. ASSUME instr[x].prev # NULL
      PROVE  instr[x].prev \in DOMAIN instr /\ instr[instr[x].prev].next = x
  <2>1. a - 1 \in CodeOf(p) /\ FallsThrough(p, a - 1) /\ instr[x].prev = <<n, a - 1>>
    BY <1>4 DEF InstrsOf
  <2> QED
    BY <1>2, <2>1 DEF InstrsOf
<1>5. ASSUME instr[x].st_entry # NULL
      PROVE  instr[x].st_entry \in DOMAIN label /\ label[instr[x].st_entry].bc = x
  <2>1. a \in LabelsOf(p) /\ instr[x].st_entry = x
    BY <1>5 DEF InstrsOf
  <2> QED
    BY <2>1 DEF LabelsIn
<1>6. ASSUME instr[x].jump # NULL
      PROVE  instr[x].jump \in DOMAIN label /\ x \in label[instr[x].jump].jumps
  <2>1. Jumps(p, a) /\ instr[x].jump = <<n, p.instr[a].target>>
    BY <1>6 DEF InstrsOf
  <2>2. p.instr[a].target \in LabelsOf(p) /\ a \in JumpsTo(p, p.instr[a].target)
    BY <2>1, LabelFacts DEF JumpsIn, JumpsTo
  <2> QED
    BY <2>1, <2>2 DEF LabelsIn
<1> QED
  BY <1>3, <1>4, <1>5, <1>6

LEMMA LoadedLabelsAgree ==
  ASSUME NEW p, IsProgram(p), NEW n \in Nat, NEW instr, NEW label,
         InstrsOf(p, n, instr), LabelsIn(p, n, label)
  PROVE  LabelsAgree(instr, label)
<1> SUFFICES ASSUME NEW l \in LabelsOf(p), NEW x, x = <<n, l>>
             PROVE  /\ label[x].bc \in DOMAIN instr /\ instr[label[x].bc].st_entry = x
                    /\ \A j \in label[x].jumps : j \in DOMAIN instr /\ instr[j].jump = x
  BY DEF LabelsAgree, LabelsIn
<1>1. label[x].bc = x /\ label[x].jumps = {n} \X JumpsTo(p, l) /\ l \in CodeOf(p)
  BY LabelFacts DEF LabelsIn
<1>2. instr[x].st_entry = x /\ x \in DOMAIN instr
  BY <1>1 DEF InstrsOf
<1>3. ASSUME NEW a \in JumpsTo(p, l)
      PROVE  <<n, a>> \in DOMAIN instr /\ instr[<<n, a>>].jump = x
  BY DEF JumpsTo, JumpsIn, InstrsOf
<1> QED
  BY <1>1, <1>2, <1>3

LEMMA LoadedHeadersAgree ==
  ASSUME NEW p, IsProgram(p), NEW n \in Nat, NEW headers, NEW label,
         HeadersOf(p, n, headers), LabelsIn(p, n, label)
  PROVE  HeadersAgree(headers, label)
<1>1. ASSUME NEW h \in DOMAIN headers, NEW i \in DOMAIN headers[h].st_entries,
             NEW st, st = headers[h].st_entries[i], st # NULL
      PROVE  /\ st \in DOMAIN label
             /\ [header |-> headers[h].ptr, type |-> "HEADER"] \in label[st].anims
  <2>1. h \in DOMAIN p.headers /\ i \in DOMAIN p.headers[h] /\ headers[h].ptr = <<n, h>>
    BY DEF HeadersOf
  <2>2. PICK l \in LabelsOf(p) : l = p.headers[h][i] /\ st = <<n, l>>
    BY <1>1, <2>1 DEF HeadersOf
  <2>3. l \in Entries(p, h)
    BY <2>1, <2>2, LabelFacts DEF Entries
  <2> QED
    BY <2>1, <2>2, <2>3 DEF AnimsAt, LabelsIn
<1>2. ASSUME NEW l \in LabelsOf(p), NEW st, st = <<n, l>>, NEW an \in label[st].anims
      PROVE  \E h \in DOMAIN headers :
               /\ an.header = headers[h].ptr
               /\ an.type = "HEADER" =>
                    \E i \in DOMAIN headers[h].st_entries : headers[h].st_entries[i] = st
  <2>0. an \in AnimsAt(p, n, l)
    BY <1>2 DEF LabelsIn
  <2>1. CASE \E h \in DOMAIN p.headers : /\ l \in Entries(p, h)
                                        /\ an = [header |-> <<n, h>>, type |-> "HEADER"]
    <3>1. PICK h \in DOMAIN p.headers : /\ l \in Entries(p, h)
                                        /\ an = [header |-> <<n, h>>, type |-> "HEADER"]
      BY <2>1
    <3>2. PICK i \in DOMAIN p.headers[h] : p.headers[h][i] = l
      BY <3>1 DEF Entries
    <3>3. i \in DOMAIN headers[h].st_entries /\ headers[h].st_entries[i] = st
      BY <1>2, <3>2 DEF HeadersOf
    <3> QED
      BY <3>1, <3>3 DEF HeadersOf
  <2>2. CASE \E a \in JumpsTo(p, l) : an = [header |-> <<n, FirstOf(p, a)>>, type |-> "JUMP"]
    BY <2>2, FirstFacts DEF JumpsTo, JumpsIn, HeadersOf
  <2> QED
    BY <2>0, <2>1, <2>2 DEF AnimsAt
<1>3. DOMAIN label = {n} \X LabelsOf(p)
  BY DEF LabelsIn
<1> QED
  BY <1>1, <1>2, <1>3 DEF HeadersAgree

LEMMA LoadedSymTblAgrees ==
  ASSUME NEW p, IsProgram(p), NEW n \in Nat, NEW symtbl, NEW label,
         SymTblOf(p, n, symtbl), LabelsIn(p, n, label)
  PROVE  SymTblAgrees(symtbl, Cardinality(LabelsOf(p)), label)
<1>1. ASSUME NEW l \in LabelsOf(p), NEW m \in LabelsOf(p), IdOf(p, l) = IdOf(p, m)
      PROVE  l = m
  <2>1. l \in Nat /\ m \in Nat
    BY LabelFacts, ProgramFacts
  <2>2. ~ (l < m) /\ ~ (m < l)
    BY <1>1, IdFacts
  <2> QED
    BY <2>1, <2>2
<1>2. ASSUME NEW l \in LabelsOf(p)
      PROVE  IdOf(p, l) \in DOMAIN symtbl /\ symtbl[IdOf(p, l)] = <<n, l>>
  <2>1. \A x \in {n} \X LabelsOf(p) : IdOf(p, x[2]) = IdOf(p, l) => x = <<n, l>>
    BY <1>1
  <2>2. (CHOOSE x \in {n} \X LabelsOf(p) : IdOf(p, x[2]) = IdOf(p, l)) = <<n, l>>
    BY <2>1
  <2>3. symtbl[IdOf(p, l)] = CHOOSE x \in {n} \X LabelsOf(p) : IdOf(p, x[2]) = IdOf(p, l)
    BY Zenon DEF SymTblOf
  <2> QED
    BY <2>2, <2>3 DEF SymTblOf
<1>3. ASSUME NEW l \in LabelsOf(p)
      PROVE  IdOf(p, l) < Cardinality(LabelsOf(p)) /\ label[<<n, l>>].id = IdOf(p, l)
  BY IdFacts DEF LabelsIn
<1>4. DOMAIN symtbl = {IdOf(p, l) : l \in LabelsOf(p)}
  BY DEF SymTblOf
<1>5. {symtbl[k] : k \in DOMAIN symtbl} = {n} \X LabelsOf(p)
  <2>1. {symtbl[k] : k \in DOMAIN symtbl} = {symtbl[IdOf(p, l)] : l \in LabelsOf(p)}
    BY <1>4
  <2>2. {symtbl[IdOf(p, l)] : l \in LabelsOf(p)} = {<<n, l>> : l \in LabelsOf(p)}
    BY <1>2
  <2> QED
    BY <2>1, <2>2
<1>6. \A k \in DOMAIN symtbl : k < Cardinality(LabelsOf(p)) /\ label[symtbl[k]].id = k
  BY <1>2, <1>3, <1>4
<1> QED
  BY <1>5, <1>6 DEF SymTblAgrees, LabelsIn
=============================================================================
