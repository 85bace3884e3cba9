------------------------- MODULE IscriptLoadProofs -------------------------
(***************************************************************************)
(* Proofs about IscriptLoad, for every set of files: the types; the walk   *)
(* of read_code, which reads what the animations can reach and misses      *)
(* nothing of it; and what iscript_new gives back.  Then the modules that  *)
(* the programs are built on: the memory files that it reads               *)
(* (MemoryFileClient), the queues (Queues), the lists (Lists) and the hash *)
(* tables (HashTables).                                                    *)
(***************************************************************************)
EXTENDS IscriptLoad, MemoryFileClient, Containers, FiniteSetTheorems, TLAPS

(* What a readable offset decodes to.                                      *)
LEMMA ReadableFacts ==
  ASSUME IsFile(file), NEW a \in Addr
  PROVE  /\ file.size \in Nat
         /\ Readable(a) => /\ a \in Nat /\ a < file.size
                           /\ Ins(a).len \in Nat \ {0}
                           /\ a + Ins(a).len \in Addr
                           /\ Ins(a).target \in Nat
                           /\ Ins(a).numargs \in Nat
                           /\ Ins(a).kind \in {"normal", "jmp", "cond", "term"}
<1>1. file.size \in Nat
  BY DEF IsFile
<1>2. a \in Nat /\ a \in Int
  BY <1>1 DEF Addr
<1>3. ASSUME Readable(a)
      PROVE  file.instr[a] \in [kind : {"normal", "jmp", "cond", "term", "bad"},
                                len : Nat \ {0}, numargs : Nat, target : Nat]
  <2>1. a \in 0 .. file.size - 1
    BY <1>1, <1>2, <1>3 DEF Readable
  <2> QED
    BY <2>1 DEF IsFile
<1> QED
  BY <1>1, <1>2, <1>3 DEF Readable, Ins, Addr

(* The types of single variables, without the quantifiers of TypeOK.       *)
LEMMA TypeFacts ==
  ASSUME TypeOK
  PROVE  /\ IsFile(file) /\ file.size \in Nat
         /\ animno \in Nat /\ pos \in Addr /\ todo \in Seq(Nat)
         /\ cur \in {0} \cup DOMAIN headers /\ cur \in Nat
         /\ DOMAIN headers = DOMAIN file.table /\ DOMAIN headers \subseteq Nat \ {0}
         /\ code \in [DOMAIN code -> IsInstr] /\ DOMAIN code \subseteq Addr
         /\ symtbl \in [DOMAIN symtbl -> IsSymTblEnt] /\ DOMAIN symtbl \subseteq Nat
         /\ unique_id \in Nat
         /\ li \in Nat /\ li <= file.size + 1 /\ last \in Pointer
         /\ Addr \subseteq Nat
<1>1. /\ IsFile(file)
      /\ animno \in Nat /\ pos \in Addr /\ todo \in Seq(Nat)
      /\ code \in [DOMAIN code -> IsInstr] /\ DOMAIN code \subseteq Addr
      /\ symtbl \in [DOMAIN symtbl -> IsSymTblEnt] /\ DOMAIN symtbl \subseteq Nat
      /\ unique_id \in Nat
  BY DEF TypeOK
<1>2. cur \in {0} \cup DOMAIN headers
  BY DEF TypeOK
<1>3. DOMAIN headers = DOMAIN file.table
  BY DEF TypeOK
<1>4. li \in 0 .. file.size + 1
  BY DEF TypeOK
<1>5. last \in Addr \cup {NULL}
  BY DEF TypeOK
<1>6. file.size \in Nat /\ DOMAIN file.table \subseteq Nat \ {0}
  BY <1>1 DEF IsFile
<1>7. Addr \subseteq Nat
  BY <1>6 DEF Addr
<1>8. cur \in Nat
  BY <1>2, <1>3, <1>6
<1>9. li \in Nat /\ li <= file.size + 1
  BY <1>4, <1>6
<1>10. last \in Pointer
  BY <1>5, <1>7 DEF Pointer
<1> QED
  BY <1>1, <1>2, <1>3, <1>6, <1>7, <1>8, <1>9, <1>10

(* The empty table is a function of every kind. *)
LEMMA EmptyFacts == DOMAIN Empty = {} /\ \A R : Empty \in [{} -> R]
  BY DEF Empty

(* iscript_new starts in a state of the right types. *)
LEMMA InitType == Init => TypeOK
<1> SUFFICES ASSUME Init PROVE TypeOK
  OBVIOUS
<1>1. IsFile(file)
  BY LoadAssumption DEF Init
<1>2. headers \in [DOMAIN file.table ->
                    {"unread", "none", "live", "freed", "freed twice"}]
  BY DEF Init
<1>3. /\ DOMAIN st_entries = DOMAIN headers
      /\ \A h \in DOMAIN headers : st_entries[h] \in [AnimsOf(h) -> Pointer]
  BY DEF Init, Pointer
<1>4. /\ DOMAIN code \subseteq Addr /\ code \in [DOMAIN code -> IsInstr]
      /\ DOMAIN symtbl \subseteq Nat /\ symtbl \in [DOMAIN symtbl -> IsSymTblEnt]
      /\ DOMAIN byid \subseteq Nat /\ byid \in [DOMAIN byid -> Nat]
  BY EmptyFacts DEF Init
<1>5. /\ pc = "table" /\ cur = 0 /\ animno = 0 /\ pos = 0 /\ todo = <<>>
      /\ unique_id = 0 /\ li = 0 /\ last = NULL
  BY DEF Init
<1>6. /\ pos \in Addr /\ li \in 0 .. file.size + 1
      /\ cur \in {0} \cup DOMAIN headers
  BY <1>1, <1>5 DEF Addr, IsFile
<1>7. todo \in Seq(Nat) /\ animno \in Nat /\ unique_id \in Nat
  BY <1>5
<1>8. pc \in {"table", "headers", "anims", "read", "link", "done", "error"}
  BY <1>5
<1> QED
  BY <1>1, <1>2, <1>3, <1>4, <1>5, <1>6, <1>7, <1>8 DEF TypeOK

(* err_free_headers only marks arrays as freed.                            *)
LEMMA FailType == TypeOK /\ Fail => TypeOK'
<1> SUFFICES ASSUME TypeOK, Fail PROVE TypeOK'
  OBVIOUS
<1>1. headers' \in [DOMAIN file.table ->
                     {"unread", "none", "live", "freed", "freed twice"}]
  BY DEF Fail, TypeOK
<1>2. /\ DOMAIN code' = {} /\ code' \in [DOMAIN code' -> IsInstr']
      /\ DOMAIN symtbl' = {} /\ symtbl' \in [DOMAIN symtbl' -> IsSymTblEnt']
  BY EmptyFacts DEF Fail
<1>3. \A h : AnimsOf(h)' = AnimsOf(h)
  BY DEF Fail, AnimsOf
<1>4. UNCHANGED <<file, st_entries, cur, animno, pos, todo, unique_id, li, last,
                  byid>> /\ pc' = "error"
  BY DEF Fail, walk, reader, links
<1>5. DOMAIN st_entries' = DOMAIN headers'
      /\ \A h \in DOMAIN headers' : st_entries'[h] \in [AnimsOf(h)' -> Pointer]
  BY <1>1, <1>3, <1>4 DEF TypeOK
<1> QED
  BY <1>1, <1>2, <1>4, <1>5 DEF TypeOK, Addr, Pointer

(* code[start] = bc keeps the table of instructions.                       *)
LEMMA StoreType ==
  ASSUME TypeOK, NEW next \in {NULL, PENDING}, Store(next)
  PROVE  /\ DOMAIN code' = DOMAIN code \cup {pos}
         /\ DOMAIN code' \subseteq Addr
         /\ code' \in [DOMAIN code' -> IsInstr]
         /\ code'[pos].next = next
         /\ \A a \in DOMAIN code \ {pos} : code'[a] = code[a]
<1> DEFINE bc == [next |-> next, prev |-> NULL, st_entry |-> NULL, jump |-> NULL]
<1>1. bc \in IsInstr
  BY DEF IsInstr, Pointer
<1>2. code' = [x \in DOMAIN code \cup {pos} |-> IF x = pos THEN bc ELSE code[x]]
  BY DEF Store, Put
<1>3. bc.next = next
  OBVIOUS
<1> QED
  BY <1>1, <1>2, <1>3 DEF TypeOK

(* Referring to a label, new or old, keeps the table of labels; an old     *)
(* label keeps its id and its references.                                  *)
LEMMA ReferType ==
  ASSUME TypeOK, NEW a \in Nat, NEW anim \in IsAnim, NEW jumps \in SUBSET Addr,
         Refer(a, anim, jumps)
  PROVE  /\ DOMAIN symtbl' = DOMAIN symtbl \cup {a}
         /\ DOMAIN symtbl' \subseteq Nat
         /\ symtbl' \in [DOMAIN symtbl' -> IsSymTblEnt]
         /\ unique_id' \in Nat /\ unique_id <= unique_id'
         /\ a \in DOMAIN symtbl =>
              /\ symtbl'[a].id = symtbl[a].id
              /\ symtbl'[a].anims = symtbl[a].anims \cup {anim}
              /\ symtbl'[a].jumps = symtbl[a].jumps \cup jumps
              /\ unique_id' = unique_id
         /\ a \notin DOMAIN symtbl =>
              /\ symtbl'[a].id = unique_id
              /\ symtbl'[a].anims = {anim}
              /\ symtbl'[a].jumps = jumps
              /\ unique_id' = unique_id + 1
         /\ \A l \in DOMAIN symtbl \ {a} : symtbl'[l] = symtbl[l]
<1>0. unique_id \in Nat /\ DOMAIN symtbl \subseteq Nat
      /\ symtbl \in [DOMAIN symtbl -> IsSymTblEnt]
  BY DEF TypeOK
<1>1. CASE a \in DOMAIN symtbl
  <2> DEFINE e == AddReference(symtbl[a], anim, jumps)
  <2>1. symtbl' = [symtbl EXCEPT ![a] = e]
    BY <1>1 DEF Refer
  <2>2. symtbl[a] \in IsSymTblEnt
    BY <1>0, <1>1
  <2>3. /\ e \in IsSymTblEnt
        /\ e.id = symtbl[a].id
        /\ e.anims = symtbl[a].anims \cup {anim}
        /\ e.jumps = symtbl[a].jumps \cup jumps
    BY <2>2 DEF AddReference, IsSymTblEnt
  <2>4. unique_id' = unique_id
    BY <1>1 DEF Refer, NextId
  <2> HIDE DEF e
  <2>5. DOMAIN symtbl' = DOMAIN symtbl /\ DOMAIN symtbl = DOMAIN symtbl \cup {a}
    BY <1>1, <2>1
  <2>6. symtbl' \in [DOMAIN symtbl -> IsSymTblEnt]
    BY <1>0, <2>1, <2>3
  <2>7. symtbl'[a] = e /\ \A l \in DOMAIN symtbl \ {a} : symtbl'[l] = symtbl[l]
    BY <1>0, <1>1, <2>1
  <2>8. unique_id <= unique_id'
    BY <1>0, <2>4
  <2> QED
    BY <1>0, <1>1, <2>3, <2>4, <2>5, <2>6, <2>7, <2>8
<1>2. CASE a \notin DOMAIN symtbl
  <2> DEFINE e == NewLabel(anim, jumps)
  <2>1. symtbl' = [x \in DOMAIN symtbl \cup {a} |-> IF x = a THEN e ELSE symtbl[x]]
    BY <1>2 DEF Refer, Put
  <2>2. /\ e \in IsSymTblEnt
        /\ e.id = unique_id /\ e.anims = {anim} /\ e.jumps = jumps
    BY <1>0 DEF NewLabel, IsSymTblEnt, Pointer
  <2>3. unique_id' = unique_id + 1
    BY <1>2 DEF Refer, NextId
  <2> HIDE DEF e
  <2> QED
    BY <1>0, <1>2, <2>1, <2>2, <2>3
<1> QED
  BY <1>1, <1>2

(* Where read_code goes on: nothing but pos, todo, animno and pc changes.  *)
LEMMA ContinueType ==
  ASSUME TypeOK, pc = "read", Return \/ Pluck
  PROVE  /\ pc' \in {"anims", "read"} /\ animno' \in Nat
         /\ pos' \in Addr /\ todo' \in Seq(Nat)
<1>1. CASE Return
  BY <1>1, TypeFacts DEF Return, reader
<1>2. CASE Pluck
  <2>1. todo \in Seq(Nat) /\ todo # <<>> /\ file.size \in Nat
    BY <1>2, TypeFacts DEF Pluck
  <2>2. Head(todo) \in Nat /\ Tail(todo) \in Seq(Nat)
    BY <2>1
  <2>3. pos' = Head(todo) /\ todo' = Tail(todo) /\ Head(todo) <= file.size
        /\ pc' = pc /\ animno' = animno
    BY <1>2 DEF Pluck, CanSeek
  <2>4. pos' \in Addr
    BY <2>1, <2>2, <2>3 DEF Addr
  <2> QED
    BY <2>2, <2>3, <2>4, TypeFacts
<1> QED
  BY <1>1, <1>2

(* The link pass and the rehash keep the types: links stay inside the      *)
(* file.                                                                   *)
LEMMA LinkType == TypeOK /\ (LinkSkip \/ LinkInstr \/ Rehash) => TypeOK'
<1> SUFFICES ASSUME TypeOK, LinkSkip \/ LinkInstr \/ Rehash PROVE TypeOK'
  OBVIOUS
<1>0. /\ file.size \in Nat /\ li \in Nat
      /\ code \in [DOMAIN code -> IsInstr] /\ DOMAIN code \subseteq Addr
      /\ symtbl \in [DOMAIN symtbl -> IsSymTblEnt] /\ DOMAIN symtbl \subseteq Nat
  BY TypeFacts
<1>1. CASE LinkSkip
  <2>1. li' \in 0 .. file.size + 1
    BY <1>0, <1>1 DEF LinkSkip
  <2> QED
    BY <1>1, <2>1 DEF LinkSkip, TypeOK, hdrVars, walk, reader, graph, Addr, AnimsOf,
                      IsSymTblEnt
<1>2. CASE LinkInstr
  <2>1. li' \in 0 .. file.size + 1 /\ li \in Addr
    BY <1>0, <1>2 DEF LinkInstr, Addr
  <2>2. last' \in Addr \cup {NULL}
    BY <1>2, <2>1 DEF LinkInstr, RunsOn
  <2>3. DOMAIN code' = DOMAIN code /\ code' \in [DOMAIN code -> IsInstr]
    <3>1. last \in Pointer /\ li \in Nat
      BY TypeFacts
    <3>2. ASSUME NEW a \in DOMAIN code PROVE code[a] \in IsInstr
      BY <1>0
    <3>3. Ins(li).target \in DOMAIN symtbl => Ins(li).target \in Pointer
      BY <1>0 DEF Pointer
    <3>4. ASSUME NEW next \in Pointer \cup {PENDING}, NEW st \in Pointer,
                 NEW jump \in Pointer
          PROVE  [next |-> next, prev |-> last, st_entry |-> st, jump |-> jump] \in IsInstr
      BY <3>1 DEF IsInstr
    <3>5. code[li].next \in Pointer \cup {PENDING}
      BY <1>2, <3>2 DEF LinkInstr, IsInstr
    <3>6. ASSUME NEW a \in DOMAIN code PROVE [code[a] EXCEPT !.next = li] \in IsInstr
      BY <3>1, <3>2 DEF IsInstr, Pointer
    <3>7. NULL \in Pointer /\ li \in Pointer
      BY <3>1 DEF Pointer
    <3>8. ASSUME NEW a \in DOMAIN code PROVE code'[a] \in IsInstr
      BY <1>2, <3>2, <3>3, <3>4, <3>5, <3>6, <3>7 DEF LinkInstr
    <3> QED
      BY <1>2, <3>8 DEF LinkInstr
  <2>4. DOMAIN symtbl' = DOMAIN symtbl /\ symtbl' \in [DOMAIN symtbl -> IsSymTblEnt]
    <3>1. ASSUME li \in DOMAIN symtbl
          PROVE  [symtbl[li] EXCEPT !.bc = li] \in IsSymTblEnt
      BY <1>0, <3>1 DEF IsSymTblEnt, Pointer
    <3> QED
      BY <1>0, <1>2, <3>1 DEF LinkInstr
  <2>5. UNCHANGED <<file, pc, headers, st_entries, cur, animno, pos, todo, unique_id, byid>>
    BY <1>2 DEF LinkInstr, hdrVars, walk, reader
  <2> QED
    BY <1>0, <2>1, <2>2, <2>3, <2>4, <2>5 DEF TypeOK, Addr, AnimsOf, IsSymTblEnt
<1>3. CASE Rehash
  <2>1. DOMAIN byid' = {symtbl[a].id : a \in DOMAIN symtbl}
    BY <1>3 DEF Rehash
  <2>2. ASSUME NEW a \in DOMAIN symtbl PROVE symtbl[a].id \in Nat
    BY <1>0 DEF IsSymTblEnt
  <2>3. ASSUME NEW i \in DOMAIN byid' PROVE byid'[i] \in Nat
    <3>1. PICK a \in DOMAIN symtbl : symtbl[a].id = i
      BY <2>1
    <3>2. byid'[i] = CHOOSE x \in DOMAIN symtbl : symtbl[x].id = i
      BY <1>3, <2>1 DEF Rehash
    <3> QED
      BY <1>0, <3>1, <3>2
  <2>4. byid' \in [DOMAIN byid' -> Nat]
    BY <1>3, <2>1, <2>3 DEF Rehash
  <2>5. DOMAIN byid' \subseteq Nat
    BY <2>1, <2>2
  <2> QED
    BY <1>0, <1>3, <2>4, <2>5 DEF Rehash, TypeOK, hdrVars, walk, reader, graph, Addr,
                                  AnimsOf, IsSymTblEnt
<1> QED
  BY <1>1, <1>2, <1>3

(* load_headers and the loops over headers and animations keep the types. *)
LEMMA HeadersType ==
  ASSUME TypeOK,
         \/ \E h \in DOMAIN headers : ReadTableEntry(h) \/ ReadHeader(h) \/ EnterHeader(h)
         \/ TableEnd \/ HeadersRead \/ SkipAnim \/ LeaveHeader \/ CodeRead
  PROVE  TypeOK'
<1> DEFINE Status == {"unread", "none", "live", "freed", "freed twice"}
<1>0. headers \in [DOMAIN file.table -> Status]
  BY DEF TypeOK
<1>1. CASE Fail
  BY <1>1, FailType
<1>2. CASE ~Fail
  <2>1. /\ UNCHANGED <<file, st_entries, pos, todo, code, symtbl, unique_id, li, last,
                       byid>>
        /\ pc' \in {pc, "headers", "anims", "link"}
    BY <1>2 DEF ReadTableEntry, ReadHeader, EnterHeader, TableEnd, HeadersRead, SkipAnim,
                LeaveHeader, CodeRead, hdrVars, walk, reader, graph, links
  <2>2. headers' \in [DOMAIN file.table -> Status]
    <3>1. \A h, s : s \in Status =>
             [headers EXCEPT ![h] = s] \in [DOMAIN file.table -> Status]
      BY <1>0
    <3>2. headers' = headers \/ \E h, s : s \in Status /\ headers' = [headers EXCEPT ![h] = s]
      BY <1>2 DEF ReadTableEntry, ReadHeader, EnterHeader, TableEnd, HeadersRead, SkipAnim,
                  LeaveHeader, CodeRead, hdrVars
    <3> QED
      BY <1>0, <3>1, <3>2
  <2>3. cur' \in {0} \cup DOMAIN headers
    <3>1. cur \in {0} \cup DOMAIN headers
      BY DEF TypeOK
    <3> QED
      BY <1>2, <3>1 DEF ReadTableEntry, ReadHeader, EnterHeader, TableEnd, HeadersRead,
                SkipAnim, LeaveHeader, CodeRead, walk
  <2>4. animno' \in Nat
    <3>1. animno \in Nat
      BY TypeFacts
    <3> QED
      BY <1>2, <3>1 DEF ReadTableEntry, ReadHeader, EnterHeader, TableEnd, HeadersRead,
                SkipAnim, LeaveHeader, CodeRead, walk
  <2>5. /\ Addr' = Addr /\ IsSymTblEnt' = IsSymTblEnt
        /\ \A h : AnimsOf(h)' = AnimsOf(h)
    BY <2>1 DEF Addr, AnimsOf, IsSymTblEnt
  <2>6. DOMAIN headers' = DOMAIN headers
    BY <1>0, <2>2
  <2> QED
    BY <2>1, <2>2, <2>3, <2>4, <2>5, <2>6 DEF TypeOK
<1> QED
  BY <1>1, <1>2

(* Entering an animation and every branch of read_code keep the types: the *)
(* reader never leaves the file.                                           *)
LEMMA ReadType ==
  ASSUME TypeOK,
         \/ EnterAnim \/ SeenBefore \/ ReadFails
         \/ ReadNormal \/ ReadJmp \/ ReadCondJmp \/ ReadTerm
  PROVE  TypeOK'
<1>1. CASE Fail
  BY <1>1, FailType
<1>2. CASE ~Fail
  <2>0. /\ animno \in Nat /\ pos \in Addr /\ todo \in Seq(Nat) /\ unique_id \in Nat
        /\ cur \in Nat /\ file.size \in Nat /\ Addr \subseteq Nat
    BY TypeFacts
  <2>1. /\ UNCHANGED <<file, headers, cur, li, last, byid>>
        /\ ~EnterAnim => UNCHANGED st_entries
        /\ EnterAnim \/ SeenBefore => UNCHANGED code
        /\ SeenBefore \/ ReadNormal \/ ReadTerm => UNCHANGED <<symtbl, unique_id>>
    BY <1>2 DEF EnterAnim, SeenBefore, ReadFails, ReadNormal, ReadJmp, ReadCondJmp, ReadTerm,
                hdrVars, walk, graph, links
  <2>2. /\ Addr' = Addr /\ IsSymTblEnt' = IsSymTblEnt
        /\ \A h : AnimsOf(h)' = AnimsOf(h)
    BY <2>1 DEF Addr, AnimsOf, IsSymTblEnt
  <2>3. DOMAIN code' \subseteq Addr /\ code' \in [DOMAIN code' -> IsInstr]
    <3>1. CASE EnterAnim \/ SeenBefore
      BY <2>1, <3>1, TypeFacts
    <3>2. CASE ~(EnterAnim \/ SeenBefore)
      <4>1. \E next \in {NULL, PENDING} : Store(next)
        BY <1>2, <3>2 DEF ReadFails, ReadNormal, ReadJmp, ReadCondJmp, ReadTerm
      <4> QED
        BY <4>1, StoreType
    <3> QED
      BY <3>1, <3>2
  <2>4. /\ DOMAIN symtbl' \subseteq Nat /\ symtbl' \in [DOMAIN symtbl' -> IsSymTblEnt]
        /\ unique_id' \in Nat
    <3>1. CASE SeenBefore \/ ReadNormal \/ ReadTerm
      BY <2>1, <3>1, TypeFacts
    <3>2. CASE EnterAnim
      <4>1. Refer(Offset(cur, animno), Anim(animno, "HEADER"), {})
        BY <1>2, <3>2 DEF EnterAnim
      <4>2. Offset(cur, animno) \in Nat
        <5>1. cur \in DOMAIN file.table /\ animno \in AnimsOf(cur)
          BY <3>2, <2>0 DEF EnterAnim, TypeOK
        <5> QED
          BY <5>1 DEF TypeOK, IsFile, Offset, AnimsOf
      <4>3. Anim(animno, "HEADER") \in IsAnim
        BY <2>0 DEF Anim, IsAnim
      <4>4. {} \in SUBSET Addr
        OBVIOUS
      <4> QED
        BY <4>1, <4>2, <4>3, <4>4, ReferType
    <3>3. CASE ReadJmp \/ ReadCondJmp
      <4> DEFINE a == Ins(pos).target
      <4>1. Readable(pos) /\ \E n \in {animno, Ins(pos).numargs} :
               Refer(a, Anim(n, JumpType(pos, a)), {pos})
        BY <1>2, <3>3 DEF ReadJmp, ReadCondJmp, Reading
      <4>2. a \in Nat /\ Ins(pos).numargs \in Nat
        BY <4>1, <2>0, ReadableFacts, TypeFacts
      <4>3. PICK n \in Nat : Refer(a, Anim(n, JumpType(pos, a)), {pos})
        BY <4>1, <4>2, <2>0
      <4>4. Anim(n, JumpType(pos, a)) \in IsAnim
        BY <2>0 DEF Anim, IsAnim, JumpType
      <4>5. {pos} \in SUBSET Addr
        BY <2>0
      <4> HIDE DEF a
      <4> QED
        BY <4>2, <4>3, <4>4, <4>5, ReferType
    <3> QED
      BY <1>2, <3>1, <3>2, <3>3 DEF ReadFails
  <2>5. /\ pc' \in {"anims", "read"} /\ animno' \in Nat
        /\ pos' \in Addr /\ todo' \in Seq(Nat)
    <3>1. CASE SeenBefore \/ ReadTerm
      <4>1. pc = "read" /\ (Return \/ Pluck)
        BY <1>2, <3>1 DEF SeenBefore, ReadTerm, Reading
      <4> QED
        BY <4>1, ContinueType
    <3>2. CASE EnterAnim
      <4>1. CanSeek(Offset(cur, animno)) /\ pos' = Offset(cur, animno)
            /\ todo' = <<>> /\ pc' = "read" /\ animno' = animno
        BY <1>2, <3>2 DEF EnterAnim, walk
      <4>2. Offset(cur, animno) \in Nat
        <5>1. cur \in DOMAIN file.table /\ animno \in AnimsOf(cur)
          BY <3>2, <2>0 DEF EnterAnim, TypeOK
        <5> QED
          BY <5>1 DEF TypeOK, IsFile, Offset, AnimsOf
      <4>3. pos' \in Addr
        BY <4>1, <4>2, <2>0 DEF CanSeek, Addr
      <4> QED
        BY <4>1, <4>3, <2>0
    <3>3. CASE ReadNormal
      <4>1. Readable(pos) /\ pos' = pos + Ins(pos).len
            /\ todo' = todo /\ pc' = "read" /\ animno' = animno
        BY <3>3 DEF ReadNormal, Reading, walk
      <4> QED
        BY <4>1, <2>0, ReadableFacts, TypeFacts
    <3>4. CASE ReadJmp
      <4>1. Readable(pos) /\ CanSeek(Ins(pos).target) /\ pos' = Ins(pos).target
            /\ todo' = todo /\ pc' = "read" /\ animno' = animno
        BY <1>2, <3>4 DEF ReadJmp, Reading, walk
      <4>2. Ins(pos).target \in Nat
        BY <4>1, <2>0, ReadableFacts, TypeFacts
      <4>3. pos' \in Addr
        BY <4>1, <4>2, <2>0 DEF CanSeek, Addr
      <4> QED
        BY <4>1, <4>3, <2>0
    <3>5. CASE ReadCondJmp
      <4>1. Readable(pos) /\ pos' = pos + Ins(pos).len
            /\ todo' = Append(todo, Ins(pos).target) /\ pc' = "read" /\ animno' = animno
        BY <3>5 DEF ReadCondJmp, Reading, walk
      <4>2. Ins(pos).target \in Nat /\ pos + Ins(pos).len \in Addr
        BY <4>1, <2>0, ReadableFacts, TypeFacts
      <4>3. todo' \in Seq(Nat)
        BY <4>1, <4>2, <2>0
      <4> QED
        BY <4>1, <4>2, <4>3, <2>0
    <3> QED
      BY <1>2, <3>1, <3>2, <3>3, <3>4, <3>5 DEF ReadFails
  <2>6. /\ DOMAIN st_entries' = DOMAIN st_entries
        /\ \A h \in DOMAIN headers : st_entries'[h] \in [AnimsOf(h) -> Pointer]
    <3>1. /\ DOMAIN st_entries = DOMAIN headers
          /\ \A h \in DOMAIN headers : st_entries[h] \in [AnimsOf(h) -> Pointer]
      BY DEF TypeOK
    <3>2. CASE ~EnterAnim
      BY <2>1, <3>1, <3>2
    <3>3. CASE EnterAnim
      <4>1. st_entries' = [st_entries EXCEPT ![cur] =
                             [st_entries[cur] EXCEPT ![animno] = Offset(cur, animno)]]
        BY <1>2, <3>3 DEF EnterAnim
      <4>2. cur \in DOMAIN file.table /\ animno \in AnimsOf(cur)
        BY <3>3, <2>0 DEF EnterAnim, TypeOK
      <4>3. Offset(cur, animno) \in Pointer
        BY <4>2, ZenonT(60) DEF TypeOK, IsFile, Offset, AnimsOf, Pointer
      <4>4. cur \in DOMAIN headers
        BY <4>2, TypeFacts
      <4>5. [st_entries[cur] EXCEPT ![animno] = Offset(cur, animno)]
               \in [AnimsOf(cur) -> Pointer]
        BY <3>1, <4>3, <4>4
      <4> QED
        BY <3>1, <4>1, <4>5
    <3> QED
      BY <3>2, <3>3
  <2> QED
    BY <2>1, <2>2, <2>3, <2>4, <2>5, <2>6 DEF TypeOK
<1> QED
  BY <1>1, <1>2

(* Every step of iscript_new keeps the types. *)
LEMMA NextType == TypeOK /\ [Next]_vars => TypeOK'
<1>1. ASSUME TypeOK, Next PROVE TypeOK'
  <2>1. CASE Stopped
    BY <1>1, <2>1 DEF Stopped, TypeOK, vars, hdrVars, walk, reader, graph, links, Addr,
                      AnimsOf, IsSymTblEnt
  <2> QED
    BY <1>1, <2>1, HeadersType, ReadType, LinkType DEF Next
<1>2. ASSUME TypeOK, UNCHANGED vars PROVE TypeOK'
  BY <1>2 DEF TypeOK, vars, hdrVars, walk, reader, graph, links, Addr, AnimsOf, IsSymTblEnt
<1> QED
  BY <1>1, <1>2

(* The loader's variables keep their types: in particular the file         *)
(* position stays in the file and every pointer is an offset or NULL.      *)
THEOREM LoadTypeCorrect == Spec => []TypeOK
  BY InitType, NextType, PTL DEF Spec

-----------------------------------------------------------------------------
(* The walk. *)

(* A step of the walk.  The instruction at the position may be stored, if  *)
(* its successors are stored or still ahead; nothing that was ahead is     *)
(* dropped; what is newly ahead is an animation or a successor.            *)
Advances ==
  /\ file' = file
  /\ DOMAIN code \subseteq DOMAIN code'
  /\ \A a \in DOMAIN code' : a \in DOMAIN code
       \/ /\ Ahead(a) /\ Readable(a)
          /\ \A b \in Succ(a) : b \in DOMAIN code' \/ Ahead(b)'
  /\ \A b : Ahead(b) => b \in DOMAIN code' \/ Ahead(b)'
  /\ \A b : Ahead(b)' =>
       \/ Ahead(b) \/ b \in Roots
       \/ pc = "read" /\ b \in Succ(pos)

(* The error path drops everything. *)
Fails == file' = file /\ pc' = "error" /\ DOMAIN code' = {}

(* What is defined by the file alone does not change. *)
LEMMA FileFixed ==
  file' = file =>
    /\ Addr' = Addr /\ Roots' = Roots
    /\ \A a : Readable(a)' = Readable(a) /\ Succ(a)' = Succ(a)
    /\ \A S : Closed(S)' = Closed(S)
    /\ \A h : AnimsOf(h)' = AnimsOf(h)
    /\ \A h, i : Offset(h, i)' = Offset(h, i)
BY DEF Addr, Roots, Readable, Succ, Closed, AnimsOf, Offset, Ins

(* err_free_symtbl and err_free_code leave no instruction. *)
LEMMA FailFails == Fail => Fails
BY EmptyFacts DEF Fail, Fails

(* The successors of a readable instruction. *)
LEMMA SuccFacts ==
  ASSUME NEW a, Readable(a)
  PROVE  /\ Ins(a).kind = "normal" => Succ(a) = {a + Ins(a).len}
         /\ Ins(a).kind = "cond" => Succ(a) = {a + Ins(a).len, Ins(a).target}
         /\ Ins(a).kind = "jmp" => Succ(a) = {Ins(a).target}
         /\ Ins(a).kind = "term" => Succ(a) = {}
BY DEF Succ

(* What Tail and Append do to the queue. *)
LEMMA TailQueued ==
  ASSUME todo \in Seq(Nat), todo # <<>>, todo' = Tail(todo)
  PROVE  /\ Queued(Head(todo))
         /\ \A b : Queued(b) => b = Head(todo) \/ Queued(b)'
         /\ \A b : Queued(b)' => Queued(b)
<1>1. Len(todo) \in Nat \ {0} /\ DOMAIN todo = 1 .. Len(todo)
  OBVIOUS
<1>2. DOMAIN todo' = 1 .. Len(todo) - 1
  BY <1>1
<1>3. \A k \in 1 .. Len(todo) - 1 : todo'[k] = todo[k + 1]
  BY <1>1
<1>4. Head(todo) = todo[1]
  OBVIOUS
<1>5. Queued(Head(todo))
  BY <1>1, <1>4 DEF Queued
<1>6. ASSUME NEW b, Queued(b) PROVE b = Head(todo) \/ Queued(b)'
  <2>1. PICK k \in 1 .. Len(todo) : todo[k] = b
    BY <1>1, <1>6 DEF Queued
  <2>2. CASE k = 1
    BY <2>1, <2>2, <1>4
  <2>3. CASE k # 1
    <3>1. k - 1 \in 1 .. Len(todo) - 1 /\ (k - 1) + 1 = k
      BY <1>1, <2>1, <2>3
    <3>2. todo'[k - 1] = b
      BY <1>3, <2>1, <3>1
    <3> QED
      BY <1>2, <3>1, <3>2 DEF Queued
  <2> QED
    BY <2>2, <2>3
<1>7. ASSUME NEW b, Queued(b)' PROVE Queued(b)
  <2>1. PICK k \in 1 .. Len(todo) - 1 : todo'[k] = b
    BY <1>2, <1>7 DEF Queued
  <2>2. k + 1 \in DOMAIN todo /\ todo[k + 1] = b
    BY <1>1, <1>3, <2>1
  <2> QED
    BY <2>2 DEF Queued
<1> QED
  BY <1>5, <1>6, <1>7

(* Appending to the queue of conditional jumps adds one offset to it. *)
LEMMA AppendQueued ==
  ASSUME todo \in Seq(Nat), NEW a \in Nat, todo' = Append(todo, a)
  PROVE  \A b : Queued(b)' <=> Queued(b) \/ b = a
<1>1. Len(todo) \in Nat /\ DOMAIN todo = 1 .. Len(todo)
      /\ DOMAIN todo' = 1 .. Len(todo) + 1
  OBVIOUS
<1>2. /\ \A k \in 1 .. Len(todo) : todo'[k] = todo[k]
      /\ todo'[Len(todo) + 1] = a
  BY <1>1
<1>3. \A k \in 1 .. Len(todo) + 1 : k \in 1 .. Len(todo) \/ k = Len(todo) + 1
  BY <1>1
<1>4. \A k \in 1 .. Len(todo) : k \in 1 .. Len(todo) + 1
  BY <1>1
<1>5. Len(todo) + 1 \in 1 .. Len(todo) + 1
  BY <1>1
<1> QED
  BY <1>1, <1>2, <1>3, <1>4, <1>5 DEF Queued

(* A step that leaves the position, the queue and the code alone, and is   *)
(* not the step into or out of read_code.                                  *)
LEMMA StandStill ==
  ASSUME UNCHANGED <<file, pos, todo>>, DOMAIN code' = DOMAIN code,
         pc # "read", pc' # "read"
  PROVE  Advances
BY DEF Advances, Ahead

(* Taking up the queue, after an instruction that leads nowhere or was     *)
(* read before, advances the walk.                                         *)
LEMMA PluckAdvances ==
  ASSUME TypeOK, pc = "read", Pluck, file' = file,
         DOMAIN code' = DOMAIN code \cup {pos},
         pos \in DOMAIN code \/ (Readable(pos) /\ Succ(pos) = {})
  PROVE  Advances
<1>1. todo \in Seq(Nat) /\ todo # <<>> /\ todo' = Tail(todo)
      /\ pc' = "read" /\ pos' = Head(todo)
  BY TypeFacts DEF Pluck
<1>2. /\ Queued(Head(todo))
      /\ \A b : Queued(b) => b = Head(todo) \/ Queued(b)'
      /\ \A b : Queued(b)' => Queued(b)
  BY <1>1, TailQueued
<1>3. /\ \A b : Ahead(b) <=> b = pos \/ Queued(b)
      /\ \A b : Ahead(b)' <=> b = Head(todo) \/ Queued(b)'
  BY <1>1 DEF Ahead
<1> QED
  BY <1>2, <1>3 DEF Advances

(* Returning with an empty queue advances the walk: nothing was ahead. *)
LEMMA ReturnAdvances ==
  ASSUME TypeOK, pc = "read", Return, file' = file,
         DOMAIN code' = DOMAIN code \cup {pos},
         pos \in DOMAIN code \/ (Readable(pos) /\ Succ(pos) = {})
  PROVE  Advances
<1>1. \A b : ~Queued(b)
  BY DEF Return, Queued
<1>2. /\ \A b : Ahead(b) <=> b = pos
      /\ \A b : ~Ahead(b)'
  BY <1>1 DEF Ahead, Return
<1> QED
  BY <1>2 DEF Advances

(* Reading an instruction that is followed by the next one or by the       *)
(* target of a jump.                                                       *)
LEMMA ReadAdvances ==
  ASSUME TypeOK, pc = "read", pc' = "read", file' = file, Readable(pos),
         DOMAIN code' = DOMAIN code \cup {pos},
         NEW Q,
         \A b : Queued(b)' <=> Queued(b) \/ b \in Q,
         Succ(pos) = {pos'} \cup Q
  PROVE  Advances
<1>1. /\ \A b : Ahead(b) <=> b = pos \/ Queued(b)
      /\ \A b : Ahead(b)' <=> b = pos' \/ Queued(b) \/ b \in Q
  BY DEF Ahead
<1> QED
  BY <1>1 DEF Advances

(* Every step of the loader but giving up is a step of the walk.           *)
LEMMA WalkAdvances == TypeOK /\ Next /\ ~Fail => Advances
<1> SUFFICES ASSUME TypeOK, Next, ~Fail PROVE Advances
  OBVIOUS
<1>1. CASE \/ \E h \in DOMAIN headers : ReadTableEntry(h) \/ ReadHeader(h) \/ EnterHeader(h)
           \/ TableEnd \/ HeadersRead \/ SkipAnim \/ LeaveHeader
           \/ CodeRead \/ LinkSkip \/ Rehash
  <2>1. UNCHANGED <<file, pos, todo, code>> /\ pc # "read" /\ pc' # "read"
    BY <1>1 DEF ReadTableEntry, ReadHeader, EnterHeader, TableEnd, HeadersRead, SkipAnim,
                LeaveHeader, CodeRead, LinkSkip, Rehash, reader, graph
  <2> QED
    BY <2>1, StandStill
<1>2. CASE LinkInstr
  <2>1. UNCHANGED <<file, pos, todo>> /\ pc # "read" /\ pc' # "read"
        /\ DOMAIN code' = DOMAIN code
    BY <1>2 DEF LinkInstr, reader
  <2> QED
    BY <2>1, StandStill
<1>3. CASE Stopped
  <2>1. UNCHANGED <<file, pos, todo, code>> /\ pc # "read" /\ pc' # "read"
    BY <1>3 DEF Stopped, vars, reader, graph
  <2> QED
    BY <2>1, StandStill
<1>4. CASE EnterAnim
  <2>1. /\ cur \in DOMAIN file.table /\ animno \in AnimsOf(cur)
        /\ HasAnim(cur, animno)
        /\ pc # "read" /\ pc' = "read" /\ pos' = Offset(cur, animno)
        /\ todo' = <<>> /\ UNCHANGED <<file, code>>
    BY <1>4, TypeFacts DEF EnterAnim
  <2>2. pos' \in Roots
    BY <2>1 DEF Roots, HasAnim
  <2>3. \A b : Ahead(b)' <=> b = pos'
    BY <2>1 DEF Ahead, Queued
  <2>4. \A b : ~Ahead(b)
    BY <2>1 DEF Ahead
  <2> QED
    BY <2>1, <2>2, <2>3, <2>4 DEF Advances
<1>5. CASE SeenBefore
  <2>1. pc = "read" /\ (Return \/ Pluck) /\ file' = file
        /\ pos \in DOMAIN code /\ code' = code
    BY <1>5 DEF SeenBefore, graph
  <2>2. DOMAIN code' = DOMAIN code \cup {pos}
    BY <2>1
  <2>3. pos \in DOMAIN code \/ (Readable(pos) /\ Succ(pos) = {})
    BY <2>1
  <2>4. CASE Return
    BY <2>1, <2>2, <2>3, <2>4, ReturnAdvances, Zenon
  <2>5. CASE Pluck
    BY <2>1, <2>2, <2>3, <2>5, PluckAdvances, Zenon
  <2> QED
    BY <2>1, <2>4, <2>5
<1>6. CASE ReadFails
  BY <1>6 DEF ReadFails
<1>7. CASE ReadNormal
  <2>1. /\ pc = "read" /\ pc' = "read" /\ file' = file /\ Readable(pos)
        /\ Ins(pos).kind = "normal" /\ todo' = todo /\ pos' = pos + Ins(pos).len
        /\ DOMAIN code' = DOMAIN code \cup {pos}
    BY <1>7, StoreType DEF ReadNormal, Reading
  <2>2. Succ(pos) = {pos'} \cup {}
    BY <2>1, SuccFacts
  <2>3. \A b : Queued(b)' <=> Queued(b) \/ b \in {}
    BY <2>1 DEF Queued
  <2> QED
    BY <2>1, <2>2, <2>3, ReadAdvances
<1>8. CASE ReadJmp
  <2>1. /\ pc = "read" /\ pc' = "read" /\ file' = file /\ Readable(pos)
        /\ Ins(pos).kind = "jmp" /\ todo' = todo /\ pos' = Ins(pos).target
        /\ DOMAIN code' = DOMAIN code \cup {pos}
    BY <1>8, StoreType DEF ReadJmp, Reading
  <2>2. Succ(pos) = {pos'} \cup {}
    BY <2>1, SuccFacts
  <2>3. \A b : Queued(b)' <=> Queued(b) \/ b \in {}
    BY <2>1 DEF Queued
  <2> QED
    BY <2>1, <2>2, <2>3, ReadAdvances
<1>9. CASE ReadCondJmp
  <2>1. /\ pc = "read" /\ pc' = "read" /\ file' = file /\ Readable(pos)
        /\ Ins(pos).kind = "cond" /\ todo' = Append(todo, Ins(pos).target)
        /\ pos' = pos + Ins(pos).len
        /\ DOMAIN code' = DOMAIN code \cup {pos}
    BY <1>9, StoreType DEF ReadCondJmp, Reading
  <2>2. Succ(pos) = {pos'} \cup {Ins(pos).target}
    BY <2>1, SuccFacts
  <2>3. Ins(pos).target \in Nat /\ todo \in Seq(Nat)
    BY <2>1, TypeFacts, ReadableFacts
  <2>4. \A b : Queued(b)' <=> Queued(b) \/ b \in {Ins(pos).target}
    BY <2>1, <2>3, AppendQueued
  <2> QED
    BY <2>1, <2>2, <2>4, ReadAdvances
<1>10. CASE ReadTerm
  <2>1. /\ pc = "read" /\ (Return \/ Pluck) /\ file' = file /\ Readable(pos)
        /\ Ins(pos).kind = "term"
        /\ DOMAIN code' = DOMAIN code \cup {pos}
    BY <1>10, StoreType DEF ReadTerm, Reading
  <2>2. Succ(pos) = {}
    BY <2>1, SuccFacts
  <2> QED
    BY <2>1, <2>2, PluckAdvances, ReturnAdvances
<1> QED
  BY <1>1, <1>2, <1>3, <1>4, <1>5, <1>6, <1>7, <1>8, <1>9, <1>10 DEF Next

(* Every step of the loader is a step of the walk, or gives up.            *)
LEMMA NextAdvances == TypeOK /\ Next => Advances \/ Fails
BY WalkAdvances, FailFails

(* A step that advances the walk stays within what the animations reach. *)
LEMMA WithinReachStep == TypeOK /\ WithinReach /\ Advances => WithinReach'
<1> SUFFICES ASSUME TypeOK, WithinReach, Advances,
                    NEW S \in SUBSET Addr, Closed(S)
             PROVE  /\ DOMAIN code' \subseteq S
                    /\ \A a \in Addr : Ahead(a)' => a \in S
  BY FileFixed DEF WithinReach, Advances
<1>1. DOMAIN code \subseteq S /\ \A a \in Addr : Ahead(a) => a \in S
  BY DEF WithinReach
<1>2. DOMAIN code' \subseteq S
  <2> SUFFICES ASSUME NEW a \in DOMAIN code' PROVE a \in S
    OBVIOUS
  <2>1. CASE a \in DOMAIN code
    BY <1>1, <2>1
  <2>2. CASE Ahead(a) /\ Readable(a)
    <3>1. a = pos \/ Queued(a)
      BY <2>2 DEF Ahead
    <3>2. a \in Nat
      <4>1. todo \in Seq(Nat) /\ pos \in Nat
        BY TypeFacts
      <4> QED
        BY <3>1, <4>1 DEF Queued
    <3>3. a \in Addr
      BY <2>2, <3>2, TypeFacts DEF Readable, Addr
    <3> QED
      BY <1>1, <2>2, <3>3
  <2> QED
    BY <2>1, <2>2 DEF Advances
<1>3. ASSUME NEW a \in Addr, Ahead(a)' PROVE a \in S
  <2>1. CASE Ahead(a)
    BY <1>1, <2>1
  <2>2. CASE a \in Roots
    BY <2>2 DEF Closed
  <2>3. CASE pc = "read" /\ a \in Succ(pos)
    <3>1. pos \in S
      BY <1>1, <2>3, TypeFacts DEF Ahead
    <3> QED
      BY <2>3, <3>1 DEF Closed
  <2> QED
    BY <1>3, <2>1, <2>2, <2>3 DEF Advances
<1> QED
  BY <1>2, <1>3

(* A step that advances the walk leaves the successors of what was read    *)
(* read or ahead.                                                          *)
LEMMA FrontierStep == TypeOK /\ Frontier /\ Advances => Frontier'
<1> SUFFICES ASSUME TypeOK, Frontier, Advances, NEW a \in DOMAIN code'
             PROVE  Readable(a) /\ \A b \in Succ(a) : b \in DOMAIN code' \/ Ahead(b)'
  BY FileFixed DEF Frontier, Advances
<1>1. CASE a \in DOMAIN code
  <2>1. Readable(a) /\ \A b \in Succ(a) : b \in DOMAIN code \/ Ahead(b)
    BY <1>1 DEF Frontier
  <2> QED
    BY <2>1 DEF Advances
<1>2. CASE a \notin DOMAIN code
  BY <1>2 DEF Advances
<1> QED
  BY <1>1, <1>2

(* One step of the walk over the headers: nothing read is forgotten, so    *)
(* only the bookkeeping of the step counts.                                *)
LEMMA HeadersWalkedStep == TypeOK /\ HeadersWalked /\ Next => HeadersWalked'
<1> SUFFICES ASSUME TypeOK, HeadersWalked, Next, pc' # "error" PROVE HeadersWalked'
  <2>1. pc' = "error" => HeadersWalked'
    BY DEF HeadersWalked
  <2> QED
    BY <2>1
<1>0. /\ file' = file /\ DOMAIN code \subseteq DOMAIN code'
      /\ \A h : AnimsOf(h)' = AnimsOf(h)
      /\ \A h, i : Offset(h, i)' = Offset(h, i)
      /\ ~Fail
  BY NextAdvances, FileFixed DEF Advances, Fails, Fail
<1>t. /\ cur \in {0} \cup DOMAIN headers /\ DOMAIN headers \subseteq Nat \ {0}
      /\ animno \in Nat
  BY TypeFacts
<1>1. CASE \E h \in DOMAIN headers : ReadTableEntry(h) \/ ReadHeader(h)
  BY <1>0, <1>1 DEF HeadersWalked, ReadTableEntry, ReadHeader, walk
<1>2. CASE TableEnd
  BY <1>0, <1>2 DEF HeadersWalked, TableEnd, walk, hdrVars
<1>3. CASE HeadersRead
  BY <1>0, <1>t, <1>3 DEF HeadersWalked, HeadersRead, walk, hdrVars
<1>4. CASE \E h \in DOMAIN headers : EnterHeader(h)
  <2>1. PICK h \in DOMAIN headers : EnterHeader(h)
    BY <1>4
  <2>2. \A i \in AnimsOf(h) : ~(i < 0)
    BY DEF AnimsOf
  <2>3. pc = "anims" /\ pc' = "anims" /\ headers' = headers /\ code' = code
        /\ headers[h] = "live" /\ cur' = h /\ animno' = 0 /\ cur = 0
    BY <2>1 DEF EnterHeader, hdrVars, graph
  <2> QED
    BY <1>0, <1>t, <2>2, <2>3 DEF HeadersWalked
<1>5. CASE SkipAnim
  <2>1. pc = "anims" /\ pc' = "anims" /\ headers' = headers /\ code' = code
        /\ cur' = cur /\ animno' = animno + 1 /\ Offset(cur, animno) = NULL_UINT16
    BY <1>5 DEF SkipAnim, HasAnim, hdrVars, graph
  <2>2. \A i \in AnimsOf(cur) : i < animno + 1 => i < animno \/ i = animno
    BY <1>t DEF AnimsOf
  <2> QED
    BY <1>0, <2>1, <2>2 DEF HeadersWalked
<1>6. CASE EnterAnim
  <2>1. pc = "anims" /\ pc' = "read" /\ headers' = headers /\ code' = code
        /\ cur' = cur /\ animno' = animno /\ cur # 0 /\ animno \in AnimsOf(cur)
        /\ pos' = Offset(cur, animno)
    BY <1>0, <1>6 DEF EnterAnim, walk
  <2> QED
    BY <1>0, <2>1 DEF HeadersWalked
<1>7. CASE LeaveHeader
  <2>1. pc = "anims" /\ pc' = "anims" /\ headers' = [headers EXCEPT ![cur] = "freed"]
        /\ code' = code /\ cur' = 0 /\ cur # 0 /\ animno \notin AnimsOf(cur)
    BY <1>7 DEF LeaveHeader, graph
  <2>2. \A i \in AnimsOf(cur) : i < animno
    BY <2>1, <1>t, TypeFacts DEF AnimsOf, IsFile
  <2>3. \A h \in DOMAIN headers : headers[h] \in {"live", "freed"}
          /\ \A i \in AnimsOf(h) : headers[h] = "freed" \/ (h = cur /\ i < animno) =>
              Offset(h, i) \in DOMAIN code \cup {NULL_UINT16}
    BY <2>1 DEF HeadersWalked
  <2>4. \A h \in DOMAIN headers : headers'[h] = IF h = cur THEN "freed" ELSE headers[h]
    BY <2>1
  <2>5. DOMAIN headers' = DOMAIN headers
    BY <2>1
  <2>6. \A h \in DOMAIN headers' :
         /\ headers'[h] \in {"live", "freed"}
         /\ h = cur' => headers'[h] = "live"
         /\ \A i \in AnimsOf(h) : headers'[h] = "freed" \/ (h = cur' /\ i < animno') =>
              Offset(h, i) \in DOMAIN code' \cup {NULL_UINT16}
    BY <1>t, <2>1, <2>2, <2>3, <2>4, <2>5
  <2> QED
    BY <1>0, <2>1, <2>6 DEF HeadersWalked
<1>8. CASE SeenBefore \/ ReadTerm \/ ReadNormal \/ ReadJmp \/ ReadCondJmp
  <2>1. /\ pc = "read" /\ headers' = headers /\ cur' = cur
        /\ \/ pc' = "read" /\ animno' = animno
           \/ pc' = "anims" /\ animno' = animno + 1
    BY <1>0, <1>8 DEF SeenBefore, ReadTerm, ReadNormal, ReadJmp, ReadCondJmp, Reading,
                      Return, Pluck, hdrVars, walk
  <2>2. pos \in DOMAIN code'
    <3>1. CASE SeenBefore
      BY <1>0, <3>1 DEF SeenBefore, graph
    <3>2. CASE ReadTerm \/ ReadNormal \/ ReadJmp \/ ReadCondJmp
      BY <1>0, <3>2, StoreType DEF ReadTerm, ReadNormal, ReadJmp, ReadCondJmp
    <3> QED
      BY <1>8, <3>1, <3>2
  <2>3. cur # 0 /\ animno \in AnimsOf(cur) /\ Offset(cur, animno) \in DOMAIN code'
    BY <1>0, <2>1, <2>2 DEF HeadersWalked
  <2>4. \A i \in AnimsOf(cur) : i < animno + 1 => i < animno \/ i = animno
    BY <1>t DEF AnimsOf
  <2> QED
    BY <1>0, <2>1, <2>3, <2>4 DEF HeadersWalked
<1>9. CASE CodeRead
  <2>1. /\ pc = "anims" /\ pc' = "link" /\ cur = 0
        /\ \A h \in DOMAIN headers : headers[h] # "live"
        /\ UNCHANGED <<headers, cur, animno, code>>
    BY <1>9 DEF CodeRead, hdrVars, walk, graph
  <2> QED
    BY <1>0, <2>1 DEF HeadersWalked
<1>10. CASE LinkSkip \/ LinkInstr \/ Rehash
  <2>1. pc = "link" /\ pc' \in {"link", "done"} /\ UNCHANGED <<headers, cur, animno>>
        /\ DOMAIN code' = DOMAIN code
    BY <1>10 DEF LinkSkip, LinkInstr, Rehash, hdrVars, walk, graph
  <2> QED
    BY <1>0, <2>1 DEF HeadersWalked
<1>11. CASE Stopped
  <2>1. UNCHANGED <<pc, headers, cur, animno, code, pos>>
    BY <1>11 DEF Stopped, vars, hdrVars, walk, reader, graph
  <2> QED
    BY <1>0, <2>1 DEF HeadersWalked
<1>12. CASE ReadFails
  BY <1>0, <1>12 DEF ReadFails
<1> QED
  BY <1>1, <1>2, <1>3, <1>4, <1>5, <1>6, <1>7, <1>8, <1>9, <1>10, <1>11, <1>12 DEF Next

(* The invariant of the walk depends on the state of the loader alone. *)
LEMMA WalkStutter == UNCHANGED vars /\ WalkInv => WalkInv'
BY FileFixed DEF vars, hdrVars, walk, reader, graph, WalkInv, WithinReach, Frontier,
                 HeadersWalked, Ahead, Queued

(* The invariant of the walk holds at the start, when nothing is read or   *)
(* ahead.                                                                  *)
LEMMA InitWalk == Init => WalkInv
<1> SUFFICES ASSUME Init PROVE WalkInv
  OBVIOUS
<1>1. DOMAIN code = {} /\ pc = "table" /\ cur = 0
      /\ \A h \in DOMAIN headers : headers[h] = "unread"
  BY EmptyFacts DEF Init
<1> QED
  BY <1>1 DEF WalkInv, WithinReach, Frontier, HeadersWalked, Ahead

(* The induction: either the error path has dropped everything, or the     *)
(* step is a step of the walk.                                             *)
LEMMA NextWalk == TypeOK /\ WalkInv /\ [Next]_vars => WalkInv'
<1> SUFFICES ASSUME TypeOK, WalkInv, Next PROVE WalkInv'
  BY WalkStutter
<1>1. HeadersWalked'
  BY HeadersWalkedStep DEF WalkInv
<1>2. CASE Advances
  BY <1>1, <1>2, WithinReachStep, FrontierStep DEF WalkInv
<1>3. CASE Fails
  <2>1. DOMAIN code' = {} /\ pc' # "read"
    BY <1>3 DEF Fails
  <2>2. WithinReach' /\ Frontier'
    BY <2>1 DEF WithinReach, Frontier, Ahead
  <2> QED
    BY <1>1, <2>2 DEF WalkInv
<1> QED
  BY <1>2, <1>3, NextAdvances

(* Queue, position and code together never leave what the animations       *)
(* reach, and the successors of what was read are read or still ahead.     *)
THEOREM WalkInvariant == Spec => []WalkInv
<1>1. Spec => []TypeOK
  BY LoadTypeCorrect
<1> QED
  BY <1>1, InitWalk, NextWalk, PTL DEF Spec

(* read_code reads only code that some animation reaches.                  *)
THEOREM ReadsOnlyReachable == Spec => []NothingUnreachable
<1>1. WalkInv => NothingUnreachable
  BY DEF WalkInv, WithinReach, NothingUnreachable
<1> QED
  BY <1>1, WalkInvariant, PTL

(* When the walk is over, read_code has read all of it.                    *)
THEOREM ReadsEverything == Spec => []NothingMissed
<1>1. TypeOK /\ WalkInv => NothingMissed
  <2> SUFFICES ASSUME TypeOK, WalkInv, pc \in {"link", "done"}
               PROVE  /\ Roots \subseteq DOMAIN code
                      /\ \A a \in DOMAIN code : Readable(a) /\ Succ(a) \subseteq DOMAIN code
    BY DEF NothingMissed
  <2>1. \A a \in DOMAIN code : Readable(a) /\ Succ(a) \subseteq DOMAIN code
    BY DEF WalkInv, Frontier, Ahead
  <2>2. \A h \in DOMAIN headers : \A i \in AnimsOf(h) :
          Offset(h, i) \in DOMAIN code \cup {NULL_UINT16}
    BY DEF WalkInv, HeadersWalked
  <2>3. DOMAIN headers = DOMAIN file.table
    BY TypeFacts
  <2> QED
    BY <2>1, <2>2, <2>3 DEF Roots
<1> QED
  BY <1>1, LoadTypeCorrect, WalkInvariant, PTL

-----------------------------------------------------------------------------
(* A well-formed file is loaded.                                           *)

(* S holds the animations and is readable and closed: what the existence   *)
(* of such a set demands is that no jump on the way leaves the file.       *)
Whole(S) ==
  /\ Roots \subseteq S
  /\ \A a \in S : Readable(a) /\ Succ(a) \subseteq S

(* The position and the queue never leave such a set. *)
OnTrack ==
  pc = "read" =>
    \A S \in SUBSET Addr : Whole(S) =>
      pos \in S /\ \A k \in DOMAIN todo : todo[k] \in S

(* The walk stays in every such set. *)
LEMMA OnTrackStep == TypeOK /\ OnTrack /\ Next => OnTrack'
<1> SUFFICES ASSUME TypeOK, OnTrack, Next PROVE OnTrack'
  OBVIOUS
<1>0. Addr' = Addr /\ \A S : Whole(S)' = Whole(S)
  BY NextAdvances, FileFixed DEF Advances, Fails, Whole
<1> SUFFICES ASSUME pc' = "read", NEW S \in SUBSET Addr, Whole(S)
             PROVE  pos' \in S /\ \A k \in DOMAIN todo' : todo'[k] \in S
  BY <1>0 DEF OnTrack
<1>1. Advances
  BY NextAdvances DEF Fails
<1>2. \A b : Ahead(b)' => b \in S
  <2> SUFFICES ASSUME NEW b, Ahead(b)' PROVE b \in S
    OBVIOUS
  <2>1. CASE Ahead(b)
    BY <2>1 DEF OnTrack, Ahead, Queued
  <2>2. CASE b \in Roots
    BY <2>2 DEF Whole
  <2>3. CASE pc = "read" /\ b \in Succ(pos)
    BY <2>3 DEF OnTrack, Whole
  <2> QED
    BY <1>1, <2>1, <2>2, <2>3 DEF Advances
<1> QED
  BY <1>2 DEF Ahead, Queued

(* Each of the checks that make iscript_new give up, the two of the header *)
(* table and the seeks and reads of read_code, passes on a well-formed     *)
(* file.                                                                   *)
LEMMA WellFormedPasses ==
  ASSUME TypeOK, OnTrack, WellFormed, Next, pc # "error"
  PROVE  pc' # "error"
<1>0. PICK S \in SUBSET Addr : Whole(S)
  BY DEF WellFormed, Whole
<1>1. pc = "read" => pos \in S /\ \A k \in DOMAIN todo : todo[k] \in S
  BY <1>0 DEF OnTrack
<1>2. \A a \in S : CanSeek(a)
  BY <1>0, TypeFacts DEF CanSeek, Addr
<1>3. ~PluckFails \/ pc # "read"
  <2> SUFFICES ASSUME pc = "read", todo # <<>> PROVE CanSeek(Head(todo))
    BY DEF PluckFails
  <2>1. todo \in Seq(Nat)
    BY TypeFacts
  <2>2. 1 \in DOMAIN todo /\ Head(todo) = todo[1]
    BY <2>1
  <2> QED
    BY <1>1, <1>2, <2>2
<1>4. CASE TableEnd
  BY <1>4 DEF TableEnd, WellFormed, Fail
<1>5. CASE \E h \in DOMAIN headers : ReadHeader(h)
  <2>1. \A h \in DOMAIN headers : file.table[h].at = "ok"
    BY TypeFacts DEF WellFormed
  <2> QED
    BY <1>5, <2>1 DEF ReadHeader
<1>6. CASE EnterAnim
  <2>1. cur \in DOMAIN file.table
    BY <1>6, TypeFacts DEF EnterAnim
  <2>2. Offset(cur, animno) \in Roots
    BY <1>6, <2>1 DEF EnterAnim, HasAnim, Roots
  <2>3. CanSeek(Offset(cur, animno))
    BY <1>0, <1>2, <2>2 DEF Whole
  <2> QED
    BY <1>6, <2>3 DEF EnterAnim
<1>7. CASE SeenBefore
  BY <1>3, <1>7 DEF SeenBefore, Return, Pluck
<1>8. CASE ReadFails
  BY <1>0, <1>1, <1>8 DEF ReadFails, Whole
<1>9. CASE ReadJmp
  <2>1. pc = "read" /\ Readable(pos) /\ Ins(pos).kind = "jmp"
    BY <1>9 DEF ReadJmp, Reading
  <2>2. Ins(pos).target \in S
    BY <1>0, <1>1, <2>1, SuccFacts DEF Whole
  <2> QED
    BY <1>2, <1>9, <2>1, <2>2 DEF ReadJmp
<1>10. CASE ReadTerm
  BY <1>3, <1>10 DEF ReadTerm, Reading, Return, Pluck
<1>11. CASE \/ \E h \in DOMAIN headers : ReadTableEntry(h) \/ EnterHeader(h)
            \/ HeadersRead \/ SkipAnim \/ LeaveHeader \/ ReadNormal \/ ReadCondJmp
            \/ CodeRead \/ LinkSkip \/ LinkInstr \/ Rehash \/ Stopped
  BY <1>11 DEF ReadTableEntry, EnterHeader, HeadersRead, SkipAnim, LeaveHeader, ReadNormal,
               ReadCondJmp, Reading, CodeRead, LinkSkip, LinkInstr, Rehash, Stopped, vars
<1> QED
  BY <1>4, <1>5, <1>6, <1>7, <1>8, <1>9, <1>10, <1>11 DEF Next

(* iscript_new gives up on no well-formed file: not on one with jump       *)
(* cycles, with shared code, or with code that ends at its last byte.      *)
THEOREM WellFormedIsLoaded == Spec => []LoadsWellFormed
<1> DEFINE Inv == OnTrack /\ LoadsWellFormed
<1>1. Init => Inv
  BY DEF Init, OnTrack, LoadsWellFormed
<1>2. TypeOK /\ Inv /\ [Next]_vars => Inv'
  <2>1. ASSUME TypeOK, Inv, Next PROVE Inv'
    <3>1. OnTrack'
      BY <2>1, OnTrackStep
    <3>2. file' = file
      BY <2>1, NextAdvances DEF Advances, Fails
    <3>3. WellFormed' = WellFormed
      BY <3>2, FileFixed DEF WellFormed
    <3>4. LoadsWellFormed'
      BY <2>1, <3>3, WellFormedPasses DEF LoadsWellFormed
    <3> QED
      BY <3>1, <3>4
  <2>2. ASSUME Inv, UNCHANGED vars PROVE Inv'
    <3>1. UNCHANGED <<file, pc, pos, todo>>
      BY <2>2 DEF vars, reader
    <3>2. /\ WellFormed' = WellFormed /\ Addr' = Addr
          /\ \A S : Whole(S)' = Whole(S)
      BY <3>1, FileFixed DEF WellFormed, Whole
    <3> QED
      BY <2>2, <3>1, <3>2 DEF OnTrack, LoadsWellFormed
  <2> QED
    BY <2>1, <2>2
<1>3. Inv => LoadsWellFormed
  OBVIOUS
<1> HIDE DEF Inv
<1> QED
  BY <1>1, <1>2, <1>3, LoadTypeCorrect, PTL DEF Spec

-----------------------------------------------------------------------------
(* The pointers between headers, labels and jumps.                         *)

(* While the walk goes on a label may be ahead of it. *)
LabelsReferenced ==
  \A l \in DOMAIN symtbl :
    /\ l \in DOMAIN code \/ Ahead(l)
    /\ \A j \in symtbl[l].jumps :
         j \in DOMAIN code /\ IsJump(j) /\ Ins(j).target = l
    /\ \/ symtbl[l].jumps # {}
       \/ \E an \in symtbl[l].anims :
            /\ an.type = "HEADER"
            /\ an.header \in DOMAIN headers /\ an.animno \in AnimsOf(an.header)
            /\ st_entries[an.header][an.animno] = l

(* The animations whose label the walk has made. *)
Labelled(h, i) ==
  \/ headers[h] = "freed"
  \/ h = cur /\ (i < animno \/ (pc = "read" /\ i = animno))

AnimsLabelled ==
  \A h \in DOMAIN headers : \A i \in AnimsOf(h) :
    /\ Offset(h, i) = NULL_UINT16 => st_entries[h][i] = NULL
    /\ st_entries[h][i] \in {NULL, Offset(h, i)}
    /\ pc \in {"anims", "read", "link", "done"} /\ Labelled(h, i)
         /\ Offset(h, i) # NULL_UINT16 =>
         /\ st_entries[h][i] = Offset(h, i)
         /\ Offset(h, i) \in DOMAIN symtbl
         /\ [header |-> h, animno |-> i, type |-> "HEADER"]
              \in symtbl[Offset(h, i)].anims

(* No id is given twice. *)
IdsDistinct ==
  /\ \A l \in DOMAIN symtbl : symtbl[l].id < unique_id
  /\ \A l, m \in DOMAIN symtbl : symtbl[l].id = symtbl[m].id => l = m
  /\ pc = "done" => \A l \in DOMAIN symtbl : byid[symtbl[l].id] = l

PointersInv == JumpsHaveLabels /\ LabelsReferenced /\ AnimsLabelled /\ IdsDistinct

(* The references of an offset, none if it has no label. *)
JumpsTo(l) == IF l \in DOMAIN symtbl THEN symtbl[l].jumps ELSE {}
AnimsTo(l) == IF l \in DOMAIN symtbl THEN symtbl[l].anims ELSE {}

(* A step that adds the references jumps and anims to the offset a.        *)
Adds(a, anims, jumps) ==
  /\ \A l : /\ JumpsTo(l)' = JumpsTo(l) \cup IF l = a THEN jumps ELSE {}
           /\ AnimsTo(l)' = AnimsTo(l) \cup IF l = a THEN anims ELSE {}
  /\ \A l \in DOMAIN symtbl : l \in DOMAIN symtbl' /\ symtbl'[l].id = symtbl[l].id
  /\ \A l \in DOMAIN symtbl' : l \in DOMAIN symtbl \/ (l = a /\ symtbl'[l].id = unique_id)
  /\ unique_id' \in Nat /\ unique_id <= unique_id'
  /\ \A l \in DOMAIN symtbl' : l \in DOMAIN symtbl \/ unique_id < unique_id'

(* Refer adds its references, whether the label is new or old.             *)
LEMMA ReferAdds ==
  ASSUME TypeOK, NEW a \in Nat, NEW anim \in IsAnim, NEW jumps \in SUBSET Addr,
         Refer(a, anim, jumps)
  PROVE  Adds(a, {anim}, jumps) /\ a \in DOMAIN symtbl'
<1>1. /\ DOMAIN symtbl' = DOMAIN symtbl \cup {a}
      /\ unique_id' \in Nat /\ unique_id <= unique_id'
      /\ a \in DOMAIN symtbl =>
           /\ symtbl'[a].id = symtbl[a].id
           /\ symtbl'[a].anims = symtbl[a].anims \cup {anim}
           /\ symtbl'[a].jumps = symtbl[a].jumps \cup jumps
      /\ a \notin DOMAIN symtbl =>
           /\ symtbl'[a].id = unique_id
           /\ symtbl'[a].anims = {anim}
           /\ symtbl'[a].jumps = jumps
           /\ unique_id' = unique_id + 1
      /\ \A l \in DOMAIN symtbl \ {a} : symtbl'[l] = symtbl[l]
  BY ReferType, ZenonT(120)
<1>2. unique_id \in Nat
  BY TypeFacts
<1>3. \A l : JumpsTo(l)' = JumpsTo(l) \cup IF l = a THEN jumps ELSE {}
  BY <1>1 DEF JumpsTo
<1>4. \A l : AnimsTo(l)' = AnimsTo(l) \cup IF l = a THEN {anim} ELSE {}
  BY <1>1 DEF AnimsTo
<1>5. a \notin DOMAIN symtbl => unique_id < unique_id'
  BY <1>1, <1>2
<1> QED
  BY <1>1, <1>3, <1>4, <1>5 DEF Adds

(* The steps that make or find a label: entering an animation ...          *)
LEMMA EnterAnimAdds ==
  ASSUME TypeOK, EnterAnim, ~Fail
  PROVE  /\ cur \in DOMAIN headers /\ animno \in AnimsOf(cur)
         /\ Offset(cur, animno) \in Nat \ {NULL_UINT16}
         /\ Adds(Offset(cur, animno), {Anim(animno, "HEADER")}, {})
         /\ Offset(cur, animno) \in DOMAIN symtbl'
         /\ pc' = "read" /\ pos' = Offset(cur, animno)
         /\ UNCHANGED <<file, headers, cur, animno, code, byid>>
         /\ st_entries' = [st_entries EXCEPT ![cur] =
                              [@ EXCEPT ![animno] = Offset(cur, animno)]]
<1>1. cur \in DOMAIN headers /\ animno \in AnimsOf(cur)
  BY TypeFacts DEF EnterAnim
<1>2. Offset(cur, animno) \in Nat
  BY <1>1, TypeFacts DEF IsFile, Offset, AnimsOf
<1>3. Anim(animno, "HEADER") \in IsAnim
  BY TypeFacts DEF Anim, IsAnim
<1>4. Refer(Offset(cur, animno), Anim(animno, "HEADER"), {})
  BY DEF EnterAnim
<1>5. Adds(Offset(cur, animno), {Anim(animno, "HEADER")}, {})
      /\ Offset(cur, animno) \in DOMAIN symtbl'
  BY <1>2, <1>3, <1>4, ReferAdds
<1>6. /\ HasAnim(cur, animno) /\ pc' = "read" /\ pos' = Offset(cur, animno)
      /\ UNCHANGED <<file, headers, cur, animno, code, byid>>
      /\ st_entries' = [st_entries EXCEPT ![cur] =
                              [@ EXCEPT ![animno] = Offset(cur, animno)]]
  BY DEF EnterAnim, walk, links
<1> QED
  BY <1>1, <1>2, <1>5, <1>6 DEF HasAnim

(* ... and reading a jump.                                                 *)
LEMMA JumpAdds ==
  ASSUME TypeOK, ReadJmp \/ ReadCondJmp, ~Fail, NEW a, a = Ins(pos).target
  PROVE  /\ pc = "read" /\ pc' = "read" /\ IsJump(pos) /\ Readable(pos)
         /\ DOMAIN code' = DOMAIN code \cup {pos}
         /\ a \in DOMAIN symtbl' /\ Ahead(a)'
         /\ \E anims : Adds(a, anims, {pos})
         /\ UNCHANGED <<file, headers, st_entries, cur, animno, byid>>
<1>1. /\ pc = "read" /\ pc' = "read" /\ IsJump(pos) /\ Readable(pos)
      /\ UNCHANGED <<file, headers, st_entries, cur, animno, byid>>
  BY DEF ReadJmp, ReadCondJmp, Reading, IsJump, hdrVars, walk, links
<1>2. a \in Nat /\ Ins(pos).numargs \in Nat /\ pos \in Addr
  BY <1>1, ReadableFacts, TypeFacts
<1>3. DOMAIN code' = DOMAIN code \cup {pos}
  BY StoreType DEF ReadJmp, ReadCondJmp
<1>4. PICK n \in {animno, Ins(pos).numargs} : Refer(a, Anim(n, JumpType(pos, a)), {pos})
  BY DEF ReadJmp, ReadCondJmp
<1>5. Anim(n, JumpType(pos, a)) \in IsAnim
  BY <1>2, TypeFacts DEF Anim, IsAnim, JumpType
<1>6. {pos} \in SUBSET Addr
  BY <1>2
<1>7. Ahead(a)'
  <2>1. CASE ReadJmp
    BY <1>1, <2>1 DEF ReadJmp, Ahead
  <2>2. CASE ReadCondJmp
    <3>1. todo \in Seq(Nat) /\ todo' = Append(todo, a)
      BY <2>2, TypeFacts DEF ReadCondJmp
    <3>2. Queued(a)'
      BY <1>2, <3>1, AppendQueued
    <3> QED
      BY <1>1, <3>2 DEF Ahead
  <2> QED
    BY <2>1, <2>2
<1>8. Adds(a, {Anim(n, JumpType(pos, a))}, {pos}) /\ a \in DOMAIN symtbl'
  BY <1>2, <1>4, <1>5, <1>6, ReferAdds
<1> QED
  BY <1>1, <1>3, <1>7, <1>8

(* Every other step adds no reference and reads no jump. *)
Quiet ==
  /\ DOMAIN symtbl' = DOMAIN symtbl
  /\ \A l \in DOMAIN symtbl :
       /\ symtbl'[l].id = symtbl[l].id
       /\ symtbl'[l].jumps = symtbl[l].jumps
       /\ symtbl'[l].anims = symtbl[l].anims
  /\ UNCHANGED <<file, unique_id, st_entries>>
  /\ \A a \in DOMAIN code' : a \in DOMAIN code \/ ~IsJump(a)

LEMMA OthersQuiet ==
  ASSUME TypeOK, Next, ~Fail, ~EnterAnim, ~ReadJmp, ~ReadCondJmp
  PROVE  Quiet
<1>1. CASE LinkInstr
  <2>1. symtbl \in [DOMAIN symtbl -> IsSymTblEnt]
    BY TypeFacts
  <2>2. \A l \in DOMAIN symtbl :
          LET e == [symtbl[l] EXCEPT !.bc = l]
          IN  e.id = symtbl[l].id /\ e.jumps = symtbl[l].jumps /\ e.anims = symtbl[l].anims
    BY <2>1 DEF IsSymTblEnt
  <2>3. /\ symtbl' = IF li \in DOMAIN symtbl
                     THEN [symtbl EXCEPT ![li] = [symtbl[li] EXCEPT !.bc = li]]
                     ELSE symtbl
        /\ DOMAIN code' = DOMAIN code
        /\ UNCHANGED <<file, unique_id, st_entries>>
    BY <1>1 DEF LinkInstr, hdrVars
  <2>4. DOMAIN symtbl' = DOMAIN symtbl
    BY <2>3
  <2>5. \A l \in DOMAIN symtbl :
          symtbl'[l] = IF l = li THEN [symtbl[l] EXCEPT !.bc = l] ELSE symtbl[l]
    BY <2>3
  <2> QED
    BY <2>2, <2>3, <2>4, <2>5 DEF Quiet
<1>2. CASE ReadNormal \/ ReadTerm
  <2>1. UNCHANGED <<file, symtbl, unique_id, st_entries>> /\ ~IsJump(pos)
    BY <1>2 DEF ReadNormal, ReadTerm, Reading, IsJump, hdrVars
  <2>2. DOMAIN code' = DOMAIN code \cup {pos}
    BY <1>2, StoreType DEF ReadNormal, ReadTerm
  <2> QED
    BY <2>1, <2>2 DEF Quiet
<1>3. CASE ~LinkInstr /\ ~ReadNormal /\ ~ReadTerm
  <2>1. UNCHANGED <<file, symtbl, unique_id, st_entries, code>>
    BY <1>3 DEF Next, ReadTableEntry, ReadHeader, EnterHeader, TableEnd, HeadersRead,
                SkipAnim, LeaveHeader, SeenBefore, ReadFails, CodeRead, LinkSkip, Rehash,
                Stopped, vars, hdrVars, walk, reader, graph, links
  <2> QED
    BY <2>1 DEF Quiet
<1> QED
  BY <1>1, <1>2, <1>3


(* No reference is ever dropped, but by the error path. *)
LEMMA ReferencesGrow ==
  ASSUME TypeOK, Next, ~Fail
  PROVE  /\ DOMAIN symtbl \subseteq DOMAIN symtbl'
         /\ \A l : JumpsTo(l) \subseteq JumpsTo(l)' /\ AnimsTo(l) \subseteq AnimsTo(l)'
<1>1. CASE EnterAnim
  BY <1>1, EnterAnimAdds DEF Adds
<1>2. CASE ReadJmp \/ ReadCondJmp
  BY <1>2, JumpAdds DEF Adds
<1>3. CASE ~EnterAnim /\ ~ReadJmp /\ ~ReadCondJmp
  BY <1>3, OthersQuiet DEF Quiet, JumpsTo, AnimsTo
<1> QED
  BY <1>1, <1>2, <1>3

(* A jump is stored in the step that makes or finds its label.             *)
LEMMA JumpsStep == TypeOK /\ JumpsHaveLabels /\ Next /\ ~Fail => JumpsHaveLabels'
<1> SUFFICES ASSUME TypeOK, JumpsHaveLabels, Next, ~Fail PROVE JumpsHaveLabels'
  OBVIOUS
<1>0. /\ file' = file /\ \A a : IsJump(a)' = IsJump(a) /\ Ins(a)' = Ins(a)
  BY NextAdvances DEF Advances, Fails, IsJump, Ins
<1>1. ASSUME NEW a \in DOMAIN code, IsJump(a)
      PROVE  Ins(a).target \in DOMAIN symtbl' /\ a \in symtbl'[Ins(a).target].jumps
  <2>1. Ins(a).target \in DOMAIN symtbl /\ a \in JumpsTo(Ins(a).target)
    BY <1>1 DEF JumpsHaveLabels, JumpsTo
  <2>2. PICK l : l = Ins(a).target
    OBVIOUS
  <2>3. l \in DOMAIN symtbl' /\ a \in JumpsTo(l)'
    BY <2>1, <2>2, ReferencesGrow
  <2> QED
    BY <2>2, <2>3 DEF JumpsTo
<1>2. CASE ReadJmp \/ ReadCondJmp
  <2>1. PICK l : l = Ins(pos).target
    OBVIOUS
  <2>2. DOMAIN code' = DOMAIN code \cup {pos} /\ l \in DOMAIN symtbl' /\ pos \in JumpsTo(l)'
    BY <1>2, <2>1, JumpAdds DEF Adds
  <2> QED
    BY <1>0, <1>1, <2>1, <2>2 DEF JumpsHaveLabels, JumpsTo
<1>3. CASE EnterAnim
  <2>1. code' = code
    BY <1>3, EnterAnimAdds
  <2> QED
    BY <1>0, <1>1, <2>1 DEF JumpsHaveLabels
<1>4. CASE ~EnterAnim /\ ~ReadJmp /\ ~ReadCondJmp
  <2>1. \A a \in DOMAIN code' : a \in DOMAIN code \/ ~IsJump(a)
    BY <1>4, OthersQuiet DEF Quiet
  <2> QED
    BY <1>0, <1>1, <2>1 DEF JumpsHaveLabels
<1> QED
  BY <1>2, <1>3, <1>4

(* A label stays referred to: what st_entries holds for an animation is    *)
(* never replaced by another label.                                        *)
LEMMA LabelsStep ==
  TypeOK /\ LabelsReferenced /\ AnimsLabelled /\ Next /\ ~Fail => LabelsReferenced'
<1> SUFFICES ASSUME TypeOK, LabelsReferenced, AnimsLabelled, Next, ~Fail
             PROVE  LabelsReferenced'
  OBVIOUS
<1> DEFINE HeadOf(an, l) == /\ an.type = "HEADER"
                            /\ an.header \in DOMAIN headers
                            /\ an.animno \in AnimsOf(an.header)
                            /\ st_entries[an.header][an.animno] = l
<1>0. /\ Advances /\ file' = file /\ DOMAIN code \subseteq DOMAIN code'
      /\ \A a : IsJump(a)' = IsJump(a) /\ Ins(a)' = Ins(a) /\ AnimsOf(a)' = AnimsOf(a)
  <2>1. Advances
    BY WalkAdvances
  <2>2. file' = file /\ DOMAIN code \subseteq DOMAIN code'
    BY <2>1 DEF Advances
  <2> QED
    BY <2>1, <2>2 DEF IsJump, Ins, AnimsOf
<1>1. DOMAIN headers' = DOMAIN headers
  BY TypeFacts, <1>0, NextType DEF TypeOK
<1>2. ASSUME NEW l \in DOMAIN symtbl, NEW an, HeadOf(an, l) PROVE HeadOf(an, l)'
  <2>1. l \in Nat /\ l # NULL
    BY LoadAssumption, TypeFacts
  <2>2. st_entries'[an.header][an.animno] = st_entries[an.header][an.animno]
    <3>1. CASE EnterAnim
      <4>1. /\ st_entries' = [st_entries EXCEPT ![cur] =
                                [st_entries[cur] EXCEPT ![animno] = Offset(cur, animno)]]
            /\ cur \in DOMAIN headers /\ animno \in AnimsOf(cur)
        BY <3>1, EnterAnimAdds
      <4>2. /\ DOMAIN st_entries = DOMAIN headers
            /\ \A h \in DOMAIN headers : st_entries[h] \in [AnimsOf(h) -> Pointer]
        BY DEF TypeOK
      <4>3. CASE an.header = cur /\ an.animno = animno
        <5>1. st_entries[cur][animno] = Offset(cur, animno)
          BY <1>2, <2>1, <4>3 DEF AnimsLabelled
        <5> QED
          BY <4>1, <4>2, <4>3, <5>1
      <4>4. CASE ~(an.header = cur /\ an.animno = animno)
        BY <1>2, <4>1, <4>2, <4>4
      <4> QED
        BY <4>3, <4>4
    <3>2. CASE ReadJmp \/ ReadCondJmp
      BY <3>2, JumpAdds
    <3>3. CASE ~EnterAnim /\ ~ReadJmp /\ ~ReadCondJmp
      BY <3>3, OthersQuiet DEF Quiet
    <3> QED
      BY <3>1, <3>2, <3>3
  <2> QED
    BY <1>0, <1>1, <1>2, <2>2
<1>3. ASSUME NEW l \in DOMAIN symtbl
      PROVE  /\ l \in DOMAIN code' \/ Ahead(l)'
             /\ JumpsTo(l) # {} \/ \E an \in AnimsTo(l) : HeadOf(an, l)
             /\ JumpsTo(l)' # {} \/ \E an \in AnimsTo(l)' : HeadOf(an, l)'
             /\ \A j \in JumpsTo(l) : j \in DOMAIN code' /\ IsJump(j) /\ Ins(j).target = l
  <2>1. /\ l \in DOMAIN code \/ Ahead(l)
        /\ \A j \in JumpsTo(l) : j \in DOMAIN code /\ IsJump(j) /\ Ins(j).target = l
        /\ JumpsTo(l) # {} \/ \E an \in AnimsTo(l) : HeadOf(an, l)
    BY DEF LabelsReferenced, JumpsTo, AnimsTo
  <2>2. JumpsTo(l) \subseteq JumpsTo(l)' /\ AnimsTo(l) \subseteq AnimsTo(l)'
    BY ReferencesGrow
  <2>3. l \in DOMAIN code' \/ Ahead(l)'
    BY <1>0, <2>1 DEF Advances
  <2>4. \A an : HeadOf(an, l) => HeadOf(an, l)'
    BY <1>2
  <2> HIDE DEF HeadOf
  <2>5. JumpsTo(l)' # {} \/ \E an \in AnimsTo(l)' : HeadOf(an, l)'
    BY <2>1, <2>2, <2>4
  <2> QED
    BY <1>0, <2>1, <2>3, <2>5
<1> DEFINE Good(l) == /\ l \in DOMAIN code \/ Ahead(l)
                      /\ \A j \in JumpsTo(l) :
                           j \in DOMAIN code /\ IsJump(j) /\ Ins(j).target = l
                      /\ JumpsTo(l) # {} \/ \E an \in AnimsTo(l) : HeadOf(an, l)
<1>4. SUFFICES ASSUME NEW l \in DOMAIN symtbl' PROVE Good(l)'
  BY DEF LabelsReferenced, JumpsTo, AnimsTo
<1>5. CASE EnterAnim
  <2> DEFINE a == Offset(cur, animno)
  <2>1. /\ \A m : JumpsTo(m)' = JumpsTo(m) \cup IF m = a THEN {} ELSE {}
        /\ \A m : AnimsTo(m)' = AnimsTo(m) \cup IF m = a THEN {Anim(animno, "HEADER")} ELSE {}
        /\ \A m \in DOMAIN symtbl' : m \in DOMAIN symtbl \/ m = a
        /\ cur \in DOMAIN headers /\ animno \in AnimsOf(cur)
        /\ pc' = "read" /\ pos' = a
        /\ st_entries' = [st_entries EXCEPT ![cur] =
                              [st_entries[cur] EXCEPT ![animno] = a]]
    BY <1>5, EnterAnimAdds DEF Adds
  <2>2. JumpsTo(l)' = JumpsTo(l)
    BY <2>1
  <2>3. CASE l \in DOMAIN symtbl
    BY <1>0, <1>3, <2>2, <2>3
  <2>4. CASE l = a /\ l \notin DOMAIN symtbl
    <3>1. Ahead(l)'
      BY <2>1, <2>4 DEF Ahead
    <3>2. JumpsTo(l)' = {}
      BY <2>2, <2>4 DEF JumpsTo
    <3>3. [header |-> cur, animno |-> animno, type |-> "HEADER"] \in AnimsTo(l)'
      BY <2>1, <2>4 DEF Anim
    <3>4. /\ DOMAIN st_entries = DOMAIN headers
          /\ \A h \in DOMAIN headers : st_entries[h] \in [AnimsOf(h) -> Pointer]
      BY DEF TypeOK
    <3>5. st_entries'[cur][animno] = l
      BY <2>1, <2>4, <3>4
    <3>6. \E an : /\ an \in AnimsTo(l)' /\ an.type = "HEADER"
                  /\ an.header = cur /\ an.animno = animno
      BY <3>3
    <3>7. \E an \in AnimsTo(l)' : HeadOf(an, l)'
      BY <1>0, <1>1, <2>1, <3>5, <3>6
    <3> QED
      BY <3>1, <3>2, <3>7
  <2> QED
    BY <2>1, <2>3, <2>4
<1>6. CASE ReadJmp \/ ReadCondJmp
  <2>1. PICK a : a = Ins(pos).target
    OBVIOUS
  <2>2. PICK anims : Adds(a, anims, {pos})
    BY <1>6, <2>1, JumpAdds
  <2>3. /\ DOMAIN code' = DOMAIN code \cup {pos} /\ IsJump(pos) /\ Ahead(a)'
        /\ \A m : JumpsTo(m)' = JumpsTo(m) \cup IF m = a THEN {pos} ELSE {}
        /\ \A m \in DOMAIN symtbl' : m \in DOMAIN symtbl \/ m = a
    BY <1>6, <2>1, <2>2, JumpAdds DEF Adds
  <2>4. \A j \in JumpsTo(l)' : j \in JumpsTo(l) \/ (j = pos /\ l = a)
    BY <2>3
  <2>5. CASE l \in DOMAIN symtbl
    <3>1. \A j \in JumpsTo(l)' : j \in DOMAIN code' /\ IsJump(j) /\ Ins(j).target = l
      BY <1>3, <2>1, <2>3, <2>4, <2>5
    <3> QED
      BY <1>0, <1>3, <2>5, <3>1
  <2>6. CASE l = a /\ l \notin DOMAIN symtbl
    <3>1. JumpsTo(l)' = {pos}
      BY <2>3, <2>6 DEF JumpsTo
    <3> QED
      BY <1>0, <2>1, <2>3, <2>6, <3>1
  <2> QED
    BY <2>3, <2>5, <2>6
<1>7. CASE ~EnterAnim /\ ~ReadJmp /\ ~ReadCondJmp
  <2>1. l \in DOMAIN symtbl /\ JumpsTo(l)' = JumpsTo(l)
    BY <1>7, OthersQuiet DEF Quiet, JumpsTo
  <2> QED
    BY <1>0, <1>3, <2>1
<1> QED
  BY <1>5, <1>6, <1>7

(* When an animation is left behind its label is made: the steps that turn *)
(* Labelled on are entering an animation, and those that pass one.         *)
LEMMA LabelledStep ==
  ASSUME TypeOK, HeadersWalked, Next, ~Fail, ~EnterAnim,
         pc' \in {"anims", "read", "link", "done"},
         NEW h \in DOMAIN headers, NEW i \in AnimsOf(h), Labelled(h, i)'
  PROVE  Offset(h, i) = NULL_UINT16
           \/ (pc \in {"anims", "read", "link", "done"} /\ Labelled(h, i))
<1>0. /\ cur \in {0} \cup DOMAIN headers /\ DOMAIN headers \subseteq Nat \ {0}
      /\ animno \in Nat /\ i \in Int /\ h # 0
  BY TypeFacts DEF AnimsOf
<1>1. CASE HeadersRead
  <2>1. /\ UNCHANGED <<headers, cur, animno>> /\ cur = 0 /\ headers[h] # "freed"
    BY <1>0, <1>1 DEF HeadersRead, HeadersWalked, hdrVars, walk
  <2> QED
    BY <1>0, <2>1 DEF Labelled
<1>2. CASE \E g \in DOMAIN headers : ReadTableEntry(g) \/ ReadHeader(g)
  BY <1>2 DEF ReadTableEntry, ReadHeader
<1>3. CASE TableEnd
  BY <1>3 DEF TableEnd
<1>4. CASE \E g \in DOMAIN headers : EnterHeader(g)
  <2>1. pc = "anims" /\ headers' = headers /\ animno' = 0 /\ pc' = pc
    BY <1>4 DEF EnterHeader, hdrVars
  <2>2. ~(i < 0)
    BY DEF AnimsOf
  <2> QED
    BY <2>1, <2>2 DEF Labelled
<1>5. CASE SkipAnim
  <2>1. pc = "anims" /\ pc' = pc /\ headers' = headers /\ animno' = animno + 1 /\ cur' = cur
        /\ Offset(cur, animno) = NULL_UINT16
    BY <1>5 DEF SkipAnim, HasAnim, hdrVars
  <2>2. i < animno + 1 => i < animno \/ i = animno
    BY <1>0
  <2> QED
    BY <2>1, <2>2 DEF Labelled
<1>6. CASE LeaveHeader
  <2>1. pc = "anims" /\ headers' = [headers EXCEPT ![cur] = "freed"] /\ cur' = 0
        /\ animno \notin AnimsOf(cur) /\ cur \in DOMAIN headers
    BY <1>0, <1>6 DEF LeaveHeader
  <2>2. headers[h] = "freed" \/ h = cur
    BY <1>0, <2>1 DEF Labelled
  <2>3. \A k \in AnimsOf(cur) : k < animno
    <3>1. PICK k \in Nat : k = file.table[cur].anims
      BY <1>0, <2>1, TypeFacts DEF IsFile
    <3>2. AnimsOf(cur) = 0 .. k - 1
      BY <3>1 DEF AnimsOf
    <3> QED
      BY <1>0, <2>1, <3>1, <3>2
  <2> QED
    BY <2>1, <2>2, <2>3 DEF Labelled
<1>7. CASE SeenBefore \/ ReadTerm \/ ReadNormal \/ ReadJmp \/ ReadCondJmp
  <2>1. /\ pc = "read" /\ headers' = headers /\ cur' = cur
        /\ \/ pc' = "read" /\ animno' = animno
           \/ pc' = "anims" /\ animno' = animno + 1
    BY <1>7 DEF SeenBefore, ReadTerm, ReadNormal, ReadJmp, ReadCondJmp, Reading,
                      Return, Pluck, hdrVars, walk
  <2>2. i < animno + 1 => i < animno \/ i = animno
    BY <1>0
  <2> QED
    BY <2>1, <2>2 DEF Labelled
<1>8. CASE CodeRead \/ LinkSkip \/ LinkInstr \/ Rehash
  <2>1. UNCHANGED <<headers, cur, animno>> /\ pc \in {"anims", "link"}
        /\ pc' \in {"link", "done"}
    BY <1>8 DEF CodeRead, LinkSkip, LinkInstr, Rehash, hdrVars, walk
  <2> QED
    BY <2>1 DEF Labelled
<1>9. CASE Stopped
  BY <1>9 DEF Stopped, vars, hdrVars, walk, Labelled
<1>10. CASE ReadFails
  BY <1>10 DEF ReadFails
<1> QED
  BY <1>1, <1>2, <1>3, <1>4, <1>5, <1>6, <1>7, <1>8, <1>9, <1>10 DEF Next

(* Every animation that was walked has its label, and the label knows it.  *)
LEMMA AnimsStep ==
  TypeOK /\ HeadersWalked /\ AnimsLabelled /\ Next /\ ~Fail => AnimsLabelled'
<1> SUFFICES ASSUME TypeOK, HeadersWalked, AnimsLabelled, Next, ~Fail PROVE AnimsLabelled'
  OBVIOUS
<1> DEFINE HeaderRef(h, i) == [header |-> h, animno |-> i, type |-> "HEADER"]
           Made(h, i) == /\ st_entries[h][i] = Offset(h, i)
                         /\ Offset(h, i) \in DOMAIN symtbl
                         /\ HeaderRef(h, i) \in AnimsTo(Offset(h, i))
<1>0. /\ \A h : AnimsOf(h)' = AnimsOf(h)
      /\ \A h, i : Offset(h, i)' = Offset(h, i)
      /\ DOMAIN headers' = DOMAIN headers
  <2>1. file' = file
    BY NextAdvances DEF Advances, Fails
  <2>2. DOMAIN headers' = DOMAIN headers
    BY <2>1, TypeFacts, NextType DEF TypeOK
  <2> QED
    BY <2>1, <2>2, FileFixed
<1>1. SUFFICES ASSUME NEW h \in DOMAIN headers, NEW i \in AnimsOf(h)
               PROVE  /\ Offset(h, i) = NULL_UINT16 => st_entries'[h][i] = NULL
                      /\ st_entries'[h][i] \in {NULL, Offset(h, i)}
                      /\ pc' \in {"anims", "read", "link", "done"} /\ Labelled(h, i)'
                            /\ Offset(h, i) # NULL_UINT16 =>
                           /\ st_entries'[h][i] = Offset(h, i)
                           /\ Offset(h, i) \in DOMAIN symtbl'
                           /\ HeaderRef(h, i) \in symtbl'[Offset(h, i)].anims
  BY <1>0 DEF AnimsLabelled
<1>2. /\ Offset(h, i) = NULL_UINT16 => st_entries[h][i] = NULL
      /\ st_entries[h][i] \in {NULL, Offset(h, i)}
      /\ pc \in {"anims", "read", "link", "done"} /\ Labelled(h, i)
            /\ Offset(h, i) # NULL_UINT16 => Made(h, i)
  BY DEF AnimsLabelled, AnimsTo
<1>3. PICK o : o = Offset(h, i)
  OBVIOUS
<1>4. /\ DOMAIN symtbl \subseteq DOMAIN symtbl'
      /\ AnimsTo(o) \subseteq AnimsTo(o)'
  BY ReferencesGrow
<1>5. ASSUME Made(h, i)
      PROVE  o \in DOMAIN symtbl' /\ HeaderRef(h, i) \in symtbl'[o].anims
  BY <1>3, <1>4, <1>5 DEF AnimsTo
<1>6. CASE EnterAnim
  <2>1. /\ cur \in DOMAIN headers /\ animno \in AnimsOf(cur)
        /\ Offset(cur, animno) # NULL_UINT16
        /\ Offset(cur, animno) \in DOMAIN symtbl'
        /\ UNCHANGED <<headers, cur, animno>>
        /\ st_entries' = [st_entries EXCEPT ![cur] =
                              [st_entries[cur] EXCEPT ![animno] = Offset(cur, animno)]]
    BY <1>6, EnterAnimAdds
  <2>2. /\ DOMAIN st_entries = DOMAIN headers
        /\ \A g \in DOMAIN headers : st_entries[g] \in [AnimsOf(g) -> Pointer]
    BY DEF TypeOK
  <2>3. CASE h = cur /\ i = animno
    <3>1. st_entries'[h][i] = o
      BY <1>3, <2>1, <2>2, <2>3
    <3>2. AnimsTo(o)' = AnimsTo(o) \cup {HeaderRef(h, i)}
      <4>1. Adds(o, {Anim(i, "HEADER")}, {})
        BY <1>3, <1>6, <2>3, EnterAnimAdds
      <4> QED
        BY <2>3, <4>1 DEF Adds, Anim
    <3>3. o \in DOMAIN symtbl' /\ HeaderRef(h, i) \in symtbl'[o].anims
      BY <1>3, <2>1, <2>3, <3>2 DEF AnimsTo
    <3> QED
      BY <1>3, <2>1, <2>3, <3>1, <3>3
  <2>4. CASE ~(h = cur /\ i = animno)
    <3>1. st_entries'[h][i] = st_entries[h][i]
      BY <2>1, <2>2, <2>4
    <3>2. Labelled(h, i)' => Labelled(h, i) /\ pc = "anims"
      BY <1>6, <2>1, <2>4 DEF Labelled, EnterAnim
    <3> HIDE DEF Made
    <3>3. Labelled(h, i)' /\ o # NULL_UINT16 => Made(h, i)
      BY <1>2, <1>3, <3>2
    <3> QED
      BY <1>2, <1>3, <1>5, <3>1, <3>3 DEF Made
  <2> QED
    BY <2>3, <2>4
<1>7. CASE ~EnterAnim
  <2>1. st_entries' = st_entries
    <3>1. CASE ReadJmp \/ ReadCondJmp
      BY <3>1, JumpAdds
    <3> QED
      BY <1>7, <3>1, OthersQuiet DEF Quiet
  <2> HIDE DEF Made
  <2>2. pc' \in {"anims", "read", "link", "done"} /\ Labelled(h, i)' /\ o # NULL_UINT16
          => Made(h, i)
    BY <1>2, <1>3, <1>7, LabelledStep
  <2> QED
    BY <1>2, <1>3, <1>5, <2>1, <2>2 DEF Made
<1> QED
  BY <1>6, <1>7

(* A new label gets an id that no other label has, and the rehash by id    *)
(* finds every label.                                                      *)
LEMMA IdsStep == TypeOK /\ IdsDistinct /\ Next /\ ~Fail => IdsDistinct'
<1> SUFFICES ASSUME TypeOK, IdsDistinct, Next, ~Fail PROVE IdsDistinct'
  OBVIOUS
<1>0. unique_id \in Nat /\ \A l \in DOMAIN symtbl : symtbl[l].id \in Nat
  <2>1. symtbl \in [DOMAIN symtbl -> IsSymTblEnt] /\ unique_id \in Nat
    BY TypeFacts
  <2> QED
    BY <2>1 DEF IsSymTblEnt
<1>1. /\ unique_id' \in Nat /\ unique_id <= unique_id'
      /\ \A l \in DOMAIN symtbl : symtbl'[l].id = symtbl[l].id
      /\ \E a : \A l \in DOMAIN symtbl' :
             l \in DOMAIN symtbl
               \/ (l = a /\ symtbl'[l].id = unique_id /\ unique_id < unique_id')
  <2>1. CASE EnterAnim
    <3>1. Adds(Offset(cur, animno), {Anim(animno, "HEADER")}, {})
      BY <2>1, EnterAnimAdds
    <3> QED
      BY <3>1 DEF Adds
  <2>2. CASE ReadJmp \/ ReadCondJmp
    <3>1. PICK a : a = Ins(pos).target
      OBVIOUS
    <3>2. \E anims : Adds(a, anims, {pos})
      BY <2>2, <3>1, JumpAdds
    <3> QED
      BY <3>2 DEF Adds
  <2>3. CASE ~EnterAnim /\ ~ReadJmp /\ ~ReadCondJmp
    BY <1>0, <2>3, OthersQuiet DEF Quiet
  <2> QED
    BY <2>1, <2>2, <2>3
<1>2. /\ \A l \in DOMAIN symtbl' : symtbl'[l].id < unique_id'
      /\ \A l, m \in DOMAIN symtbl' : symtbl'[l].id = symtbl'[m].id => l = m
  BY <1>0, <1>1 DEF IdsDistinct
<1>3. ASSUME pc' = "done", NEW l \in DOMAIN symtbl' PROVE byid'[symtbl'[l].id] = l
  <2>1. CASE Rehash
    <3>1. symtbl' = symtbl
      BY <2>1 DEF Rehash, graph
    <3>2. byid'[symtbl[l].id] = CHOOSE a \in DOMAIN symtbl : symtbl[a].id = symtbl[l].id
      BY <1>3, <2>1, <3>1 DEF Rehash
    <3> QED
      BY <1>3, <3>1, <3>2 DEF IdsDistinct
  <2>2. CASE Stopped
    BY <1>3, <2>2 DEF Stopped, vars, graph, links, IdsDistinct
  <2>3. CASE ~Rehash /\ ~Stopped
    BY <1>3, <2>3 DEF Next, ReadTableEntry, ReadHeader, EnterHeader, TableEnd, HeadersRead,
                SkipAnim, LeaveHeader, EnterAnim, SeenBefore, ReadFails, ReadNormal, ReadJmp,
                ReadCondJmp, ReadTerm, Reading, Return, Pluck, CodeRead, LinkSkip, LinkInstr
  <2> QED
    BY <2>1, <2>2, <2>3
<1> QED
  BY <1>2, <1>3 DEF IdsDistinct

(* At the start, and after the error path, there is no label.              *)
LEMMA NoLabels ==
  ASSUME DOMAIN symtbl = {}, DOMAIN code = {}
  PROVE  JumpsHaveLabels /\ LabelsReferenced /\ IdsDistinct
BY DEF JumpsHaveLabels, LabelsReferenced, IdsDistinct

LEMMA InitPointers == Init => PointersInv
<1> SUFFICES ASSUME Init PROVE PointersInv
  OBVIOUS
<1>1. DOMAIN symtbl = {} /\ DOMAIN code = {} /\ pc = "table"
      /\ headers = [h \in DOMAIN file.table |-> "unread"]
      /\ st_entries = [h \in DOMAIN file.table |-> [i \in AnimsOf(h) |-> NULL]]
  BY EmptyFacts DEF Init
<1>2. \A h \in DOMAIN headers : \A i \in AnimsOf(h) : st_entries[h][i] = NULL
  BY <1>1
<1>3. AnimsLabelled
  BY <1>1, <1>2 DEF AnimsLabelled
<1> QED
  BY <1>1, <1>3, NoLabels DEF PointersInv

(* The induction over the steps of iscript_new. *)
LEMMA NextPointers == TypeOK /\ HeadersWalked /\ PointersInv /\ [Next]_vars => PointersInv'
<1>1. ASSUME TypeOK, HeadersWalked, PointersInv, Next, ~Fail PROVE PointersInv'
  BY <1>1, JumpsStep, LabelsStep, AnimsStep, IdsStep DEF PointersInv
<1>2. ASSUME TypeOK, PointersInv, Fail PROVE PointersInv'
  <2>1. DOMAIN symtbl' = {} /\ DOMAIN code' = {} /\ pc' = "error"
        /\ UNCHANGED <<file, st_entries>> /\ DOMAIN headers' = DOMAIN headers
    BY <1>2, EmptyFacts DEF Fail
  <2>2. JumpsHaveLabels' /\ LabelsReferenced' /\ IdsDistinct'
    BY <2>1, NoLabels DEF JumpsHaveLabels, LabelsReferenced, IdsDistinct
  <2>3. AnimsLabelled'
    <3>1. \A h : AnimsOf(h)' = AnimsOf(h) /\ \A i : Offset(h, i)' = Offset(h, i)
      BY <2>1, FileFixed
    <3>2. \A h \in DOMAIN headers : \A i \in AnimsOf(h) :
            /\ Offset(h, i) = NULL_UINT16 => st_entries[h][i] = NULL
            /\ st_entries[h][i] \in {NULL, Offset(h, i)}
      BY <1>2 DEF PointersInv, AnimsLabelled
    <3> QED
      BY <2>1, <3>1, <3>2 DEF AnimsLabelled
  <2> QED
    BY <2>2, <2>3 DEF PointersInv
<1>3. ASSUME PointersInv, UNCHANGED vars PROVE PointersInv'
  BY <1>3, FileFixed DEF vars, hdrVars, walk, reader, graph, links, PointersInv,
        JumpsHaveLabels, LabelsReferenced, AnimsLabelled, IdsDistinct, IsJump, Ins, Ahead,
        Queued, Labelled
<1> QED
  BY <1>1, <1>2, <1>3

(* When the walk is over every jump and every animation of a header has    *)
(* its label, which lists it; the jumps that a label lists lead to it, and *)
(* a label has one, or an animation; and the table of labels by id has     *)
(* lost none.                                                              *)
THEOREM PointersDoAgree == Spec => []PointersAgree
<1>1. Spec => []PointersInv
  BY InitPointers, NextPointers, LoadTypeCorrect, WalkInvariant, PTL DEF Spec, WalkInv
<1>2. TypeOK /\ WalkInv /\ PointersInv => PointersAgree
  <2> SUFFICES ASSUME TypeOK, WalkInv, PointersInv PROVE PointersAgree
    OBVIOUS
  <2>1. ASSUME pc \in {"link", "done"} PROVE LabelsHaveReferences
    BY <2>1 DEF PointersInv, LabelsReferenced, LabelsHaveReferences, Ahead
  <2>2. ASSUME pc \in {"link", "done"} PROVE AnimsHaveLabels
    <3>1. \A h \in DOMAIN headers : headers[h] = "freed"
      BY <2>2 DEF WalkInv, HeadersWalked
    <3> QED
      BY <2>2, <3>1 DEF PointersInv, AnimsLabelled, AnimsHaveLabels, Labelled
  <2>3. pc = "done" => LabelsFoundById
    BY DEF PointersInv, IdsDistinct, LabelsFoundById
  <2> QED
    BY <2>1, <2>2, <2>3 DEF PointersAgree, PointersInv
<1> QED
  BY <1>1, <1>2, LoadTypeCorrect, WalkInvariant, PTL

-----------------------------------------------------------------------------
(* The list of the link pass.                                              *)

Continues(a) == Ins(a).kind \in {"normal", "cond"}
After(a) == a + Ins(a).len

(* What read_code has left in an instruction, and what the link pass finds *)
(* at every offset it has not come to.                                     *)
Unlinked(a) == code[a].next = IF Continues(a) THEN PENDING ELSE NULL

(* An instruction that the link pass has left behind points to the one     *)
(* after it, unless it is the last one.                                    *)
LinkedOn(a) ==
  /\ ~Continues(a) => code[a].next = NULL
  /\ Continues(a) /\ a # last =>
       /\ code[a].next = After(a)
       /\ After(a) < li
       /\ code[After(a)].prev = a

LinkInv ==
  /\ pc \notin {"link", "done", "error"} =>
       li = 0 /\ last = NULL /\ \A a \in DOMAIN code : Unlinked(a)
  /\ pc \in {"link", "done"} /\ NoOverlap =>
       /\ \A a \in DOMAIN code :
            /\ a >= li => Unlinked(a)
            /\ a < li => LinkedOn(a)
            /\ a < li /\ code[a].prev # NULL =>
                 /\ code[a].prev \in DOMAIN code
                 /\ code[code[a].prev].next = a
       /\ last # NULL =>
            /\ last \in DOMAIN code /\ last < li /\ li <= After(last)
            /\ Continues(last) /\ code[last].next = PENDING
  /\ pc = "done" => li = file.size + 1

(* What the link pass knows of the code it links. *)
LEMMA LinkFacts ==
  ASSUME TypeOK, NothingMissed, pc \in {"link", "done"}, NEW a \in DOMAIN code
  PROVE  /\ a \in Nat /\ a <= file.size /\ a # NULL
         /\ Ins(a).len \in Nat \ {0} /\ After(a) \in Nat /\ a < After(a)
         /\ Continues(a) => After(a) \in DOMAIN code
<1>1. a \in Addr /\ a \in Nat /\ a <= file.size /\ a # NULL
  BY TypeFacts, LoadAssumption DEF Addr
<1>2. Readable(a) /\ Succ(a) \subseteq DOMAIN code
  BY DEF NothingMissed
<1>3. Ins(a).len \in Nat \ {0}
  BY <1>1, <1>2, ReadableFacts, TypeFacts
<1>4. After(a) \in Nat /\ a < After(a)
  BY <1>1, <1>3 DEF After
<1>5. Continues(a) => After(a) \in DOMAIN code
  BY <1>2, SuccFacts DEF Continues, After
<1> QED
  BY <1>1, <1>3, <1>4, <1>5

(* read_code leaves every instruction unlinked. *)
LEMMA UnlinkedStep ==
  ASSUME TypeOK, LinkInv, Next, pc' \notin {"link", "done", "error"}
  PROVE  li' = 0 /\ last' = NULL /\ \A a \in DOMAIN code' : Unlinked(a)'
<1>1. /\ pc \notin {"link", "done", "error"} /\ li' = li /\ last' = last
      /\ file' = file /\ ~Fail
      /\ code' = code \/ ReadNormal \/ ReadJmp \/ ReadCondJmp \/ ReadTerm
  BY DEF Next, ReadTableEntry, ReadHeader, EnterHeader, TableEnd, HeadersRead, SkipAnim,
         LeaveHeader, EnterAnim, SeenBefore, ReadFails, ReadNormal, ReadJmp, ReadCondJmp,
         ReadTerm, Reading, CodeRead, LinkSkip, LinkInstr, Rehash, Stopped, vars, graph,
         links, Fail
<1>2. /\ li = 0 /\ last = NULL /\ \A a \in DOMAIN code : Unlinked(a)
      /\ \A a : Ins(a)' = Ins(a) /\ Continues(a)' = Continues(a)
  BY <1>1 DEF LinkInv, Ins, Continues
<1>3. CASE code' = code
  BY <1>1, <1>2, <1>3 DEF Unlinked
<1>4. CASE ReadNormal \/ ReadJmp \/ ReadCondJmp \/ ReadTerm
  <2>1. PICK next \in {NULL, PENDING} :
           Store(next) /\ next = IF Continues(pos) THEN PENDING ELSE NULL
    BY <1>1, <1>4 DEF ReadNormal, ReadJmp, ReadCondJmp, ReadTerm, Reading, Continues
  <2>2. /\ DOMAIN code' = DOMAIN code \cup {pos} /\ code'[pos].next = next
        /\ \A a \in DOMAIN code \ {pos} : code'[a] = code[a]
    BY <2>1, StoreType
  <2>3. ASSUME NEW a \in DOMAIN code' PROVE Unlinked(a)'
    <3>1. CASE a = pos
      BY <1>2, <2>1, <2>2, <3>1 DEF Unlinked
    <3>2. CASE a # pos
      BY <1>2, <2>2, <2>3, <3>2 DEF Unlinked
    <3> QED
      BY <3>1, <3>2
  <2> QED
    BY <1>1, <1>2, <2>3
<1> QED
  BY <1>1, <1>3, <1>4

(* One step of the link loop: the instruction at li gets the last one as   *)
(* prev, and the last one gets li as next.                                 *)
LEMMA LinkInstrStep ==
  ASSUME TypeOK, NothingMissed, NoOverlap, LinkInv, LinkInstr
  PROVE  /\ \A a \in DOMAIN code :
              /\ a >= li' => Unlinked(a)'
              /\ a < li' => LinkedOn(a)'
              /\ a < li' /\ code'[a].prev # NULL =>
                   /\ code'[a].prev \in DOMAIN code
                   /\ code'[code'[a].prev].next = a
         /\ last' # NULL =>
              /\ last' \in DOMAIN code /\ last' < li' /\ li' <= After(last')
              /\ Continues(last') /\ code'[last'].next = PENDING
<1>0. /\ pc = "link" /\ li \in DOMAIN code /\ li' = li + 1 /\ file' = file
      /\ li \in Nat
  BY TypeFacts DEF LinkInstr
<1>1. /\ \A a \in DOMAIN code :
           /\ a >= li => Unlinked(a)
           /\ a < li => LinkedOn(a)
           /\ a < li /\ code[a].prev # NULL =>
                /\ code[a].prev \in DOMAIN code
                /\ code[code[a].prev].next = a
      /\ last # NULL =>
           /\ last \in DOMAIN code /\ last < li /\ li <= After(last)
           /\ Continues(last) /\ code[last].next = PENDING
  BY <1>0 DEF LinkInv
<1>2. \A a \in DOMAIN code :
        /\ a \in Nat /\ a # NULL /\ After(a) \in Nat /\ a < After(a)
        /\ Continues(a) => After(a) \in DOMAIN code
  BY <1>0, LinkFacts
<1>3. PENDING # NULL /\ PENDING \notin Nat
  BY LoadAssumption DEF PENDING
<1>4. /\ \A a : Ins(a)' = Ins(a)
      /\ \A a : Continues(a)' = Continues(a) /\ After(a)' = After(a)
  BY <1>0 DEF Ins, Continues, After
<1>5. last # NULL => After(last) = li
  <2>1. last # NULL => After(last) <= li
    BY <1>0, <1>1 DEF NoOverlap, After
  <2> QED
    BY <1>0, <1>1, <1>2, <2>1
<1>6. /\ code[li].next = IF Continues(li) THEN PENDING ELSE NULL
      /\ last' = IF Continues(li) THEN li ELSE NULL
  BY <1>0, <1>1, <1>3 DEF LinkInstr, RunsOn, Unlinked
<1>7. /\ code'[li].next = code[li].next /\ code'[li].prev = last
      /\ last # NULL => code'[last].next = li /\ code'[last].prev = code[last].prev
      /\ \A a \in DOMAIN code : a # li /\ a # last => code'[a] = code[a]
  <2>1. code' = [a \in DOMAIN code |->
       IF a = li
       THEN [next     |-> code[li].next,
             prev     |-> last,
             st_entry |-> IF li \in DOMAIN symtbl THEN li ELSE NULL,
             jump     |-> IF IsJump(li) /\ Ins(li).target \in DOMAIN symtbl
                          THEN Ins(li).target ELSE NULL]
       ELSE IF a = last /\ code[a].next = PENDING
            THEN [code[a] EXCEPT !.next = li]
            ELSE code[a]]
    BY DEF LinkInstr
  <2>2. \A a \in DOMAIN code :
          [code[a] EXCEPT !.next = li].next = li
          /\ [code[a] EXCEPT !.next = li].prev = code[a].prev
    BY TypeFacts DEF IsInstr
  <2>3. last # NULL => last \in DOMAIN code /\ last # li /\ code[last].next = PENDING
    BY <1>0, <1>1, <1>2
  <2> QED
    BY <1>0, <2>1, <2>2, <2>3
<1>8. ASSUME NEW a \in DOMAIN code, a # li PROVE code'[a].prev = code[a].prev
  BY <1>2, <1>7, <1>8
<1>9. ASSUME NEW a \in DOMAIN code, a >= li' PROVE Unlinked(a)'
  <2>1. a # li /\ a # last /\ a >= li
    BY <1>0, <1>1, <1>2, <1>9
  <2> QED
    BY <1>1, <1>4, <1>7, <2>1 DEF Unlinked
<1>10. ASSUME NEW a \in DOMAIN code, a < li' PROVE LinkedOn(a)'
  <2>0. SUFFICES /\ ~Continues(a) => code'[a].next = NULL
                 /\ Continues(a) /\ a # last' =>
                      /\ code'[a].next = After(a)
                      /\ After(a) < li'
                      /\ code'[After(a)].prev = a
    BY <1>4 DEF LinkedOn
  <2>1. CASE a = li
    BY <1>6, <1>7, <2>1
  <2>2. CASE a = last /\ a # li
    BY <1>0, <1>1, <1>2, <1>5, <1>7, <2>2
  <2>3. CASE a # last /\ a # li
    <3>1. LinkedOn(a)
      BY <1>0, <1>1, <1>2, <1>10, <2>3
    <3>2. code'[a].next = code[a].next
      BY <1>7, <2>3
    <3>3. ASSUME Continues(a)
          PROVE  code'[a].next = After(a) /\ After(a) < li' /\ code'[After(a)].prev = a
      <4>1. code[a].next = After(a) /\ After(a) < li /\ code[After(a)].prev = a
        BY <2>3, <3>1, <3>3 DEF LinkedOn
      <4>2. After(a) \in DOMAIN code /\ After(a) # li /\ After(a) < li + 1
        BY <1>0, <1>2, <3>3, <4>1
      <4> QED
        BY <1>0, <1>8, <3>2, <4>1, <4>2
    <3> QED
      BY <3>1, <3>2, <3>3 DEF LinkedOn
  <2> QED
    BY <2>1, <2>2, <2>3
<1>11. ASSUME NEW a \in DOMAIN code, a < li', code'[a].prev # NULL
       PROVE  code'[a].prev \in DOMAIN code /\ code'[code'[a].prev].next = a
  <2>1. CASE a = li
    BY <1>1, <1>7, <1>11, <2>1
  <2>2. CASE a # li
    <3>1. a < li /\ code'[a].prev = code[a].prev
      BY <1>0, <1>2, <1>8, <1>11, <2>2
    <3>2. code[a].prev \in DOMAIN code /\ code[code[a].prev].next = a
      BY <1>1, <1>11, <3>1
    <3>3. code[a].prev # li
      BY <1>2, <1>3, <1>6, <3>2
    <3>4. code[a].prev # last
      BY <1>1, <1>2, <1>3, <3>2
    <3> QED
      BY <1>7, <3>1, <3>2, <3>3, <3>4
  <2> QED
    BY <2>1, <2>2
<1>12. ASSUME last' # NULL
       PROVE  /\ last' \in DOMAIN code /\ last' < li' /\ li' <= After(last')
              /\ Continues(last') /\ code'[last'].next = PENDING
  <2>1. last' = li /\ Continues(li)
    BY <1>6, <1>12
  <2>2. li < li + 1 /\ li + 1 <= After(li)
    BY <1>0, <1>2
  <2> QED
    BY <1>0, <1>6, <1>7, <2>1, <2>2
<1> QED
  BY <1>9, <1>10, <1>11, <1>12

(* Every step keeps the invariant of the list. *)
LEMMA NextLinks == TypeOK /\ NothingMissed /\ LinkInv /\ [Next]_vars => LinkInv'
<1>0. ASSUME NEW a \in DOMAIN code, UNCHANGED <<file, code>>
      PROVE  /\ Ins(a)' = Ins(a) /\ Continues(a)' = Continues(a) /\ After(a)' = After(a)
             /\ Unlinked(a)' = Unlinked(a)
  BY <1>0 DEF Ins, Continues, After, Unlinked
<1>1. ASSUME TypeOK, NothingMissed, LinkInv, Next, pc' = "link" PROVE LinkInv'
  <2>1. CASE CodeRead
    <3>1. /\ li = 0 /\ last = NULL /\ \A a \in DOMAIN code : Unlinked(a)
          /\ UNCHANGED <<file, li, last, code>>
      BY <1>1, <2>1 DEF CodeRead, LinkInv, links, graph
    <3>2. \A a \in DOMAIN code : ~(a < 0) /\ a >= 0
      BY <1>1, TypeFacts
    <3> QED
      BY <1>0, <1>1, <3>1, <3>2 DEF LinkInv
  <2>2. CASE LinkSkip
    <3>1. /\ pc = "link" /\ li \in Nat /\ li \notin DOMAIN code /\ li' = li + 1
          /\ UNCHANGED <<file, last, code>>
      BY <1>1, <2>2, TypeFacts DEF LinkSkip, graph
    <3>2. NoOverlap' = NoOverlap
      BY <3>1 DEF NoOverlap, Ins
    <3>3. SUFFICES ASSUME NoOverlap
                   PROVE  /\ \A a \in DOMAIN code :
                               /\ a >= li + 1 => Unlinked(a)'
                               /\ a < li + 1 => LinkedOn(a)'
                               /\ a < li + 1 /\ code[a].prev # NULL =>
                                    /\ code[a].prev \in DOMAIN code
                                    /\ code[code[a].prev].next = a
                          /\ last # NULL =>
                               /\ last \in DOMAIN code /\ last < li + 1
                               /\ li + 1 <= After(last)
                               /\ Continues(last) /\ code[last].next = PENDING
      BY <1>0, <1>1, <3>1, <3>2 DEF LinkInv, Continues, After, Ins
    <3>4. \A a \in DOMAIN code :
             /\ a \in Nat /\ After(a) \in Nat
             /\ Continues(a) => After(a) \in DOMAIN code
      BY <1>1, <3>1, LinkFacts
    <3>5. ASSUME NEW a \in DOMAIN code PROVE (a < li + 1 <=> a < li) /\ (a >= li + 1 <=> a >= li)
      BY <3>1, <3>4
    <3>6. ASSUME NEW a \in DOMAIN code, a < li PROVE LinkedOn(a)'
      <4>1. LinkedOn(a)
        BY <3>1, <3>3, <3>6, <1>1 DEF LinkInv
      <4> QED
        BY <1>0, <3>1, <3>4, <4>1 DEF LinkedOn
    <3>7. ASSUME last # NULL
          PROVE  /\ last \in DOMAIN code /\ last < li + 1 /\ li + 1 <= After(last)
                 /\ Continues(last) /\ code[last].next = PENDING
      <4>1. /\ last \in DOMAIN code /\ last < li /\ li <= After(last)
            /\ Continues(last) /\ code[last].next = PENDING
        BY <1>1, <3>1, <3>3, <3>7 DEF LinkInv
      <4>2. After(last) # li
        BY <3>1, <3>4, <4>1
      <4> QED
        BY <3>1, <3>4, <4>1, <4>2
    <3>8. \A a \in DOMAIN code :
             /\ a >= li => Unlinked(a)
             /\ a < li /\ code[a].prev # NULL =>
                  /\ code[a].prev \in DOMAIN code
                  /\ code[code[a].prev].next = a
      BY <1>1, <3>1, <3>3 DEF LinkInv
    <3> QED
      BY <1>0, <3>1, <3>5, <3>6, <3>7, <3>8
  <2>3. CASE LinkInstr
    <3>1. pc = "link" /\ file' = file /\ DOMAIN code' = DOMAIN code
      BY <2>3 DEF LinkInstr
    <3>2. NoOverlap' = NoOverlap
      BY <3>1 DEF NoOverlap, Ins
    <3> QED
      BY <1>1, <2>3, <3>1, <3>2, LinkInstrStep DEF LinkInv, Continues, After, Ins
  <2> QED
    BY <1>1, <2>1, <2>2, <2>3 DEF Next, ReadTableEntry, ReadHeader, EnterHeader, TableEnd,
         HeadersRead, SkipAnim, LeaveHeader, EnterAnim, SeenBefore, ReadFails, ReadNormal,
         ReadJmp, ReadCondJmp, ReadTerm, Reading, Return, Pluck, Rehash, Stopped, vars, Fail
<1>2. ASSUME LinkInv, UNCHANGED <<file, code, li, last>>,
             pc' = pc \/ (pc = "link" /\ pc' = "done" /\ li = file.size + 1)
      PROVE  LinkInv'
  <2>1. /\ NoOverlap' = NoOverlap
        /\ \A a \in DOMAIN code : LinkedOn(a)' = LinkedOn(a)
    BY <1>2 DEF NoOverlap, LinkedOn, Continues, After, Ins
  <2>2. last \in DOMAIN code => Continues(last)' = Continues(last) /\ After(last)' = After(last)
    BY <1>2 DEF Continues, After, Ins
  <2> QED
    BY <1>0, <1>2, <2>1, <2>2 DEF LinkInv
<1>3. ASSUME TypeOK, LinkInv, Next, pc' = "done" PROVE LinkInv'
  <2>1. CASE Rehash
    <3>1. pc = "link" /\ UNCHANGED <<file, code, li, last>> /\ li > file.size
      BY <2>1 DEF Rehash, graph
    <3>2. li = file.size + 1
      BY <1>3, <3>1, TypeFacts
    <3> QED
      BY <1>2, <1>3, <3>1, <3>2
  <2>2. CASE Stopped
    BY <1>2, <1>3, <2>2 DEF Stopped, vars, graph, links
  <2> QED
    BY <1>3, <2>1, <2>2 DEF Next, ReadTableEntry, ReadHeader, EnterHeader, TableEnd,
         HeadersRead, SkipAnim, LeaveHeader, EnterAnim, SeenBefore, ReadFails, ReadNormal,
         ReadJmp, ReadCondJmp, ReadTerm, Reading, Return, Pluck, CodeRead, LinkSkip,
         LinkInstr, Fail
<1>4. ASSUME TypeOK, LinkInv, Next, pc' \notin {"link", "done", "error"} PROVE LinkInv'
  BY <1>4, UnlinkedStep DEF LinkInv
<1>5. pc' = "error" => LinkInv'
  BY DEF LinkInv
<1>6. LinkInv /\ UNCHANGED vars => LinkInv'
  BY <1>2 DEF vars, graph, links
<1> QED
  BY <1>1, <1>3, <1>4, <1>5, <1>6

(* The list that the link pass builds is the order of execution, in a file *)
(* whose instructions do not overlap.                                      *)
THEOREM LinkedInOrder == Spec => []LinkedAsExecuted
<1>1. Init => LinkInv
  BY EmptyFacts DEF Init, LinkInv
<1>2. Spec => []LinkInv
  BY <1>1, NextLinks, LoadTypeCorrect, ReadsEverything, PTL DEF Spec
<1>3. TypeOK /\ NothingMissed /\ LinkInv => LinkedAsExecuted
  <2> SUFFICES ASSUME TypeOK, NothingMissed, LinkInv, pc = "done", NoOverlap,
                      NEW a \in DOMAIN code
               PROVE  /\ code[a].next = IF Continues(a) THEN After(a) ELSE NULL
                      /\ code[a].next # NULL => code[code[a].next].prev = a
                      /\ code[a].prev # NULL => code[code[a].prev].next = a
    BY DEF LinkedAsExecuted, Continues, After
  <2>1. \A b \in DOMAIN code : /\ b \in Nat /\ b <= file.size /\ After(b) \in Nat
                               /\ Continues(b) => After(b) \in DOMAIN code
    BY LinkFacts
  <2>2. li = file.size + 1 /\ file.size \in Nat
    BY TypeFacts DEF LinkInv
  <2>3. a < li
    BY <2>1, <2>2
  <2>4. /\ LinkedOn(a)
        /\ code[a].prev # NULL => code[code[a].prev].next = a
        /\ last # NULL => last \in DOMAIN code /\ li <= After(last) /\ Continues(last)
    BY <2>3 DEF LinkInv
  <2>5. a # last
    <3> SUFFICES ASSUME a = last PROVE FALSE
      OBVIOUS
    <3>1. PICK b \in DOMAIN code : b = After(a) /\ li <= b
      BY <2>4, LinkFacts
    <3>2. b \in Nat /\ b <= file.size
      BY <2>1
    <3> QED
      BY <2>2, <3>1, <3>2
  <2> QED
    BY <2>4, <2>5 DEF LinkedOn
<1> QED
  BY <1>2, <1>3, LoadTypeCorrect, ReadsEverything, PTL

-----------------------------------------------------------------------------
(* What the loader reads its file with: proofs about MemoryFileClient, for *)
(* files of any size and any sequence of calls.                            *)

(* A file; its position is inside unless a seek has failed.                *)
IsMemoryFile(m) ==
  /\ m = [array |-> m.array, size |-> m.size, pos |-> m.pos]
  /\ m.size \in Nat /\ DOMAIN m.array = 0 .. m.size - 1
  /\ m.pos \in Int

PosInside(m) == m.pos \in 0 .. m.size

FileInv ==
  /\ mfile # Absent => IsMemoryFile(mfile) /\ (~ gaveUp => PosInside(mfile))
  /\ AccessesInside

(* Objects are moved as long as they end inside, and no longer.            *)
LEMMA MovedInside ==
  ASSUME NEW m, IsMemoryFile(m), PosInside(m), NEW width \in Widths, NEW n \in Nat
  PROVE  /\ Moved(m, width, n) \in 0 .. n
         /\ m.pos + Moved(m, width, n) * width \in m.pos .. m.size
         /\ Moved(m, width, n) < n => m.size < m.pos + (Moved(m, width, n) + 1) * width
<1> DEFINE Goes(k) == /\ \A j \in 1 .. k : ~ PastEnd(m, m.pos + j * width)
                      /\ k < n => PastEnd(m, m.pos + (k + 1) * width)
           fit == (m.size - m.pos) \div width
           k == Moved(m, width, n)
<1>1. m.size \in Nat /\ m.pos \in Nat /\ m.pos <= m.size /\ width \in {1, 2, 4}
  BY DEF IsMemoryFile, PosInside, Widths
<1>2. \E i \in 0 .. n : Goes(i)
  <2>1. fit \in Nat /\ fit * width <= m.size - m.pos /\ m.size - m.pos < (fit + 1) * width
    BY <1>1
  <2>2. CASE n <= fit
    <3>1. \A j \in 1 .. n : 0 <= m.pos + j * width /\ m.pos + j * width <= m.size
      <4>1. CASE width = 1
        BY <1>1, <2>1, <2>2, <4>1
      <4>2. CASE width = 2
        BY <1>1, <2>1, <2>2, <4>2
      <4>3. CASE width = 4
        BY <1>1, <2>1, <2>2, <4>3
      <4> QED
        BY <1>1, <4>1, <4>2, <4>3
    <3>2. \A j \in 1 .. n : ~ PastEnd(m, m.pos + j * width)
      BY <1>1, <3>1 DEF PastEnd
    <3> QED
      BY <3>2
  <2>3. CASE fit < n
    <3>1. \A j \in 1 .. fit : 0 <= m.pos + j * width /\ m.pos + j * width <= m.size
      <4>1. CASE width = 1
        BY <1>1, <2>1, <4>1
      <4>2. CASE width = 2
        BY <1>1, <2>1, <4>2
      <4>3. CASE width = 4
        BY <1>1, <2>1, <4>3
      <4> QED
        BY <1>1, <4>1, <4>2, <4>3
    <3>2. \A j \in 1 .. fit : ~ PastEnd(m, m.pos + j * width)
      BY <1>1, <3>1 DEF PastEnd
    <3>3. PastEnd(m, m.pos + (fit + 1) * width)
      BY <1>1, <2>1 DEF PastEnd
    <3>4. fit \in 0 .. n /\ Goes(fit)
      BY <2>1, <2>3, <3>2, <3>3
    <3> QED
      BY <3>4
  <2> QED
    BY <2>1, <2>2, <2>3
<1>3. k \in 0 .. n /\ Goes(k)
  <2> HIDE DEF Goes
  <2>1. k = CHOOSE i \in 0 .. n : Goes(i)
    BY DEF Moved, Goes
  <2> QED
    BY <1>2, <2>1
<1> HIDE DEF k
<1>4. m.pos + k * width \in m.pos .. m.size
  <2>1. k * width \in Nat
    BY <1>1, <1>3
  <2>2. CASE k = 0
    BY <1>1, <2>2
  <2>3. CASE k # 0
    <3>1. ~ PastEnd(m, m.pos + k * width)
      BY <1>3, <2>3
    <3> QED
      BY <1>1, <2>1, <3>1 DEF PastEnd
  <2> QED
    BY <2>2, <2>3
<1>5. ASSUME k < n PROVE m.size < m.pos + (k + 1) * width
  <2>1. PastEnd(m, m.pos + (k + 1) * width)
    BY <1>3, <1>5
  <2>2. (k + 1) * width \in Nat
    BY <1>1, <1>3
  <2> QED
    BY <1>1, <2>1, <2>2 DEF PastEnd
<1> QED
  BY <1>3, <1>4, <1>5 DEF k

LEMMA AfterMoving ==
  ASSUME NEW m, IsMemoryFile(m), PosInside(m), NEW width \in Widths, NEW n \in Nat
  PROVE  LET r == AfterRead(m, width, n) IN
         /\ r.size = m.size /\ r.array = m.array
         /\ IsMemoryFile(r) /\ PosInside(r)
         /\ Extent(m, width, Moved(m, width, n)) \subseteq 0 .. m.size - 1
<1> DEFINE r == AfterRead(m, width, n)
           k == Moved(m, width, n)
<1>1. k \in Nat /\ width \in Nat /\ m.pos + k * width \in m.pos .. m.size /\ k * width = width * k
  BY MovedInside DEF Widths
<1>2. m.size \in Nat /\ m.pos \in 0 .. m.size
  BY DEF IsMemoryFile, PosInside
<1>3. r = [array |-> m.array, size |-> m.size, pos |-> m.pos + width * k]
  BY DEF AfterRead, IsMemoryFile
<1> HIDE DEF k, r
<1>4. r.size = m.size /\ r.array = m.array /\ r.pos = m.pos + k * width
  BY <1>1, <1>3
<1>5. IsMemoryFile(r) /\ PosInside(r)
  BY <1>1, <1>2, <1>3, <1>4 DEF IsMemoryFile, PosInside
<1>6. Extent(m, width, k) \subseteq 0 .. m.size - 1
  BY <1>1, <1>2 DEF Extent
<1> QED
  BY <1>4, <1>5, <1>6 DEF k, r

LEMMA NewFile ==
  ASSUME NEW size \in Nat, NEW bytes \in [1 .. size -> Byte]
  PROVE  IsMemoryFile(File(bytes)) /\ PosInside(File(bytes))
<1>1. bytes \in Seq(Byte) /\ Len(bytes) = size
  BY DEF Seq
<1> QED
  BY <1>1 DEF IsMemoryFile, PosInside, File

LEMMA NextFile == FileInv /\ [FileNext]_file_vars => FileInv'
<1> SUFFICES ASSUME FileInv, [FileNext]_file_vars PROVE FileInv'
  OBVIOUS
<1>1. CASE Open
  <2>1. PICK size \in 0 .. MaxSize : \E bytes \in [1 .. size -> Byte] : mfile' \in {Absent, File(bytes)}
    BY <1>1 DEF Open
  <2>2. PICK bytes \in [1 .. size -> Byte] : mfile' \in {Absent, File(bytes)}
    BY <2>1
  <2>3. IsMemoryFile(File(bytes)) /\ PosInside(File(bytes))
    BY NewFile, MemoryFileAssumption
  <2> QED
    BY <1>1, <2>2, <2>3 DEF FileInv, AccessesInside, Open
<1>2. CASE Create
  <2>1. PICK size \in 1 .. MaxSize : \E bytes \in [1 .. size -> Byte] : mfile' = File(bytes)
    BY <1>2 DEF Create
  <2>2. PICK bytes \in [1 .. size -> Byte] : mfile' = File(bytes)
    BY <2>1
  <2>3. IsMemoryFile(File(bytes)) /\ PosInside(File(bytes))
    BY NewFile, MemoryFileAssumption
  <2> QED
    BY <1>2, <2>2, <2>3 DEF FileInv, AccessesInside, Create
<1>3. ASSUME InUse PROVE IsMemoryFile(mfile) /\ PosInside(mfile)
  BY <1>3 DEF InUse, FileInv
<1>4. CASE GetChar
  <2>1. IsMemoryFile(mfile) /\ PosInside(mfile) /\ InUse
    BY <1>3, <1>4 DEF GetChar
  <2>2. mfile.size \in Nat /\ mfile.pos \in 0 .. mfile.size
    BY <2>1 DEF IsMemoryFile, PosInside
  <2>3. CASE mfile.pos < mfile.size
    <3>1. mfile' = [array |-> mfile.array, size |-> mfile.size, pos |-> mfile.pos + 1]
      BY <1>4, <2>1, <2>3 DEF GetChar, AfterChar, IsMemoryFile
    <3>2. IsMemoryFile(mfile') /\ PosInside(mfile')
      BY <2>1, <2>2, <2>3, <3>1 DEF IsMemoryFile, PosInside
    <3>3. touched' \subseteq 0 .. mfile'.size - 1
      BY <1>4, <2>2, <2>3, <3>1 DEF GetChar
    <3> QED
      BY <3>2, <3>3 DEF FileInv, AccessesInside
  <2>4. CASE ~ (mfile.pos < mfile.size)
    <3>1. mfile' = mfile /\ touched' = {}
      BY <1>4, <2>2, <2>4 DEF GetChar, AfterChar
    <3> QED
      BY <2>1, <3>1 DEF FileInv, AccessesInside
  <2> QED
    BY <2>3, <2>4
<1>5. CASE Close
  BY <1>5 DEF Close, FileInv, AccessesInside
<1>6. ASSUME NEW offset \in Offsets, NEW whence \in {"SET", "CUR", "END"}, Seek(offset, whence)
      PROVE  FileInv'
  <2> DEFINE aim == CASE whence = "SET" -> offset
                      [] whence = "CUR" -> mfile.pos + offset
                      [] whence = "END" -> mfile.size + offset
  <2>1. IsMemoryFile(mfile)
    BY <1>3, <1>6 DEF Seek
  <2>2. aim \in Int
    <3>1. mfile.pos \in Int /\ mfile.size \in Int /\ offset \in Int
      BY <2>1, MemoryFileAssumption DEF IsMemoryFile
    <3> QED
      BY <3>1
  <2>3. mfile' = [array |-> mfile.array, size |-> mfile.size, pos |-> aim]
    BY <1>6, <2>1 DEF Seek, Sought, IsMemoryFile
  <2> HIDE DEF aim
  <2>4. IsMemoryFile(mfile')
    BY <2>1, <2>2, <2>3 DEF IsMemoryFile
  <2>5. ~ gaveUp' => PosInside(mfile')
    <3>1. ~ gaveUp' => ~ Outside(mfile')
      BY <1>6, Zenon DEF Seek
    <3> QED
      BY <2>4, <3>1 DEF Outside, PosInside, IsMemoryFile
  <2> QED
    BY <1>6, <2>4, <2>5 DEF FileInv, AccessesInside, Seek
<1>7. ASSUME NEW width \in Widths, NEW n \in Counts, ReadObjects(width, n)
      PROVE  FileInv'
  <2>1. IsMemoryFile(mfile) /\ PosInside(mfile) /\ n \in Nat
    BY <1>3, <1>7, MemoryFileAssumption DEF ReadObjects
  <2>2. /\ IsMemoryFile(mfile') /\ PosInside(mfile') /\ mfile'.size = mfile.size
        /\ touched' \subseteq 0 .. mfile.size - 1
    BY <1>7, <2>1, AfterMoving DEF ReadObjects
  <2> QED
    BY <2>2 DEF FileInv, AccessesInside
<1>8. ASSUME NEW width \in Widths, NEW values \in Objects, WriteObjects(width, values)
      PROVE  FileInv'
  <2> DEFINE r == AfterRead(mfile, width, Len(values))
  <2>1. IsMemoryFile(mfile) /\ PosInside(mfile) /\ Len(values) \in Nat
    BY <1>3, <1>8, MemoryFileAssumption DEF WriteObjects
  <2>2. /\ IsMemoryFile(r) /\ PosInside(r) /\ r.size = mfile.size
        /\ touched' \subseteq 0 .. mfile.size - 1
    BY <1>8, <2>1, AfterMoving DEF WriteObjects
  <2>3. /\ mfile' = [array |-> mfile'.array, size |-> r.size, pos |-> r.pos]
        /\ DOMAIN mfile'.array = DOMAIN mfile.array
    <3> DEFINE extent == Extent(mfile, width, Moved(mfile, width, Len(values)))
               a == [b \in DOMAIN mfile.array |->
                       IF b \in extent
                       THEN ByteOf(values[1 + (b - mfile.pos) \div width], (b - mfile.pos) % width)
                       ELSE r.array[b]]
    <3>1. mfile' = [r EXCEPT !.array = a]
      BY <1>8, Zenon DEF WriteObjects, AfterWrite
    <3>2. DOMAIN a = DOMAIN mfile.array
      OBVIOUS
    <3> HIDE DEF a, r
    <3>3. mfile' = [array |-> a, size |-> r.size, pos |-> r.pos]
      BY <2>2, <3>1 DEF IsMemoryFile
    <3> QED
      BY <3>2, <3>3
  <2> HIDE DEF r
  <2>4. IsMemoryFile(mfile') /\ PosInside(mfile') /\ mfile'.size = mfile.size
    BY <2>1, <2>2, <2>3 DEF IsMemoryFile, PosInside
  <2> QED
    BY <2>2, <2>4 DEF FileInv, AccessesInside
<1>9. ASSUME NEW size \in 1 .. MaxSize, Resize(size) PROVE FileInv'
  <2>1. IsMemoryFile(mfile) /\ PosInside(mfile) /\ size \in Nat
    BY <1>3, <1>9, MemoryFileAssumption DEF Resize
  <2>2. PICK fresh \in [mfile.size .. size - 1 -> Byte] : mfile' = Resized(mfile, size, fresh)
    BY <1>9 DEF Resize
  <2>3. IsMemoryFile(mfile') /\ PosInside(mfile')
    BY <2>1, <2>2 DEF Resized, IsMemoryFile, PosInside
  <2> QED
    BY <1>9, <2>3 DEF FileInv, AccessesInside, Resize
<1>10. CASE UNCHANGED file_vars
  BY <1>10 DEF file_vars, FileInv, AccessesInside
<1> QED
  BY <1>1, <1>2, <1>4, <1>5, <1>6, <1>7, <1>8, <1>9, <1>10 DEF FileNext

(* Whatever is sought, read, written and cut off, in any order, a client   *)
(* that gives up after a failed seek touches no byte outside the file.     *)
THEOREM FilesAccessedInside == FileSpec => []AccessesInside
<1>1. FileInit => FileInv
  BY DEF FileInit, FileInv, AccessesInside
<1>2. FileInv => AccessesInside
  BY DEF FileInv
<1> QED
  BY <1>1, <1>2, NextFile, PTL DEF FileSpec

-----------------------------------------------------------------------------
(* Chains of cells, and the queue that they implement.                     *)

(* Induction over Nat, as a fact about sets.                               *)
LEMMA SmallestNumber ==
  ASSUME NEW P, P \subseteq Nat, P # {}
  PROVE  \E x \in P : \A y \in P : x <= y
<1>1. PICK x \in P : \A y \in P : ~ (<<y, x>> \in OpToRel(<, Nat))
  BY WFMin, NatLessThanWellFounded
<1>2. \A y \in P : ~ (y < x)
  BY <1>1 DEF OpToRel
<1> QED
  BY <1>2

(* What Chain computes: for n cells at most, what each address leads to.   *)
Walked(next, n, w) ==
  [b \in Address \cup {NULL} |->
     IF n = 0 \/ b \notin DOMAIN next THEN <<>> ELSE <<b>> \o w[n - 1][next[b]]]
Walks(next, n, w) == w = [k \in 0 .. n |-> Walked(next, k, w)]

(* There is such a function, for every number of cells.                    *)
LEMMA WalksExist ==
  ASSUME NEW next, NEW n \in Nat
  PROVE  \E w : Walks(next, n, w)
<1> DEFINE none == {m \in Nat : ~ \E w : Walks(next, m, w)}
<1> SUFFICES ASSUME none # {} PROVE FALSE
  OBVIOUS
<1>1. PICK m \in none : \A y \in none : m <= y
  BY SmallestNumber
<1>2. m # 0
  <2> DEFINE w == [k \in 0 .. 0 |-> Walked(next, 0, <<>>)]
  <2>1. Walked(next, 0, w) = Walked(next, 0, <<>>)
    BY DEF Walked
  <2>2. Walks(next, 0, w)
    BY <2>1 DEF Walks
  <2> QED
    BY <2>2
<1>3. m \in Nat /\ m - 1 \in Nat /\ m - 1 \notin none
  BY <1>1, <1>2
<1>4. PICK w : Walks(next, m - 1, w)
  BY <1>3
<1> DEFINE g == [k \in 0 .. m |-> IF k = m THEN Walked(next, m, w) ELSE w[k]]
<1>5. \A k \in 0 .. m - 1 : w[k] = Walked(next, k, w)
  BY <1>4 DEF Walks
<1>6. ASSUME NEW k \in 0 .. m PROVE Walked(next, k, g) = Walked(next, k, w)
  <2>1. k # 0 => k - 1 \in 0 .. m /\ k - 1 # m
    BY <1>3
  <2>2. k # 0 => g[k - 1] = w[k - 1]
    BY <2>1
  <2> HIDE DEF g
  <2> QED
    BY <2>2 DEF Walked
<1>7. \A k \in 0 .. m : g[k] = Walked(next, k, g)
  <2> SUFFICES ASSUME NEW k \in 0 .. m PROVE g[k] = Walked(next, k, g)
    OBVIOUS
  <2>1. k # m => k \in 0 .. m - 1
    BY <1>3
  <2>2. g[k] = Walked(next, k, w)
    BY <1>5, <2>1
  <2> QED
    BY <1>6, <2>2
<1>8. g = [k \in 0 .. m |-> g[k]]
  OBVIOUS
<1>9. Walks(next, m, g)
  <2> HIDE DEF g
  <2> QED
    BY <1>7, <1>8 DEF Walks
<1> QED
  BY <1>1, <1>9

(* So what Chain chooses is what has been computed for all cells.          *)
LEMMA ChainIsLast ==
  ASSUME NEW next, NEW a, Cardinality(DOMAIN next) \in Nat
  PROVE  \E w : /\ Walks(next, Cardinality(DOMAIN next), w)
                /\ Chain(next, a) = w[Cardinality(DOMAIN next)][a]
<1> DEFINE n == Cardinality(DOMAIN next)
           walked == CHOOSE w : Walks(next, n, w)
<1>1. Walks(next, n, walked)
  BY WalksExist
<1>2. Chain(next, a) = walked[n][a]
  BY DEF Chain, Walks, Walked
<1> QED
  BY <1>1, <1>2

(* Cells that are different and lead from one to the next.                 *)
IsChain(next, a, c) ==
  /\ c \in Seq(DOMAIN next)
  /\ \A j, k \in 1 .. Len(c) : c[j] = c[k] => j = k
  /\ a = IF c = <<>> THEN NULL ELSE c[1]
  /\ \A k \in 1 .. Len(c) : next[c[k]] = IF k = Len(c) THEN NULL ELSE c[k + 1]

From(c, k) == [j \in 1 .. Len(c) - k + 1 |-> c[k + j - 1]]

(* From a cell on: that cell, and then from the next on.                   *)
LEMMA FromNext ==
  ASSUME NEW S, NEW c \in Seq(S), NEW k \in 1 .. Len(c)
  PROVE  <<c[k]>> \o From(c, k + 1) = From(c, k)
<1> DEFINE s == From(c, k + 1)
           t == <<c[k]>> \o s
<1>1. Len(c) \in Nat /\ \A j \in 1 .. Len(c) : c[j] \in S
  OBVIOUS
<1>2. s \in Seq(S) /\ Len(s) = Len(c) - k /\ \A j \in 1 .. Len(c) - k : s[j] = c[k + j]
  <2>1. s = [j \in 1 .. Len(c) - k |-> c[k + j]]
    BY <1>1 DEF From
  <2>2. \A j \in 1 .. Len(c) - k : c[k + j] \in S
    BY <1>1
  <2>3. Len(c) - k \in Nat
    BY <1>1
  <2> HIDE DEF s
  <2> QED
    BY <2>1, <2>2, <2>3
<1> HIDE DEF s
<1>3. t \in Seq(S) /\ Len(t) = Len(c) - k + 1
  <2>1. c[k] \in S
    BY <1>1
  <2>2. <<c[k]>> \in Seq(S) /\ Len(<<c[k]>>) = 1
    BY <2>1
  <2>3. t \in Seq(S) /\ Len(t) = Len(<<c[k]>>) + Len(s)
    BY <1>2, <2>2
  <2> QED
    BY <1>1, <1>2, <2>2, <2>3
<1>4. ASSUME NEW j \in 1 .. Len(c) - k + 1 PROVE t[j] = c[k + j - 1]
  <2>1. t[j] = IF j <= 1 THEN <<c[k]>>[j] ELSE s[j - 1]
    BY <1>1, <1>2
  <2> QED
    BY <1>1, <1>2, <2>1, SMTT(30)
<1>5. t = [j \in 1 .. Len(t) |-> t[j]]
  BY <1>3
<1> HIDE DEF t
<1>6. t = From(c, k)
  BY <1>3, <1>4, <1>5 DEF From
<1> QED
  BY <1>6 DEF s, t

(* Chain finds them, and all of them.                                      *)
LEMMA ChainFindsThem ==
  ASSUME NEW next, NEW a, NEW c, IsChain(next, a, c), DOMAIN next \subseteq Address
  PROVE  Chain(next, a) = c
<1> DEFINE N == Cardinality(DOMAIN next)
<1>0. NULL \notin DOMAIN next /\ IsFiniteSet(DOMAIN next)
  BY CellsAssumption, FS_Subset
<1>1. N \in Nat /\ Len(c) \in Nat /\ Len(c) <= N /\ c = [k \in 1 .. Len(c) |-> c[k]]
  <2>1. c \in [1 .. Len(c) -> DOMAIN next] /\ Len(c) \in Nat
    BY DEF IsChain
  <2>2. c \in Injection(1 .. Len(c), DOMAIN next)
    BY <2>1 DEF IsChain, Injection, IsInjective
  <2>3. Cardinality(1 .. Len(c)) <= N
    BY <1>0, <2>2, FS_Injection
  <2>4. Cardinality(1 .. Len(c)) = Len(c)
    <3>1. 1 \in Int /\ Len(c) \in Int /\ (1 > Len(c) => Len(c) = 0) /\ Len(c) - 1 + 1 = Len(c)
      BY <2>1
    <3>2. Cardinality(1 .. Len(c)) = IF 1 > Len(c) THEN 0 ELSE Len(c) - 1 + 1
      BY <3>1, FS_Interval, Zenon
    <3> QED
      BY <3>1, <3>2
  <2>5. N \in Nat
    BY <1>0, FS_CardinalityType
  <2>6. c = [k \in 1 .. Len(c) |-> c[k]]
    BY <2>1
  <2> QED
    BY <2>1, <2>3, <2>4, <2>5, <2>6
<1>2. PICK w : Walks(next, N, w) /\ Chain(next, a) = w[N][a]
  BY <1>1, ChainIsLast
<1> HIDE DEF N
<1>3. \A n \in 0 .. N : w[n] = Walked(next, n, w)
  BY <1>2 DEF Walks
<1>4. \A n \in 0 .. N : w[n][NULL] = <<>>
  BY <1>0, <1>3 DEF Walked
<1>5. \A k \in 1 .. Len(c) : c[k] \in DOMAIN next /\ c[k] \in Address
  BY DEF IsChain
<1> DEFINE Found(n) == \A k \in 1 .. Len(c) : Len(c) - k < n => w[n][c[k]] = From(c, k)
           wrong == {n \in 0 .. N : ~ Found(n)}
<1>6. wrong = {}
  <2> SUFFICES ASSUME wrong # {} PROVE FALSE
    OBVIOUS
  <2>1. PICK n \in wrong : \A y \in wrong : n <= y
    <3>1. wrong \subseteq Nat
      BY <1>1
    <3> QED
      BY <3>1, SmallestNumber
  <2>2. PICK k \in 1 .. Len(c) : Len(c) - k < n /\ w[n][c[k]] # From(c, k)
    BY <2>1
  <2>3. n \in 0 .. N /\ n # 0 /\ n - 1 \in 0 .. N /\ ~ (n <= n - 1)
    BY <1>1, <2>1, <2>2
  <2>4. Found(n - 1)
    BY <2>1, <2>3
  <2>5. w[n][c[k]] = <<c[k]>> \o w[n - 1][next[c[k]]]
    BY <1>3, <1>5, <2>2, <2>3, ZenonT(60) DEF Walked
  <2>6. w[n - 1][next[c[k]]] = From(c, k + 1)
    <3>1. CASE k = Len(c)
      <4>1. next[c[k]] = NULL
        BY <3>1 DEF IsChain
      <4>2. From(c, k + 1) = <<>>
        BY <1>1, <3>1 DEF From
      <4> QED
        BY <1>4, <2>3, <4>1, <4>2
    <3>2. CASE k # Len(c)
      <4>1. next[c[k]] = c[k + 1]
        BY <3>2 DEF IsChain
      <4>2. k + 1 \in 1 .. Len(c) /\ Len(c) - (k + 1) < n - 1
        BY <1>1, <2>2, <2>3, <3>2, SMTT(30)
      <4> QED
        BY <2>4, <4>1, <4>2
    <3> QED
      BY <3>1, <3>2
  <2>7. <<c[k]>> \o From(c, k + 1) = From(c, k)
    BY FromNext DEF IsChain
  <2> QED
    BY <2>2, <2>5, <2>6, <2>7
<1>7. Found(N)
  BY <1>1, <1>6
<1>8. CASE c = <<>>
  BY <1>1, <1>2, <1>4, <1>8 DEF IsChain
<1>9. CASE c # <<>>
  <2>1. 1 \in 1 .. Len(c) /\ Len(c) - 1 < N /\ a = c[1]
    BY <1>1, <1>9 DEF IsChain
  <2>2. From(c, 1) = c
    <3>1. \A j \in 1 .. Len(c) - 1 + 1 : 1 + j - 1 = j
      BY <1>1
    <3>2. Len(c) - 1 + 1 = Len(c)
      BY <1>1
    <3> QED
      BY <1>1, <3>1, <3>2 DEF From
  <2> QED
    BY <1>2, <1>7, <2>1, <2>2
<1> QED
  BY <1>8, <1>9

(* The cells of a heap are a list of items, from a on, at the addresses c. *)
Linked(I, h, a, c) ==
  /\ c \in Seq(Address)
  /\ DOMAIN h = {c[k] : k \in 1 .. Len(c)}
  /\ \A j, k \in 1 .. Len(c) : c[j] = c[k] => j = k
  /\ a = IF c = <<>> THEN NULL ELSE c[1]
  /\ \A k \in 1 .. Len(c) :
       /\ h[c[k]] \in [head : I, tail : Address \cup {NULL}]
       /\ h[c[k]].tail = IF k = Len(c) THEN NULL ELSE c[k + 1]

Heads(h, c) == [k \in 1 .. Len(c) |-> h[c[k]].head]

(* The addresses of linked cells are in use, and their heads are items.    *)
LEMMA LinkedFacts ==
  ASSUME NEW I, NEW h, NEW a, NEW c, Linked(I, h, a, c)
  PROVE  /\ c \in Seq(Address) /\ Len(c) \in Nat /\ (c = <<>> <=> Len(c) = 0)
         /\ \A k \in 1 .. Len(c) : c[k] \in DOMAIN h /\ c[k] \in Address
         /\ Heads(h, c) \in Seq(I) /\ Len(Heads(h, c)) = Len(c)
         /\ \A k \in 1 .. Len(c) : Heads(h, c)[k] = h[c[k]].head
<1>1. /\ c \in Seq(Address) /\ Len(c) \in Nat /\ (c = <<>> <=> Len(c) = 0)
      /\ \A k \in 1 .. Len(c) : c[k] \in DOMAIN h /\ c[k] \in Address
  BY DEF Linked
<1>2. \A k \in 1 .. Len(c) : h[c[k]].head \in I
  BY DEF Linked
<1>3. Heads(h, c) \in Seq(I) /\ Len(Heads(h, c)) = Len(c)
      /\ \A k \in 1 .. Len(c) : Heads(h, c)[k] = h[c[k]].head
  BY <1>1, <1>2 DEF Heads
<1> QED
  BY <1>1, <1>3

(* Items reads them in order.                                              *)
LEMMA LinkedItems ==
  ASSUME NEW I, NEW h, NEW a, NEW c, Linked(I, h, a, c)
  PROVE  Items(h, a) = Heads(h, c)
<1> DEFINE next == [b \in DOMAIN h |-> h[b].tail]
<1>1. DOMAIN next = DOMAIN h /\ DOMAIN h \subseteq Address
  BY DEF Linked
<1>2. \A k \in 1 .. Len(c) : c[k] \in DOMAIN next /\ next[c[k]] = IF k = Len(c) THEN NULL ELSE c[k + 1]
  <2>1. \A k \in 1 .. Len(c) : c[k] \in DOMAIN h
    BY LinkedFacts
  <2> QED
    BY <1>1, <2>1 DEF Linked
<1>3. c \in Seq(DOMAIN next)
  <2>1. c = [k \in 1 .. Len(c) |-> c[k]] /\ Len(c) \in Nat
    BY DEF Linked
  <2>2. \A k \in 1 .. Len(c) : c[k] \in DOMAIN next
    BY <1>2
  <2> HIDE DEF next
  <2> QED
    BY <2>1, <2>2
<1> HIDE DEF next
<1>4. IsChain(next, a, c)
  BY <1>2, <1>3 DEF IsChain, Linked
<1>5. Chain(next, a) = c
  BY <1>1, <1>4, ChainFindsThem
<1>6. DOMAIN c = 1 .. Len(c)
  BY DEF Linked
<1> QED
  BY <1>5, <1>6 DEF Items, Heads, next

(* A sequence is the function from 1 on.                                   *)
LEMMA SequenceIs ==
  ASSUME NEW S, NEW s \in Seq(S)
  PROVE  s = [k \in 1 .. Len(s) |-> s[k]]
OBVIOUS

Extended(h, c, l, i) ==
  LET larger == Stored(h, l, [head |-> i, tail |-> NULL]) IN
  IF c = <<>> THEN larger ELSE [larger EXCEPT ![c[Len(c)]].tail = l]

AddedAtEnd(I, h, a, c, l, i, g, d) ==
  /\ Linked(I, h, a, c) /\ l \in Fresh(h) /\ i \in I
  /\ g = Extended(h, c, l, i) /\ d = Append(c, l)

(* A cell that the last one is made to point to comes last.                *)
LEMMA LinkAtEnd ==
  ASSUME NEW I, NEW h, NEW a, NEW c, NEW l, NEW i, NEW g, NEW d, AddedAtEnd(I, h, a, c, l, i, g, d)
  PROVE  /\ d # <<>> /\ d[Len(d)] = l
         /\ Linked(I, g, IF c = <<>> THEN l ELSE a, d)
         /\ Heads(g, d) = Append(Heads(h, c), i)
<1> DEFINE larger == Stored(h, l, [head |-> i, tail |-> NULL])
<1> USE DEF AddedAtEnd
<1>1. /\ Len(c) \in Nat /\ (c = <<>> <=> Len(c) = 0) /\ c \in Seq(Address)
      /\ \A k \in 1 .. Len(c) : c[k] \in DOMAIN h
  BY DEF Linked
<1>2. l \in Address /\ l \notin DOMAIN h /\ \A k \in 1 .. Len(c) : c[k] # l
  BY <1>1 DEF Fresh
<1>3. /\ d \in Seq(Address) /\ d # <<>> /\ Len(d) = Len(c) + 1
      /\ d[Len(c) + 1] = l /\ \A k \in 1 .. Len(c) : d[k] = c[k]
  BY <1>1, <1>2
<1>4. /\ DOMAIN larger = DOMAIN h \cup {l} /\ larger[l] = [head |-> i, tail |-> NULL]
      /\ \A b \in DOMAIN h : larger[b] = h[b]
  BY <1>2 DEF Stored
<1>5. /\ DOMAIN g = DOMAIN h \cup {l} /\ g[l] = [head |-> i, tail |-> NULL]
      /\ \A k \in 1 .. Len(c) :
           /\ g[c[k]] \in [head : I, tail : Address \cup {NULL}] /\ g[c[k]].head = h[c[k]].head
           /\ g[c[k]].tail = IF k = Len(c) THEN l ELSE c[k + 1]
  <2> HIDE DEF larger
  <2>1. CASE c = <<>>
    BY <1>1, <1>4, <2>1 DEF larger, Extended
  <2>2. CASE c # <<>>
    <3> DEFINE e == c[Len(c)]
    <3>1. Len(c) \in 1 .. Len(c) /\ e \in DOMAIN h /\ e # l
      BY <1>1, <1>2, <2>2
    <3>2. g = [larger EXCEPT ![e].tail = l]
      BY <2>2 DEF larger, Extended
    <3> HIDE DEF e
    <3>3. /\ DOMAIN g = DOMAIN larger /\ g[e] = [larger[e] EXCEPT !.tail = l]
          /\ \A b \in DOMAIN larger : b # e => g[b] = larger[b]
      BY <1>4, <3>1, <3>2
    <3>4. ASSUME NEW k \in 1 .. Len(c)
          PROVE  /\ g[c[k]] \in [head : I, tail : Address \cup {NULL}] /\ g[c[k]].head = h[c[k]].head
                 /\ g[c[k]].tail = IF k = Len(c) THEN l ELSE c[k + 1]
      <4>1. /\ larger[c[k]] \in [head : I, tail : Address \cup {NULL}] /\ larger[c[k]].head = h[c[k]].head
            /\ larger[c[k]].tail = IF k = Len(c) THEN NULL ELSE c[k + 1]
        BY <1>1, <1>4 DEF Linked
      <4>2. CASE k = Len(c)
        <5>1. c[k] = e
          BY <4>2 DEF e
        <5> QED
          BY <1>2, <3>3, <4>1, <4>2, <5>1
      <4>3. CASE k # Len(c)
        <5>1. c[k] # e
          BY <3>1, <4>3 DEF Linked, e
        <5>2. c[k] \in DOMAIN larger
          BY <1>1, <1>4
        <5> QED
          BY <3>3, <4>1, <4>3, <5>1, <5>2
      <4> QED
        BY <4>2, <4>3
    <3> QED
      BY <1>2, <1>4, <3>1, <3>3, <3>4
  <2> QED
    BY <2>1, <2>2
<1> HIDE DEF larger
<1>6. Linked(I, g, IF c = <<>> THEN l ELSE a, d)
  <2>1. DOMAIN g = {d[k] : k \in 1 .. Len(d)}
    <3>1. 1 .. Len(d) = 1 .. Len(c) \cup {Len(c) + 1}
      BY <1>1, <1>3
    <3>2. {d[k] : k \in 1 .. Len(d)} = {c[k] : k \in 1 .. Len(c)} \cup {l}
      BY <1>3, <3>1
    <3> QED
      BY <1>5, <3>2 DEF Linked
  <2>2. ASSUME NEW j \in 1 .. Len(d), NEW k \in 1 .. Len(d), d[j] = d[k] PROVE j = k
    <3>1. \A n \in 1 .. Len(d) : n = Len(c) + 1 \/ (n \in 1 .. Len(c) /\ d[n] = c[n])
      BY <1>1, <1>3
    <3>2. CASE j = Len(c) + 1
      BY <1>2, <1>3, <2>2, <3>1, <3>2
    <3>3. CASE k = Len(c) + 1
      BY <1>2, <1>3, <2>2, <3>1, <3>3
    <3>4. CASE j # Len(c) + 1 /\ k # Len(c) + 1
      <4>1. j \in 1 .. Len(c) /\ k \in 1 .. Len(c) /\ c[j] = c[k]
        BY <2>2, <3>1, <3>4
      <4> QED
        BY <4>1 DEF Linked
    <3> QED
      BY <3>2, <3>3, <3>4
  <2>3. (IF c = <<>> THEN l ELSE a) = d[1]
    BY <1>1, <1>3 DEF Linked
  <2>4. ASSUME NEW k \in 1 .. Len(d)
        PROVE  /\ g[d[k]] \in [head : I, tail : Address \cup {NULL}]
               /\ g[d[k]].tail = IF k = Len(d) THEN NULL ELSE d[k + 1]
    <3>1. CASE k = Len(d)
      BY <1>3, <1>5, <3>1
    <3>2. CASE k # Len(d)
      <4>1. k \in 1 .. Len(c) /\ d[k] = c[k] /\ (k = Len(c) => d[k + 1] = l)
            /\ (k # Len(c) => d[k + 1] = c[k + 1])
        BY <1>1, <1>3, <3>2
      <4>2. g[d[k]] \in [head : I, tail : Address \cup {NULL}] /\ g[d[k]].tail = d[k + 1]
        BY <1>5, <4>1
      <4> QED
        BY <3>2, <4>2
    <3> QED
      BY <3>1, <3>2
  <2> QED
    BY <1>3, <2>1, <2>2, <2>3, <2>4 DEF Linked
<1>7. Heads(g, d) = Append(Heads(h, c), i)
  <2> DEFINE s == Heads(h, c)
  <2>1. s \in Seq(I) /\ Len(s) = Len(c) /\ \A k \in 1 .. Len(c) : s[k] = h[c[k]].head
    BY LinkedFacts
  <2> HIDE DEF s
  <2>2. Append(s, i) = [k \in 1 .. Len(c) + 1 |-> IF k = Len(c) + 1 THEN i ELSE s[k]]
    <3> DEFINE t == Append(s, i)
    <3>1. /\ t \in Seq(I) /\ Len(t) = Len(c) + 1
          /\ \A k \in 1 .. Len(c) + 1 : t[k] = IF k = Len(c) + 1 THEN i ELSE s[k]
      BY <1>1, <2>1
    <3>2. t = [k \in 1 .. Len(t) |-> t[k]]
      BY <3>1, SequenceIs
    <3> HIDE DEF t
    <3> QED
      BY <3>1, <3>2 DEF t
  <2>3. ASSUME NEW k \in 1 .. Len(c) + 1
        PROVE  g[d[k]].head = IF k = Len(c) + 1 THEN i ELSE s[k]
    <3>1. CASE k = Len(c) + 1
      BY <1>3, <1>5, <3>1
    <3>2. CASE k # Len(c) + 1
      <4>1. k \in 1 .. Len(c)
        BY <1>1, <3>2
      <4> QED
        BY <1>3, <1>5, <2>1, <3>2, <4>1
    <3> QED
      BY <3>1, <3>2
  <2> QED
    BY <1>3, <2>2, <2>3 DEF Heads, s
<1> QED
  BY <1>3, <1>6, <1>7

AddedAtFront(I, h, a, c, l, i, g, d) ==
  /\ Linked(I, h, a, c) /\ l \in Fresh(h) /\ i \in I
  /\ g = Stored(h, l, [head |-> i, tail |-> a]) /\ d = <<l>> \o c

(* A cell that points to the first one comes first.                        *)
LEMMA LinkAtFront ==
  ASSUME NEW I, NEW h, NEW a, NEW c, NEW l, NEW i, NEW g, NEW d, AddedAtFront(I, h, a, c, l, i, g, d)
  PROVE  Linked(I, g, l, d) /\ Heads(g, d) = <<i>> \o Heads(h, c)
<1> USE DEF AddedAtFront
<1>1. /\ Len(c) \in Nat /\ (c = <<>> <=> Len(c) = 0) /\ c \in Seq(Address)
      /\ \A k \in 1 .. Len(c) : c[k] \in DOMAIN h
  BY DEF Linked
<1>2. l \in Address /\ l \notin DOMAIN h /\ \A k \in 1 .. Len(c) : c[k] # l
  BY <1>1 DEF Fresh
<1>3. /\ d \in Seq(Address) /\ d # <<>> /\ Len(d) = Len(c) + 1
      /\ d[1] = l /\ \A k \in 1 .. Len(c) : d[k + 1] = c[k]
  <2>1. <<l>> \in Seq(Address) /\ Len(<<l>>) = 1 /\ <<l>>[1] = l
    BY <1>2
  <2>2. d \in Seq(Address) /\ Len(d) = Len(c) + 1
    BY <1>1, <2>1
  <2>3. \A k \in 1 .. Len(c) + 1 : d[k] = IF k <= 1 THEN <<l>>[k] ELSE c[k - 1]
    BY <1>1, <2>1
  <2> QED
    BY <1>1, <2>1, <2>2, <2>3
<1>4. /\ DOMAIN g = DOMAIN h \cup {l} /\ g[l] = [head |-> i, tail |-> a]
      /\ \A b \in DOMAIN h : g[b] = h[b]
  BY <1>2 DEF Stored
<1>5. \A k \in 1 .. Len(d) : k = 1 \/ (k - 1 \in 1 .. Len(c) /\ d[k] = c[k - 1] /\ (k - 1) + 1 = k)
  <2> SUFFICES ASSUME NEW k \in 1 .. Len(d), k # 1
               PROVE  k - 1 \in 1 .. Len(c) /\ d[k] = c[k - 1] /\ (k - 1) + 1 = k
    OBVIOUS
  <2>1. k - 1 \in 1 .. Len(c) /\ (k - 1) + 1 = k
    BY <1>1, <1>3
  <2>2. d[(k - 1) + 1] = c[k - 1]
    BY <1>3, <2>1
  <2> QED
    BY <2>1, <2>2
<1>6. Linked(I, g, l, d)
  <2>1. DOMAIN g = {d[k] : k \in 1 .. Len(d)}
    <3>1. \A k \in 1 .. Len(c) : k + 1 \in 1 .. Len(d) /\ 1 \in 1 .. Len(d)
      BY <1>1, <1>3
    <3>2. {d[k] : k \in 1 .. Len(d)} \subseteq {c[k] : k \in 1 .. Len(c)} \cup {l}
      <4>1. ASSUME NEW k \in 1 .. Len(d) PROVE d[k] \in {c[j] : j \in 1 .. Len(c)} \cup {l}
        <5>1. CASE k = 1
          BY <1>3, <5>1
        <5>2. CASE k # 1
          BY <1>5, <5>2
        <5> QED
          BY <5>1, <5>2
      <4> QED
        BY <4>1
    <3>3. {c[k] : k \in 1 .. Len(c)} \cup {l} \subseteq {d[k] : k \in 1 .. Len(d)}
      <4>1. 1 \in 1 .. Len(d)
        BY <1>1, <1>3
      <4> QED
        BY <1>3, <3>1, <4>1
    <3> QED
      BY <1>4, <3>2, <3>3 DEF Linked
  <2>2. ASSUME NEW j \in 1 .. Len(d), NEW k \in 1 .. Len(d), d[j] = d[k] PROVE j = k
    <3>1. CASE j = 1
      BY <1>2, <1>3, <1>5, <2>2, <3>1
    <3>2. CASE k = 1
      BY <1>2, <1>3, <1>5, <2>2, <3>2
    <3>3. CASE j # 1 /\ k # 1
      <4>1. c[j - 1] = c[k - 1] /\ j - 1 \in 1 .. Len(c) /\ k - 1 \in 1 .. Len(c)
        BY <1>5, <2>2, <3>3
      <4>2. j - 1 = k - 1
        BY <4>1 DEF Linked
      <4> QED
        BY <4>2
    <3> QED
      BY <3>1, <3>2, <3>3
  <2>3. ASSUME NEW k \in 1 .. Len(d)
        PROVE  /\ g[d[k]] \in [head : I, tail : Address \cup {NULL}]
               /\ g[d[k]].tail = IF k = Len(d) THEN NULL ELSE d[k + 1]
    <3>1. CASE k = 1
      <4>1. d[k] = l /\ (1 = Len(d) <=> c = <<>>)
        BY <1>1, <1>3, <3>1
      <4>2. a = IF k = Len(d) THEN NULL ELSE d[k + 1]
        <5>1. CASE c = <<>>
          BY <3>1, <4>1, <5>1 DEF Linked
        <5>2. CASE c # <<>>
          <6>1. 1 \in 1 .. Len(c) /\ a = c[1]
            BY <1>1, <5>2 DEF Linked
          <6>2. d[1 + 1] = c[1]
            BY <1>3, <6>1
          <6> QED
            BY <3>1, <4>1, <5>2, <6>1, <6>2
        <5> QED
          BY <5>1, <5>2
      <4>3. a \in Address \cup {NULL}
        BY <1>1 DEF Linked
      <4> QED
        BY <1>4, <4>1, <4>2, <4>3
    <3>2. CASE k # 1
      <4> DEFINE j == k - 1
      <4>1. j \in 1 .. Len(c) /\ d[k] = c[j] /\ j + 1 = k
        BY <1>5, <3>2
      <4>2. j = Len(c) <=> k = Len(d)
        BY <1>1, <1>3, <4>1
      <4>3. j # Len(c) => d[k + 1] = c[j + 1]
        BY <1>1, <1>3, <4>1
      <4> HIDE DEF j
      <4>4. /\ h[c[j]] \in [head : I, tail : Address \cup {NULL}]
            /\ h[c[j]].tail = IF j = Len(c) THEN NULL ELSE c[j + 1]
        BY <4>1 DEF Linked
      <4>5. g[d[k]] = h[c[j]]
        BY <1>1, <1>4, <4>1
      <4> QED
        BY <4>2, <4>3, <4>4, <4>5
    <3> QED
      BY <3>1, <3>2
  <2> QED
    BY <1>3, <2>1, <2>2, <2>3 DEF Linked
<1>7. Heads(g, d) = <<i>> \o Heads(h, c)
  <2> DEFINE s == Heads(h, c)
  <2>1. s \in Seq(I) /\ Len(s) = Len(c) /\ \A k \in 1 .. Len(c) : s[k] = h[c[k]].head
    BY LinkedFacts
  <2> HIDE DEF s
  <2>2. <<i>> \o s = [k \in 1 .. Len(c) + 1 |-> IF k <= 1 THEN <<i>>[k] ELSE s[k - 1]]
    <3>1. <<i>> \in Seq(I) /\ Len(<<i>>) = 1
      OBVIOUS
    <3> QED
      BY <1>1, <2>1, <3>1
  <2>3. \A k \in 1 .. Len(c) + 1 : g[d[k]].head = IF k <= 1 THEN <<i>>[k] ELSE s[k - 1]
    <3> SUFFICES ASSUME NEW k \in 1 .. Len(c) + 1
                 PROVE  g[d[k]].head = IF k <= 1 THEN <<i>>[k] ELSE s[k - 1]
      OBVIOUS
    <3>1. CASE k = 1
      BY <1>3, <1>4, <3>1
    <3>2. CASE k # 1
      <4>1. k - 1 \in 1 .. Len(c) /\ d[k] = c[k - 1] /\ ~ (k <= 1)
        BY <1>1, <1>3, <1>5, <3>2
      <4> QED
        BY <1>1, <1>4, <2>1, <4>1
    <3> QED
      BY <3>1, <3>2
  <2> QED
    BY <1>3, <2>2, <2>3, ZenonT(60) DEF Heads, s
<1> QED
  BY <1>6, <1>7

(* The tail of a sequence, item by item.                                   *)
LEMMA TailFacts ==
  ASSUME NEW S, NEW s \in Seq(S), s # <<>>
  PROVE  /\ Tail(s) \in Seq(S) /\ Len(Tail(s)) = Len(s) - 1 /\ Head(s) = s[1]
         /\ \A k \in 1 .. Len(s) - 1 : Tail(s)[k] = s[k + 1]
         /\ Tail(s) = [k \in 1 .. Len(s) - 1 |-> s[k + 1]]
<1>1. /\ Len(s) \in Nat \ {0} /\ Head(s) = s[1]
      /\ Tail(s) \in Seq(S) /\ DOMAIN Tail(s) = 1 .. Len(s) - 1
      /\ \A k \in 1 .. Len(s) - 1 : Tail(s)[k] = s[k + 1]
  OBVIOUS
<1>2. Len(Tail(s)) = Len(s) - 1
  BY <1>1
<1>3. Tail(s) = [k \in 1 .. Len(s) - 1 |-> Tail(s)[k]]
  <2> DEFINE t == Tail(s)
  <2>1. t = [k \in 1 .. Len(t) |-> t[k]]
    BY <1>1, SequenceIs
  <2> HIDE DEF t
  <2> QED
    BY <1>2, <2>1 DEF t
<1> QED
  BY <1>1, <1>2, <1>3

(* When the first cell is freed the others are still linked.               *)
LEMMA CutAtFront ==
  ASSUME NEW I, NEW h, NEW a, NEW c, Linked(I, h, a, c), c # <<>>
  PROVE  /\ a \in DOMAIN h /\ Heads(h, c) # <<>> /\ h[a].head = Head(Heads(h, c))
         /\ Linked(I, Freed(h, a), h[a].tail, Tail(c))
         /\ Heads(Freed(h, a), Tail(c)) = Tail(Heads(h, c))
         /\ Tail(c) # <<>> => Tail(c)[Len(Tail(c))] = c[Len(c)]
<1> DEFINE g == Freed(h, a)
           d == Tail(c)
           s == Heads(h, c)
<1>1. /\ Len(c) \in Nat \ {0} /\ 1 \in 1 .. Len(c) /\ a = c[1] /\ a \in DOMAIN h /\ c \in Seq(Address)
      /\ \A k \in 1 .. Len(c) : c[k] \in DOMAIN h
  BY DEF Linked
<1>2. /\ d \in Seq(Address) /\ Len(d) = Len(c) - 1 /\ (d = <<>> <=> Len(c) = 1)
      /\ \A k \in 1 .. Len(c) - 1 : d[k] = c[k + 1]
  <2>1. /\ Tail(c) \in Seq(Address) /\ Len(Tail(c)) = Len(c) - 1
        /\ \A k \in 1 .. Len(c) - 1 : Tail(c)[k] = c[k + 1]
    BY <1>1, TailFacts
  <2>2. d \in Seq(Address) /\ Len(d) = Len(c) - 1 /\ \A k \in 1 .. Len(c) - 1 : d[k] = c[k + 1]
    BY <2>1, Zenon
  <2> HIDE DEF d
  <2>3. d = <<>> <=> Len(c) = 1
    BY <1>1, <2>2
  <2> QED
    BY <2>2, <2>3
<1>3. s \in Seq(I) /\ Len(s) = Len(c) /\ s # <<>> /\ \A k \in 1 .. Len(c) : s[k] = h[c[k]].head
  <2>1. s \in Seq(I) /\ Len(s) = Len(c) /\ \A k \in 1 .. Len(c) : s[k] = h[c[k]].head
    BY LinkedFacts
  <2> HIDE DEF s
  <2> QED
    BY <1>1, <2>1
<1>4. DOMAIN g = DOMAIN h \ {a} /\ \A b \in DOMAIN h \ {a} : g[b] = h[b]
  BY DEF Freed
<1> HIDE DEF g, d, s
<1>5. \A k \in 1 .. Len(d) : k + 1 \in 1 .. Len(c) /\ d[k] = c[k + 1] /\ c[k + 1] # a /\ g[d[k]] = h[c[k + 1]]
  <2> SUFFICES ASSUME NEW k \in 1 .. Len(d)
               PROVE  k + 1 \in 1 .. Len(c) /\ d[k] = c[k + 1] /\ c[k + 1] # a /\ g[d[k]] = h[c[k + 1]]
    OBVIOUS
  <2>1. k + 1 \in 1 .. Len(c) /\ d[k] = c[k + 1] /\ k + 1 # 1
    BY <1>1, <1>2
  <2>2. c[k + 1] # a
    BY <1>1, <2>1 DEF Linked
  <2> QED
    BY <1>1, <1>4, <2>1, <2>2
<1>6. Linked(I, g, h[a].tail, d)
  <2>1. DOMAIN g = {d[k] : k \in 1 .. Len(d)}
    <3>1. ASSUME NEW b \in DOMAIN h, b # a PROVE b \in {d[k] : k \in 1 .. Len(d)}
      <4>1. PICK k \in 1 .. Len(c) : b = c[k]
        BY DEF Linked
      <4>2. k - 1 \in 1 .. Len(d) /\ (k - 1) + 1 = k
        BY <1>1, <1>2, <3>1, <4>1
      <4>3. b = d[k - 1]
        BY <1>5, <4>1, <4>2
      <4> QED
        BY <4>2, <4>3
    <3>2. {d[k] : k \in 1 .. Len(d)} \subseteq DOMAIN h \ {a}
      BY <1>1, <1>5
    <3> QED
      BY <1>4, <3>1, <3>2
  <2>2. ASSUME NEW j \in 1 .. Len(d), NEW k \in 1 .. Len(d), d[j] = d[k] PROVE j = k
    <3>1. c[j + 1] = c[k + 1] /\ j + 1 \in 1 .. Len(c) /\ k + 1 \in 1 .. Len(c)
      BY <1>5, <2>2
    <3>2. j + 1 = k + 1
      BY <3>1 DEF Linked
    <3> QED
      BY <3>2
  <2>3. h[a].tail = IF d = <<>> THEN NULL ELSE d[1]
    <3>1. h[a].tail = IF 1 = Len(c) THEN NULL ELSE c[1 + 1]
      BY <1>1 DEF Linked
    <3>2. Len(c) # 1 => 1 \in 1 .. Len(d)
      BY <1>1, <1>2
    <3> QED
      BY <1>2, <1>5, <3>1, <3>2
  <2>4. ASSUME NEW k \in 1 .. Len(d)
        PROVE  /\ g[d[k]] \in [head : I, tail : Address \cup {NULL}]
               /\ g[d[k]].tail = IF k = Len(d) THEN NULL ELSE d[k + 1]
    <3>1. k + 1 \in 1 .. Len(c) /\ g[d[k]] = h[c[k + 1]]
      BY <1>5
    <3>2. /\ h[c[k + 1]] \in [head : I, tail : Address \cup {NULL}]
          /\ h[c[k + 1]].tail = IF k + 1 = Len(c) THEN NULL ELSE c[(k + 1) + 1]
      BY <3>1 DEF Linked
    <3>3. k + 1 = Len(c) <=> k = Len(d)
      BY <1>1, <1>2
    <3>4. k # Len(d) => d[k + 1] = c[(k + 1) + 1]
      BY <1>1, <1>2
    <3> QED
      BY <3>1, <3>2, <3>3, <3>4
  <2> QED
    BY <1>2, <2>1, <2>2, <2>3, <2>4 DEF Linked
<1>7. Heads(g, d) = Tail(s)
  <2>1. Tail(s) = [k \in 1 .. Len(s) - 1 |-> s[k + 1]]
    BY <1>3, TailFacts
  <2>2. Len(s) - 1 = Len(d)
    BY <1>2, <1>3
  <2>3. \A k \in 1 .. Len(d) : g[d[k]].head = s[k + 1]
    BY <1>3, <1>5
  <2> QED
    BY <2>1, <2>2, <2>3 DEF Heads
<1>8. h[a].head = Head(s)
  BY <1>1, <1>3, TailFacts
<1>9. d # <<>> => d[Len(d)] = c[Len(c)]
  <2> SUFFICES ASSUME d # <<>> PROVE d[Len(d)] = c[Len(c)]
    OBVIOUS
  <2>1. Len(d) \in 1 .. Len(c) - 1 /\ Len(d) + 1 = Len(c)
    BY <1>1, <1>2
  <2> QED
    BY <1>2, <2>1
<1> QED
  BY <1>1, <1>3, <1>6, <1>7, <1>8, <1>9 DEF d, g, s

(* The invariant of Queues: its cells are linked from front on, and until  *)
(* something is put back end is the last of them.                          *)
Threaded(c) ==
  /\ Linked(Item, heap, front, c)
  /\ ~ putback /\ c # <<>> => end = c[Len(c)]

QueueInv == \E c : Threaded(c)

NarrowBy(k, i) == IF k = "numbers" THEN i % 65536 ELSE i
Narrowed(k, s) == [n \in DOMAIN s |-> NarrowBy(k, s[n])]

(* What is in a queue, now and after a step.                               *)
LEMMA ContentsAre ==
  ASSUME NEW c, Linked(Item, heap, front, c)
  PROVE  Contents = Narrowed(kind, Heads(heap, c))
<1>1. Items(heap, front) = Heads(heap, c)
  BY LinkedItems
<1> QED
  BY <1>1 DEF Contents, Narrowed, Narrow, NarrowBy

LEMMA NextContentsAre ==
  ASSUME NEW c, Linked(Item, heap', front', c)
  PROVE  Contents' = Narrowed(kind', Heads(heap', c))
<1>1. Items(heap', front') = Heads(heap', c)
  BY LinkedItems
<1> QED
  BY <1>1 DEF Contents, Narrowed, Narrow, NarrowBy

(* Narrowing is done item by item.                                         *)
LEMMA NarrowedFacts ==
  ASSUME NEW k, NEW s \in Seq(Item), NEW i \in Item
  PROVE  /\ Narrowed(k, <<>>) = <<>>
         /\ Narrowed(k, Append(s, i)) = Append(Narrowed(k, s), NarrowBy(k, i))
         /\ Narrowed("objects", s) = s
         /\ s # <<>> => /\ Narrowed(k, s) # <<>>
                        /\ Head(Narrowed(k, s)) = NarrowBy(k, Head(s))
                        /\ Narrowed(k, Tail(s)) = Tail(Narrowed(k, s))
<1> DEFINE r == Narrowed(k, s)
<1>1. \A j \in Item : NarrowBy(k, j) \in Nat /\ j \in Nat
  BY QueuesAssumption DEF NarrowBy
<1>2. Len(s) \in Nat /\ DOMAIN s = 1 .. Len(s) /\ \A n \in 1 .. Len(s) : s[n] \in Item
  OBVIOUS
<1>3. r = [n \in 1 .. Len(s) |-> NarrowBy(k, s[n])]
  BY <1>2 DEF Narrowed
<1> HIDE DEF r
<1>4. r \in Seq(Nat) /\ Len(r) = Len(s) /\ \A n \in 1 .. Len(s) : r[n] = NarrowBy(k, s[n])
  BY <1>1, <1>2, <1>3
<1>5. Narrowed(k, <<>>) = <<>>
  BY DEF Narrowed
<1>6. Narrowed(k, Append(s, i)) = Append(r, NarrowBy(k, i))
  <2> DEFINE t == Append(s, i)
             u == Append(r, NarrowBy(k, i))
  <2>1. DOMAIN t = 1 .. Len(s) + 1 /\ \A n \in 1 .. Len(s) + 1 : t[n] = IF n = Len(s) + 1 THEN i ELSE s[n]
    BY <1>2
  <2>2. /\ u \in Seq(Nat) /\ Len(u) = Len(s) + 1
        /\ \A n \in 1 .. Len(s) + 1 : u[n] = IF n = Len(s) + 1 THEN NarrowBy(k, i) ELSE r[n]
    BY <1>1, <1>2, <1>4
  <2>3. u = [n \in 1 .. Len(u) |-> u[n]]
    BY <2>2, SequenceIs
  <2> HIDE DEF t, u
  <2>4. Narrowed(k, t) = [n \in 1 .. Len(s) + 1 |-> NarrowBy(k, t[n])]
    BY <2>1 DEF Narrowed
  <2>5. ASSUME NEW n \in 1 .. Len(s) + 1 PROVE NarrowBy(k, t[n]) = u[n]
    <3>1. CASE n = Len(s) + 1
      BY <2>1, <2>2, <3>1
    <3>2. CASE n # Len(s) + 1
      <4>1. n \in 1 .. Len(s)
        BY <1>2, <3>2
      <4> QED
        BY <1>4, <2>1, <2>2, <3>2, <4>1
    <3> QED
      BY <3>1, <3>2
  <2>6. Narrowed(k, t) = u
    BY <2>2, <2>3, <2>4, <2>5
  <2> QED
    BY <2>6 DEF t, u
<1>7. Narrowed("objects", s) = s
  <2>1. Narrowed("objects", s) = [n \in 1 .. Len(s) |-> s[n]]
    BY <1>2 DEF Narrowed, NarrowBy
  <2> QED
    BY <2>1, SequenceIs
<1>8. ASSUME s # <<>>
      PROVE  r # <<>> /\ Head(r) = NarrowBy(k, Head(s)) /\ Narrowed(k, Tail(s)) = Tail(r)
  <2>1. Len(s) # 0 /\ 1 \in 1 .. Len(s)
    BY <1>2, <1>8
  <2>2. r # <<>>
    BY <1>4, <2>1
  <2>3. Head(r) = NarrowBy(k, Head(s))
    BY <1>4, <1>8, <2>1, <2>2, TailFacts
  <2>4. Tail(r) = [n \in 1 .. Len(s) - 1 |-> r[n + 1]]
    BY <1>4, <2>2, TailFacts
  <2> DEFINE t == Tail(s)
  <2>5. DOMAIN t = 1 .. Len(s) - 1 /\ \A n \in 1 .. Len(s) - 1 : t[n] = s[n + 1]
    BY <1>8, TailFacts
  <2> HIDE DEF t
  <2>6. Narrowed(k, t) = [n \in 1 .. Len(s) - 1 |-> NarrowBy(k, t[n])]
    BY <2>5 DEF Narrowed
  <2>7. \A n \in 1 .. Len(s) - 1 : NarrowBy(k, t[n]) = r[n + 1]
    BY <1>2, <1>4, <2>5, SMTT(30)
  <2>8. Narrowed(k, t) = Tail(r)
    BY <2>4, <2>6, <2>7
  <2> QED
    BY <2>2, <2>3, <2>8 DEF t
<1> QED
  BY <1>5, <1>6, <1>7, <1>8 DEF r

NoCells == Linked(Item, <<>>, NULL, <<>>) /\ Heads(<<>>, <<>>) = <<>>

(* No cells at all are an empty queue.                                     *)
LEMMA NoCellsAreLinked == NoCells
<1>1. DOMAIN <<>> = {} /\ Len(<<>>) = 0 /\ 1 .. 0 = {} /\ <<>> \in Seq(Address)
  OBVIOUS
<1> QED
  BY <1>1 DEF NoCells, Linked, Heads

(* Every step keeps the cells linked, and is a step of the Fifo.           *)
LEMMA StepQueue ==
  ASSUME QueueInv, [QueueNext]_queue_vars
  PROVE  QueueInv' /\ [Queue!Next]_(Queue!vars)
<1>1. PICK c : Threaded(c)
  BY DEF QueueInv
<1> DEFINE heads == Heads(heap, c)
<1>2. /\ Linked(Item, heap, front, c) /\ heads \in Seq(Item) /\ Len(c) \in Nat
      /\ (c = <<>> <=> Len(c) = 0) /\ Len(heads) = Len(c) /\ Contents = Narrowed(kind, heads)
  BY <1>1, LinkedFacts, ContentsAre DEF Threaded
<1>3. IsEmpty <=> c = <<>>
  <2>1. c # <<>> => front \in Address
    BY <1>2 DEF Linked
  <2> QED
    BY <1>2, <2>1, CellsAssumption DEF IsEmpty, Linked
<1> HIDE DEF heads
<1>4. heads = <<>> <=> c = <<>>
  BY <1>2
<1>5. ASSUME NEW i \in Item, Insert(i) PROVE QueueInv' /\ Queue!Next
  <2>1. PICK l \in Fresh(heap) :
          LET larger == Stored(heap, l, [head |-> i, tail |-> NULL]) IN
          /\ IF IsEmpty
             THEN heap' = larger /\ front' = l
             ELSE heap' = [larger EXCEPT ![end].tail = l] /\ UNCHANGED front
          /\ end' = l
    BY <1>5 DEF Insert
  <2>2. c # <<>> => end = c[Len(c)]
    BY <1>1, <1>5 DEF Threaded, Insert
  <2> DEFINE larger == Stored(heap, l, [head |-> i, tail |-> NULL])
  <2>3. heap' = Extended(heap, c, l, i)
    <3> HIDE DEF larger
    <3>1. IF c = <<>> THEN heap' = larger ELSE heap' = [larger EXCEPT ![end].tail = l]
      BY <1>3, <2>1, Zenon DEF larger
    <3>2. heap' = IF c = <<>> THEN larger ELSE [larger EXCEPT ![c[Len(c)]].tail = l]
      BY <2>2, <3>1
    <3> QED
      BY <3>2, Zenon DEF larger, Extended
  <2>4. front' = IF c = <<>> THEN l ELSE front
    BY <1>3, <2>1
  <2> HIDE DEF larger
  <2>5. PICK d : d = Append(c, l)
    OBVIOUS
  <2>6. /\ Linked(Item, heap', front', d) /\ Heads(heap', d) = Append(heads, i)
        /\ d # <<>> /\ d[Len(d)] = l
    <3>1. /\ Linked(Item, heap', IF c = <<>> THEN l ELSE front, d) /\ Heads(heap', d) = Append(Heads(heap, c), i)
          /\ d # <<>> /\ d[Len(d)] = l
      <4>1. AddedAtEnd(Item, heap, front, c, l, i, heap', d)
        BY <1>2, <2>3, <2>5 DEF AddedAtEnd
      <4> QED
        BY <4>1, LinkAtEnd
    <3> QED
      BY <2>4, <3>1 DEF heads
  <2>7. QueueInv'
    BY <2>1, <2>6 DEF QueueInv, Threaded
  <2>8. kind' = kind /\ result' = result
    BY <1>5 DEF Insert
  <2>9. Contents' = Append(Contents, NarrowBy(kind, i))
    <3>1. Contents' = Narrowed(kind', Heads(heap', d))
      BY <2>6, NextContentsAre
    <3>2. Narrowed(kind, Append(heads, i)) = Append(Narrowed(kind, heads), NarrowBy(kind, i))
      BY <1>2, NarrowedFacts
    <3> QED
      BY <1>2, <2>6, <2>8, <3>1, <3>2, Zenon
  <2>10. NarrowBy(kind, i) \in Item \cup {j % 65536 : j \in Item}
    BY DEF NarrowBy
  <2>11. Queue!Insert(NarrowBy(kind, i))
    BY <2>8, <2>9 DEF Queue!Insert
  <2> QED
    BY <2>7, <2>10, <2>11 DEF Queue!Next
<1>6. ASSUME NEW i \in Item, PutBack(i) PROVE QueueInv' /\ Queue!Next
  <2>1. PICK l \in Fresh(heap) :
          heap' = Stored(heap, l, [head |-> i, tail |-> front]) /\ front' = l
    BY <1>6 DEF PutBack
  <2>2. PICK d : d = <<l>> \o c
    OBVIOUS
  <2>7. Linked(Item, heap', front', d) /\ Heads(heap', d) = <<i>> \o heads
    <3>1. Linked(Item, heap', l, d) /\ Heads(heap', d) = <<i>> \o Heads(heap, c)
      <4>1. AddedAtFront(Item, heap, front, c, l, i, heap', d)
        BY <1>2, <2>1, <2>2 DEF AddedAtFront
      <4> QED
        BY <4>1, LinkAtFront
    <3> QED
      BY <2>1, <3>1 DEF heads
  <2>3. putback' = TRUE /\ kind = "objects" /\ kind' = kind /\ result' = result
    BY <1>6 DEF PutBack
  <2>4. QueueInv'
    BY <2>7, <2>3 DEF QueueInv, Threaded
  <2>5. Contents' = <<i>> \o Contents
    <3>1. Heads(heap', d) \in Seq(Item)
      BY <2>7, LinkedFacts
    <3>2. Narrowed("objects", Heads(heap', d)) = Heads(heap', d) /\ Narrowed("objects", heads) = heads
      BY <1>2, <3>1, NarrowedFacts
    <3> QED
      BY <1>2, <2>3, <2>7, <3>2, NextContentsAre
  <2>6. Queue!PutBack(i)
    BY <2>3, <2>5 DEF Queue!PutBack
  <2> QED
    BY <2>4, <2>6 DEF Queue!Next
<1>7. CASE Remove
  <2>1. CASE c = <<>>
    <3>1. UNCHANGED <<heap, front, kind, end, putback>> /\ result' = NULL_UINT16
      BY <1>3, <1>7, <2>1 DEF Remove
    <3>2. QueueInv'
      BY <1>1, <3>1 DEF QueueInv, Threaded
    <3>3. Contents' = Contents /\ Contents = <<>>
      BY <1>2, <1>4, <2>1, <3>1, NextContentsAre, NarrowedFacts DEF heads, Narrowed
    <3>4. Queue!Remove
      BY <3>1, <3>3 DEF Queue!Remove
    <3> QED
      BY <3>2, <3>4 DEF Queue!Next
  <2>2. CASE c # <<>>
    <3>1. /\ result' = Narrow(heap[front].head) /\ heap' = Freed(heap, front)
          /\ front' = heap[front].tail /\ UNCHANGED <<kind, end, putback>>
      BY <1>3, <1>7, <2>2 DEF Remove
    <3> DEFINE d == Tail(c)
    <3>2. /\ heads # <<>> /\ heap[front].head = Head(heads)
          /\ Linked(Item, heap', front', d) /\ Heads(heap', d) = Tail(heads)
          /\ d # <<>> => d[Len(d)] = c[Len(c)]
      BY <1>2, <2>2, <3>1, CutAtFront DEF heads
    <3> HIDE DEF d
    <3>3. QueueInv'
      BY <1>1, <2>2, <3>1, <3>2 DEF QueueInv, Threaded
    <3>4. Contents # <<>> /\ Head(Contents) = NarrowBy(kind, Head(heads)) /\ Contents' = Tail(Contents)
      <4>1. \E i \in Item : TRUE
        BY <1>2, <1>4, <2>2
      <4>2. /\ Narrowed(kind, heads) # <<>>
            /\ Head(Narrowed(kind, heads)) = NarrowBy(kind, Head(heads))
            /\ Narrowed(kind, Tail(heads)) = Tail(Narrowed(kind, heads))
        BY <1>2, <3>2, <4>1, NarrowedFacts
      <4>3. Contents' = Narrowed(kind', Heads(heap', d))
        BY <3>2, NextContentsAre
      <4> QED
        BY <1>2, <3>1, <3>2, <4>2, <4>3, Zenon
    <3>5. result' = Head(Contents)
      BY <3>1, <3>2, <3>4 DEF Narrow, NarrowBy
    <3>6. Queue!Remove
      BY <3>4, <3>5 DEF Queue!Remove
    <3> QED
      BY <3>3, <3>6 DEF Queue!Next
  <2> QED
    BY <2>1, <2>2
<1>8. CASE Free
  <2>1. heap' = <<>> /\ front' = NULL /\ result' = NULL_UINT16
    BY <1>8 DEF Free, New
  <2>2. Linked(Item, heap', front', <<>>) /\ Heads(heap', <<>>) = <<>>
    BY <2>1, NoCellsAreLinked DEF NoCells
  <2>3. QueueInv'
    BY <2>2 DEF QueueInv, Threaded
  <2>4. Contents' = <<>>
    BY <2>2, NextContentsAre DEF Narrowed
  <2>5. Queue!Free
    BY <2>1, <2>4 DEF Queue!Free
  <2> QED
    BY <2>3, <2>5 DEF Queue!Next
<1>9. CASE UNCHANGED queue_vars
  <2>1. UNCHANGED <<heap, front, kind, end, putback, result>>
    BY <1>9 DEF queue_vars
  <2>2. QueueInv'
    BY <1>1, <2>1 DEF QueueInv, Threaded
  <2>3. Contents' = Contents
    BY <1>2, <2>1, NextContentsAre DEF heads
  <2> QED
    BY <2>1, <2>2, <2>3 DEF Queue!vars
<1> QED
  BY <1>5, <1>6, <1>7, <1>8, <1>9 DEF QueueNext

(* ImplementsFifo: items come out in the order in which they went in, one  *)
(* that is put back comes out next, and nothing is lost or given out       *)
(* twice, whatever addresses malloc hands out again.                       *)
THEOREM QueuesAreFifo == QueueSpec => ImplementsFifo
<1>1. QueueInit => QueueInv /\ Queue!Init
  <2> SUFFICES ASSUME QueueInit PROVE QueueInv /\ Queue!Init
    OBVIOUS
  <2>1. heap = <<>> /\ front = NULL /\ result = NULL_UINT16
    BY DEF QueueInit
  <2>2. Linked(Item, heap, front, <<>>) /\ Heads(heap, <<>>) = <<>>
    BY <2>1, NoCellsAreLinked DEF NoCells
  <2>3. Contents = <<>>
    BY <2>2, ContentsAre DEF Narrowed
  <2> QED
    BY <2>1, <2>2, <2>3 DEF QueueInv, Threaded, Queue!Init
<1>2. QueueInv /\ [QueueNext]_queue_vars => QueueInv' /\ [Queue!Next]_(Queue!vars)
  BY StepQueue
<1> QED
  BY <1>1, <1>2, PTL DEF QueueSpec, ImplementsFifo, Queue!Spec
-----------------------------------------------------------------------------
(* The lists, and the Listing that they implement.                         *)

(* What is in a list from a cell on, as Lists reads it.                    *)
FromIn(h, a) == IF a # NULL /\ h[a].head = NULL THEN <<>> ELSE Items(h, a)

LEMMA SameChain ==
  /\ \A next, a : L!Chain(next, a) = Chain(next, a)
  /\ \A a : L!From(a) = FromIn(cells, a)
  /\ L!From(list)' = FromIn(cells', list') /\ L!From(following)' = FromIn(cells', following')
<1>1. \A S : L!Cardinality(S) = Cardinality(S)
  BY DEF L!Cardinality, Cardinality
<1>2. ASSUME NEW next, NEW a PROVE L!Chain(next, a) = Chain(next, a)
  BY <1>1, Zenon DEF L!Chain, Chain
<1>3. \A h, a : L!Items(h, a) = Items(h, a)
  BY <1>2, Zenon DEF L!Items, Items
<1> QED
  BY <1>2, <1>3, Zenon DEF L!From, FromIn

(* The smallest of a set of places.                                        *)
LEMMA SmallestPlace ==
  ASSUME NEW P, P \subseteq Nat, P # {}
  PROVE  /\ L!Min(P) \in P /\ \A y \in P : L!Min(P) <= y
         /\ L!List!Min(P) = L!Min(P)
<1>1. \E x \in P : \A y \in P : x <= y
  BY SmallestNumber
<1>2. L!Min(P) \in P /\ \A y \in P : L!Min(P) <= y
  BY <1>1 DEF L!Min
<1>3. L!List!Min(P) = L!Min(P)
  BY DEF L!Min, L!List!Min
<1> QED
  BY <1>2, <1>3

(* From a cell of a chain on, Chain finds the rest of it.                  *)
LEMMA ChainFrom ==
  ASSUME NEW next, NEW a, NEW c, IsChain(next, a, c), DOMAIN next \subseteq Address,
         NEW k \in 1 .. Len(c)
  PROVE  /\ Chain(next, c[k]) = From(c, k)
         /\ DOMAIN From(c, k) = 1 .. Len(c) - k + 1
         /\ \A j \in 1 .. Len(c) - k + 1 : k + j - 1 \in 1 .. Len(c) /\ From(c, k)[j] = c[k + j - 1]
<1>0. /\ Len(c) \in Nat /\ \A j \in 1 .. Len(c) : c[j] \in DOMAIN next
      /\ \A j \in 1 .. Len(c) : next[c[j]] = IF j = Len(c) THEN NULL ELSE c[j + 1]
  BY DEF IsChain
<1> DEFINE d == From(c, k)
<1>1. d = [j \in 1 .. Len(c) - k + 1 |-> c[k + j - 1]] /\ Len(c) - k + 1 \in Nat \ {0}
  BY <1>0 DEF From
<1>2. \A j \in 1 .. Len(c) - k + 1 : k + j - 1 \in 1 .. Len(c) /\ c[k + j - 1] \in DOMAIN next
  BY <1>0
<1> HIDE DEF d
<1>3. /\ d \in Seq(DOMAIN next) /\ Len(d) = Len(c) - k + 1 /\ d # <<>> /\ DOMAIN d = 1 .. Len(d)
      /\ \A j \in 1 .. Len(d) : d[j] = c[k + j - 1]
  <2>1. PICK n \in Nat \ {0} : n = Len(c) - k + 1
    BY <1>1
  <2>2. d = [j \in 1 .. n |-> c[k + j - 1]] /\ \A j \in 1 .. n : c[k + j - 1] \in DOMAIN next
    BY <1>1, <1>2, <2>1
  <2>3. d \in Seq(DOMAIN next) /\ Len(d) = n /\ DOMAIN d = 1 .. n
    BY <2>2
  <2> QED
    BY <2>1, <2>2, <2>3
<1>4. ASSUME NEW i \in 1 .. Len(d), NEW j \in 1 .. Len(d), d[i] = d[j] PROVE i = j
  <2>1. /\ k + i - 1 \in 1 .. Len(c) /\ k + j - 1 \in 1 .. Len(c)
        /\ c[k + i - 1] = c[k + j - 1]
    BY <1>2, <1>3, <1>4
  <2>2. k + i - 1 = k + j - 1
    BY <2>1 DEF IsChain
  <2> QED
    BY <1>0, <1>3, <2>2
<1>5. c[k] = d[1]
  <2>1. 1 \in 1 .. Len(d) /\ k + 1 - 1 = k
    BY <1>0, <1>1, <1>3
  <2> QED
    BY <1>3, <2>1
<1>6. ASSUME NEW j \in 1 .. Len(d) PROVE next[d[j]] = IF j = Len(d) THEN NULL ELSE d[j + 1]
  <2> DEFINE n == k + j - 1
  <2>1. n \in 1 .. Len(c) /\ d[j] = c[n] /\ (j = Len(d) <=> n = Len(c)) /\ n + 1 = k + (j + 1) - 1
    BY <1>0, <1>2, <1>3
  <2>2. j # Len(d) => d[j + 1] = c[n + 1]
    <3>1. Len(d) \in Nat
      BY <1>1, <1>3
    <3>2. j # Len(d) => j + 1 \in 1 .. Len(d)
      BY <3>1
    <3>3. \A m \in 1 .. Len(d) : d[m] = c[k + m - 1]
      BY <1>3
    <3>4. j # Len(d) => d[j + 1] = c[k + (j + 1) - 1]
      BY <3>2, <3>3
    <3> QED
      BY <2>1, <3>4
  <2> HIDE DEF n
  <2> QED
    BY <1>0, <2>1, <2>2
<1>7. IsChain(next, c[k], d)
  BY <1>3, <1>4, <1>5, <1>6 DEF IsChain
<1>8. Chain(next, c[k]) = d
  BY <1>0, <1>7, ChainFindsThem
<1> QED
  BY <1>2, <1>3, <1>8 DEF d

(* A part of linked cells, to the end, is a list as well.                  *)
LEMMA FromLinked ==
  ASSUME NEW I, NULL \notin I, NEW h, NEW a, NEW c, Linked(I, h, a, c)
  PROVE  /\ FromIn(h, NULL) = <<>> /\ FromIn(h, a) = Heads(h, c)
         /\ \A k \in 1 .. Len(c) : FromIn(h, c[k]) = From(Heads(h, c), k)
<1> DEFINE next == [b \in DOMAIN h |-> h[b].tail]
           s == Heads(h, c)
<1>1. /\ DOMAIN next = DOMAIN h /\ DOMAIN h \subseteq Address
      /\ \A k \in 1 .. Len(c) : next[c[k]] = IF k = Len(c) THEN NULL ELSE c[k + 1]
  <2>1. \A k \in 1 .. Len(c) : c[k] \in DOMAIN h
    BY LinkedFacts
  <2> QED
    BY <2>1 DEF Linked
<1>2. /\ c \in Seq(Address) /\ Len(c) \in Nat /\ (c = <<>> <=> Len(c) = 0)
      /\ \A k \in 1 .. Len(c) : c[k] \in DOMAIN h /\ c[k] # NULL /\ h[c[k]].head # NULL
      /\ Len(s) = Len(c) /\ \A k \in 1 .. Len(c) : s[k] = h[c[k]].head
  <2>1. /\ c \in Seq(Address) /\ Len(c) \in Nat /\ (c = <<>> <=> Len(c) = 0)
        /\ \A k \in 1 .. Len(c) : c[k] \in DOMAIN h /\ c[k] \in Address
        /\ Len(s) = Len(c) /\ \A k \in 1 .. Len(c) : s[k] = h[c[k]].head
    BY LinkedFacts
  <2>2. \A k \in 1 .. Len(c) : h[c[k]].head \in I
    BY DEF Linked
  <2> HIDE DEF s
  <2> QED
    BY <2>1, <2>2, CellsAssumption
<1> HIDE DEF next, s
<1>3. FromIn(h, NULL) = <<>>
  <2>1. IsChain(next, NULL, <<>>)
    BY DEF IsChain
  <2>2. Chain(next, NULL) = <<>>
    BY <1>1, <2>1, ChainFindsThem
  <2> QED
    BY <2>2 DEF FromIn, Items, next
<1>4. FromIn(h, a) = s
  <2>1. Items(h, a) = s
    BY LinkedItems DEF s
  <2>2. a # NULL => h[a].head # NULL
    <3>1. c # <<>> => 1 \in 1 .. Len(c)
      BY <1>2
    <3> QED
      BY <1>2, <3>1 DEF Linked
  <2> QED
    BY <2>1, <2>2 DEF FromIn
<1>5. ASSUME NEW k \in 1 .. Len(c) PROVE FromIn(h, c[k]) = From(s, k)
  <2> DEFINE d == From(c, k)
  <2>1. IsChain(next, a, c)
    <3>1. c = [j \in 1 .. Len(c) |-> c[j]]
      BY <1>2
    <3>2. c \in Seq(DOMAIN next)
      BY <1>1, <1>2, <3>1
    <3> QED
      BY <1>1, <3>2 DEF IsChain, Linked
  <2>2. /\ Chain(next, c[k]) = d /\ DOMAIN d = 1 .. Len(c) - k + 1
        /\ \A j \in 1 .. Len(c) - k + 1 : k + j - 1 \in 1 .. Len(c) /\ d[j] = c[k + j - 1]
    <3>1. DOMAIN next \subseteq Address
      BY <1>1
    <3>2. /\ Chain(next, c[k]) = From(c, k) /\ DOMAIN From(c, k) = 1 .. Len(c) - k + 1
          /\ \A j \in 1 .. Len(c) - k + 1 : k + j - 1 \in 1 .. Len(c) /\ From(c, k)[j] = c[k + j - 1]
      BY <2>1, <3>1, ChainFrom, ZenonT(120)
    <3> QED
      BY <3>2, Zenon
  <2> HIDE DEF d
  <2>3. Items(h, c[k]) = [j \in 1 .. Len(c) - k + 1 |-> h[d[j]].head]
    BY <2>2 DEF Items, next
  <2>4. \A j \in 1 .. Len(c) - k + 1 : h[d[j]].head = s[k + j - 1]
    BY <1>2, <2>2
  <2>5. Items(h, c[k]) = From(s, k)
    <3>1. From(s, k) = [j \in 1 .. Len(c) - k + 1 |-> s[k + j - 1]]
      BY <1>2 DEF From
    <3> QED
      BY <2>3, <2>4, <3>1
  <2> QED
    BY <1>2, <2>5 DEF FromIn
<1> QED
  BY <1>3, <1>4, <1>5 DEF s

(* An ObjList without an item is a cell without a head.                    *)
Headless(a) == [b \in {a} |-> [head |-> NULL, tail |-> NULL]]

LEMMA FromHeadless ==
  ASSUME NEW a \in Address
  PROVE  /\ FromIn(Headless(a), NULL) = <<>> /\ FromIn(Headless(a), a) = <<>>
         /\ Chain([b \in {a} |-> NULL], a) = <<a>>
<1> DEFINE next == [b \in {a} |-> NULL]
<1>1. DOMAIN next = {a} /\ next[a] = NULL /\ DOMAIN next \subseteq Address
  OBVIOUS
<1> HIDE DEF next
<1>2. IsChain(next, NULL, <<>>)
  BY DEF IsChain
<1>3. Chain(next, NULL) = <<>>
  BY <1>1, <1>2, ChainFindsThem
<1>4. IsChain(next, a, <<a>>)
  BY <1>1 DEF IsChain
<1>5. Chain(next, a) = <<a>>
  BY <1>1, <1>4, ChainFindsThem
<1>6. [b \in DOMAIN Headless(a) |-> Headless(a)[b].tail] = next
  BY DEF Headless, next
<1>7. Items(Headless(a), NULL) = <<>>
  BY <1>3, <1>6 DEF Items
<1>8. a # NULL /\ Headless(a)[a].head = NULL
  BY CellsAssumption DEF Headless
<1> QED
  BY <1>5, <1>7, <1>8 DEF FromIn, next

LEMMA Concatenated ==
  ASSUME NEW S, NEW s \in Seq(S), NEW t \in Seq(S)
  PROVE  /\ s \o t \in Seq(S) /\ Len(s \o t) = Len(s) + Len(t)
         /\ \A k \in 1 .. Len(s) + Len(t) :
              (s \o t)[k] = IF k <= Len(s) THEN s[k] ELSE t[k - Len(s)]
OBVIOUS

(* The head and the tail of a sequence are all of it.                      *)
LEMMA HeadThenTail ==
  ASSUME NEW S, NEW s \in Seq(S), s # <<>>
  PROVE  <<Head(s)>> \o Tail(s) = s
<1>1. /\ Tail(s) \in Seq(S) /\ Len(Tail(s)) = Len(s) - 1 /\ Head(s) = s[1] /\ Len(s) \in Nat \ {0}
      /\ \A k \in 1 .. Len(s) - 1 : Tail(s)[k] = s[k + 1]
  BY TailFacts
<1> DEFINE t == Tail(s)
           u == <<s[1]>> \o t
<1>2. t \in Seq(S) /\ Len(t) = Len(s) - 1 /\ \A k \in 1 .. Len(s) - 1 : t[k] = s[k + 1]
  BY <1>1
<1> HIDE DEF t
<1>3. <<s[1]>> \in Seq(S) /\ Len(<<s[1]>>) = 1 /\ <<s[1]>>[1] = s[1]
  BY <1>1
<1>4. u \in Seq(S) /\ Len(u) = Len(s)
      /\ \A k \in 1 .. Len(s) : u[k] = IF k <= 1 THEN <<s[1]>>[k] ELSE t[k - 1]
  <2> DEFINE v == <<s[1]>>
  <2>1. v \in Seq(S) /\ Len(v) = 1 /\ t \in Seq(S)
    BY <1>2, <1>3
  <2> HIDE DEF v
  <2>2. /\ v \o t \in Seq(S) /\ Len(v \o t) = Len(v) + Len(t)
        /\ \A k \in 1 .. Len(v) + Len(t) : (v \o t)[k] = IF k <= Len(v) THEN v[k] ELSE t[k - Len(v)]
    BY <2>1, Concatenated
  <2>3. 1 + Len(t) = Len(s)
    BY <1>1, <1>2
  <2> QED
    BY <2>1, <2>2, <2>3 DEF v
<1>5. \A k \in 1 .. Len(s) : u[k] = s[k]
  <2> SUFFICES ASSUME NEW k \in 1 .. Len(s) PROVE u[k] = s[k]
    OBVIOUS
  <2>1. CASE k = 1
    BY <1>3, <1>4, <2>1
  <2>2. CASE k # 1
    <3>1. k - 1 \in 1 .. Len(s) - 1 /\ (k - 1) + 1 = k /\ ~ (k <= 1)
      BY <1>1, <2>2
    <3>2. t[k - 1] = s[k]
      BY <1>2, <3>1
    <3> QED
      BY <1>4, <3>1, <3>2
  <2> QED
    BY <2>1, <2>2
<1>6. u = [k \in 1 .. Len(u) |-> u[k]] /\ s = [k \in 1 .. Len(s) |-> s[k]]
  BY <1>4, SequenceIs
<1> HIDE DEF u
<1>7. u = s
  BY <1>4, <1>5, <1>6
<1> QED
  BY <1>1, <1>7 DEF u, t

(* A list without the item at a place.                                     *)
Without(s, k) == [j \in 1 .. Len(s) - 1 |-> IF j < k THEN s[j] ELSE s[j + 1]]

LEMMA RemovedAt ==
  ASSUME NEW S, NEW s \in Seq(S), NEW k \in 1 .. Len(s)
  PROVE  L!List!Seqs!RemoveAt(s, k) = Without(s, k) /\ (k = 1 => Without(s, k) = Tail(s))
<1> DEFINE t == SubSeq(s, 1, k - 1)
           u == SubSeq(s, k + 1, Len(s))
           v == t \o u
<1>1. Len(s) \in Nat \ {0} /\ k \in Nat \ {0} /\ \A j \in 1 .. Len(s) : s[j] \in S
  OBVIOUS
<1>2. t \in Seq(S) /\ Len(t) = k - 1 /\ \A j \in 1 .. k - 1 : t[j] = s[j]
  BY <1>1
<1>3. u \in Seq(S) /\ Len(u) = Len(s) - k /\ \A j \in 1 .. Len(s) - k : u[j] = s[k + j]
  <2>1. u = [j \in 1 .. Len(s) - k |-> s[k + j]]
    <3>1. u = [j \in 1 .. (Len(s) - (k + 1)) + 1 |-> s[(k + 1) + j - 1]]
      BY <1>1
    <3>2. (Len(s) - (k + 1)) + 1 = Len(s) - k /\ \A j \in 1 .. Len(s) - k : (k + 1) + j - 1 = k + j
      BY <1>1
    <3> QED
      BY <3>1, <3>2
  <2>2. Len(s) - k \in Nat /\ \A j \in 1 .. Len(s) - k : s[k + j] \in S
    BY <1>1
  <2> HIDE DEF u
  <2> QED
    BY <2>1, <2>2
<1> HIDE DEF t, u
<1>4. v \in Seq(S) /\ Len(v) = Len(s) - 1
      /\ \A j \in 1 .. Len(s) - 1 : v[j] = IF j <= k - 1 THEN t[j] ELSE u[j - (k - 1)]
  <2>1. /\ v \in Seq(S) /\ Len(v) = Len(t) + Len(u)
        /\ \A j \in 1 .. Len(t) + Len(u) : v[j] = IF j <= Len(t) THEN t[j] ELSE u[j - Len(t)]
    BY <1>2, <1>3, Concatenated
  <2>2. Len(t) + Len(u) = Len(s) - 1
    BY <1>1, <1>2, <1>3
  <2> HIDE DEF v
  <2> QED
    BY <1>2, <2>1, <2>2
<1>5. ASSUME NEW j \in 1 .. Len(s) - 1 PROVE v[j] = IF j < k THEN s[j] ELSE s[j + 1]
  <2>1. CASE j < k
    <3>1. j \in 1 .. k - 1 /\ j <= k - 1
      BY <1>1, <2>1
    <3> QED
      BY <1>2, <1>4, <2>1, <3>1
  <2>2. CASE ~ (j < k)
    <3>1. j - (k - 1) \in 1 .. Len(s) - k /\ ~ (j <= k - 1) /\ k + (j - (k - 1)) = j + 1
      BY <1>1, <2>2
    <3>2. u[j - (k - 1)] = s[j + 1]
      BY <1>3, <3>1
    <3> QED
      BY <1>4, <2>2, <3>1, <3>2
  <2> QED
    BY <2>1, <2>2
<1>6. v = [j \in 1 .. Len(v) |-> v[j]]
  BY <1>4, SequenceIs
<1> HIDE DEF v
<1>7. v = Without(s, k)
  BY <1>4, <1>5, <1>6 DEF Without
<1>8. L!List!Seqs!RemoveAt(s, k) = v
  BY DEF L!List!Seqs!RemoveAt, v, t, u
<1>9. k = 1 => Without(s, k) = Tail(s)
  <2> SUFFICES ASSUME k = 1 PROVE Without(s, k) = Tail(s)
    OBVIOUS
  <2>1. Tail(s) = [j \in 1 .. Len(s) - 1 |-> s[j + 1]]
    BY <1>1, TailFacts
  <2>2. \A j \in 1 .. Len(s) - 1 : ~ (j < k)
    BY <1>1
  <2> QED
    BY <2>1, <2>2 DEF Without
<1> QED
  BY <1>7, <1>8, <1>9

Shifted(h, a, l, i) == [Stored(h, l, h[a]) EXCEPT ![a] = [head |-> i, tail |-> l]]

(* list_insert and objlist_insert: what was in the first cell moves to a   *)
(* new second one.                                                         *)
LEMMA InsertFirst ==
  ASSUME NEW I, NEW h, NEW a, NEW c, Linked(I, h, a, c), c # <<>>,
         NEW l \in Fresh(h), NEW i \in I, NEW g,
         g = Shifted(h, a, l, i)
  PROVE  \E d : Linked(I, g, a, d) /\ d # <<>> /\ Heads(g, d) = <<i>> \o Heads(h, c)
<1> DEFINE s == Heads(h, c)
           h0 == Freed(h, a)
           h1 == Stored(h0, l, [head |-> h[a].head, tail |-> h[a].tail])
           h2 == Stored(h1, a, [head |-> i, tail |-> l])
           c1 == <<l>> \o Tail(c)
           c2 == <<a>> \o c1
<1>1. /\ a \in DOMAIN h /\ a \in Address /\ h[a] \in [head : I, tail : Address \cup {NULL}]
      /\ l \in Address /\ l \notin DOMAIN h
  <2>1. 1 \in 1 .. Len(c) /\ a = c[1] /\ c[1] \in DOMAIN h /\ c[1] \in Address
    BY LinkedFacts DEF Linked
  <2> QED
    BY <2>1 DEF Linked, Fresh
<1>2. s \in Seq(I) /\ s # <<>> /\ <<Head(s)>> \o Tail(s) = s
  <2>1. s \in Seq(I) /\ s # <<>>
    BY LinkedFacts, CutAtFront
  <2> HIDE DEF s
  <2> QED
    BY <2>1, HeadThenTail
<1>3. /\ Linked(I, h0, h[a].tail, Tail(c)) /\ Heads(h0, Tail(c)) = Tail(s)
      /\ h[a].head = Head(s)
  BY CutAtFront
<1>4. DOMAIN h0 = DOMAIN h \ {a} /\ \A b \in DOMAIN h \ {a} : h0[b] = h[b]
  BY DEF Freed
<1> HIDE DEF s, h0
<1>5. Linked(I, h1, l, c1) /\ Heads(h1, c1) = <<Head(s)>> \o Tail(s)
  <2>1. l \in Fresh(h0) /\ h[a].head \in I
    BY <1>1, <1>4 DEF Fresh
  <2>2. AddedAtFront(I, h0, h[a].tail, Tail(c), l, h[a].head, h1, c1)
    BY <1>3, <2>1 DEF AddedAtFront
  <2> HIDE DEF h1, c1
  <2>3. Linked(I, h1, l, c1) /\ Heads(h1, c1) = <<h[a].head>> \o Heads(h0, Tail(c))
    BY <2>2, LinkAtFront
  <2> QED
    BY <1>3, <2>3
<1>6. /\ DOMAIN h1 = (DOMAIN h \ {a}) \cup {l}
      /\ \A b \in DOMAIN h1 : h1[b] = IF b = l THEN h[a] ELSE h[b]
  <2>1. h[a] = [head |-> h[a].head, tail |-> h[a].tail]
    BY <1>1
  <2> QED
    BY <1>1, <1>4, <2>1 DEF Stored
<1> HIDE DEF h1
<1>7. Linked(I, h2, a, c2) /\ Heads(h2, c2) = <<i>> \o s
  <2>1. a \in Fresh(h1)
    BY <1>1, <1>6 DEF Fresh
  <2>2. AddedAtFront(I, h1, l, c1, a, i, h2, c2)
    BY <1>5, <2>1 DEF AddedAtFront
  <2> HIDE DEF h2, c1, c2
  <2>3. Linked(I, h2, a, c2) /\ Heads(h2, c2) = <<i>> \o Heads(h1, c1)
    BY <2>2, LinkAtFront
  <2> QED
    BY <1>2, <1>5, <2>3
<1>8. c2 # <<>>
  BY <1>5, <1>1 DEF c2, Linked
<1>9. h2 = g
  <2>1. h2 = [b \in DOMAIN h \cup {l} |->
                IF b = a THEN [head |-> i, tail |-> l] ELSE IF b = l THEN h[a] ELSE h[b]]
    BY <1>1, <1>6 DEF Stored
  <2>2. DOMAIN g = DOMAIN h \cup {l}
    BY DEF Shifted, Stored
  <2>3. \A b \in DOMAIN h \cup {l} :
          g[b] = IF b = a THEN [head |-> i, tail |-> l] ELSE IF b = l THEN h[a] ELSE h[b]
    BY <1>1 DEF Shifted, Stored
  <2>4. g = [b \in DOMAIN g |-> g[b]]
    BY DEF Shifted
  <2> QED
    BY <2>1, <2>2, <2>3, <2>4
<1> QED
  BY <1>7, <1>8, <1>9 DEF s

Beheaded(h, a) == [Freed(h, h[a].tail) EXCEPT ![a] = h[h[a].tail]]

(* objlist_remove of the first item: the second takes its place.           *)
LEMMA RemoveFirst ==
  ASSUME NEW I, NEW h, NEW a, NEW c, Linked(I, h, a, c), c # <<>>, h[a].tail # NULL, NEW g,
         g = Beheaded(h, a)
  PROVE  \E d : Linked(I, g, a, d) /\ d # <<>> /\ Heads(g, d) = Tail(Heads(h, c))
<1> DEFINE s == Heads(h, c)
           b == h[a].tail
           h0 == Freed(h, a)
           h1 == Freed(h0, b)
           h2 == Stored(h1, a, [head |-> h[b].head, tail |-> h[b].tail])
           d == <<a>> \o Tail(Tail(c))
<1>1. a \in DOMAIN h /\ a \in Address
  <2>1. 1 \in 1 .. Len(c) /\ a = c[1] /\ c[1] \in DOMAIN h /\ c[1] \in Address
    BY LinkedFacts DEF Linked
  <2> QED
    BY <2>1
<1>2. Linked(I, h0, b, Tail(c)) /\ Heads(h0, Tail(c)) = Tail(s)
  BY CutAtFront
<1>3. DOMAIN h0 = DOMAIN h \ {a} /\ \A x \in DOMAIN h \ {a} : h0[x] = h[x]
  BY DEF Freed
<1>4. Tail(c) # <<>>
  BY <1>2 DEF Linked
<1> HIDE DEF s, h0, b
<1>5. /\ b \in DOMAIN h0 /\ Tail(s) # <<>> /\ h0[b].head = Head(Tail(s))
      /\ Linked(I, h1, h0[b].tail, Tail(Tail(c))) /\ Heads(h1, Tail(Tail(c))) = Tail(Tail(s))
  <2> DEFINE e == Tail(c)
  <2>1. Linked(I, h0, b, e) /\ e # <<>> /\ Heads(h0, e) = Tail(s)
    BY <1>2, <1>4
  <2> HIDE DEF e
  <2>2. /\ b \in DOMAIN h0 /\ Heads(h0, e) # <<>> /\ h0[b].head = Head(Heads(h0, e))
        /\ Linked(I, Freed(h0, b), h0[b].tail, Tail(e))
        /\ Heads(Freed(h0, b), Tail(e)) = Tail(Heads(h0, e))
    <3>1. \A k, x, y : Linked(I, k, x, y) /\ y # <<>> =>
            /\ x \in DOMAIN k /\ Heads(k, y) # <<>> /\ k[x].head = Head(Heads(k, y))
            /\ Linked(I, Freed(k, x), k[x].tail, Tail(y))
            /\ Heads(Freed(k, x), Tail(y)) = Tail(Heads(k, y))
      BY CutAtFront
    <3> QED
      BY <2>1, <3>1, Zenon
  <2> QED
    BY <2>1, <2>2 DEF e
<1>6. /\ h0[b] = h[b] /\ h[b].head \in I /\ h[b] = [head |-> h[b].head, tail |-> h[b].tail]
      /\ b # a /\ b \in DOMAIN h
  <2>1. b \in DOMAIN h /\ b # a
    BY <1>3, <1>5
  <2>2. h[b] \in [head : I, tail : Address \cup {NULL}]
    BY <2>1 DEF Linked
  <2> QED
    BY <1>3, <2>1, <2>2
<1>7. DOMAIN h1 = DOMAIN h \ {a, b} /\ \A x \in DOMAIN h \ {a, b} : h1[x] = h[x]
  BY <1>3 DEF Freed
<1> HIDE DEF h1
<1>8. Linked(I, h2, a, d) /\ Heads(h2, d) = <<Head(Tail(s))>> \o Tail(Tail(s))
  <2>1. a \in Fresh(h1)
    BY <1>1, <1>7 DEF Fresh
  <2>2. AddedAtFront(I, h1, h[b].tail, Tail(Tail(c)), a, h[b].head, h2, d)
    BY <1>5, <1>6, <2>1 DEF AddedAtFront
  <2> HIDE DEF h2, d
  <2>3. Linked(I, h2, a, d) /\ Heads(h2, d) = <<h[b].head>> \o Heads(h1, Tail(Tail(c)))
    BY <2>2, LinkAtFront
  <2> QED
    BY <1>5, <1>6, <2>3
<1>9. <<Head(Tail(s))>> \o Tail(Tail(s)) = Tail(s)
  <2>1. Tail(s) \in Seq(I)
    <3>1. Heads(h0, Tail(c)) \in Seq(I)
      BY <1>2, LinkedFacts
    <3> QED
      BY <1>2, <3>1
  <2> DEFINE t == Tail(s)
  <2>2. t \in Seq(I) /\ t # <<>>
    BY <1>5, <2>1
  <2> HIDE DEF t
  <2>3. <<Head(t)>> \o Tail(t) = t
    BY <2>2, HeadThenTail
  <2> QED
    BY <2>3 DEF t
<1>10. h2 = g
  <2>1. h2 = [x \in DOMAIN h \ {b} |-> IF x = a THEN h[b] ELSE h[x]]
    BY <1>1, <1>6, <1>7 DEF Stored
  <2>2. DOMAIN g = DOMAIN h \ {b} /\ \A x \in DOMAIN h \ {b} : g[x] = IF x = a THEN h[b] ELSE h[x]
    BY <1>1, <1>6 DEF Beheaded, Freed, b
  <2>3. g = [x \in DOMAIN g |-> g[x]]
    BY DEF Beheaded
  <2> QED
    BY <2>1, <2>2, <2>3
<1>11. d # <<>>
  <2>1. a \in DOMAIN h2
    BY DEF Stored
  <2> HIDE DEF h2, d
  <2>2. DOMAIN h2 = {d[k] : k \in 1 .. Len(d)}
    BY <1>8 DEF Linked
  <2> QED
    BY <2>1, <2>2
<1> QED
  BY <1>8, <1>9, <1>10, <1>11 DEF s

Bypassed(h, p, b) == Freed([h EXCEPT ![p].tail = h[b].tail], b)

(* objlist_remove of a later item: the cell before it points past it.      *)
LEMMA RemoveLater ==
  ASSUME NEW I, NEW h, NEW a, NEW c, Linked(I, h, a, c), NEW k \in 2 .. Len(c), NEW g,
         g = Bypassed(h, c[k - 1], c[k])
  PROVE  \E d : Linked(I, g, a, d) /\ d # <<>> /\ Heads(g, d) = Without(Heads(h, c), k)
<1> DEFINE s == Heads(h, c)
           d == Without(c, k)
           At(j) == IF j < k THEN j ELSE j + 1
<1>1. /\ Len(c) \in Nat /\ k \in Nat /\ k - 1 \in 1 .. Len(c) /\ k \in 1 .. Len(c) /\ k # k - 1
      /\ \A j \in 1 .. Len(c) : c[j] \in Address /\ c[j] \in DOMAIN h
      /\ s \in Seq(I) /\ Len(s) = Len(c) /\ \A j \in 1 .. Len(c) : s[j] = h[c[j]].head
  <2>1. /\ Len(c) \in Nat /\ \A j \in 1 .. Len(c) : c[j] \in Address /\ c[j] \in DOMAIN h
        /\ s \in Seq(I) /\ Len(s) = Len(c) /\ \A j \in 1 .. Len(c) : s[j] = h[c[j]].head
    BY LinkedFacts
  <2> HIDE DEF s
  <2> QED
    BY <2>1
<1> HIDE DEF s
<1>2. \A i, j \in 1 .. Len(c) : c[i] = c[j] => i = j
  BY DEF Linked
<1>3. \A j \in 1 .. Len(c) - 1 : At(j) \in 1 .. Len(c) /\ At(j) # k
  BY <1>1
<1>4. \A i, j \in 1 .. Len(c) - 1 : At(i) = At(j) => i = j
  BY <1>1
<1>5. \A n \in 1 .. Len(c) : n # k => \E j \in 1 .. Len(c) - 1 : At(j) = n
  <2> SUFFICES ASSUME NEW n \in 1 .. Len(c), n # k
               PROVE  \E j \in 1 .. Len(c) - 1 : At(j) = n
    OBVIOUS
  <2>1. CASE n < k
    <3>1. n \in 1 .. Len(c) - 1 /\ At(n) = n
      BY <1>1, <2>1
    <3> QED
      BY <3>1
  <2>2. CASE ~ (n < k)
    <3>1. n - 1 \in 1 .. Len(c) - 1 /\ At(n - 1) = n
      BY <1>1, <2>2
    <3> QED
      BY <3>1
  <2> QED
    BY <2>1, <2>2
<1>6. d \in Seq(Address) /\ Len(d) = Len(c) - 1 /\ d # <<>>
      /\ \A j \in 1 .. Len(c) - 1 : d[j] = c[At(j)]
  <2>1. d = [j \in 1 .. Len(c) - 1 |-> c[At(j)]]
    <3>1. \A j \in 1 .. Len(c) - 1 : (IF j < k THEN c[j] ELSE c[j + 1]) = c[At(j)]
      OBVIOUS
    <3> QED
      BY <3>1 DEF Without
  <2>2. Len(c) - 1 \in Nat \ {0} /\ \A j \in 1 .. Len(c) - 1 : c[At(j)] \in Address
    BY <1>1, <1>3, SMTT(30)
  <2> HIDE DEF d, At
  <2> QED
    BY <2>1, <2>2
<1>7. /\ DOMAIN g = DOMAIN h \ {c[k]}
      /\ \A j \in 1 .. Len(c) : j # k =>
           /\ g[c[j]] \in [head : I, tail : Address \cup {NULL}] /\ g[c[j]].head = h[c[j]].head
           /\ g[c[j]].tail = IF j = k - 1 THEN h[c[k]].tail ELSE h[c[j]].tail
  <2> DEFINE m == [h EXCEPT ![c[k - 1]].tail = h[c[k]].tail]
  <2>1. /\ DOMAIN m = DOMAIN h /\ m[c[k - 1]] = [h[c[k - 1]] EXCEPT !.tail = h[c[k]].tail]
        /\ \A b \in DOMAIN h : b # c[k - 1] => m[b] = h[b]
    BY <1>1
  <2>2. g = Freed(m, c[k])
    BY DEF Bypassed
  <2> HIDE DEF m
  <2>3. DOMAIN g = DOMAIN h \ {c[k]} /\ \A b \in DOMAIN h \ {c[k]} : g[b] = m[b]
    BY <2>1, <2>2 DEF Freed
  <2>4. \A j \in 1 .. Len(c) : h[c[j]] \in [head : I, tail : Address \cup {NULL}]
    BY DEF Linked
  <2>5. ASSUME NEW j \in 1 .. Len(c), j # k
        PROVE  /\ g[c[j]] \in [head : I, tail : Address \cup {NULL}] /\ g[c[j]].head = h[c[j]].head
               /\ g[c[j]].tail = IF j = k - 1 THEN h[c[k]].tail ELSE h[c[j]].tail
    <3>1. c[j] \in DOMAIN h /\ c[j] # c[k] /\ g[c[j]] = m[c[j]]
      BY <1>1, <1>2, <2>3, <2>5
    <3>2. CASE j = k - 1
      BY <1>1, <2>1, <2>4, <3>1, <3>2
    <3>3. CASE j # k - 1
      <4>1. c[j] # c[k - 1]
        BY <1>1, <1>2, <3>3
      <4> QED
        BY <2>1, <2>4, <3>1, <3>3, <4>1
    <3> QED
      BY <3>2, <3>3
  <2> QED
    BY <2>3, <2>5
<1>8. Linked(I, g, a, d)
  <2>1. DOMAIN g = {d[j] : j \in 1 .. Len(d)}
    <3>1. ASSUME NEW b \in DOMAIN h, b # c[k] PROVE b \in {d[j] : j \in 1 .. Len(d)}
      <4>1. PICK n \in 1 .. Len(c) : b = c[n]
        BY DEF Linked
      <4>2. PICK j \in 1 .. Len(c) - 1 : At(j) = n
        BY <1>5, <3>1, <4>1
      <4> HIDE DEF d, At
      <4> QED
        BY <1>6, <4>1, <4>2
    <3>2. ASSUME NEW j \in 1 .. Len(d) PROVE d[j] \in DOMAIN h /\ d[j] # c[k]
      <4> HIDE DEF d, At
      <4>1. At(j) \in 1 .. Len(c) /\ At(j) # k /\ d[j] = c[At(j)]
        BY <1>3, <1>6
      <4> QED
        BY <1>1, <1>2, <4>1
    <3> HIDE DEF d, At
    <3>3. {d[j] : j \in 1 .. Len(d)} \subseteq DOMAIN h \ {c[k]}
      BY <3>2
    <3>4. DOMAIN h \ {c[k]} \subseteq {d[j] : j \in 1 .. Len(d)}
      BY <3>1
    <3> QED
      BY <1>7, <3>3, <3>4
  <2>2. ASSUME NEW i \in 1 .. Len(d), NEW j \in 1 .. Len(d), d[i] = d[j] PROVE i = j
    <3> HIDE DEF d, At
    <3>1. i \in 1 .. Len(c) - 1 /\ j \in 1 .. Len(c) - 1 /\ c[At(i)] = c[At(j)]
      BY <1>6, <2>2
    <3>2. At(i) = At(j)
      BY <1>2, <1>3, <3>1
    <3> QED
      BY <1>4, <3>1, <3>2
  <2>3. a = d[1]
    <3>1. At(1) = 1 /\ 1 \in 1 .. Len(c) - 1 /\ c # <<>>
      BY <1>1
    <3> HIDE DEF d, At
    <3> QED
      BY <1>6, <3>1 DEF Linked
  <2>4. ASSUME NEW j \in 1 .. Len(d)
        PROVE  /\ g[d[j]] \in [head : I, tail : Address \cup {NULL}]
               /\ g[d[j]].tail = IF j = Len(d) THEN NULL ELSE d[j + 1]
    <3> DEFINE n == At(j)
               next == IF n = k - 1 THEN k ELSE n
    <3>1. n \in 1 .. Len(c) /\ n # k /\ d[j] = c[n]
      <4> HIDE DEF d, At
      <4> QED
        BY <1>3, <1>6
    <3>2. next \in 1 .. Len(c) /\ (next = Len(c) <=> j = Len(d))
          /\ (j # Len(d) => j + 1 \in 1 .. Len(c) - 1 /\ At(j + 1) = next + 1)
      <4>1. Len(d) = Len(c) - 1 /\ j \in 1 .. Len(c) - 1
        BY <1>6
      <4> HIDE DEF d
      <4>2. CASE j < k - 1
        <5>1. n = j /\ next = j /\ At(j + 1) = j + 1
          BY <1>1, <4>1, <4>2
        <5> HIDE DEF n, next, At
        <5> QED
          BY <1>1, <4>1, <4>2, <5>1
      <4>3. CASE j = k - 1
        <5>1. n = j /\ next = k /\ At(j + 1) = k + 1 /\ k = j + 1
          BY <1>1, <4>1, <4>3
        <5> HIDE DEF n, next, At
        <5> QED
          BY <1>1, <4>1, <5>1
      <4>4. CASE j >= k
        <5>1. next = j + 1 /\ At(j + 1) = (j + 1) + 1
          BY <1>1, <4>1, <4>4
        <5> HIDE DEF n, next, At
        <5>2. j + 1 \in 1 .. Len(c) /\ (j + 1 = Len(c) <=> j = Len(d))
              /\ (j # Len(d) => j + 1 \in 1 .. Len(c) - 1)
          BY <1>1, <4>1
        <5> QED
          BY <5>1, <5>2
      <4>5. j < k - 1 \/ j = k - 1 \/ j >= k
        BY <1>1, <4>1
      <4> QED
        BY <4>2, <4>3, <4>4, <4>5
    <3>3. h[c[next]].tail = IF next = Len(c) THEN NULL ELSE c[next + 1]
      BY <3>2 DEF Linked
    <3>4. g[c[n]].tail = h[c[next]].tail /\ g[c[n]] \in [head : I, tail : Address \cup {NULL}]
      <4> HIDE DEF d, At
      <4> QED
        BY <1>7, <3>1
    <3> HIDE DEF n, next, d, At
    <3>5. j # Len(d) => d[j + 1] = c[next + 1]
      BY <1>6, <3>2
    <3> QED
      BY <3>1, <3>2, <3>3, <3>4, <3>5
  <2> HIDE DEF d, At
  <2> QED
    BY <1>6, <2>1, <2>2, <2>3, <2>4 DEF Linked
<1>9. Heads(g, d) = Without(s, k)
  <2>1. \A j \in 1 .. Len(d) : g[d[j]].head = s[At(j)]
    <3> HIDE DEF d, At
    <3> SUFFICES ASSUME NEW j \in 1 .. Len(d) PROVE g[d[j]].head = s[At(j)]
      OBVIOUS
    <3>1. At(j) \in 1 .. Len(c) /\ At(j) # k /\ d[j] = c[At(j)]
      BY <1>3, <1>6
    <3> QED
      BY <1>1, <1>7, <3>1
  <2>2. \A j : (IF j < k THEN s[j] ELSE s[j + 1]) = s[At(j)]
    OBVIOUS
  <2>3. Len(d) = Len(s) - 1
    BY <1>1, <1>6
  <2>4. Without(s, k) = [j \in 1 .. Len(d) |-> s[At(j)]]
    <3> HIDE DEF d
    <3> QED
      BY <2>2, <2>3 DEF Without
  <2> HIDE DEF d, At
  <2> QED
    BY <2>1, <2>4 DEF Heads
<1> QED
  BY <1>6, <1>8, <1>9 DEF s

(* The invariant of Lists: either the cells are linked from the caller's   *)
(* pointer on, and an enumeration is at one of them or at the end, or it   *)
(* is an ObjList whose only cell has no head.                              *)
IsFilled(k, h, a, n, c) ==
  /\ Linked(Object, h, a, c)
  /\ k = "objects" => c # <<>>
  /\ n = NULL \/ \E j \in 1 .. Len(c) : n = c[j]

IsUnfilled(k, h, a, n) ==
  k = "objects" /\ a \in Address /\ h = Headless(a) /\ n \in {NULL, a}

IsList(k, h, a, n) ==
  /\ k \in {"numbers", "objects"}
  /\ IsUnfilled(k, h, a, n) \/ \E c : IsFilled(k, h, a, n, c)

ListInv == IsList(listkind, cells, list, following)

(* A new list has no items.                                                *)
LEMMA NewListIsEmpty ==
  ASSUME L!ListsAssumption, NEW k \in {"numbers", "objects"}, NEW n \in L!New(k)
  PROVE  IsList(k, n.heap, n.list, NULL) /\ FromIn(n.heap, n.list) = <<>> /\ FromIn(n.heap, NULL) = <<>>
<1>1. CASE k = "numbers"
  <2>1. n.heap = <<>> /\ n.list = NULL
    BY <1>1 DEF L!New
  <2>2. Linked(Object, <<>>, NULL, <<>>) /\ Heads(<<>>, <<>>) = <<>>
    BY DEF Linked, Heads
  <2>3. FromIn(<<>>, NULL) = <<>>
    BY <2>2, FromLinked DEF L!ListsAssumption
  <2> QED
    BY <1>1, <2>1, <2>2, <2>3 DEF IsList, IsFilled
<1>2. CASE k = "objects"
  <2>1. PICK a \in Address : n.heap = L!Stored(<<>>, a, [head |-> NULL, tail |-> NULL]) /\ n.list = a
    BY <1>2 DEF L!New
  <2>2. n.heap = Headless(a)
    BY <2>1 DEF L!Stored, Headless
  <2> QED
    BY <1>2, <2>1, <2>2, FromHeadless DEF IsList, IsUnfilled
<1> QED
  BY <1>1, <1>2

(* What the Listing sees.                                                  *)
LEMMA ListIs ==
  ASSUME L!ListsAssumption
  PROVE  /\ \A c : IsFilled(listkind, cells, list, following, c) =>
              /\ L!From(list) = Heads(cells, c) /\ (following = NULL => L!From(following) = <<>>)
              /\ \A j \in 1 .. Len(c) : following = c[j] => L!From(following) = From(Heads(cells, c), j)
         /\ IsUnfilled(listkind, cells, list, following) =>
              L!From(list) = <<>> /\ L!From(following) = <<>>
<1>1. ASSUME NEW c, IsFilled(listkind, cells, list, following, c)
      PROVE  /\ L!From(list) = Heads(cells, c) /\ (following = NULL => L!From(following) = <<>>)
             /\ \A j \in 1 .. Len(c) : following = c[j] => L!From(following) = From(Heads(cells, c), j)
  <2>1. Linked(Object, cells, list, c) /\ NULL \notin Object
    BY <1>1 DEF IsFilled, L!ListsAssumption
  <2>2. /\ FromIn(cells, NULL) = <<>> /\ FromIn(cells, list) = Heads(cells, c)
        /\ \A k \in 1 .. Len(c) : FromIn(cells, c[k]) = From(Heads(cells, c), k)
    BY <2>1, FromLinked
  <2> QED
    BY <2>2, SameChain
<1>2. ASSUME IsUnfilled(listkind, cells, list, following)
      PROVE  L!From(list) = <<>> /\ L!From(following) = <<>>
  BY <1>2, SameChain, FromHeadless DEF IsUnfilled
<1> QED
  BY <1>1, <1>2

(* The same, of the list that a step that ends the enumeration leaves.     *)
LEMMA NextListIs ==
  ASSUME L!ListsAssumption, NEW c, Linked(Object, cells', list', c), c # <<>>,
         listkind' = listkind, ListInv, following' = NULL
  PROVE  ListInv' /\ L!From(list)' = Heads(cells', c) /\ L!From(following)' = <<>>
<1>1. /\ FromIn(cells', NULL) = <<>> /\ FromIn(cells', list') = Heads(cells', c)
  BY FromLinked DEF L!ListsAssumption
<1>2. IsFilled(listkind', cells', list', following', c)
  BY DEF IsFilled
<1>3. ListInv'
  BY <1>2 DEF ListInv, IsList
<1> QED
  BY <1>1, <1>3, SameChain

(* An item comes first in the list.                                        *)
LEMMA StepInsert ==
  ASSUME L!ListsAssumption, ListInv, NEW i \in Object, L!Insert(i)
  PROVE  ListInv' /\ L!List!Insert(i)
<1>0. /\ listkind' = listkind /\ found' = found /\ following' = NULL
      /\ IF list = NULL
         THEN \E a \in Fresh(cells) :
                cells' = Stored(cells, a, [head |-> i, tail |-> NULL]) /\ list' = a
         ELSE /\ IF cells[list].head = NULL
                 THEN cells' = [cells EXCEPT ![list].head = i]
                 ELSE \E a \in Fresh(cells) :
                        cells' = [Stored(cells, a, cells[list]) EXCEPT
                                    ![list] = [head |-> i, tail |-> a]]
              /\ list' = list
  BY Zenon DEF L!Insert, L!Fresh, L!Stored, Fresh, Stored
<1> SUFFICES \E d : /\ Linked(Object, cells', list', d) /\ d # <<>>
                    /\ Heads(cells', d) = <<i>> \o L!From(list)
  BY <1>0, NextListIs DEF L!List!Insert
<1>1. CASE IsUnfilled(listkind, cells, list, following)
  <2>1. list \in Address /\ list # NULL /\ cells[list].head = NULL /\ cells = Headless(list)
    BY <1>1, CellsAssumption DEF IsUnfilled, Headless
  <2>2. list' = list /\ cells' = [b \in {list} |-> [head |-> i, tail |-> NULL]]
    BY <1>0, <2>1 DEF Headless
  <2>3. Linked(Object, cells', list', <<list>>)
    BY <2>1, <2>2 DEF Linked
  <2>4. Heads(cells', <<list>>) = <<i>>
    BY <2>2 DEF Heads
  <2>5. <<i>> \o <<>> = <<i>>
    OBVIOUS
  <2>6. L!From(list) = <<>>
    BY <1>1, ListIs
  <2> QED
    BY <2>3, <2>4, <2>5, <2>6
<1>2. ASSUME NEW c, IsFilled(listkind, cells, list, following, c)
      PROVE  \E d : /\ Linked(Object, cells', list', d) /\ d # <<>>
                    /\ Heads(cells', d) = <<i>> \o L!From(list)
  <2>1. Linked(Object, cells, list, c) /\ L!From(list) = Heads(cells, c)
    BY <1>2, ListIs DEF IsFilled
  <2>2. CASE c = <<>>
    <3>1. list = NULL
      BY <2>1, <2>2 DEF Linked
    <3>2. PICK a \in Fresh(cells) :
            cells' = Stored(cells, a, [head |-> i, tail |-> list]) /\ list' = a
      BY <1>0, <3>1
    <3> DEFINE d == <<a>> \o c
    <3>3. AddedAtFront(Object, cells, list, c, a, i, cells', d)
      BY <2>1, <3>2 DEF AddedAtFront
    <3>4. d # <<>>
      BY <2>2
    <3> HIDE DEF d
    <3>5. Linked(Object, cells', a, d) /\ Heads(cells', d) = <<i>> \o Heads(cells, c)
      BY <3>3, LinkAtFront, SMTT(30)
    <3> QED
      BY <2>1, <3>2, <3>4, <3>5
  <2>3. CASE c # <<>>
    <3>1. list # NULL /\ cells[list].head # NULL
      <4>1. 1 \in 1 .. Len(c) /\ list = c[1] /\ c[1] \in Address /\ cells[c[1]].head \in Object
        <5>1. 1 \in 1 .. Len(c) /\ list = c[1]
          BY <2>1, <2>3 DEF Linked
        <5> QED
          BY <2>1, <5>1 DEF Linked
      <4> QED
        BY <4>1, CellsAssumption DEF L!ListsAssumption
    <3>2. PICK a \in Fresh(cells) :
            cells' = Shifted(cells, list, a, i)
      BY <1>0, <3>1 DEF Shifted
    <3>3. list' = list
      BY <1>0, <3>1
    <3>4. \E d : Linked(Object, cells', list, d) /\ d # <<>>
                 /\ Heads(cells', d) = <<i>> \o Heads(cells, c)
      <4>1. PICK g : g = cells'
        OBVIOUS
      <4>2. \E d : Linked(Object, g, list, d) /\ d # <<>> /\ Heads(g, d) = <<i>> \o Heads(cells, c)
        BY <2>1, <2>3, <3>2, <4>1, InsertFirst
      <4> QED
        BY <4>1, <4>2
    <3> QED
      BY <2>1, <3>3, <3>4
  <2> QED
    BY <2>2, <2>3
<1> QED
  BY <1>1, <1>2 DEF ListInv, IsList

(* The cells in order, and the places of the items that are looked for.    *)
LEMMA PlacesAre ==
  ASSUME L!ListsAssumption, ListInv, NEW S \in SUBSET Object
  PROVE  /\ L!List!Places(S) = L!Places(S) /\ L!Places(S) \subseteq Nat
         /\ \A c : IsFilled(listkind, cells, list, following, c) =>
              L!Cell = c /\ L!Places(S) = {k \in 1 .. Len(c) : cells[c[k]].head \in S}
         /\ IsUnfilled(listkind, cells, list, following) => L!Places(S) = {}
<1> DEFINE tails == [a \in DOMAIN cells |-> cells[a].tail]
<1>1. L!Cell = Chain(tails, list)
  BY SameChain DEF L!Cell
<1>2. ASSUME NEW c, IsFilled(listkind, cells, list, following, c)
      PROVE  /\ L!Cell = c /\ L!Places(S) = {k \in 1 .. Len(c) : cells[c[k]].head \in S}
             /\ L!List!Places(S) = {k \in 1 .. Len(c) : cells[c[k]].head \in S}
             /\ Len(c) \in Nat
  <2>1. Linked(Object, cells, list, c) /\ L!From(list) = Heads(cells, c)
    BY <1>2, ListIs DEF IsFilled
  <2>2. /\ c \in Seq(Address) /\ Len(c) \in Nat
        /\ \A k \in 1 .. Len(c) : c[k] \in DOMAIN cells
        /\ Heads(cells, c) \in Seq(Object) /\ Len(Heads(cells, c)) = Len(c)
        /\ \A k \in 1 .. Len(c) : Heads(cells, c)[k] = cells[c[k]].head
    BY <2>1, LinkedFacts
  <2>3. /\ DOMAIN tails = DOMAIN cells /\ DOMAIN cells \subseteq Address
        /\ \A k \in 1 .. Len(c) : tails[c[k]] = IF k = Len(c) THEN NULL ELSE c[k + 1]
    <3>1. DOMAIN cells \subseteq Address
      BY <2>1 DEF Linked
    <3>2. \A k \in 1 .. Len(c) : cells[c[k]].tail = IF k = Len(c) THEN NULL ELSE c[k + 1]
      BY <2>1 DEF Linked
    <3>3. \A k \in 1 .. Len(c) : tails[c[k]] = cells[c[k]].tail
      BY <2>2
    <3> QED
      BY <3>1, <3>2, <3>3
  <2> HIDE DEF tails
  <2>4. IsChain(tails, list, c)
    <3>1. c \in Seq(DOMAIN tails)
      <4>1. c = [k \in 1 .. Len(c) |-> c[k]]
        BY <2>2
      <4> QED
        BY <2>2, <2>3, <4>1
    <3> QED
      BY <2>1, <2>3, <3>1 DEF IsChain, Linked
  <2>5. L!Cell = c
    BY <1>1, <2>3, <2>4, ChainFindsThem
  <2>6. DOMAIN c = 1 .. Len(c)
    BY <2>2
  <2>7. L!Places(S) = {k \in 1 .. Len(c) : cells[c[k]].head \in S}
    BY <2>5, <2>6 DEF L!Places
  <2>8. L!List!Places(S) = {k \in 1 .. Len(c) : cells[c[k]].head \in S}
    <3> DEFINE s == Heads(cells, c)
    <3>1. DOMAIN s = 1 .. Len(c) /\ \A k \in 1 .. Len(c) : s[k] = cells[c[k]].head
      BY <2>2 DEF Heads
    <3>2. L!List!Places(S) = {k \in DOMAIN s : s[k] \in S}
      BY <2>1 DEF L!List!Places
    <3> HIDE DEF s
    <3> QED
      BY <3>1, <3>2
  <2> QED
    BY <2>2, <2>5, <2>7, <2>8
<1>3. ASSUME IsUnfilled(listkind, cells, list, following)
      PROVE  L!Places(S) = {} /\ L!List!Places(S) = {}
  <2>1. list \in Address /\ cells = Headless(list)
    BY <1>3 DEF IsUnfilled
  <2>2. tails = [b \in {list} |-> NULL]
    BY <2>1 DEF Headless
  <2>3. L!Cell = <<list>>
    BY <1>1, <2>1, <2>2, FromHeadless
  <2>4. cells[list].head = NULL /\ NULL \notin S
    BY <2>1 DEF Headless, L!ListsAssumption
  <2>5. L!Places(S) = {}
    BY <2>3, <2>4 DEF L!Places
  <2>6. L!List!Places(S) = {}
    BY <1>3, ListIs DEF L!List!Places
  <2> QED
    BY <2>5, <2>6
<1> HIDE DEF tails
<1> QED
  BY <1>2, <1>3 DEF ListInv, IsList

(* The first item that passes is found.                                    *)
LEMMA StepFind ==
  ASSUME L!ListsAssumption, ListInv, NEW S \in SUBSET Object, L!Find(S)
  PROVE  ListInv' /\ L!List!Find(S)
<1>1. /\ UNCHANGED <<listkind, cells, list, following>>
      /\ found' = IF L!Places(S) = {} THEN NULL ELSE cells[L!Cell[L!Min(L!Places(S))]].head
  BY DEF L!Find
<1>2. ListInv'
  BY <1>1 DEF ListInv, IsList, IsFilled, IsUnfilled
<1>3. L!From(list)' = L!From(list) /\ L!From(following)' = L!From(following)
  BY <1>1, SameChain
<1>4. L!List!Places(S) = L!Places(S) /\ L!Places(S) \subseteq Nat
  BY PlacesAre
<1>5. CASE L!Places(S) = {}
  BY <1>1, <1>2, <1>3, <1>4, <1>5 DEF L!List!Find
<1>6. CASE L!Places(S) # {}
  <2>1. L!Min(L!Places(S)) \in L!Places(S) /\ L!List!Min(L!Places(S)) = L!Min(L!Places(S))
    BY <1>4, <1>6, SmallestPlace
  <2>2. PICK c : IsFilled(listkind, cells, list, following, c)
    BY <1>6, PlacesAre DEF ListInv, IsList
  <2>3. L!Cell = c /\ L!Places(S) \subseteq 1 .. Len(c)
    BY <2>2, PlacesAre
  <2>4. /\ L!From(list) = Heads(cells, c)
        /\ \A k \in 1 .. Len(c) : Heads(cells, c)[k] = cells[c[k]].head
    BY <2>2, ListIs, LinkedFacts DEF IsFilled
  <2>5. found' = L!From(list)[L!List!Min(L!List!Places(S))]
    <3> DEFINE k == L!Min(L!Places(S))
    <3>1. k \in 1 .. Len(c) /\ found' = cells[c[k]].head
      BY <1>1, <1>6, <2>1, <2>3
    <3>2. L!List!Min(L!List!Places(S)) = k
      BY <1>4, <2>1
    <3> HIDE DEF k
    <3> QED
      BY <2>4, <3>1, <3>2
  <2>6. L!List!Places(S) # {}
    BY <1>4, <1>6
  <2> QED
    BY <1>2, <1>3, <2>5, <2>6 DEF L!List!Find
<1> QED
  BY <1>5, <1>6

(* The first item that passes is taken out.                                *)
LEMMA StepRemove ==
  ASSUME L!ListsAssumption, ListInv, NEW S \in SUBSET Object, L!Remove(S)
  PROVE  ListInv' /\ L!List!Remove(S)
<1> DEFINE k == L!Min(L!Places(S))
<1>1. /\ listkind = "objects" /\ listkind' = listkind /\ list' = list /\ following' = NULL
      /\ IF L!Places(S) = {}
         THEN found' = NULL /\ cells' = cells
         ELSE /\ found' = cells[L!Cell[k]].head
              /\ cells' = IF k = 1 THEN L!Behead
                          ELSE L!Freed([cells EXCEPT ![L!Cell[k - 1]].tail =
                                                       cells[L!Cell[k]].tail], L!Cell[k])
  BY DEF L!Remove
<1>2. L!List!Places(S) = L!Places(S) /\ L!Places(S) \subseteq Nat
  BY PlacesAre
<1> HIDE DEF k
<1>3. CASE L!Places(S) = {}
  <2>1. ListInv'
    BY <1>1, <1>3 DEF ListInv, IsList, IsFilled, IsUnfilled
  <2>2. L!From(list)' = L!From(list)
    BY <1>1, <1>3, SameChain
  <2>3. L!From(following)' = <<>>
    <3>1. FromIn(cells, NULL) = <<>>
      BY FromLinked, FromHeadless DEF ListInv, IsList, IsFilled, IsUnfilled, L!ListsAssumption
    <3> QED
      BY <1>1, <1>3, <3>1, SameChain
  <2> QED
    BY <1>1, <1>2, <1>3, <2>1, <2>2, <2>3 DEF L!List!Remove
<1>4. CASE L!Places(S) # {}
  <2>1. k \in L!Places(S) /\ L!List!Min(L!Places(S)) = k
    BY <1>2, <1>4, SmallestPlace DEF k
  <2>2. PICK c : IsFilled(listkind, cells, list, following, c)
    BY <1>4, PlacesAre DEF ListInv, IsList
  <2> DEFINE s == Heads(cells, c)
  <2>3. L!Cell = c /\ k \in 1 .. Len(c)
    BY <2>1, <2>2, PlacesAre
  <2>4. /\ Linked(Object, cells, list, c) /\ c # <<>> /\ L!From(list) = s
        /\ Len(c) \in Nat /\ s \in Seq(Object) /\ Len(s) = Len(c) /\ s[k] = cells[c[k]].head
    <3>1. Linked(Object, cells, list, c) /\ c # <<>> /\ L!From(list) = s
      BY <1>1, <2>2, ListIs DEF IsFilled
    <3> QED
      BY <2>3, <3>1, LinkedFacts
  <2> HIDE DEF s
  <2>5. found' = s[k] /\ L!List!Seqs!RemoveAt(s, k) = Without(s, k)
    BY <1>1, <1>4, <2>3, <2>4, RemovedAt
  <2> SUFFICES ListInv' /\ L!From(list)' = Without(s, k) /\ L!From(following)' = <<>>
    BY <1>2, <1>4, <2>1, <2>4, <2>5 DEF L!List!Remove
  <2>6. CASE k = 1 /\ cells[list].tail = NULL
    <3>1. list = c[1] /\ list \in Address
      BY <2>3, <2>4, <2>6, LinkedFacts DEF Linked
    <3>2. Len(c) = 1
      BY <2>3, <2>4, <2>6, <3>1, CellsAssumption DEF Linked
    <3>3. cells' = [cells EXCEPT ![list].head = NULL]
      BY <1>1, <1>4, <2>6, Zenon DEF L!Behead
    <3>4. DOMAIN cells = {list} /\ cells[list] \in [head : Object, tail : Address \cup {NULL}]
      <4>1. 1 \in 1 .. Len(c) /\ \A j \in 1 .. Len(c) : j = 1
        BY <3>2
      <4> QED
        BY <2>4, <3>1, <4>1 DEF Linked
    <3>5. cells' = Headless(list)
      <4>1. cells' = [b \in {list} |-> [cells[list] EXCEPT !.head = NULL]]
        BY <3>3, <3>4
      <4>2. [cells[list] EXCEPT !.head = NULL] = [head |-> NULL, tail |-> NULL]
        BY <2>6, <3>4
      <4> QED
        BY <4>1, <4>2 DEF Headless
    <3>6. ListInv'
      BY <1>1, <3>1, <3>5 DEF ListInv, IsList, IsUnfilled
    <3>7. L!From(list)' = <<>> /\ L!From(following)' = <<>>
      BY <1>1, <3>1, <3>5, SameChain, FromHeadless
    <3>8. Without(s, k) = <<>>
      BY <2>4, <3>2 DEF Without
    <3> QED
      BY <3>6, <3>7, <3>8
  <2>7. CASE k = 1 /\ cells[list].tail # NULL
    <3>1. cells' = Beheaded(cells, list)
      BY <1>1, <1>4, <2>7, Zenon DEF L!Behead, L!Freed, Beheaded, Freed
    <3>2. PICK g : g = cells'
      OBVIOUS
    <3>3. PICK d : Linked(Object, g, list, d) /\ d # <<>> /\ Heads(g, d) = Tail(s)
      BY <2>4, <2>7, <3>1, <3>2, RemoveFirst DEF s
    <3>4. Without(s, k) = Tail(s)
      BY <2>3, <2>4, <2>7, RemovedAt
    <3> QED
      BY <1>1, <3>2, <3>3, <3>4, NextListIs
  <2>8. CASE k # 1
    <3>1. k \in 2 .. Len(c)
      BY <2>3, <2>4, <2>8
    <3>2. cells' = Bypassed(cells, c[k - 1], c[k])
      BY <1>1, <1>4, <2>3, <2>8, Zenon DEF L!Freed, Bypassed, Freed
    <3>3. PICK g : g = cells'
      OBVIOUS
    <3>4. PICK d : Linked(Object, g, list, d) /\ d # <<>> /\ Heads(g, d) = Without(s, k)
      BY <2>4, <3>1, <3>2, <3>3, RemoveLater DEF s
    <3> QED
      BY <1>1, <3>3, <3>4, NextListIs
  <2> QED
    BY <2>6, <2>7, <2>8
<1> QED
  BY <1>3, <1>4

(* An enumeration starts with the first item.                              *)
LEMMA StepEnumerate ==
  ASSUME L!ListsAssumption, ListInv, L!Enumerate
  PROVE  ListInv' /\ L!List!Enumerate
<1>1. /\ listkind = "objects" /\ UNCHANGED <<listkind, cells, list, found>> /\ following' = list
  BY DEF L!Enumerate
<1>2. ListInv'
  <2>1. CASE IsUnfilled(listkind, cells, list, following)
    BY <1>1, <2>1 DEF ListInv, IsList, IsUnfilled
  <2>2. ASSUME NEW c, IsFilled(listkind, cells, list, following, c) PROVE ListInv'
    <3>1. 1 \in 1 .. Len(c) /\ list = c[1]
      <4>1. Linked(Object, cells, list, c) /\ c # <<>>
        BY <1>1, <2>2 DEF IsFilled
      <4> QED
        BY <4>1 DEF Linked
    <3>2. IsFilled(listkind', cells', list', following', c)
      BY <1>1, <2>2, <3>1 DEF IsFilled
    <3> QED
      BY <1>1, <3>2 DEF ListInv, IsList
  <2> QED
    BY <2>1, <2>2 DEF ListInv, IsList
<1>3. L!From(list)' = L!From(list) /\ L!From(following)' = L!From(list)
  BY <1>1, SameChain
<1> QED
  BY <1>1, <1>2, <1>3 DEF L!List!Enumerate

(* The parts of a sequence, one after the other.                           *)
LEMMA FromFacts ==
  ASSUME NEW S, NEW s \in Seq(S), NEW k \in 1 .. Len(s)
  PROVE  /\ From(s, k) # <<>> /\ Head(From(s, k)) = s[k]
         /\ Tail(From(s, k)) = IF k = Len(s) THEN <<>> ELSE From(s, k + 1)
<1> DEFINE t == From(s, k)
<1>1. PICK n \in Nat \ {0} : n = Len(s) - k + 1
  OBVIOUS
<1>2. Len(s) \in Nat /\ k \in Nat /\ \A j \in 1 .. n : k + j - 1 \in 1 .. Len(s) /\ s[k + j - 1] \in S
  BY <1>1
<1>3. t = [j \in 1 .. n |-> s[k + j - 1]]
  BY <1>1 DEF From
<1> HIDE DEF t
<1>4. t \in Seq(S) /\ Len(t) = n /\ t # <<>> /\ \A j \in 1 .. n : t[j] = s[k + j - 1]
  <2>1. t \in Seq(S) /\ Len(t) = n
    BY <1>2, <1>3
  <2> QED
    BY <1>1, <1>3, <2>1
<1>5. Head(t) = s[k] /\ Tail(t) = [j \in 1 .. n - 1 |-> t[j + 1]]
  <2>1. Head(t) = t[1] /\ Tail(t) = [j \in 1 .. Len(t) - 1 |-> t[j + 1]]
    BY <1>4, TailFacts
  <2>2. 1 \in 1 .. n /\ k + 1 - 1 = k
    BY <1>1, <1>2
  <2>3. t[1] = s[k]
    BY <1>4, <2>2
  <2> QED
    BY <1>4, <2>1, <2>3
<1>6. \A j \in 1 .. n - 1 : t[j + 1] = s[(k + 1) + j - 1]
  <2> SUFFICES ASSUME NEW j \in 1 .. n - 1 PROVE t[j + 1] = s[(k + 1) + j - 1]
    OBVIOUS
  <2>1. j + 1 \in 1 .. n /\ k + (j + 1) - 1 = (k + 1) + j - 1
    BY <1>1, <1>2
  <2> QED
    BY <1>4, <2>1
<1>7. Tail(t) = [j \in 1 .. n - 1 |-> s[(k + 1) + j - 1]]
  BY <1>5, <1>6
<1>8. CASE k = Len(s)
  <2>1. n = 1
    BY <1>1, <1>2, <1>8
  <2> QED
    BY <1>4, <1>5, <1>7, <1>8, <2>1 DEF t
<1>9. CASE k # Len(s)
  <2>1. n - 1 = Len(s) - (k + 1) + 1
    BY <1>1, <1>2
  <2>2. Tail(t) = From(s, k + 1)
    BY <1>7, <2>1 DEF From
  <2> QED
    BY <1>4, <1>5, <1>9, <2>2 DEF t
<1> QED
  BY <1>8, <1>9

(* The enumeration gives the next item.                                    *)
LEMMA StepGive ==
  ASSUME L!ListsAssumption, ListInv, L!Give
  PROVE  ListInv' /\ L!List!Give
<1>1. /\ UNCHANGED <<listkind, cells, list>>
      /\ IF following = NULL \/ cells[following].head = NULL
         THEN found' = NULL /\ following' = following
         ELSE found' = cells[following].head /\ following' = cells[following].tail
  BY DEF L!Give
<1>2. L!From(list)' = L!From(list) /\ L!From(following)' = FromIn(cells, following')
      /\ L!From(following) = FromIn(cells, following)
  BY <1>1, SameChain
<1>3. CASE following = NULL \/ cells[following].head = NULL
  <2>1. ListInv'
    BY <1>1, <1>3 DEF ListInv, IsList, IsFilled, IsUnfilled
  <2>2. L!From(following) = <<>>
    <3>1. FromIn(cells, NULL) = <<>>
      BY FromLinked, FromHeadless DEF ListInv, IsList, IsFilled, IsUnfilled, L!ListsAssumption
    <3> QED
      BY <1>2, <1>3, <3>1 DEF FromIn
  <2> QED
    BY <1>1, <1>2, <1>3, <2>1, <2>2 DEF L!List!Give
<1>4. CASE ~ (following = NULL \/ cells[following].head = NULL)
  <2>1. found' = cells[following].head /\ following' = cells[following].tail
    BY <1>1, <1>4
  <2>2. ~ IsUnfilled(listkind, cells, list, following)
    BY <1>4 DEF IsUnfilled, Headless
  <2>3. PICK c : IsFilled(listkind, cells, list, following, c)
    BY <2>2 DEF ListInv, IsList
  <2>4. PICK k \in 1 .. Len(c) : following = c[k]
    BY <1>4, <2>3 DEF IsFilled
  <2> DEFINE s == Heads(cells, c)
  <2>5. /\ Linked(Object, cells, list, c) /\ s \in Seq(Object) /\ Len(s) = Len(c) /\ Len(c) \in Nat
        /\ s[k] = cells[c[k]].head
    <3>1. Linked(Object, cells, list, c)
      BY <2>3 DEF IsFilled
    <3> QED
      BY <3>1, LinkedFacts
  <2>6. FromIn(cells, NULL) = <<>> /\ \A j \in 1 .. Len(c) : FromIn(cells, c[j]) = From(s, j)
    BY <2>5, FromLinked DEF L!ListsAssumption
  <2> HIDE DEF s
  <2>7. following' = IF k = Len(c) THEN NULL ELSE c[k + 1]
    BY <2>1, <2>4, <2>5 DEF Linked
  <2>8. k # Len(c) => k + 1 \in 1 .. Len(c)
    BY <2>5
  <2>9. ListInv'
    <3>1. IsFilled(listkind', cells', list', following', c)
      BY <1>1, <2>3, <2>7, <2>8 DEF IsFilled
    <3> QED
      BY <1>1, <3>1 DEF ListInv, IsList
  <2>10. From(s, k) # <<>> /\ Head(From(s, k)) = s[k]
         /\ Tail(From(s, k)) = IF k = Len(s) THEN <<>> ELSE From(s, k + 1)
    BY <2>5, FromFacts
  <2>11. L!From(following) = From(s, k)
    BY <1>2, <2>4, <2>6
  <2>12. L!From(following)' = Tail(From(s, k))
    BY <1>2, <2>5, <2>6, <2>7, <2>8, <2>10
  <2>13. found' = Head(L!From(following)) /\ L!From(following) # <<>>
    BY <2>1, <2>4, <2>5, <2>10, <2>11
  <2> QED
    BY <1>2, <2>9, <2>11, <2>12, <2>13 DEF L!List!Give
<1> QED
  BY <1>3, <1>4

(* The list is freed, and there is a new one.                              *)
LEMMA StepFree ==
  ASSUME L!ListsAssumption, ListInv, L!Free
  PROVE  ListInv' /\ L!List!Free
<1>1. PICK n \in L!New(listkind) : cells' = n.heap /\ list' = n.list
  BY DEF L!Free
<1>2. following' = NULL /\ found' = NULL /\ listkind' = listkind
  BY DEF L!Free
<1>3. IsList(listkind, n.heap, n.list, NULL)
      /\ FromIn(n.heap, n.list) = <<>> /\ FromIn(n.heap, NULL) = <<>>
  BY NewListIsEmpty DEF ListInv, IsList
<1>4. ListInv' /\ L!From(list)' = <<>> /\ L!From(following)' = <<>>
  BY <1>1, <1>2, <1>3, SameChain DEF ListInv
<1> QED
  BY <1>2, <1>4 DEF L!List!Free

(* ListsImplementListing: through the pointer the caller keeps, whatever   *)
(* is inserted, removed and found and whatever addresses malloc hands out  *)
(* again, the cells are a list, and an enumeration gives every item once.  *)
THEOREM ListsAreListings == L!Spec => ListsImplementListing
<1>0. L!ListsAssumption
  BY ContainersAssumption
<1>1. L!Init => ListInv /\ L!List!Init
  <2> SUFFICES ASSUME L!Init PROVE ListInv /\ L!List!Init
    OBVIOUS
  <2>1. PICK n \in L!New(listkind) : cells = n.heap /\ list = n.list
    BY DEF L!Init
  <2>2. following = NULL /\ found = NULL /\ listkind \in {"numbers", "objects"}
    BY DEF L!Init
  <2>3. IsList(listkind, n.heap, n.list, NULL)
        /\ FromIn(n.heap, n.list) = <<>> /\ FromIn(n.heap, NULL) = <<>>
    BY <1>0, <2>2, NewListIsEmpty
  <2>4. ListInv /\ L!From(list) = <<>> /\ L!From(following) = <<>>
    BY <2>1, <2>2, <2>3, SameChain DEF ListInv
  <2> QED
    BY <2>2, <2>4 DEF L!List!Init
<1>2. ListInv /\ [L!Next]_(L!vars) => ListInv' /\ [L!List!Next]_(L!List!vars)
  <2> SUFFICES ASSUME ListInv, [L!Next]_(L!vars) PROVE ListInv' /\ [L!List!Next]_(L!List!vars)
    OBVIOUS
  <2>1. ASSUME NEW i \in Object, L!Insert(i) PROVE ListInv' /\ [L!List!Next]_(L!List!vars)
    BY <2>1, <1>0, StepInsert DEF L!List!Next
  <2>2. ASSUME NEW S \in SUBSET Object, L!Find(S) PROVE ListInv' /\ [L!List!Next]_(L!List!vars)
    BY <2>2, <1>0, StepFind DEF L!List!Next
  <2>3. ASSUME NEW S \in SUBSET Object, L!Remove(S) PROVE ListInv' /\ [L!List!Next]_(L!List!vars)
    BY <2>3, <1>0, StepRemove DEF L!List!Next
  <2>4. CASE L!Enumerate
    BY <2>4, <1>0, StepEnumerate DEF L!List!Next
  <2>5. CASE L!Give
    BY <2>5, <1>0, StepGive DEF L!List!Next
  <2>6. CASE L!Free
    BY <2>6, <1>0, StepFree DEF L!List!Next
  <2>7. CASE UNCHANGED L!vars
    <3>1. UNCHANGED <<listkind, cells, list, following, found>>
      BY <2>7 DEF L!vars
    <3>2. ListInv'
      BY <3>1 DEF ListInv, IsList, IsFilled, IsUnfilled
    <3>3. UNCHANGED L!List!vars
      BY <3>1, SameChain DEF L!List!vars
    <3> QED
      BY <3>2, <3>3
  <2> QED
    BY <2>1, <2>2, <2>3, <2>4, <2>5, <2>6, <2>7 DEF L!Next
<1> QED
  BY <1>1, <1>2, PTL DEF L!Spec, ListsImplementListing, L!ImplementsListing, L!List!Spec
-----------------------------------------------------------------------------
(* The hash tables, and the Dictionary that they implement.                *)

(* The numbers of a set, from the smallest on.                             *)
InOrder(e, P) ==
  /\ e \in Seq(Nat)
  /\ \A i, j \in 1 .. Len(e) : i < j => e[i] < e[j]
  /\ P = {e[i] : i \in 1 .. Len(e)}

Upto(e, j, m) == m \in 0 .. Len(e) /\ \A i \in 1 .. Len(e) : e[i] <= j <=> i <= m

(* How many of them are not above a number.                                *)
LEMMA UptoExists ==
  ASSUME NEW e, NEW P, InOrder(e, P), NEW j \in Nat
  PROVE  (\E m : Upto(e, j, m)) /\ \A m, n : Upto(e, j, m) /\ Upto(e, j, n) => m = n
<1> DEFINE above == {i \in 1 .. Len(e) : ~ (e[i] <= j)}
<1>1. Len(e) \in Nat /\ \A i \in 1 .. Len(e) : e[i] \in Nat
  BY DEF InOrder
<1>2. ASSUME above = {} PROVE \E m : Upto(e, j, m)
  <2>1. Upto(e, j, Len(e))
    BY <1>1, <1>2 DEF Upto
  <2> QED
    BY <2>1
<1>3. ASSUME above # {} PROVE \E m : Upto(e, j, m)
  <2>1. PICK x \in above : \A y \in above : x <= y
    <3>1. above \subseteq Nat
      BY <1>1
    <3> QED
      BY <1>3, <3>1, SmallestNumber
  <2>2. x \in 1 .. Len(e) /\ ~ (e[x] <= j)
    BY <2>1
  <2>3. ASSUME NEW i \in 1 .. Len(e) PROVE e[i] <= j <=> i <= x - 1
    <3>1. CASE i < x
      <4>1. i \notin above
        BY <1>1, <2>1, <2>2, <3>1
      <4> QED
        BY <1>1, <2>2, <3>1, <4>1
    <3>2. CASE i = x
      BY <1>1, <2>2, <3>2
    <3>3. CASE x < i
      <4>1. e[x] < e[i]
        BY <2>2, <3>3 DEF InOrder
      <4> QED
        BY <1>1, <2>2, <3>3, <4>1
    <3> QED
      BY <1>1, <2>2, <3>1, <3>2, <3>3
  <2>4. Upto(e, j, x - 1)
    BY <1>1, <2>2, <2>3 DEF Upto
  <2> QED
    BY <2>4
<1>4. ASSUME NEW m, NEW n, Upto(e, j, m), Upto(e, j, n) PROVE m = n
  <2>1. m \in 0 .. Len(e) /\ n \in 0 .. Len(e)
    BY <1>4 DEF Upto
  <2>2. m > 0 => m <= n
    BY <1>1, <1>4, <2>1 DEF Upto
  <2>3. n > 0 => n <= m
    BY <1>1, <1>4, <2>1 DEF Upto
  <2> QED
    BY <1>1, <2>1, <2>2, <2>3
<1> QED
  BY <1>2, <1>3, <1>4

(* The buckets of a chain that have a name, as the module finds them: they *)
(* are the ones at the places of the name, in order.                       *)
PlacesOf(h, s, n) == {j \in 1 .. Len(s) : Name[h[s[j]].key] = n}

Picked(s, e) == [i \in 1 .. Len(e) |-> s[e[i]]]

OwnIn(h, s, n) ==
  LET Own[j \in 0 .. Len(s)] ==
        IF j = 0 THEN <<>>
        ELSE IF Name[h[s[j]].key] = n THEN Append(Own[j - 1], s[j])
        ELSE Own[j - 1]
  IN  Own[Len(s)]

Owned(h, s, n, j, w) ==
  IF j = 0 THEN <<>>
  ELSE IF Name[h[s[j]].key] = n THEN Append(w[j - 1], s[j])
  ELSE w[j - 1]
IsOwn(h, s, n, w) == w = [j \in 0 .. Len(s) |-> Owned(h, s, n, j, w)]

LEMMA OwnFound ==
  ASSUME NEW S, NEW s \in Seq(S), NEW h, NEW n, NEW e, InOrder(e, PlacesOf(h, s, n))
  PROVE  OwnIn(h, s, n) = Picked(s, e) /\ Picked(s, e) \in Seq(S)
<1> DEFINE P == PlacesOf(h, s, n)
           Count(j) == CHOOSE m : Upto(e, j, m)
           Part(m) == [i \in 1 .. m |-> s[e[i]]]
           v == [j \in 0 .. Len(s) |-> Part(Count(j))]
<1>1. /\ Len(s) \in Nat /\ Len(e) \in Nat /\ \A i \in 1 .. Len(s) : s[i] \in S
      /\ \A i \in 1 .. Len(e) : e[i] \in 1 .. Len(s) /\ e[i] \in P
  <2>1. P \subseteq 1 .. Len(s)
    BY DEF PlacesOf
  <2>2. Len(s) \in Nat /\ Len(e) \in Nat /\ \A i \in 1 .. Len(s) : s[i] \in S
    BY DEF InOrder
  <2>3. P = {e[i] : i \in 1 .. Len(e)}
    BY DEF InOrder
  <2> HIDE DEF P
  <2> QED
    BY <2>1, <2>2, <2>3
<1>2. \A j \in Nat : Upto(e, j, Count(j)) /\ \A m : Upto(e, j, m) => m = Count(j)
  <2> SUFFICES ASSUME NEW j \in Nat
               PROVE  Upto(e, j, Count(j)) /\ \A m : Upto(e, j, m) => m = Count(j)
    OBVIOUS
  <2>1. (\E m : Upto(e, j, m)) /\ \A m, k : Upto(e, j, m) /\ Upto(e, j, k) => m = k
    BY UptoExists
  <2>2. Upto(e, j, Count(j))
    BY <2>1
  <2> HIDE DEF Count
  <2> QED
    BY <2>1, <2>2
<1> HIDE DEF Count
<1>3. \A m \in 0 .. Len(e) : Part(m) \in Seq(S) /\ Len(Part(m)) = m
  BY <1>1
<1>4. Count(0) = 0
  <2>1. Upto(e, 0, 0)
    BY <1>1 DEF Upto
  <2> QED
    BY <1>2, <2>1
<1>5. Count(Len(s)) = Len(e)
  <2>1. Upto(e, Len(s), Len(e))
    BY <1>1 DEF Upto
  <2> QED
    BY <1>1, <1>2, <2>1
<1>6. ASSUME NEW j \in 1 .. Len(s), j \in P
      PROVE  Part(Count(j)) = Append(Part(Count(j - 1)), s[j])
  <2>1. PICK x \in 1 .. Len(e) : j = e[x]
    BY <1>6 DEF InOrder
  <2>2. \A i \in 1 .. Len(e) : e[i] \in Nat /\ (i < x => e[i] < e[x]) /\ (x < i => e[x] < e[i])
    BY <2>1 DEF InOrder
  <2>3. Upto(e, j, x) /\ Upto(e, j - 1, x - 1)
    BY <1>1, <2>1, <2>2 DEF Upto
  <2>4. Count(j) = x /\ Count(j - 1) = x - 1
    BY <1>1, <1>2, <2>3
  <2> DEFINE t == Part(x - 1)
  <2>5. t \in Seq(S) /\ Len(t) = x - 1 /\ \A i \in 1 .. x - 1 : t[i] = s[e[i]]
    BY <1>1, <1>3, <2>1
  <2> HIDE DEF t
  <2>6. Append(t, s[j]) = [i \in 1 .. x |-> IF i = x THEN s[j] ELSE t[i]]
    <3> DEFINE u == Append(t, s[j])
    <3>1. /\ u \in Seq(S) /\ Len(u) = x
          /\ \A i \in 1 .. x : u[i] = IF i = x THEN s[j] ELSE t[i]
      BY <1>1, <2>1, <2>5
    <3>2. u = [i \in 1 .. Len(u) |-> u[i]]
      BY <3>1, SequenceIs
    <3> HIDE DEF u
    <3> QED
      BY <3>1, <3>2 DEF u
  <2>7. \A i \in 1 .. x : (IF i = x THEN s[j] ELSE t[i]) = s[e[i]]
    BY <1>1, <2>1, <2>5
  <2>8. Append(t, s[j]) = Part(x)
    BY <2>6, <2>7
  <2> HIDE DEF Part
  <2> QED
    BY <2>4, <2>8 DEF t
<1>7. ASSUME NEW j \in 1 .. Len(s), j \notin P
      PROVE  Count(j) = Count(j - 1)
  <2>1. \A i \in 1 .. Len(e) : e[i] # j /\ e[i] \in Nat
    BY <1>1, <1>7
  <2>2. j - 1 \in Nat /\ Upto(e, j - 1, Count(j - 1))
    BY <1>1, <1>2
  <2>3. Upto(e, j, Count(j - 1))
    BY <1>1, <2>1, <2>2 DEF Upto
  <2> QED
    BY <1>1, <1>2, <2>3
<1>8. \A j \in 1 .. Len(s) : j \in P <=> Name[h[s[j]].key] = n
  BY DEF PlacesOf
<1> HIDE DEF P, Part
<1>9. IsOwn(h, s, n, v)
  <2>1. ASSUME NEW j \in 0 .. Len(s) PROVE v[j] = Owned(h, s, n, j, v)
    <3>1. CASE j = 0
      <4>1. v[j] = Part(0)
        BY <1>1, <1>4, <3>1
      <4>2. Part(0) = <<>>
        BY <1>1, <1>3
      <4> QED
        BY <3>1, <4>1, <4>2 DEF Owned
    <3>2. CASE j # 0
      <4>1. j \in 1 .. Len(s) /\ v[j] = Part(Count(j)) /\ v[j - 1] = Part(Count(j - 1))
        BY <1>1, <3>2
      <4> HIDE DEF v
      <4> QED
        BY <1>6, <1>7, <1>8, <3>2, <4>1 DEF Owned
    <3> QED
      BY <3>1, <3>2
  <2>2. v = [j \in 0 .. Len(s) |-> v[j]]
    OBVIOUS
  <2> HIDE DEF v
  <2> QED
    BY <2>1, <2>2 DEF IsOwn
<1>10. \A w : IsOwn(h, s, n, w) => w = v
  <2> SUFFICES ASSUME NEW w, IsOwn(h, s, n, w) PROVE w = v
    OBVIOUS
  <2> HIDE DEF v
  <2> DEFINE wrong == {j \in 0 .. Len(s) : w[j] # v[j]}
  <2>1. wrong = {}
    <3> SUFFICES ASSUME wrong # {} PROVE FALSE
      OBVIOUS
    <3>1. PICK j \in wrong : \A y \in wrong : j <= y
      <4>1. wrong \subseteq Nat
        BY <1>1
      <4> QED
        BY <4>1, SmallestNumber
    <3>2. j \in 0 .. Len(s) /\ w[j] # v[j]
      BY <3>1
    <3>3. w[j] = Owned(h, s, n, j, w) /\ v[j] = Owned(h, s, n, j, v)
      BY <1>9, <3>2 DEF IsOwn
    <3>4. j # 0 => w[j - 1] = v[j - 1]
      BY <1>1, <3>1, <3>2
    <3> QED
      BY <3>2, <3>3, <3>4 DEF Owned
  <2>2. w = [j \in 0 .. Len(s) |-> w[j]] /\ v = [j \in 0 .. Len(s) |-> v[j]]
    BY <1>9 DEF IsOwn
  <2> QED
    BY <2>1, <2>2
<1> DEFINE own == CHOOSE w : IsOwn(h, s, n, w)
<1>11. own = v
  <2> HIDE DEF v
  <2>1. IsOwn(h, s, n, own)
    BY <1>9
  <2> HIDE DEF own
  <2> QED
    BY <1>10, <2>1
<1>12. OwnIn(h, s, n) = own[Len(s)]
  BY DEF OwnIn, IsOwn, Owned
<1>13. v[Len(s)] = Part(Len(e))
  BY <1>1, <1>5
<1>14. Part(Len(e)) = Picked(s, e) /\ Part(Len(e)) \in Seq(S)
  BY <1>1, <1>3 DEF Part, Picked
<1> HIDE DEF v, own
<1> QED
  BY <1>11, <1>12, <1>13, <1>14

(* The invariant of HashTables: at every place of the array a chain of     *)
(* buckets whose keys belong there, no bucket in two; e gives the places   *)
(* of every name in its chain; and an enumeration is at one of the buckets *)
(* or over.                                                                *)
Links(h) == [a \in DOMAIN h |-> h[a].next]
At(n) == Hash[n] % Size

InChain(h, s, l) ==
  \A i \in 1 .. Len(s) :
    /\ h[s[i]] \in [key : Key, data : Datum, next : Address \cup {NULL}]
    /\ At(Name[h[s[i]].key]) = l

Chained(h, d, c) ==
  /\ DOMAIN h \subseteq Address
  /\ d \in [T!Locations -> Address \cup {NULL}]
  /\ c \in [T!Locations -> Seq(Address)]
  /\ \A l \in T!Locations : IsChain(Links(h), d[l], c[l]) /\ InChain(h, c[l], l)
  /\ \A l, m \in T!Locations : \A i \in 1 .. Len(c[l]), j \in 1 .. Len(c[m]) :
       c[l][i] = c[m][j] => l = m

NamesOrdered(h, c, e) ==
  /\ e \in [T!Names -> Seq(Nat)]
  /\ \A n \in T!Names : InOrder(e[n], PlacesOf(h, c[At(n)], n))

Walking(c, i, b) ==
  \/ i = -1 /\ b = NULL
  \/ i \in T!Locations /\ \E j \in 1 .. Len(c[i]) : b = c[i][j]

IsTable(h, d, i, b, c, e) == Chained(h, d, c) /\ NamesOrdered(h, c, e) /\ Walking(c, i, b)

TableInv == \E c, e : IsTable(buckets, table, location, bucket, c, e)

(* What the Dictionary sees: the pairs of every name, and the places of    *)
(* those in a set.                                                         *)
PairIn(h, a) == <<h[a].key, h[a].data>>
PairsIn(h, s, e) == [i \in 1 .. Len(e) |-> PairIn(h, s[e[i]])]
PairsBy(h, c, e) == [n \in T!Names |-> PairsIn(h, c[At(n)], e[n])]

PlacesIn(c, e, X) ==
  {p \in T!Names \X Nat : p[2] \in 1 .. Len(e[p[1]]) /\ c[At(p[1])][e[p[1]][p[2]]] \in X}

(* The buckets that an enumeration has still to give.                      *)
Rest(c, i, b) ==
  {a \in Address :
     /\ b # NULL
     /\ \/ \E l \in T!Locations : l > i /\ \E j \in 1 .. Len(c[l]) : a = c[l][j]
        \/ i \in T!Locations /\ \E j, k \in 1 .. Len(c[i]) : b = c[i][k] /\ k <= j /\ a = c[i][j]}

LEMMA LocationFacts ==
  ASSUME T!HashTablesAssumption
  PROVE  /\ \A n \in T!Names : At(n) \in T!Locations
         /\ \A k \in Key : Name[k] \in T!Names /\ T!Location(k) = At(Name[k])
         /\ \A l \in T!Locations : l \in Nat
  BY DEF T!HashTablesAssumption, T!Names, T!Locations, T!Location, At

(* The same, read from a heap and an array as HashTables does.             *)
BucketsIn(h, d, n) == OwnIn(h, Chain(Links(h), d[At(n)]), n)
Seen(h, d, n) == LET own == BucketsIn(h, d, n) IN [j \in DOMAIN own |-> PairIn(h, own[j])]
Given(s) == {s[j] : j \in DOMAIN s}
LaterIn(d, i) == {l \in T!Locations : l > i /\ d[l] # NULL}
LeftIn(h, d, i, b) ==
  IF b = NULL THEN {}
  ELSE Given(Chain(Links(h), b)) \cup UNION {Given(Chain(Links(h), d[l])) : l \in LaterIn(d, i)}
LeftFor(h, d, i, b, n) ==
  LET own == BucketsIn(h, d, n)
      left == LeftIn(h, d, i, b)
  IN  {<<n, j>> : j \in {k \in DOMAIN own : own[k] \in left}}
SeenLeft(h, d, i, b) == UNION {LeftFor(h, d, i, b, n) : n \in T!Names}

LEMMA SameTable ==
  /\ \A b : T!Buckets(b) = Chain(Links(buckets), b)
  /\ \A a : T!Pair(a) = PairIn(buckets, a)
  /\ \A n : T!PairsOf(n) = Seen(buckets, table, n)
  /\ UNION {T!LeftOf(n) : n \in T!Names} = SeenLeft(buckets, table, location, bucket)
  /\ \A n : T!PairsOf(n)' = Seen(buckets', table', n)
  /\ (UNION {T!LeftOf(n) : n \in T!Names})' = SeenLeft(buckets', table', location', bucket')
<1>1. \A S : T!Cardinality(S) = Cardinality(S)
  BY DEF T!Cardinality, Cardinality
<1>2. \A next, a : T!Chain(next, a) = Chain(next, a)
  BY <1>1, Zenon DEF T!Chain, Chain
<1>3. \A b : T!Buckets(b) = Chain(Links(buckets), b)
  BY <1>2, Zenon DEF T!Buckets, Links
<1>4. \A b : T!Buckets(b)' = Chain(Links(buckets'), b)
  BY <1>2, Zenon DEF T!Buckets, Links
<1>5. \A s : T!Seqs!ToSet(s) = Given(s)
  BY DEF T!Seqs!ToSet, Given
<1>6. \A i : T!Later(i) = LaterIn(table, i) /\ T!Later(i)' = LaterIn(table', i)
  BY DEF T!Later, LaterIn
<1>7. \A n : T!BucketsOf(n) = BucketsIn(buckets, table, n)
  BY <1>3, ZenonT(60) DEF T!BucketsOf, BucketsIn, OwnIn, At
<1>8. \A n : T!BucketsOf(n)' = BucketsIn(buckets', table', n)
  BY <1>4, ZenonT(120) DEF T!BucketsOf, BucketsIn, OwnIn, At
<1>9. T!Left = LeftIn(buckets, table, location, bucket)
  BY <1>3, <1>5, <1>6, Zenon DEF T!Left, LeftIn
<1>10. T!Left' = LeftIn(buckets', table', location', bucket')
  BY <1>4, <1>5, <1>6, Zenon DEF T!Left, LeftIn
<1>11. \A a : T!Pair(a) = PairIn(buckets, a) /\ T!Pair(a)' = PairIn(buckets', a)
  BY DEF T!Pair, PairIn
<1>12. \A n : T!PairsOf(n) = Seen(buckets, table, n)
  BY <1>7, <1>11, Zenon DEF T!PairsOf, Seen
<1>13. \A n : T!PairsOf(n)' = Seen(buckets', table', n)
  BY <1>8, <1>11, Zenon DEF T!PairsOf, Seen
<1>14. UNION {T!LeftOf(n) : n \in T!Names} = SeenLeft(buckets, table, location, bucket)
  <2>1. \A n : T!LeftOf(n) = LeftFor(buckets, table, location, bucket, n)
    BY <1>7, <1>9, Zenon DEF T!LeftOf, LeftFor
  <2> QED
    BY <2>1, Zenon DEF SeenLeft
<1>15. (UNION {T!LeftOf(n) : n \in T!Names})' = SeenLeft(buckets', table', location', bucket')
  <2>1. \A n : T!LeftOf(n)' = LeftFor(buckets', table', location', bucket', n)
    BY <1>8, <1>10, Zenon DEF T!LeftOf, LeftFor
  <2> QED
    BY <2>1, Zenon DEF SeenLeft
<1> QED
  BY <1>3, <1>11, <1>12, <1>13, <1>14, <1>15

(* The parts of it are read as they are.                                   *)
LEMMA TableIs ==
  ASSUME T!HashTablesAssumption, NEW h, NEW d, NEW i, NEW b, NEW c, NEW e, IsTable(h, d, i, b, c, e)
  PROVE  /\ \A l \in T!Locations : Chain(Links(h), d[l]) = c[l] /\ (d[l] = NULL <=> c[l] = <<>>)
         /\ [n \in T!Names |-> Seen(h, d, n)] = PairsBy(h, c, e)
         /\ SeenLeft(h, d, i, b) = PlacesIn(c, e, Rest(c, i, b))
<1>0. Chained(h, d, c) /\ NamesOrdered(h, c, e) /\ Walking(c, i, b)
  BY DEF IsTable
<1>1. ASSUME NEW l \in T!Locations
      PROVE  /\ Chain(Links(h), d[l]) = c[l] /\ (d[l] = NULL <=> c[l] = <<>>)
             /\ c[l] \in Seq(Address) /\ Len(c[l]) \in Nat /\ (c[l] = <<>> <=> Len(c[l]) = 0)
             /\ DOMAIN c[l] = 1 .. Len(c[l]) /\ \A j \in 1 .. Len(c[l]) : c[l][j] \in Address
  <2>1. IsChain(Links(h), d[l], c[l]) /\ c[l] \in Seq(Address) /\ DOMAIN Links(h) \subseteq Address
    BY <1>0 DEF Chained, Links
  <2>2. Chain(Links(h), d[l]) = c[l]
    BY <2>1, ChainFindsThem
  <2> DEFINE s == c[l]
  <2>3. s \in Seq(Address) /\ d[l] = IF s = <<>> THEN NULL ELSE s[1]
    BY <2>1 DEF IsChain
  <2> HIDE DEF s
  <2>4. /\ Len(s) \in Nat /\ (s = <<>> <=> Len(s) = 0) /\ DOMAIN s = 1 .. Len(s)
        /\ \A j \in 1 .. Len(s) : s[j] \in Address
    BY <2>3
  <2>5. d[l] = NULL <=> s = <<>>
    BY <2>3, <2>4, CellsAssumption
  <2> QED
    BY <2>2, <2>3, <2>4, <2>5 DEF s
<1>2. ASSUME NEW n \in T!Names
      PROVE  /\ BucketsIn(h, d, n) = Picked(c[At(n)], e[n])
             /\ DOMAIN Picked(c[At(n)], e[n]) = 1 .. Len(e[n]) /\ Len(e[n]) \in Nat
             /\ \A j \in 1 .. Len(e[n]) : Picked(c[At(n)], e[n])[j] = c[At(n)][e[n][j]]
  <2>1. At(n) \in T!Locations
    BY LocationFacts
  <2>2. BucketsIn(h, d, n) = OwnIn(h, c[At(n)], n)
    BY <1>1, <2>1 DEF BucketsIn
  <2>3. InOrder(e[n], PlacesOf(h, c[At(n)], n)) /\ c[At(n)] \in Seq(Address)
    BY <1>0, <1>1, <2>1 DEF NamesOrdered
  <2>4. OwnIn(h, c[At(n)], n) = Picked(c[At(n)], e[n])
    BY <2>3, OwnFound
  <2>5. Len(e[n]) \in Nat
    BY <2>3 DEF InOrder
  <2> QED
    BY <2>2, <2>4, <2>5 DEF Picked
<1>3. [n \in T!Names |-> Seen(h, d, n)] = PairsBy(h, c, e)
  <2>1. ASSUME NEW n \in T!Names PROVE Seen(h, d, n) = PairsIn(h, c[At(n)], e[n])
    <3> DEFINE own == Picked(c[At(n)], e[n])
    <3>1. Seen(h, d, n) = [j \in DOMAIN own |-> PairIn(h, own[j])]
      BY <1>2, Zenon DEF Seen
    <3>2. DOMAIN own = 1 .. Len(e[n]) /\ \A j \in 1 .. Len(e[n]) : own[j] = c[At(n)][e[n][j]]
      BY <1>2
    <3> HIDE DEF own
    <3> QED
      BY <3>1, <3>2 DEF PairsIn
  <2> QED
    BY <2>1, Zenon DEF PairsBy
<1>4. LeftIn(h, d, i, b) = Rest(c, i, b)
  <2>1. CASE b = NULL
    BY <2>1 DEF LeftIn, Rest
  <2>2. CASE b # NULL
    <3>1. PICK j \in 1 .. Len(c[i]) : i \in T!Locations /\ b = c[i][j]
      BY <1>0, <2>2 DEF Walking
    <3> DEFINE s == c[i]
               t == From(s, j)
    <3>2. s \in Seq(Address) /\ Len(s) \in Nat /\ \A k \in 1 .. Len(s) : s[k] \in Address
      BY <1>1, <3>1
    <3>3. /\ Chain(Links(h), s[j]) = t /\ DOMAIN t = 1 .. Len(s) - j + 1
          /\ \A k \in 1 .. Len(s) - j + 1 : j + k - 1 \in 1 .. Len(s) /\ t[k] = s[j + k - 1]
          /\ \A k, m \in 1 .. Len(s) : s[k] = s[m] => k = m
      <4>1. IsChain(Links(h), d[i], s) /\ DOMAIN Links(h) \subseteq Address
        BY <1>0, <3>1 DEF Chained, Links
      <4>2. /\ Chain(Links(h), s[j]) = t /\ DOMAIN t = 1 .. Len(s) - j + 1
            /\ \A k \in 1 .. Len(s) - j + 1 : j + k - 1 \in 1 .. Len(s) /\ t[k] = s[j + k - 1]
        <5>1. PICK nx, q : nx = Links(h) /\ q = s
          OBVIOUS
        <5>2. IsChain(nx, d[i], q) /\ DOMAIN nx \subseteq Address /\ j \in 1 .. Len(q)
          BY <3>1, <4>1, <5>1
        <5>3. /\ Chain(nx, q[j]) = From(q, j) /\ DOMAIN From(q, j) = 1 .. Len(q) - j + 1
              /\ \A k \in 1 .. Len(q) - j + 1 : j + k - 1 \in 1 .. Len(q) /\ From(q, j)[k] = q[j + k - 1]
          BY <5>2, ChainFrom, SMTT(30)
        <5> QED
          BY <5>1, <5>3
      <4> QED
        BY <4>1, <4>2 DEF IsChain
    <3> HIDE DEF s, t
    <3>4. Given(t) = {s[k] : k \in j .. Len(s)}
      <4>1. ASSUME NEW k \in 1 .. Len(s) - j + 1 PROVE t[k] \in {s[m] : m \in j .. Len(s)}
        BY <3>1, <3>2, <3>3, SMTT(30) DEF s
      <4>2. ASSUME NEW m \in j .. Len(s) PROVE s[m] \in Given(t)
        <5>1. m - j + 1 \in 1 .. Len(s) - j + 1 /\ j + (m - j + 1) - 1 = m
          BY <3>1, <3>2 DEF s
        <5>2. t[m - j + 1] = s[m] /\ m - j + 1 \in DOMAIN t
          BY <3>3, <5>1
        <5> QED
          BY <5>2 DEF Given
      <4>3. \A x \in Given(t) : x \in {s[k] : k \in j .. Len(s)}
        <5>1. \A x \in Given(t) : \E k \in 1 .. Len(s) - j + 1 : x = t[k]
          BY <3>3 DEF Given
        <5> QED
          BY <4>1, <5>1
      <4>4. \A x \in {s[k] : k \in j .. Len(s)} : x \in Given(t)
        BY <4>2
      <4> QED
        BY <4>3, <4>4
    <3>5. UNION {Given(Chain(Links(h), d[l])) : l \in LaterIn(d, i)} =
            {a \in Address : \E l \in T!Locations : l > i /\ \E k \in 1 .. Len(c[l]) : a = c[l][k]}
      <4>1. \A l \in T!Locations : Given(Chain(Links(h), d[l])) = {c[l][k] : k \in 1 .. Len(c[l])}
        BY <1>1 DEF Given
      <4>2. \A l \in T!Locations : \A k \in 1 .. Len(c[l]) : d[l] # NULL /\ c[l][k] \in Address
        BY <1>1
      <4>3. ASSUME NEW a
            PROVE  (\E l \in LaterIn(d, i) : a \in Given(Chain(Links(h), d[l]))) <=>
                     a \in Address /\ \E l \in T!Locations : l > i /\ \E k \in 1 .. Len(c[l]) : a = c[l][k]
        <5>1. \A l : l \in LaterIn(d, i) <=> l \in T!Locations /\ l > i /\ d[l] # NULL
          BY DEF LaterIn
        <5>2. \A l \in T!Locations : a \in Given(Chain(Links(h), d[l])) <=> \E k \in 1 .. Len(c[l]) : a = c[l][k]
          BY <4>1
        <5> QED
          BY <4>2, <5>1, <5>2, ZenonT(60)
      <4> QED
        BY <4>3, ZenonT(60)
    <3>6. ASSUME NEW a \in Address
          PROVE  (\E m, k \in 1 .. Len(s) : b = s[k] /\ k <= m /\ a = s[m]) <=> a \in Given(t)
      <4>1. \A k \in 1 .. Len(s) : b = s[k] <=> k = j
        BY <3>1, <3>3 DEF s
      <4>2. \A m \in 1 .. Len(s) : j <= m <=> m \in j .. Len(s)
        BY <3>1, <3>2
      <4>3. j \in 1 .. Len(s) /\ j .. Len(s) \subseteq 1 .. Len(s)
        BY <3>1, <3>2 DEF s
      <4> QED
        BY <3>4, <4>1, <4>2, <4>3
    <3>7. Given(t) \subseteq Address
      <4>1. j .. Len(s) \subseteq 1 .. Len(s)
        BY <3>1, <3>2 DEF s
      <4> QED
        BY <3>2, <3>4, <4>1
    <3>8. LeftIn(h, d, i, b) = Given(t) \cup
            {a \in Address : \E l \in T!Locations : l > i /\ \E k \in 1 .. Len(c[l]) : a = c[l][k]}
      BY <2>2, <3>1, <3>3, <3>5 DEF LeftIn, s
    <3>9. \A a \in Address : a \in Rest(c, i, b) <=>
            \/ \E l \in T!Locations : l > i /\ \E k \in 1 .. Len(c[l]) : a = c[l][k]
            \/ a \in Given(t)
      BY <2>2, <3>1, <3>6 DEF Rest, s
    <3>10. Rest(c, i, b) \subseteq Address
      BY DEF Rest
    <3> QED
      BY <3>7, <3>8, <3>9, <3>10
  <2> QED
    BY <2>1, <2>2
<1>5. SeenLeft(h, d, i, b) = PlacesIn(c, e, Rest(c, i, b))
  <2> DEFINE X == LeftIn(h, d, i, b)
  <2>1. ASSUME NEW n \in T!Names
        PROVE  LeftFor(h, d, i, b, n) = {<<n, j>> : j \in {k \in 1 .. Len(e[n]) : c[At(n)][e[n][k]] \in X}}
    <3> DEFINE own == Picked(c[At(n)], e[n])
    <3>1. LeftFor(h, d, i, b, n) = {<<n, j>> : j \in {k \in DOMAIN own : own[k] \in X}}
      BY <1>2, Zenon DEF LeftFor
    <3>2. DOMAIN own = 1 .. Len(e[n]) /\ \A j \in 1 .. Len(e[n]) : own[j] = c[At(n)][e[n][j]]
      BY <1>2
    <3> HIDE DEF own, X
    <3>3. {k \in DOMAIN own : own[k] \in X} = {k \in 1 .. Len(e[n]) : c[At(n)][e[n][k]] \in X}
      BY <3>2
    <3> QED
      BY <3>1, <3>3
  <2> HIDE DEF X
  <2>2. \A n \in T!Names : Len(e[n]) \in Nat
    BY <1>2
  <2>3. \A p : p \in SeenLeft(h, d, i, b) <=>
          \E n \in T!Names : \E j \in 1 .. Len(e[n]) : p = <<n, j>> /\ c[At(n)][e[n][j]] \in X
    BY <2>1 DEF SeenLeft
  <2>4. \A p : p \in PlacesIn(c, e, X) <=>
          \E n \in T!Names : \E j \in 1 .. Len(e[n]) : p = <<n, j>> /\ c[At(n)][e[n][j]] \in X
    BY <2>2 DEF PlacesIn
  <2>5. SeenLeft(h, d, i, b) = PlacesIn(c, e, X)
    BY <2>3, <2>4
  <2> QED
    BY <1>4, <2>5 DEF X
<1> QED
  BY <1>1, <1>3, <1>5

(* A chain whose buckets are as they were is still there.                  *)
LEMMA ChainKept ==
  ASSUME NEW h, NEW g, NEW a, NEW s, IsChain(Links(h), a, s),
         \A k \in 1 .. Len(s) : s[k] \in DOMAIN g /\ g[s[k]] = h[s[k]]
  PROVE  IsChain(Links(g), a, s)
<1>1. Len(s) \in Nat /\ s \in Seq(DOMAIN Links(h)) /\ \A k \in 1 .. Len(s) : s[k] \in DOMAIN h
  BY DEF IsChain, Links
<1>2. s \in Seq(DOMAIN Links(g))
  <2>1. DOMAIN Links(g) = DOMAIN g
    BY DEF Links
  <2>2. s = [k \in 1 .. Len(s) |-> s[k]]
    BY <1>1, SequenceIs
  <2> QED
    BY <1>1, <2>1, <2>2
<1>3. \A k \in 1 .. Len(s) : Links(g)[s[k]] = Links(h)[s[k]]
  BY <1>1 DEF Links
<1> QED
  BY <1>2, <1>3 DEF IsChain

(* A sequence with one more item, first.                                   *)
LEMMA OneFirst ==
  ASSUME NEW S, NEW s \in Seq(S), NEW a \in S
  PROVE  /\ <<a>> \o s \in Seq(S) /\ <<a>> \o s # <<>> /\ Len(<<a>> \o s) = Len(s) + 1
         /\ (<<a>> \o s)[1] = a /\ \A k \in 1 .. Len(s) : (<<a>> \o s)[k + 1] = s[k]
         /\ \A k \in 1 .. Len(s) + 1 : (<<a>> \o s)[k] = IF k = 1 THEN a ELSE s[k - 1]
         /\ <<a>> \o s = [k \in 1 .. Len(s) + 1 |-> IF k = 1 THEN a ELSE s[k - 1]]
<1> DEFINE d == <<a>> \o s
<1>0. Len(s) \in Nat
  OBVIOUS
<1>1. <<a>> \in Seq(S) /\ Len(<<a>>) = 1 /\ <<a>>[1] = a
  OBVIOUS
<1>2. d \in Seq(S) /\ Len(d) = Len(s) + 1
  BY <1>1
<1>3. \A k \in 1 .. Len(s) + 1 : d[k] = IF k <= 1 THEN <<a>>[k] ELSE s[k - 1]
  BY <1>1
<1> HIDE DEF d
<1>4. d = [k \in 1 .. Len(d) |-> d[k]] /\ d # <<>>
  BY <1>0, <1>2, SequenceIs
<1>5. \A k \in 1 .. Len(s) + 1 : d[k] = IF k = 1 THEN a ELSE s[k - 1]
  BY <1>0, <1>1, <1>3
<1>6. d[1] = a /\ \A k \in 1 .. Len(s) : d[k + 1] = s[k]
  BY <1>0, <1>5
<1>7. d = [k \in 1 .. Len(s) + 1 |-> IF k = 1 THEN a ELSE s[k - 1]]
  BY <1>2, <1>4, <1>5
<1> QED
  BY <1>2, <1>4, <1>5, <1>6, <1>7 DEF d

(* A bucket that points to the first one of its chain comes first.         *)
LEMMA ChainAtFront ==
  ASSUME NEW h, NEW a, NEW s, IsChain(Links(h), a, s), NEW b, b \notin DOMAIN h, NEW q, q.next = a
  PROVE  IsChain(Links(Stored(h, b, q)), b, <<b>> \o s)
<1> DEFINE g == Stored(h, b, q)
           d == <<b>> \o s
<1>1. /\ s \in Seq(DOMAIN h) /\ Len(s) \in Nat /\ \A k \in 1 .. Len(s) : s[k] \in DOMAIN h /\ s[k] # b
      /\ s = [k \in 1 .. Len(s) |-> s[k]]
  <2>1. s \in Seq(DOMAIN h)
    BY DEF IsChain, Links
  <2> QED
    BY <2>1
<1>2. DOMAIN Links(g) = DOMAIN h \cup {b} /\ Links(g)[b] = a /\ \A x \in DOMAIN h : Links(g)[x] = Links(h)[x]
  BY DEF Links, Stored
<1>3. s \in Seq(DOMAIN Links(g))
  <2>1. \A k \in 1 .. Len(s) : s[k] \in DOMAIN Links(g)
    BY <1>1, <1>2
  <2> HIDE DEF g
  <2> QED
    BY <1>1, <2>1
<1>4. /\ d \in Seq(DOMAIN Links(g)) /\ d # <<>> /\ Len(d) = Len(s) + 1 /\ d[1] = b
      /\ \A k \in 1 .. Len(s) : d[k + 1] = s[k]
  <2>1. b \in DOMAIN Links(g)
    BY <1>2
  <2> HIDE DEF g
  <2> QED
    BY <1>3, <2>1, OneFirst
<1> HIDE DEF g, d
<1>5. \A k \in 1 .. Len(d) : k = 1 \/ (k - 1 \in 1 .. Len(s) /\ (k - 1) + 1 = k)
  BY <1>1, <1>4
<1>6. \A k \in 1 .. Len(d) : k # 1 => k - 1 \in 1 .. Len(s) /\ d[k] = s[k - 1]
  <2> SUFFICES ASSUME NEW k \in 1 .. Len(d), k # 1 PROVE k - 1 \in 1 .. Len(s) /\ d[k] = s[k - 1]
    OBVIOUS
  <2>1. k - 1 \in 1 .. Len(s) /\ (k - 1) + 1 = k
    BY <1>5
  <2>2. d[(k - 1) + 1] = s[k - 1]
    BY <1>4, <2>1
  <2> QED
    BY <2>1, <2>2
<1>7. ASSUME NEW j \in 1 .. Len(d), NEW k \in 1 .. Len(d), d[j] = d[k] PROVE j = k
  <2>1. CASE j = 1 \/ k = 1
    BY <1>1, <1>4, <1>6, <1>7, <2>1
  <2>2. CASE j # 1 /\ k # 1
    <3>1. s[j - 1] = s[k - 1] /\ j - 1 \in 1 .. Len(s) /\ k - 1 \in 1 .. Len(s)
      BY <1>6, <1>7, <2>2
    <3>2. j - 1 = k - 1
      BY <3>1 DEF IsChain
    <3> QED
      BY <3>2
  <2> QED
    BY <2>1, <2>2
<1>8. ASSUME NEW k \in 1 .. Len(d) PROVE Links(g)[d[k]] = IF k = Len(d) THEN NULL ELSE d[k + 1]
  <2>1. CASE k = 1
    <3>1. a = IF s = <<>> THEN NULL ELSE s[1]
      BY DEF IsChain
    <3>2. s = <<>> <=> 1 = Len(d)
      BY <1>1, <1>4
    <3>3. s # <<>> => d[1 + 1] = s[1]
      BY <1>1, <1>4
    <3> QED
      BY <1>2, <1>4, <2>1, <3>1, <3>2, <3>3
  <2>2. CASE k # 1
    <3> DEFINE m == k - 1
    <3>1. m \in 1 .. Len(s) /\ d[k] = s[m] /\ m + 1 = k /\ (m = Len(s) <=> k = Len(d))
      BY <1>1, <1>4, <1>6, <2>2
    <3>2. m # Len(s) => d[k + 1] = s[m + 1]
      BY <1>1, <1>4, <3>1
    <3> HIDE DEF m
    <3>3. Links(h)[s[m]] = IF m = Len(s) THEN NULL ELSE s[m + 1]
      BY <3>1 DEF IsChain
    <3> QED
      BY <1>1, <1>2, <3>1, <3>2, <3>3
  <2> QED
    BY <2>1, <2>2
<1> QED
  BY <1>4, <1>7, <1>8 DEF IsChain, d, g

(* Places one further on; and, for the name that comes first, that place.  *)
Further(v) == [i \in 1 .. Len(v) |-> v[i] + 1]
FirstAnd(v) == [i \in 1 .. Len(v) + 1 |-> IF i = 1 THEN 1 ELSE v[i - 1] + 1]

LEMMA FurtherInOrder ==
  ASSUME NEW v, NEW P, InOrder(v, P)
  PROVE  /\ InOrder(Further(v), {j + 1 : j \in P})
         /\ P \subseteq Nat \ {0} => InOrder(FirstAnd(v), {1} \cup {j + 1 : j \in P})
<1>1. Len(v) \in Nat /\ (\A i \in 1 .. Len(v) : v[i] \in Nat) /\ P = {v[i] : i \in 1 .. Len(v)}
      /\ \A i, j \in 1 .. Len(v) : i < j => v[i] < v[j]
  BY DEF InOrder
<1>2. InOrder(Further(v), {j + 1 : j \in P})
  <2> DEFINE w == Further(v)
  <2>1. w \in Seq(Nat) /\ Len(w) = Len(v) /\ \A i \in 1 .. Len(v) : w[i] = v[i] + 1
    BY <1>1 DEF Further
  <2> HIDE DEF w
  <2>2. \A i, j \in 1 .. Len(w) : i < j => w[i] < w[j]
    BY <1>1, <2>1
  <2>3. {j + 1 : j \in P} = {w[i] : i \in 1 .. Len(w)}
    BY <1>1, <2>1
  <2> QED
    BY <2>1, <2>2, <2>3 DEF InOrder, w
<1>3. ASSUME P \subseteq Nat \ {0} PROVE InOrder(FirstAnd(v), {1} \cup {j + 1 : j \in P})
  <2> DEFINE w == FirstAnd(v)
  <2>0. \A i \in 1 .. Len(v) : v[i] >= 1
    BY <1>1, <1>3
  <2>1. \A i \in 1 .. Len(v) + 1 : i = 1 \/ (i - 1 \in 1 .. Len(v) /\ i > 1)
    BY <1>1
  <2>2. /\ w \in Seq(Nat) /\ Len(w) = Len(v) + 1
        /\ \A i \in 1 .. Len(v) + 1 : w[i] = IF i = 1 THEN 1 ELSE v[i - 1] + 1
    <3>1. \A i \in 1 .. Len(v) + 1 : (IF i = 1 THEN 1 ELSE v[i - 1] + 1) \in Nat
      BY <1>1, <2>1
    <3>2. PICK n \in Nat : n = Len(v) + 1
      BY <1>1
    <3> QED
      BY <3>1, <3>2 DEF FirstAnd
  <2> HIDE DEF w
  <2>3. ASSUME NEW i \in 1 .. Len(w), NEW j \in 1 .. Len(w), i < j PROVE w[i] < w[j]
    <3>1. j - 1 \in 1 .. Len(v) /\ w[j] = v[j - 1] + 1 /\ v[j - 1] >= 1 /\ v[j - 1] \in Nat
      BY <1>1, <2>0, <2>1, <2>2, <2>3
    <3>2. CASE i = 1
      BY <2>2, <2>3, <3>1, <3>2
    <3>3. CASE i # 1
      <4>1. i - 1 \in 1 .. Len(v) /\ w[i] = v[i - 1] + 1 /\ i - 1 < j - 1
        BY <1>1, <2>1, <2>2, <2>3, <3>3
      <4>2. v[i - 1] < v[j - 1] /\ v[i - 1] \in Nat
        BY <1>1, <3>1, <4>1
      <4> QED
        BY <3>1, <4>1, <4>2
    <3> QED
      BY <3>2, <3>3
  <2>4. {1} \cup {j + 1 : j \in P} = {w[i] : i \in 1 .. Len(w)}
    <3>1. \A i \in 1 .. Len(v) : w[i + 1] = v[i] + 1 /\ i + 1 \in 1 .. Len(w)
      BY <1>1, <2>2, SMTT(30)
    <3>2. w[1] = 1 /\ 1 \in 1 .. Len(w)
      BY <1>1, <2>2
    <3>3. \A i \in 1 .. Len(w) : w[i] \in {1} \cup {j + 1 : j \in P}
      BY <1>1, <2>1, <2>2
    <3> QED
      BY <1>1, <3>1, <3>2, <3>3
  <2> QED
    BY <2>2, <2>3, <2>4 DEF InOrder, w
<1> QED
  BY <1>2, <1>3

(* The buckets of chains are in use.                                       *)
LEMMA ChainedFacts ==
  ASSUME NEW h, NEW d, NEW c, Chained(h, d, c), NEW l \in T!Locations
  PROVE  /\ c[l] \in Seq(Address) /\ Len(c[l]) \in Nat /\ (c[l] = <<>> <=> Len(c[l]) = 0)
         /\ IsChain(Links(h), d[l], c[l])
         /\ \A j \in 1 .. Len(c[l]) :
              /\ c[l][j] \in DOMAIN h /\ c[l][j] \in Address /\ c[l][j] # NULL
              /\ h[c[l][j]] \in [key : Key, data : Datum, next : Address \cup {NULL}]
              /\ At(Name[h[c[l][j]].key]) = l
              /\ h[c[l][j]].next = IF j = Len(c[l]) THEN NULL ELSE c[l][j + 1]
         /\ \A j, k \in 1 .. Len(c[l]) : c[l][j] = c[l][k] => j = k
<1> DEFINE s == c[l]
<1>1. s \in Seq(Address) /\ IsChain(Links(h), d[l], s) /\ InChain(h, s, l) /\ DOMAIN h \subseteq Address
  BY DEF Chained
<1> HIDE DEF s
<1>2. /\ Len(s) \in Nat /\ (s = <<>> <=> Len(s) = 0)
      /\ \A j \in 1 .. Len(s) : s[j] \in DOMAIN Links(h) /\ s[j] \in Address
  <2>1. s \in Seq(DOMAIN Links(h))
    BY <1>1 DEF IsChain
  <2>2. \A j \in 1 .. Len(s) : s[j] \in DOMAIN Links(h)
    BY <2>1
  <2> QED
    BY <1>1, <2>2
<1>3. \A j \in 1 .. Len(s) : s[j] \in DOMAIN h /\ s[j] # NULL /\ Links(h)[s[j]] = h[s[j]].next
  BY <1>2, CellsAssumption DEF Links
<1>4. \A j \in 1 .. Len(s) : h[s[j]].next = IF j = Len(s) THEN NULL ELSE s[j + 1]
  BY <1>1, <1>3 DEF IsChain
<1>5. \A j, k \in 1 .. Len(s) : s[j] = s[k] => j = k
  BY <1>1 DEF IsChain
<1>6. \A j \in 1 .. Len(s) :
        /\ h[s[j]] \in [key : Key, data : Datum, next : Address \cup {NULL}]
        /\ At(Name[h[s[j]].key]) = l
  BY <1>1 DEF InChain
<1> QED
  BY <1>1, <1>2, <1>3, <1>4, <1>5, <1>6 DEF s

(* What an insertion makes of the table.                                   *)
NewBucket(h, d, a, k, x) == Stored(h, a, [key |-> k, data |-> x, next |-> d[At(Name[k])]])

ChainsWith(c, l, a) == [c EXCEPT ![l] = <<a>> \o c[l]]

PlacesWith(e, k) ==
  [n \in T!Names |-> IF At(n) # At(Name[k]) THEN e[n]
                     ELSE IF n = Name[k] THEN FirstAnd(e[n]) ELSE Further(e[n])]

Inserted(h, d, c, e, k, x, a, g, f) ==
  /\ Chained(h, d, c) /\ NamesOrdered(h, c, e)
  /\ k \in Key /\ x \in Datum /\ a \in Fresh(h)
  /\ g = NewBucket(h, d, a, k, x) /\ f = [d EXCEPT ![At(Name[k])] = a]

(* The old buckets are as they were, and the new one is none of them.      *)
OneMore(h, d, c, k, x, a, g, f) ==
  /\ At(Name[k]) \in T!Locations /\ Name[k] \in T!Names /\ a \in Address /\ a \notin DOMAIN h
  /\ DOMAIN g = DOMAIN h \cup {a} /\ g[a] = [key |-> k, data |-> x, next |-> d[At(Name[k])]]
  /\ \A b \in DOMAIN h : g[b] = h[b]
  /\ \A l \in T!Locations :
       /\ ChainsWith(c, At(Name[k]), a)[l] = IF l = At(Name[k]) THEN <<a>> \o c[l] ELSE c[l]
       /\ f[l] = IF l = At(Name[k]) THEN a ELSE d[l]

LEMMA InsertedFacts ==
  ASSUME T!HashTablesAssumption, NEW h, NEW d, NEW c, NEW e, NEW k, NEW x, NEW a, NEW g, NEW f,
         Inserted(h, d, c, e, k, x, a, g, f)
  PROVE  OneMore(h, d, c, k, x, a, g, f)
<1>1. At(Name[k]) \in T!Locations /\ Name[k] \in T!Names
  BY LocationFacts DEF Inserted
<1>2. a \in Address /\ a \notin DOMAIN h
  BY DEF Inserted, Fresh
<1>3. /\ DOMAIN g = DOMAIN h \cup {a} /\ g[a] = [key |-> k, data |-> x, next |-> d[At(Name[k])]]
      /\ \A b \in DOMAIN h : g[b] = h[b]
  BY <1>2 DEF Inserted, NewBucket, Stored
<1>4. DOMAIN c = T!Locations /\ DOMAIN d = T!Locations
  BY DEF Inserted, Chained
<1>5. f = [d EXCEPT ![At(Name[k])] = a]
  BY DEF Inserted
<1> QED
  BY <1>1, <1>2, <1>3, <1>4, <1>5 DEF ChainsWith, OneMore

LEMMA InsertedChained ==
  ASSUME T!HashTablesAssumption, NEW h, NEW d, NEW c, NEW e, NEW k, NEW x, NEW a, NEW g, NEW f,
         Inserted(h, d, c, e, k, x, a, g, f)
  PROVE  Chained(g, f, ChainsWith(c, At(Name[k]), a))
<1> DEFINE l == At(Name[k])
           c2 == ChainsWith(c, l, a)
<1>1. Chained(h, d, c) /\ k \in Key /\ x \in Datum /\ d \in [T!Locations -> Address \cup {NULL}]
      /\ c \in [T!Locations -> Seq(Address)] /\ DOMAIN h \subseteq Address
  BY DEF Inserted, Chained
<1>2. /\ l \in T!Locations /\ a \in Address /\ a \notin DOMAIN h
      /\ DOMAIN g = DOMAIN h \cup {a} /\ g[a] = [key |-> k, data |-> x, next |-> d[l]]
      /\ \A b \in DOMAIN h : g[b] = h[b]
      /\ \A m \in T!Locations : c2[m] = IF m = l THEN <<a>> \o c[m] ELSE c[m]
      /\ \A m \in T!Locations : f[m] = IF m = l THEN a ELSE d[m]
  <2>1. OneMore(h, d, c, k, x, a, g, f)
    BY InsertedFacts
  <2> QED
    BY <2>1 DEF OneMore
<1>3. DOMAIN c2 = T!Locations /\ DOMAIN f = T!Locations
      /\ f = [m \in T!Locations |-> f[m]] /\ c2 = [m \in T!Locations |-> c2[m]]
  BY <1>1 DEF Inserted, ChainsWith
<1>4. g = Stored(h, a, [key |-> k, data |-> x, next |-> d[l]])
  BY DEF Inserted, NewBucket
<1> HIDE DEF c2, l
<1>5. ASSUME NEW m \in T!Locations
      PROVE  /\ c2[m] \in Seq(Address) /\ Len(c2[m]) \in Nat
             /\ \A j \in 1 .. Len(c2[m]) : (m = l /\ c2[m][j] = a) \/ \E n \in 1 .. Len(c[m]) : c2[m][j] = c[m][n]
  <2>1. c[m] \in Seq(Address) /\ Len(c[m]) \in Nat
    BY <1>1, ChainedFacts
  <2>2. CASE m = l
    <3> DEFINE t == <<a>> \o c[m]
    <3>1. t \in Seq(Address) /\ Len(t) = Len(c[m]) + 1
          /\ \A j \in 1 .. Len(c[m]) + 1 : t[j] = IF j = 1 THEN a ELSE c[m][j - 1]
      BY <1>2, <2>1, OneFirst
    <3> HIDE DEF t
    <3>2. \A j \in 1 .. Len(t) : j = 1 \/ j - 1 \in 1 .. Len(c[m])
      BY <2>1, <3>1
    <3>3. c2[m] = t
      BY <1>2, <2>2 DEF t
    <3> QED
      BY <2>1, <2>2, <3>1, <3>2, <3>3
  <2>3. CASE m # l
    BY <1>2, <2>1, <2>3
  <2> QED
    BY <2>2, <2>3
<1>6. ASSUME NEW m \in T!Locations PROVE IsChain(Links(g), f[m], c2[m])
  <2>1. IsChain(Links(h), d[m], c[m]) /\ \A j \in 1 .. Len(c[m]) : c[m][j] \in DOMAIN h
    BY <1>1, ChainedFacts
  <2>2. CASE m = l
    <3> DEFINE q == [key |-> k, data |-> x, next |-> d[l]]
    <3>1. q.next = d[m]
      BY <2>2
    <3> HIDE DEF q
    <3>2. IsChain(Links(Stored(h, a, q)), a, <<a>> \o c[m])
      BY <1>2, <2>1, <3>1, ChainAtFront
    <3> QED
      BY <1>2, <1>4, <2>2, <3>2 DEF q
  <2>3. CASE m # l
    <3>1. \A j \in 1 .. Len(c[m]) : c[m][j] \in DOMAIN g /\ g[c[m][j]] = h[c[m][j]]
      BY <1>2, <2>1
    <3>2. IsChain(Links(g), d[m], c[m])
      BY <2>1, <3>1, ChainKept
    <3> QED
      BY <1>2, <2>3, <3>2
  <2> QED
    BY <2>2, <2>3
<1>7. ASSUME NEW m \in T!Locations PROVE InChain(g, c2[m], m)
  <2>1. g[a] \in [key : Key, data : Datum, next : Address \cup {NULL}] /\ At(Name[g[a].key]) = l
    BY <1>1, <1>2 DEF l
  <2>2. \A n \in 1 .. Len(c[m]) :
          /\ g[c[m][n]] \in [key : Key, data : Datum, next : Address \cup {NULL}]
          /\ At(Name[g[c[m][n]].key]) = m
    <3>1. \A n \in 1 .. Len(c[m]) :
            /\ c[m][n] \in DOMAIN h
            /\ h[c[m][n]] \in [key : Key, data : Datum, next : Address \cup {NULL}]
            /\ At(Name[h[c[m][n]].key]) = m
      BY <1>1, ChainedFacts
    <3> QED
      BY <1>2, <3>1
  <2>3. \A n \in 1 .. Len(c2[m]) :
          /\ g[c2[m][n]] \in [key : Key, data : Datum, next : Address \cup {NULL}]
          /\ At(Name[g[c2[m][n]].key]) = m
    <3> SUFFICES ASSUME NEW n \in 1 .. Len(c2[m])
                 PROVE  /\ g[c2[m][n]] \in [key : Key, data : Datum, next : Address \cup {NULL}]
                        /\ At(Name[g[c2[m][n]].key]) = m
      OBVIOUS
    <3> QED
      BY <1>5, <2>1, <2>2
  <2> QED
    BY <2>3 DEF InChain
<1>8. ASSUME NEW m \in T!Locations, NEW n \in T!Locations,
             NEW i \in 1 .. Len(c2[m]), NEW j \in 1 .. Len(c2[n]), c2[m][i] = c2[n][j]
      PROVE  m = n
  <2>1. \A p \in T!Locations : \A y \in 1 .. Len(c[p]) : c[p][y] \in DOMAIN h
    BY <1>1, ChainedFacts
  <2>2. \A p, q \in T!Locations : \A y \in 1 .. Len(c[p]), z \in 1 .. Len(c[q]) :
          c[p][y] = c[q][z] => p = q
    BY <1>1 DEF Chained
  <2>3. (m = l /\ c2[m][i] = a) \/ \E y \in 1 .. Len(c[m]) : c2[m][i] = c[m][y]
    BY <1>5
  <2>4. (n = l /\ c2[n][j] = a) \/ \E y \in 1 .. Len(c[n]) : c2[n][j] = c[n][y]
    BY <1>5
  <2> QED
    BY <1>2, <1>8, <2>1, <2>2, <2>3, <2>4
<1>9. f \in [T!Locations -> Address \cup {NULL}] /\ c2 \in [T!Locations -> Seq(Address)]
      /\ DOMAIN g \subseteq Address
  <2>1. \A m \in T!Locations : f[m] \in Address \cup {NULL} /\ c2[m] \in Seq(Address)
    BY <1>1, <1>2, <1>5
  <2> QED
    BY <1>1, <1>2, <1>3, <2>1
<1>10. Chained(g, f, c2)
  BY <1>6, <1>7, <1>8, <1>9 DEF Chained
<1> QED
  BY <1>10 DEF c2, l

(* The places and the pairs of a name, of a chain with one more bucket.    *)
GrownTo(h, s, a, g, n, v) ==
  /\ Name[g[a].key] # n =>
       /\ InOrder(Further(v), PlacesOf(g, <<a>> \o s, n))
       /\ PairsIn(g, <<a>> \o s, Further(v)) = PairsIn(h, s, v)
  /\ Name[g[a].key] = n =>
       /\ InOrder(FirstAnd(v), PlacesOf(g, <<a>> \o s, n))
       /\ PairsIn(g, <<a>> \o s, FirstAnd(v)) = <<PairIn(g, a)>> \o PairsIn(h, s, v)

LEMMA PlacesWithOne ==
  ASSUME NEW h, NEW g, NEW S, NEW s \in Seq(S), NEW a \in S, NEW n, NEW v,
         InOrder(v, PlacesOf(h, s, n)), \A j \in 1 .. Len(s) : g[s[j]] = h[s[j]]
  PROVE  GrownTo(h, s, a, g, n, v)
<1> DEFINE t == <<a>> \o s
           P == PlacesOf(h, s, n)
<1>1. Len(s) \in Nat /\ Len(t) = Len(s) + 1 /\ t[1] = a /\ \A j \in 1 .. Len(s) : t[j + 1] = s[j]
  BY OneFirst
<1>2. P \subseteq 1 .. Len(s) /\ P \subseteq Nat \ {0}
      /\ \A j \in 1 .. Len(s) : j \in P <=> Name[h[s[j]].key] = n
  BY DEF PlacesOf
<1>3. /\ Len(v) \in Nat /\ \A i \in 1 .. Len(v) : v[i] \in 1 .. Len(s)
  <2>1. Len(v) \in Nat /\ P = {v[i] : i \in 1 .. Len(v)}
    BY DEF InOrder
  <2> HIDE DEF P
  <2> QED
    BY <1>2, <2>1
<1> HIDE DEF t
<1>4. \A j \in 1 .. Len(t) : j = 1 \/ (j - 1 \in 1 .. Len(s) /\ (j - 1) + 1 = j)
  BY <1>1
<1>5. \A j : j \in PlacesOf(g, t, n) <=>
        (j = 1 /\ Name[g[a].key] = n) \/ \E i \in P : j = i + 1
  <2>1. ASSUME NEW j \in 1 .. Len(t) PROVE Name[g[t[j]].key] = n <=>
                      (j = 1 /\ Name[g[a].key] = n) \/ \E i \in P : j = i + 1
    <3>1. CASE j = 1
      BY <1>1, <1>2, <3>1
    <3>2. CASE j # 1
      <4> DEFINE i == j - 1
      <4>1. i \in 1 .. Len(s) /\ i + 1 = j /\ \A y \in P : j = y + 1 => y = i
        BY <1>2, <1>4, <3>2
      <4> HIDE DEF i
      <4>2. g[t[j]] = h[s[i]]
        BY <1>1, <4>1
      <4> QED
        BY <1>2, <3>2, <4>1, <4>2
    <3> QED
      BY <3>1, <3>2
  <2>2. 1 \in 1 .. Len(t) /\ \A i \in P : i + 1 \in 1 .. Len(t)
    BY <1>1, <1>2
  <2> HIDE DEF P
  <2> QED
    BY <2>1, <2>2 DEF PlacesOf
<1>6. ASSUME NEW i \in 1 .. Len(v) PROVE PairIn(g, t[v[i] + 1]) = PairIn(h, s[v[i]])
  <2>1. t[v[i] + 1] = s[v[i]] /\ g[s[v[i]]] = h[s[v[i]]]
    BY <1>1, <1>3
  <2> QED
    BY <2>1 DEF PairIn
<1>7. ASSUME Name[g[a].key] # n
      PROVE  InOrder(Further(v), PlacesOf(g, t, n)) /\ PairsIn(g, t, Further(v)) = PairsIn(h, s, v)
  <2>1. PlacesOf(g, t, n) = {j + 1 : j \in P}
    BY <1>5, <1>7
  <2>2. InOrder(Further(v), {j + 1 : j \in P})
    BY FurtherInOrder
  <2>3. Len(Further(v)) = Len(v) /\ \A i \in 1 .. Len(v) : Further(v)[i] = v[i] + 1
    BY <1>3 DEF Further
  <2>4. PairsIn(g, t, Further(v)) = [i \in 1 .. Len(v) |-> PairIn(g, t[v[i] + 1])]
    BY <2>3 DEF PairsIn
  <2> QED
    BY <1>6, <2>1, <2>2, <2>4 DEF PairsIn
<1>8. ASSUME Name[g[a].key] = n
      PROVE  InOrder(FirstAnd(v), PlacesOf(g, t, n)) /\ PairsIn(g, t, FirstAnd(v)) = <<PairIn(g, a)>> \o PairsIn(h, s, v)
  <2>1. PlacesOf(g, t, n) = {1} \cup {j + 1 : j \in P}
    BY <1>5, <1>8
  <2>2. InOrder(FirstAnd(v), {1} \cup {j + 1 : j \in P})
    BY <1>2, FurtherInOrder
  <2>3. \A i \in 1 .. Len(v) + 1 : i = 1 \/ i - 1 \in 1 .. Len(v)
    BY <1>3
  <2>4. /\ Len(FirstAnd(v)) = Len(v) + 1
        /\ \A i \in 1 .. Len(v) + 1 : FirstAnd(v)[i] = IF i = 1 THEN 1 ELSE v[i - 1] + 1
    BY <1>3 DEF FirstAnd
  <2> DEFINE p == PairsIn(h, s, v)
             R == {PairIn(g, a)} \cup {p[i] : i \in 1 .. Len(v)}
  <2>5. p = [i \in 1 .. Len(v) |-> PairIn(h, s[v[i]])]
    BY DEF PairsIn
  <2>6. p \in Seq(R) /\ Len(p) = Len(v) /\ PairIn(g, a) \in R
    BY <1>3, <2>5
  <2> HIDE DEF R
  <2>7. <<PairIn(g, a)>> \o p = [i \in 1 .. Len(v) + 1 |-> IF i = 1 THEN PairIn(g, a) ELSE p[i - 1]]
    BY <2>6, OneFirst
  <2>8. ASSUME NEW i \in 1 .. Len(v) + 1
        PROVE  PairIn(g, t[FirstAnd(v)[i]]) = IF i = 1 THEN PairIn(g, a) ELSE p[i - 1]
    <3>1. CASE i = 1
      BY <1>1, <2>4, <3>1
    <3>2. CASE i # 1
      <4>1. PICK k \in 1 .. Len(v) : k = i - 1
        BY <2>3, <3>2
      <4>2. FirstAnd(v)[i] = v[k] + 1 /\ p[k] = PairIn(h, s[v[k]])
        BY <2>4, <2>5, <3>2, <4>1
      <4>3. PairIn(g, t[v[k] + 1]) = PairIn(h, s[v[k]])
        BY <1>6, <4>1
      <4> QED
        BY <3>2, <4>1, <4>2, <4>3
    <3> QED
      BY <3>1, <3>2
  <2>9. PairsIn(g, t, FirstAnd(v)) = [i \in 1 .. Len(v) + 1 |-> PairIn(g, t[FirstAnd(v)[i]])]
    BY <2>4 DEF PairsIn
  <2> HIDE DEF p
  <2>10. PairsIn(g, t, FirstAnd(v)) = <<PairIn(g, a)>> \o p
    BY <2>7, <2>8, <2>9
  <2> QED
    BY <2>1, <2>2, <2>10 DEF p
<1> QED
  BY <1>7, <1>8 DEF t, GrownTo

(* The table with one more bucket is a table, and its pair comes first.    *)
IsWithPair(h, c, e, k, x, g, f) ==
  \E c2, e2 :
    /\ IsTable(g, f, -1, NULL, c2, e2)
    /\ PairsBy(g, c2, e2) = [PairsBy(h, c, e) EXCEPT ![Name[k]] = <<<<k, x>>>> \o @]

LEMMA TableInserted ==
  ASSUME T!HashTablesAssumption, NEW h, NEW d, NEW c, NEW e, NEW k, NEW x, NEW a, NEW g, NEW f,
         Inserted(h, d, c, e, k, x, a, g, f)
  PROVE  IsWithPair(h, c, e, k, x, g, f)
<1> DEFINE l == At(Name[k])
           c2 == ChainsWith(c, l, a)
           e2 == PlacesWith(e, k)
<1>1. Chained(h, d, c) /\ NamesOrdered(h, c, e) /\ e \in [T!Names -> Seq(Nat)]
  BY DEF Inserted, NamesOrdered
<1>2. /\ l \in T!Locations /\ Name[k] \in T!Names /\ a \in Address /\ a \notin DOMAIN h
      /\ g[a] = [key |-> k, data |-> x, next |-> d[l]]
      /\ \A b \in DOMAIN h : g[b] = h[b]
      /\ \A m \in T!Locations : c2[m] = IF m = l THEN <<a>> \o c[m] ELSE c[m]
  <2>1. OneMore(h, d, c, k, x, a, g, f)
    BY InsertedFacts
  <2> QED
    BY <2>1 DEF OneMore
<1>3. Chained(g, f, c2)
  BY InsertedChained
<1>4. \A n \in T!Names :
        e2[n] = IF At(n) # l THEN e[n] ELSE IF n = Name[k] THEN FirstAnd(e[n]) ELSE Further(e[n])
  BY DEF PlacesWith
<1>5. PairIn(g, a) = <<k, x>> /\ Name[g[a].key] = Name[k]
  BY <1>2 DEF PairIn
<1> HIDE DEF l, c2, e2
<1>6. ASSUME NEW n \in T!Names
      PROVE  /\ InOrder(e2[n], PlacesOf(g, c2[At(n)], n))
             /\ PairsIn(g, c2[At(n)], e2[n]) =
                  IF n = Name[k] THEN <<<<k, x>>>> \o PairsIn(h, c[At(n)], e[n]) ELSE PairsIn(h, c[At(n)], e[n])
  <2> DEFINE s == c[At(n)]
  <2>1. At(n) \in T!Locations
    BY LocationFacts
  <2>2. /\ s \in Seq(Address) /\ Len(s) \in Nat /\ \A j \in 1 .. Len(s) : s[j] \in DOMAIN h
    BY <1>1, <2>1, ChainedFacts
  <2>3. InOrder(e[n], PlacesOf(h, s, n))
    BY <1>1 DEF NamesOrdered
  <2> HIDE DEF s
  <2>4. \A j \in 1 .. Len(s) : g[s[j]] = h[s[j]]
    BY <1>2, <2>2
  <2>5. CASE At(n) # l
    <3>1. n # Name[k] /\ c2[At(n)] = s /\ e2[n] = e[n]
      BY <1>2, <1>4, <2>1, <2>5 DEF s, l
    <3>2. PlacesOf(g, s, n) = PlacesOf(h, s, n)
      BY <2>4 DEF PlacesOf
    <3>3. PairsIn(g, s, e[n]) = PairsIn(h, s, e[n])
      <4>1. \A i \in 1 .. Len(e[n]) : e[n][i] \in 1 .. Len(s)
        BY <2>3 DEF InOrder, PlacesOf
      <4> QED
        BY <2>4, <4>1 DEF PairsIn, PairIn
    <3> QED
      BY <2>3, <3>1, <3>2, <3>3 DEF s
  <2>6. CASE At(n) = l
    <3>1. c2[At(n)] = <<a>> \o s
      BY <1>2, <2>1, <2>6 DEF s
    <3>2. GrownTo(h, s, a, g, n, e[n])
      BY <1>2, <2>2, <2>3, <2>4, PlacesWithOne
    <3>3. CASE n = Name[k]
      <4>1. e2[n] = FirstAnd(e[n])
        BY <1>4, <2>6, <3>3
      <4> QED
        BY <1>5, <3>1, <3>2, <3>3, <4>1 DEF s, GrownTo
    <3>4. CASE n # Name[k]
      <4>1. e2[n] = Further(e[n])
        BY <1>4, <2>6, <3>4
      <4> QED
        BY <1>5, <3>1, <3>2, <3>4, <4>1 DEF s, GrownTo
    <3> QED
      BY <3>3, <3>4
  <2> QED
    BY <2>5, <2>6
<1>7. NamesOrdered(g, c2, e2)
  <2>1. \A n \in T!Names : e2[n] \in Seq(Nat)
    BY <1>6 DEF InOrder
  <2>2. e2 = [n \in T!Names |-> e2[n]]
    BY DEF e2, PlacesWith
  <2>3. e2 \in [T!Names -> Seq(Nat)]
    BY <2>1, <2>2
  <2> QED
    BY <1>6, <2>3 DEF NamesOrdered
<1>8. IsTable(g, f, -1, NULL, c2, e2)
  BY <1>3, <1>7 DEF IsTable, Walking
<1>9. PairsBy(g, c2, e2) = [PairsBy(h, c, e) EXCEPT ![Name[k]] = <<<<k, x>>>> \o @]
  <2> DEFINE p == PairsBy(h, c, e)
  <2>1. \A n \in T!Names : p[n] = PairsIn(h, c[At(n)], e[n])
    BY DEF PairsBy
  <2>2. DOMAIN p = T!Names
    BY DEF PairsBy
  <2> HIDE DEF p
  <2> DEFINE q == <<<<k, x>>>> \o p[Name[k]]
  <2> HIDE DEF q
  <2>3. [p EXCEPT ![Name[k]] = q] = [n \in T!Names |-> IF n = Name[k] THEN q ELSE p[n]]
    BY <2>2
  <2>4. \A n \in T!Names : PairsIn(g, c2[At(n)], e2[n]) = IF n = Name[k] THEN q ELSE p[n]
    BY <1>6, <2>1 DEF q
  <2>5. PairsBy(g, c2, e2) = [p EXCEPT ![Name[k]] = q]
    BY <2>3, <2>4 DEF PairsBy
  <2> QED
    BY <2>5 DEF p, q
<1> QED
  BY <1>8, <1>9 DEF IsWithPair

(* What the removal of a bucket makes of the heap.                         *)
CutFrom(h, s, j, g) ==
  /\ DOMAIN g = DOMAIN h \ {s[j]}
  /\ \A b \in DOMAIN g :
       g[b] = IF j > 1 /\ b = s[j - 1] THEN [h[b] EXCEPT !.next = h[s[j]].next] ELSE h[b]

Skip(j, i) == IF i < j THEN i ELSE i + 1

LEMMA WithoutFacts ==
  ASSUME NEW S, NEW s \in Seq(S), NEW j \in 1 .. Len(s)
  PROVE  /\ Len(s) \in Nat \ {0} /\ j \in Nat \ {0}
         /\ Without(s, j) \in Seq(S) /\ Len(Without(s, j)) = Len(s) - 1
         /\ \A i \in 1 .. Len(s) - 1 : Without(s, j)[i] = s[Skip(j, i)]
         /\ \A i \in 1 .. Len(s) - 1 : Skip(j, i) \in 1 .. Len(s) /\ Skip(j, i) # j
         /\ \A i, k \in 1 .. Len(s) - 1 : i < k => Skip(j, i) < Skip(j, k)
         /\ \A k \in 1 .. Len(s) : k # j =>
              /\ (IF k < j THEN k ELSE k - 1) \in 1 .. Len(s) - 1
              /\ Skip(j, IF k < j THEN k ELSE k - 1) = k
<1>1. Len(s) \in Nat \ {0} /\ j \in Nat \ {0} /\ \A i \in 1 .. Len(s) : s[i] \in S
  OBVIOUS
<1>2. \A i \in 1 .. Len(s) - 1 : Skip(j, i) \in 1 .. Len(s) /\ Skip(j, i) # j
  BY <1>1 DEF Skip
<1>3. \A i, k \in 1 .. Len(s) - 1 : i < k => Skip(j, i) < Skip(j, k)
  BY <1>1 DEF Skip
<1>4. ASSUME NEW k \in 1 .. Len(s), k # j
      PROVE  /\ (IF k < j THEN k ELSE k - 1) \in 1 .. Len(s) - 1
             /\ Skip(j, IF k < j THEN k ELSE k - 1) = k
  BY <1>1, <1>4 DEF Skip
<1> DEFINE t == Without(s, j)
<1>5. t = [i \in 1 .. Len(s) - 1 |-> s[Skip(j, i)]]
  <2>1. \A i \in 1 .. Len(s) - 1 : (IF i < j THEN s[i] ELSE s[i + 1]) = s[Skip(j, i)]
    BY DEF Skip
  <2> QED
    BY <2>1 DEF Without
<1>6. Len(s) - 1 \in Nat /\ \A i \in 1 .. Len(s) - 1 : s[Skip(j, i)] \in S
  BY <1>1, <1>2
<1> HIDE DEF t
<1>7. t \in Seq(S) /\ Len(t) = Len(s) - 1 /\ \A i \in 1 .. Len(s) - 1 : t[i] = s[Skip(j, i)]
  BY <1>5, <1>6
<1> QED
  BY <1>1, <1>2, <1>3, <1>4, <1>7 DEF t

(* The chain without the bucket.                                           *)
LEMMA CutChain ==
  ASSUME NEW h, NEW a, NEW s, IsChain(Links(h), a, s), NEW K, NEW D, NEW X,
         \A i \in 1 .. Len(s) : h[s[i]] \in [key : K, data : D, next : X],
         NEW j \in 1 .. Len(s), NEW g, CutFrom(h, s, j, g)
  PROVE  IsChain(Links(g), IF j = 1 THEN h[s[1]].next ELSE a, Without(s, j))
<1> DEFINE t == Without(s, j)
           S == DOMAIN h
<1>1. /\ s \in Seq(S) /\ Len(s) \in Nat
      /\ \A i \in 1 .. Len(s) : s[i] \in S /\ h[s[i]].next = IF i = Len(s) THEN NULL ELSE s[i + 1]
      /\ \A i, k \in 1 .. Len(s) : s[i] = s[k] => i = k
      /\ a = IF s = <<>> THEN NULL ELSE s[1]
  <2>1. s \in Seq(S)
    BY DEF IsChain, Links
  <2>2. \A i \in 1 .. Len(s) : s[i] \in S
    BY <2>1
  <2>3. \A i \in 1 .. Len(s) : Links(h)[s[i]] = h[s[i]].next
    BY <2>2 DEF Links
  <2> QED
    BY <2>1, <2>2, <2>3 DEF IsChain
<1>2. /\ Len(s) \in Nat \ {0} /\ j \in Nat \ {0}
      /\ t \in Seq(S) /\ Len(t) = Len(s) - 1
      /\ \A i \in 1 .. Len(s) - 1 : t[i] = s[Skip(j, i)]
      /\ \A i \in 1 .. Len(s) - 1 : Skip(j, i) \in 1 .. Len(s) /\ Skip(j, i) # j
      /\ \A i, k \in 1 .. Len(s) - 1 : i < k => Skip(j, i) < Skip(j, k)
  BY <1>1, WithoutFacts
<1> HIDE DEF t, S
<1>3. ASSUME NEW i \in 1 .. Len(t)
      PROVE  /\ t[i] \in DOMAIN g
             /\ g[t[i]].next = IF j > 1 /\ i = j - 1 THEN h[s[j]].next ELSE h[s[Skip(j, i)]].next
  <2>1. i \in 1 .. Len(s) - 1 /\ t[i] = s[Skip(j, i)] /\ Skip(j, i) \in 1 .. Len(s) /\ Skip(j, i) # j
    BY <1>2
  <2>2. t[i] \in DOMAIN g
    BY <1>1, <2>1 DEF CutFrom, S
  <2>3. j > 1 => (s[Skip(j, i)] = s[j - 1] <=> i = j - 1)
    <3>1. j > 1 => j - 1 \in 1 .. Len(s) /\ (Skip(j, i) = j - 1 <=> i = j - 1)
      BY <1>2, <2>1 DEF Skip
    <3> QED
      BY <1>1, <2>1, <3>1
  <2>4. h[t[i]] \in [key : K, data : D, next : X]
    BY <2>1
  <2>5. g[t[i]] = IF j > 1 /\ t[i] = s[j - 1] THEN [h[t[i]] EXCEPT !.next = h[s[j]].next] ELSE h[t[i]]
    BY <2>2 DEF CutFrom
  <2>6. [h[t[i]] EXCEPT !.next = h[s[j]].next].next = h[s[j]].next
    BY <2>4
  <2> QED
    BY <2>1, <2>2, <2>3, <2>5, <2>6
<1>4. t \in Seq(DOMAIN Links(g)) /\ \A i \in 1 .. Len(t) : Links(g)[t[i]] = g[t[i]].next
  <2>1. t = [i \in 1 .. Len(t) |-> t[i]] /\ Len(t) \in Nat
    BY <1>2, SequenceIs
  <2>2. DOMAIN Links(g) = DOMAIN g /\ \A b \in DOMAIN g : Links(g)[b] = g[b].next
    BY DEF Links
  <2> QED
    BY <1>3, <2>1, <2>2
<1>5. ASSUME NEW i \in 1 .. Len(t), NEW k \in 1 .. Len(t), t[i] = t[k] PROVE i = k
  <2>1. i \in 1 .. Len(s) - 1 /\ k \in 1 .. Len(s) - 1
    BY <1>2
  <2>2. Skip(j, i) = Skip(j, k)
    BY <1>1, <1>2, <1>5, <2>1
  <2> QED
    BY <1>2, <2>1, <2>2 DEF Skip
<1>6. (IF j = 1 THEN h[s[1]].next ELSE a) = IF t = <<>> THEN NULL ELSE t[1]
  <2>1. (t = <<>> <=> Len(s) = 1) /\ 1 \in 1 .. Len(s) /\ (1 = Len(s) <=> Len(s) = 1) /\ s # <<>>
    BY <1>2
  <2>2. Len(s) # 1 => 1 \in 1 .. Len(s) - 1 /\ t[1] = s[Skip(j, 1)]
    BY <1>2
  <2>3. Skip(j, 1) = IF j = 1 THEN 2 ELSE 1
    BY <1>2 DEF Skip
  <2>4. CASE j = 1
    <3>1. h[s[1]].next = IF 1 = Len(s) THEN NULL ELSE s[1 + 1]
      BY <1>1, <2>1
    <3> QED
      BY <2>1, <2>2, <2>3, <2>4, <3>1
  <2>5. CASE j # 1
    <3>1. Len(s) # 1
      BY <1>2, <2>5
    <3> QED
      BY <1>1, <2>1, <2>2, <2>3, <2>5, <3>1
  <2> QED
    BY <2>4, <2>5
<1>7. ASSUME NEW i \in 1 .. Len(t)
      PROVE  g[t[i]].next = IF i = Len(t) THEN NULL ELSE t[i + 1]
  <2>1. /\ i \in 1 .. Len(s) - 1 /\ Skip(j, i) \in 1 .. Len(s)
        /\ g[t[i]].next = IF j > 1 /\ i = j - 1 THEN h[s[j]].next ELSE h[s[Skip(j, i)]].next
    BY <1>2, <1>3
  <2>2. i # Len(t) => t[i + 1] = s[Skip(j, i + 1)]
    BY <1>2, <2>1
  <2>3. CASE j > 1 /\ i = j - 1
    <3>1. h[s[j]].next = IF j = Len(s) THEN NULL ELSE s[j + 1]
      BY <1>1
    <3>2. (i = Len(t) <=> j = Len(s)) /\ Skip(j, i + 1) = j + 1
      BY <1>2, <2>1, <2>3 DEF Skip
    <3> QED
      BY <2>1, <2>2, <2>3, <3>1, <3>2
  <2>4. CASE ~ (j > 1 /\ i = j - 1)
    <3> DEFINE m == Skip(j, i)
    <3>1. (i = Len(t) <=> m = Len(s)) /\ Skip(j, i + 1) = m + 1
      BY <1>2, <2>1, <2>4 DEF Skip
    <3>2. m \in 1 .. Len(s)
      BY <2>1
    <3> HIDE DEF m
    <3>3. h[s[m]].next = IF m = Len(s) THEN NULL ELSE s[m + 1]
      BY <1>1, <3>2
    <3> QED
      BY <2>1, <2>2, <2>4, <3>1, <3>3 DEF m
  <2> QED
    BY <2>3, <2>4
<1> QED
  BY <1>4, <1>5, <1>6, <1>7 DEF IsChain, t

(* Places when one is gone: those after it are one nearer.                 *)
Back(v, j) == [i \in 1 .. Len(v) |-> IF v[i] < j THEN v[i] ELSE v[i] - 1]

NumbersBack(w, v, P, N, j) ==
  /\ Len(w) = Len(v) /\ Len(v) \in Nat
  /\ \A i \in 1 .. Len(v) : w[i] \in 1 .. N - 1 /\ Skip(j, w[i]) = v[i]
  /\ InOrder(w, {k \in 1 .. N - 1 : Skip(j, k) \in P})

LEMMA BackInOrder ==
  ASSUME NEW v, NEW P, InOrder(v, P), NEW N \in Nat, P \subseteq 1 .. N, NEW j \in 1 .. N, j \notin P
  PROVE  NumbersBack(Back(v, j), v, P, N, j)
<1> DEFINE w == Back(v, j)
<1>1. /\ Len(v) \in Nat /\ P = {v[i] : i \in 1 .. Len(v)}
      /\ \A i, k \in 1 .. Len(v) : i < k => v[i] < v[k]
  BY DEF InOrder
<1>2. \A i \in 1 .. Len(v) : v[i] \in 1 .. N /\ v[i] # j
  BY <1>1
<1>3. \A i \in 1 .. Len(v) : (IF v[i] < j THEN v[i] ELSE v[i] - 1) \in 1 .. N - 1
  BY <1>2
<1>4. w \in Seq(Nat) /\ Len(w) = Len(v)
      /\ \A i \in 1 .. Len(v) : w[i] = IF v[i] < j THEN v[i] ELSE v[i] - 1
  <2>1. \A i \in 1 .. Len(v) : (IF v[i] < j THEN v[i] ELSE v[i] - 1) \in Nat
    BY <1>3
  <2> QED
    BY <1>1, <2>1 DEF Back
<1> HIDE DEF w
<1>5. \A i \in 1 .. Len(v) : w[i] \in 1 .. N - 1 /\ Skip(j, w[i]) = v[i]
  BY <1>2, <1>3, <1>4 DEF Skip
<1>6. ASSUME NEW i \in 1 .. Len(w), NEW k \in 1 .. Len(w), i < k PROVE w[i] < w[k]
  <2>1. v[i] < v[k] /\ v[i] \in 1 .. N /\ v[k] \in 1 .. N /\ v[i] # j /\ v[k] # j
    BY <1>1, <1>2, <1>4, <1>6
  <2> QED
    BY <1>4, <2>1, SMTT(30)
<1>7. ASSUME NEW k \in 1 .. N - 1, Skip(j, k) \in P PROVE k \in {w[i] : i \in 1 .. Len(w)}
  <2>1. PICK i \in 1 .. Len(v) : Skip(j, k) = v[i]
    BY <1>1, <1>7
  <2>2. Skip(j, k) = Skip(j, w[i]) /\ w[i] \in 1 .. N - 1
    BY <1>5, <2>1
  <2>3. k = w[i]
    BY <2>2 DEF Skip
  <2> QED
    BY <1>4, <2>3
<1>8. \A i \in 1 .. Len(w) : w[i] \in {k \in 1 .. N - 1 : Skip(j, k) \in P}
  BY <1>1, <1>4, <1>5
<1>9. {k \in 1 .. N - 1 : Skip(j, k) \in P} = {w[i] : i \in 1 .. Len(w)}
  BY <1>7, <1>8
<1>10. InOrder(w, {k \in 1 .. N - 1 : Skip(j, k) \in P})
  BY <1>4, <1>6, <1>9 DEF InOrder
<1> QED
  BY <1>1, <1>4, <1>5, <1>10 DEF w, NumbersBack

(* All places but the first.                                               *)
LEMMA TailInOrder ==
  ASSUME NEW v, NEW P, InOrder(v, P), v # <<>>
  PROVE  /\ Len(v) \in Nat \ {0} /\ v[1] \in P /\ (\A k \in P : v[1] <= k) /\ P \subseteq Nat
         /\ InOrder(Tail(v), P \ {v[1]})
<1>1. /\ v \in Seq(Nat) /\ Len(v) \in Nat \ {0} /\ P = {v[i] : i \in 1 .. Len(v)}
      /\ (\A i, k \in 1 .. Len(v) : i < k => v[i] < v[k]) /\ \A i \in 1 .. Len(v) : v[i] \in Nat
  BY DEF InOrder
<1>2. 1 \in 1 .. Len(v) /\ \A i \in 1 .. Len(v) : i = 1 \/ 1 < i
  BY <1>1
<1>3. \A i \in 1 .. Len(v) : i # 1 => v[1] < v[i]
  BY <1>1, <1>2
<1>4. v[1] \in P /\ (\A k \in P : v[1] <= k) /\ P \subseteq Nat
  BY <1>1, <1>2, <1>3
<1> DEFINE t == Tail(v)
<1>5. t \in Seq(Nat) /\ Len(t) = Len(v) - 1 /\ \A i \in 1 .. Len(v) - 1 : t[i] = v[i + 1]
  BY <1>1, TailFacts
<1> HIDE DEF t
<1>6. \A i \in 1 .. Len(t) : i + 1 \in 1 .. Len(v) /\ i + 1 # 1 /\ t[i] = v[i + 1]
  BY <1>1, <1>5
<1>7. ASSUME NEW i \in 1 .. Len(t), NEW k \in 1 .. Len(t), i < k PROVE t[i] < t[k]
  <2>1. i + 1 < k + 1
    BY <1>5, <1>7
  <2> QED
    BY <1>1, <1>6, <2>1
<1>8. P \ {v[1]} = {t[i] : i \in 1 .. Len(t)}
  <2>1. ASSUME NEW k \in P, k # v[1] PROVE k \in {t[i] : i \in 1 .. Len(t)}
    <3>1. PICK i \in 1 .. Len(v) : k = v[i]
      BY <1>1
    <3>2. i - 1 \in 1 .. Len(t) /\ (i - 1) + 1 = i
      BY <1>1, <1>2, <1>5, <2>1, <3>1
    <3>3. t[i - 1] = k
      BY <1>6, <3>1, <3>2
    <3> QED
      BY <3>2, <3>3
  <2>2. \A i \in 1 .. Len(t) : t[i] \in P /\ t[i] # v[1]
    <3>1. \A i \in 1 .. Len(t) : v[1] < v[i + 1] /\ v[i + 1] \in Nat /\ v[1] \in Nat
      BY <1>1, <1>2, <1>3, <1>6
    <3> QED
      BY <1>1, <1>6, <3>1
  <2> QED
    BY <2>1, <2>2
<1>9. InOrder(t, P \ {v[1]})
  BY <1>5, <1>7, <1>8 DEF InOrder
<1> QED
  BY <1>1, <1>4, <1>9 DEF t

(* The places and the pairs of a name, of a chain without a bucket.        *)
ShrunkTo(h, s, j, g, n, v) ==
  LET w == IF j \in PlacesOf(h, s, n) THEN Tail(v) ELSE v IN
  /\ InOrder(Back(w, j), PlacesOf(g, Without(s, j), n))
  /\ PairsIn(g, Without(s, j), Back(w, j)) = PairsIn(h, s, w)

LEMMA PlacesWithout ==
  ASSUME NEW h, NEW g, NEW S, NEW s \in Seq(S), NEW n, NEW v, NEW j \in 1 .. Len(s),
         InOrder(v, PlacesOf(h, s, n)), j \in PlacesOf(h, s, n) => v # <<>> /\ v[1] = j,
         \A i \in 1 .. Len(s) : i # j => g[s[i]].key = h[s[i]].key /\ g[s[i]].data = h[s[i]].data
  PROVE  ShrunkTo(h, s, j, g, n, v)
<1> DEFINE P == PlacesOf(h, s, n)
           Q == P \ {j}
           w == IF j \in P THEN Tail(v) ELSE v
           t == Without(s, j)
           y == Back(w, j)
           N == Len(s)
<1>1. /\ N \in Nat \ {0} /\ Len(t) = N - 1
      /\ \A i \in 1 .. N - 1 : t[i] = s[Skip(j, i)] /\ Skip(j, i) \in 1 .. N /\ Skip(j, i) # j
  BY WithoutFacts
<1>2. P \subseteq 1 .. N /\ Q \subseteq 1 .. N /\ j \notin Q
      /\ \A i \in 1 .. N : i \in P <=> Name[h[s[i]].key] = n
  BY DEF PlacesOf
<1>3. InOrder(w, Q)
  <2>1. CASE j \in P
    <3>1. InOrder(Tail(v), P \ {v[1]}) /\ v[1] = j
      BY <2>1, TailInOrder
    <3> QED
      BY <2>1, <3>1
  <2>2. CASE j \notin P
    <3>1. Q = P
      BY <2>2
    <3> QED
      BY <2>2, <3>1
  <2> QED
    BY <2>1, <2>2
<1> HIDE DEF P, Q, w, t, N
<1>4. /\ Len(y) = Len(w) /\ Len(w) \in Nat
      /\ \A i \in 1 .. Len(w) : y[i] \in 1 .. N - 1 /\ Skip(j, y[i]) = w[i]
      /\ InOrder(y, {k \in 1 .. N - 1 : Skip(j, k) \in Q})
  <2>1. j \in 1 .. N /\ N \in Nat
    BY <1>1 DEF N
  <2>2. NumbersBack(y, w, Q, N, j)
    BY <1>2, <1>3, <2>1, BackInOrder
  <2> QED
    BY <2>2 DEF NumbersBack
<1> HIDE DEF y
<1>5. \A k \in 1 .. N - 1 : g[t[k]].key = h[s[Skip(j, k)]].key /\ g[t[k]].data = h[s[Skip(j, k)]].data
  BY <1>1 DEF N
<1>6. PlacesOf(g, t, n) = {k \in 1 .. N - 1 : Skip(j, k) \in Q}
  <2>1. \A k \in 1 .. N - 1 : Name[g[t[k]].key] = n <=> Skip(j, k) \in Q
    <3>1. j \in 1 .. N
      BY <1>1 DEF N
    <3> SUFFICES ASSUME NEW k \in 1 .. N - 1
                 PROVE  Name[g[t[k]].key] = n <=> Skip(j, k) \in Q
      OBVIOUS
    <3>2. Skip(j, k) \in 1 .. N /\ Skip(j, k) # j /\ g[t[k]].key = h[s[Skip(j, k)]].key
      BY <1>1, <1>5
    <3>3. Skip(j, k) \in Q <=> Skip(j, k) \in P
      BY <3>2 DEF Q
    <3> QED
      BY <1>2, <3>2, <3>3
  <2> QED
    BY <1>1, <2>1 DEF PlacesOf
<1>7. PairsIn(g, t, y) = PairsIn(h, s, w)
  <2>1. \A i \in 1 .. Len(w) : PairIn(g, t[y[i]]) = PairIn(h, s[w[i]])
    BY <1>4, <1>5 DEF PairIn
  <2> QED
    BY <1>4, <2>1 DEF PairsIn
<1>8. InOrder(y, PlacesOf(g, t, n))
  BY <1>4, <1>6
<1> QED
  BY <1>7, <1>8 DEF ShrunkTo, y, t, w, P

(* What a removal makes of the table.                                      *)
ChainsWithout(c, l, j) == [c EXCEPT ![l] = Without(c[l], j)]

PlacesLeft(e, k, j) ==
  [n \in T!Names |-> IF At(n) # At(Name[k]) THEN e[n]
                     ELSE Back(IF n = Name[k] THEN Tail(e[n]) ELSE e[n], j)]

Removed(h, d, c, e, k, j, g, f) ==
  /\ Chained(h, d, c) /\ NamesOrdered(h, c, e)
  /\ k \in Key /\ e[Name[k]] # <<>> /\ j = e[Name[k]][1]
  /\ CutFrom(h, c[At(Name[k])], j, g)
  /\ f = IF j = 1 THEN [d EXCEPT ![At(Name[k])] = h[c[At(Name[k])][1]].next] ELSE d

(* The other buckets are as they were, but for where one of them leads.    *)
OneLess(h, d, c, e, k, j, g, f) ==
  LET l == At(Name[k]) IN
  /\ l \in T!Locations /\ Name[k] \in T!Names /\ j \in PlacesOf(h, c[l], Name[k]) /\ j \in 1 .. Len(c[l])
  /\ \A m \in T!Locations :
       /\ ChainsWithout(c, l, j)[m] = IF m = l THEN Without(c[m], j) ELSE c[m]
       /\ f[m] = IF m = l /\ j = 1 THEN h[c[l][1]].next ELSE d[m]
       /\ \A i \in 1 .. Len(c[m]) : m # l \/ i # j =>
            /\ c[m][i] \in DOMAIN g
            /\ g[c[m][i]] \in [key : Key, data : Datum, next : Address \cup {NULL}]
            /\ g[c[m][i]].key = h[c[m][i]].key /\ g[c[m][i]].data = h[c[m][i]].data
            /\ m # l => g[c[m][i]] = h[c[m][i]]

LEMMA RemovedFacts ==
  ASSUME T!HashTablesAssumption, NEW h, NEW d, NEW c, NEW e, NEW k, NEW j, NEW g, NEW f,
         Removed(h, d, c, e, k, j, g, f)
  PROVE  OneLess(h, d, c, e, k, j, g, f)
<1> DEFINE l == At(Name[k])
           s == c[l]
<1>1. Chained(h, d, c) /\ l \in T!Locations /\ Name[k] \in T!Names
      /\ DOMAIN c = T!Locations /\ DOMAIN d = T!Locations
  BY LocationFacts DEF Removed, Chained
<1>2. j \in PlacesOf(h, s, Name[k]) /\ j \in 1 .. Len(s) /\ Len(s) \in Nat
  <2>1. InOrder(e[Name[k]], PlacesOf(h, s, Name[k])) /\ e[Name[k]] # <<>> /\ j = e[Name[k]][1]
    BY <1>1 DEF Removed, NamesOrdered
  <2>2. j \in PlacesOf(h, s, Name[k])
    BY <2>1, TailInOrder
  <2>3. Len(s) \in Nat
    BY <1>1, ChainedFacts
  <2> QED
    BY <2>2, <2>3 DEF PlacesOf
<1>3. CutFrom(h, s, j, g) /\ f = IF j = 1 THEN [d EXCEPT ![l] = h[s[1]].next] ELSE d
  BY DEF Removed
<1>4. \A m \in T!Locations : \A i \in 1 .. Len(c[m]) :
        c[m][i] \in DOMAIN h /\ h[c[m][i]] \in [key : Key, data : Datum, next : Address \cup {NULL}]
  BY <1>1, ChainedFacts
<1>5. \A m, n \in T!Locations : \A i \in 1 .. Len(c[m]), y \in 1 .. Len(c[n]) :
        c[m][i] = c[n][y] => m = n
  BY <1>1 DEF Chained
<1>6. \A i, y \in 1 .. Len(s) : s[i] = s[y] => i = y
  BY <1>1, ChainedFacts
<1>7. h[s[j]].next \in Address \cup {NULL}
  BY <1>1, <1>2, <1>4
<1>8. ASSUME NEW m \in T!Locations, NEW i \in 1 .. Len(c[m]), m # l \/ i # j
      PROVE  /\ c[m][i] \in DOMAIN g
             /\ g[c[m][i]] \in [key : Key, data : Datum, next : Address \cup {NULL}]
             /\ g[c[m][i]].key = h[c[m][i]].key /\ g[c[m][i]].data = h[c[m][i]].data
             /\ m # l => g[c[m][i]] = h[c[m][i]]
  <2> DEFINE b == c[m][i]
  <2>1. b \in DOMAIN h /\ h[b] \in [key : Key, data : Datum, next : Address \cup {NULL}]
    BY <1>4
  <2>2. b # s[j]
    BY <1>1, <1>2, <1>5, <1>6, <1>8
  <2>3. m # l => ~ (j > 1 /\ b = s[j - 1])
    <3>1. j > 1 => j - 1 \in 1 .. Len(s)
      BY <1>2
    <3> QED
      BY <1>1, <1>5, <3>1
  <2> HIDE DEF b, s, l
  <2>4. b \in DOMAIN g
       /\ g[b] = IF j > 1 /\ b = s[j - 1] THEN [h[b] EXCEPT !.next = h[s[j]].next] ELSE h[b]
    BY <1>3, <2>1, <2>2 DEF CutFrom
  <2>5. g[b] \in [key : Key, data : Datum, next : Address \cup {NULL}]
        /\ g[b].key = h[b].key /\ g[b].data = h[b].data
    <3>1. ASSUME NEW q, q \in [key : Key, data : Datum, next : Address \cup {NULL}],
                 NEW p \in Address \cup {NULL}
          PROVE  /\ [q EXCEPT !.next = p] \in [key : Key, data : Datum, next : Address \cup {NULL}]
                 /\ [q EXCEPT !.next = p].key = q.key /\ [q EXCEPT !.next = p].data = q.data
      BY <3>1
    <3>2. CASE j > 1 /\ b = s[j - 1]
      BY <1>7, <2>1, <2>4, <3>1, <3>2
    <3>3. CASE ~ (j > 1 /\ b = s[j - 1])
      BY <2>1, <2>4, <3>3
    <3> QED
      BY <3>2, <3>3
  <2>6. m # l => g[b] = h[b]
    BY <2>3, <2>4
  <2> QED
    BY <2>4, <2>5, <2>6 DEF b
<1>9. \A m \in T!Locations :
        /\ ChainsWithout(c, l, j)[m] = IF m = l THEN Without(c[m], j) ELSE c[m]
        /\ f[m] = IF m = l /\ j = 1 THEN h[c[l][1]].next ELSE d[m]
  BY <1>1, <1>3 DEF ChainsWithout
<1> QED
  BY <1>1, <1>2, <1>8, <1>9 DEF OneLess

LEMMA RemovedChained ==
  ASSUME T!HashTablesAssumption, NEW h, NEW d, NEW c, NEW e, NEW k, NEW j, NEW g, NEW f,
         Removed(h, d, c, e, k, j, g, f)
  PROVE  Chained(g, f, ChainsWithout(c, At(Name[k]), j))
<1> DEFINE l == At(Name[k])
           c2 == ChainsWithout(c, l, j)
           s == c[l]
<1>1. /\ Chained(h, d, c) /\ d \in [T!Locations -> Address \cup {NULL}]
      /\ c \in [T!Locations -> Seq(Address)] /\ DOMAIN h \subseteq Address
      /\ CutFrom(h, s, j, g)
  BY DEF Removed, Chained
<1>2. /\ l \in T!Locations /\ j \in 1 .. Len(s)
      /\ \A m \in T!Locations :
           /\ c2[m] = IF m = l THEN Without(c[m], j) ELSE c[m]
           /\ f[m] = IF m = l /\ j = 1 THEN h[s[1]].next ELSE d[m]
           /\ \A i \in 1 .. Len(c[m]) : m # l \/ i # j =>
                /\ c[m][i] \in DOMAIN g
                /\ g[c[m][i]] \in [key : Key, data : Datum, next : Address \cup {NULL}]
                /\ g[c[m][i]].key = h[c[m][i]].key
                /\ m # l => g[c[m][i]] = h[c[m][i]]
  <2>1. OneLess(h, d, c, e, k, j, g, f)
    BY RemovedFacts
  <2> QED
    BY <2>1 DEF OneLess
<1>3. DOMAIN c2 = T!Locations /\ DOMAIN f = T!Locations
      /\ f = [m \in T!Locations |-> f[m]] /\ c2 = [m \in T!Locations |-> c2[m]]
  <2>1. f = d \/ f = [d EXCEPT ![l] = h[s[1]].next]
    BY DEF Removed
  <2>2. f \in [T!Locations -> Address \cup {NULL, h[s[1]].next}]
    BY <1>1, <2>1
  <2> QED
    BY <1>1, <2>2 DEF ChainsWithout
<1> HIDE DEF c2, l, s
<1>4. ASSUME NEW m \in T!Locations
      PROVE  /\ c2[m] \in Seq(Address) /\ Len(c2[m]) \in Nat
             /\ \A i \in 1 .. Len(c2[m]) : \E y \in 1 .. Len(c[m]) : (m # l \/ y # j) /\ c2[m][i] = c[m][y]
  <2>1. c[m] \in Seq(Address) /\ Len(c[m]) \in Nat
    BY <1>1, ChainedFacts
  <2>2. CASE m = l
    <3> DEFINE q == c[m]
               t == Without(q, j)
    <3>1. j \in 1 .. Len(q) /\ q \in Seq(Address)
      BY <1>2, <2>1, <2>2 DEF s
    <3> HIDE DEF q
    <3>2. /\ t \in Seq(Address) /\ Len(t) = Len(q) - 1 /\ Len(q) \in Nat \ {0}
          /\ \A i \in 1 .. Len(q) - 1 : t[i] = q[Skip(j, i)]
          /\ \A i \in 1 .. Len(q) - 1 : Skip(j, i) \in 1 .. Len(q) /\ Skip(j, i) # j
      BY <3>1, WithoutFacts
    <3> HIDE DEF t
    <3>3. c2[m] = t
      BY <1>2, <2>2 DEF t, q
    <3> QED
      BY <3>2, <3>3 DEF q
  <2>3. CASE m # l
    BY <1>2, <2>1, <2>3
  <2> QED
    BY <2>2, <2>3
<1>5. ASSUME NEW m \in T!Locations PROVE IsChain(Links(g), f[m], c2[m])
  <2>1. IsChain(Links(h), d[m], c[m])
        /\ \A i \in 1 .. Len(c[m]) : h[c[m][i]] \in [key : Key, data : Datum, next : Address \cup {NULL}]
    BY <1>1, ChainedFacts
  <2>2. CASE m = l
    <3>1. IsChain(Links(g), IF j = 1 THEN h[s[1]].next ELSE d[m], Without(s, j))
      <4> DEFINE N == Address \cup {NULL}
      <4>1. /\ IsChain(Links(h), d[m], s) /\ j \in 1 .. Len(s) /\ CutFrom(h, s, j, g)
            /\ \A i \in 1 .. Len(s) : h[s[i]] \in [key : Key, data : Datum, next : N]
        BY <1>1, <1>2, <2>1, <2>2 DEF s
      <4> HIDE DEF N
      <4> QED
        BY <4>1, CutChain, Zenon
    <3> QED
      BY <1>2, <2>2, <3>1 DEF s
  <2>3. CASE m # l
    <3>1. \A i \in 1 .. Len(c[m]) : c[m][i] \in DOMAIN g /\ g[c[m][i]] = h[c[m][i]]
      BY <1>2, <2>3
    <3>2. IsChain(Links(g), d[m], c[m])
      BY <2>1, <3>1, ChainKept
    <3> QED
      BY <1>2, <2>3, <3>2
  <2> QED
    BY <2>2, <2>3
<1>6. ASSUME NEW m \in T!Locations PROVE InChain(g, c2[m], m)
  <2>1. \A i \in 1 .. Len(c[m]) : At(Name[h[c[m][i]].key]) = m
    BY <1>1, ChainedFacts
  <2>2. \A i \in 1 .. Len(c[m]) : m # l \/ i # j =>
          /\ g[c[m][i]] \in [key : Key, data : Datum, next : Address \cup {NULL}]
          /\ At(Name[g[c[m][i]].key]) = m
    BY <1>2, <2>1
  <2> QED
    BY <1>4, <2>2 DEF InChain
<1>7. ASSUME NEW m \in T!Locations, NEW n \in T!Locations,
             NEW i \in 1 .. Len(c2[m]), NEW y \in 1 .. Len(c2[n]), c2[m][i] = c2[n][y]
      PROVE  m = n
  <2>1. \A p, q \in T!Locations : \A z \in 1 .. Len(c[p]), x \in 1 .. Len(c[q]) :
          c[p][z] = c[q][x] => p = q
    BY <1>1 DEF Chained
  <2>2. (\E z \in 1 .. Len(c[m]) : c2[m][i] = c[m][z]) /\ \E z \in 1 .. Len(c[n]) : c2[n][y] = c[n][z]
    BY <1>4
  <2> QED
    BY <1>7, <2>1, <2>2
<1>8. f \in [T!Locations -> Address \cup {NULL}] /\ c2 \in [T!Locations -> Seq(Address)]
      /\ DOMAIN g \subseteq Address
  <2>1. j = 1 => h[s[1]].next \in Address \cup {NULL}
    <3>1. \A i \in 1 .. Len(s) : h[s[i]] \in [key : Key, data : Datum, next : Address \cup {NULL}]
      BY <1>1, <1>2, ChainedFacts DEF s
    <3> QED
      BY <1>2, <3>1
  <2>2. \A m \in T!Locations : f[m] \in Address \cup {NULL} /\ c2[m] \in Seq(Address)
    BY <1>1, <1>2, <1>4, <2>1
  <2>3. DOMAIN g \subseteq DOMAIN h
    BY <1>1 DEF CutFrom
  <2> QED
    BY <1>1, <1>3, <2>2, <2>3
<1>9. Chained(g, f, c2)
  BY <1>5, <1>6, <1>7, <1>8 DEF Chained
<1> QED
  BY <1>9 DEF c2, l

(* The table without the bucket is a table, and its pair is gone.          *)
IsWithoutPair(h, c, e, k, g, f) ==
  \E c2, e2 :
    /\ IsTable(g, f, -1, NULL, c2, e2)
    /\ PairsBy(g, c2, e2) = [PairsBy(h, c, e) EXCEPT ![Name[k]] = Tail(@)]

LEMMA TableRemoved ==
  ASSUME T!HashTablesAssumption, NEW h, NEW d, NEW c, NEW e, NEW k, NEW j, NEW g, NEW f,
         Removed(h, d, c, e, k, j, g, f)
  PROVE  IsWithoutPair(h, c, e, k, g, f)
<1> DEFINE l == At(Name[k])
           c2 == ChainsWithout(c, l, j)
           e2 == PlacesLeft(e, k, j)
<1>1. Chained(h, d, c) /\ NamesOrdered(h, c, e) /\ e \in [T!Names -> Seq(Nat)]
      /\ e[Name[k]] # <<>> /\ j = e[Name[k]][1]
  BY DEF Removed, NamesOrdered
<1>2. /\ l \in T!Locations /\ Name[k] \in T!Names /\ j \in PlacesOf(h, c[l], Name[k]) /\ j \in 1 .. Len(c[l])
      /\ \A m \in T!Locations :
           /\ c2[m] = IF m = l THEN Without(c[m], j) ELSE c[m]
           /\ \A i \in 1 .. Len(c[m]) : m # l \/ i # j =>
                g[c[m][i]].key = h[c[m][i]].key /\ g[c[m][i]].data = h[c[m][i]].data
  <2>1. OneLess(h, d, c, e, k, j, g, f)
    BY RemovedFacts
  <2> QED
    BY <2>1 DEF OneLess
<1>3. Chained(g, f, c2)
  BY RemovedChained
<1>4. \A n \in T!Names :
        e2[n] = IF At(n) # l THEN e[n] ELSE Back(IF n = Name[k] THEN Tail(e[n]) ELSE e[n], j)
  BY DEF PlacesLeft
<1> HIDE DEF l, c2, e2
<1>5. ASSUME NEW n \in T!Names
      PROVE  /\ InOrder(e2[n], PlacesOf(g, c2[At(n)], n))
             /\ PairsIn(g, c2[At(n)], e2[n]) =
                  IF n = Name[k] THEN PairsIn(h, c[At(n)], Tail(e[n])) ELSE PairsIn(h, c[At(n)], e[n])
  <2> DEFINE s == c[At(n)]
  <2>1. At(n) \in T!Locations
    BY LocationFacts
  <2>2. s \in Seq(Address) /\ Len(s) \in Nat
    BY <1>1, <2>1, ChainedFacts
  <2>3. InOrder(e[n], PlacesOf(h, s, n))
    BY <1>1 DEF NamesOrdered
  <2> HIDE DEF s
  <2>4. CASE At(n) # l
    <3>1. n # Name[k] /\ c2[At(n)] = s /\ e2[n] = e[n]
      BY <1>2, <1>4, <2>1, <2>4 DEF s, l
    <3>2. \A i \in 1 .. Len(s) : g[s[i]].key = h[s[i]].key /\ g[s[i]].data = h[s[i]].data
      BY <1>2, <2>1, <2>4 DEF s
    <3>3. PlacesOf(g, s, n) = PlacesOf(h, s, n)
      BY <3>2 DEF PlacesOf
    <3>4. PairsIn(g, s, e[n]) = PairsIn(h, s, e[n])
      <4>1. \A i \in 1 .. Len(e[n]) : e[n][i] \in 1 .. Len(s)
        BY <2>3 DEF InOrder, PlacesOf
      <4> QED
        BY <3>2, <4>1 DEF PairsIn, PairIn
    <3> QED
      BY <2>3, <3>1, <3>3, <3>4 DEF s
  <2>5. CASE At(n) = l
    <3>1. c2[At(n)] = Without(s, j) /\ j \in 1 .. Len(s)
      BY <1>2, <2>1, <2>5 DEF s
    <3>2. \A i \in 1 .. Len(s) : i # j => g[s[i]].key = h[s[i]].key /\ g[s[i]].data = h[s[i]].data
      BY <1>2, <2>1, <2>5 DEF s
    <3>3. j \in PlacesOf(h, s, n) <=> n = Name[k]
      BY <1>2, <2>5 DEF PlacesOf, s
    <3>4. j \in PlacesOf(h, s, n) => e[n] # <<>> /\ e[n][1] = j
      BY <1>1, <3>3
    <3>5. ShrunkTo(h, s, j, g, n, e[n])
      BY <2>2, <2>3, <3>1, <3>2, <3>4, PlacesWithout
    <3>6. CASE n = Name[k]
      <4>1. e2[n] = Back(Tail(e[n]), j) /\ j \in PlacesOf(h, s, n)
        BY <1>4, <2>5, <3>3, <3>6
      <4> QED
        BY <3>1, <3>5, <3>6, <4>1 DEF s, ShrunkTo
    <3>7. CASE n # Name[k]
      <4>1. e2[n] = Back(e[n], j) /\ j \notin PlacesOf(h, s, n)
        BY <1>4, <2>5, <3>3, <3>7
      <4> QED
        BY <3>1, <3>5, <3>7, <4>1 DEF s, ShrunkTo
    <3> QED
      BY <3>6, <3>7
  <2> QED
    BY <2>4, <2>5
<1>6. NamesOrdered(g, c2, e2)
  <2>1. \A n \in T!Names : e2[n] \in Seq(Nat)
    BY <1>5 DEF InOrder
  <2>2. e2 = [n \in T!Names |-> e2[n]]
    BY DEF e2, PlacesLeft
  <2>3. e2 \in [T!Names -> Seq(Nat)]
    BY <2>1, <2>2
  <2> QED
    BY <1>5, <2>3 DEF NamesOrdered
<1>7. IsTable(g, f, -1, NULL, c2, e2)
  BY <1>3, <1>6 DEF IsTable, Walking
<1>8. PairsIn(h, c[l], Tail(e[Name[k]])) = Tail(PairsIn(h, c[l], e[Name[k]]))
  <2> DEFINE v == e[Name[k]]
             s == c[l]
             p == PairsIn(h, s, v)
             R == {p[i] : i \in 1 .. Len(v)}
  <2>1. v \in Seq(Nat) /\ v # <<>>
    BY <1>1, <1>2
  <2> HIDE DEF v, s
  <2>2. /\ Len(v) \in Nat \ {0} /\ Tail(v) \in Seq(Nat) /\ Len(Tail(v)) = Len(v) - 1
        /\ \A i \in 1 .. Len(v) - 1 : Tail(v)[i] = v[i + 1]
    BY <2>1, TailFacts
  <2>3. p = [i \in 1 .. Len(v) |-> PairIn(h, s[v[i]])]
    BY DEF PairsIn
  <2>4. p \in Seq(R) /\ Len(p) = Len(v) /\ p # <<>>
    BY <2>2, <2>3, SMTT(30)
  <2> HIDE DEF R
  <2>5. Tail(p) = [i \in 1 .. Len(p) - 1 |-> p[i + 1]]
    BY <2>4, TailFacts
  <2>6. \A i \in 1 .. Len(v) - 1 : p[i + 1] = PairIn(h, s[Tail(v)[i]])
    BY <2>2, <2>3
  <2> HIDE DEF p
  <2>7. PairsIn(h, s, Tail(v)) = [i \in 1 .. Len(v) - 1 |-> PairIn(h, s[Tail(v)[i]])]
    BY <2>2 DEF PairsIn
  <2>8. PairsIn(h, s, Tail(v)) = Tail(p)
    BY <2>4, <2>5, <2>6, <2>7
  <2> QED
    BY <2>8 DEF p, s, v
<1>9. PairsBy(g, c2, e2) = [PairsBy(h, c, e) EXCEPT ![Name[k]] = Tail(@)]
  <2> DEFINE p == PairsBy(h, c, e)
             q == Tail(p[Name[k]])
  <2>1. (\A n \in T!Names : p[n] = PairsIn(h, c[At(n)], e[n])) /\ DOMAIN p = T!Names
    BY DEF PairsBy
  <2> HIDE DEF p
  <2>2. PairsIn(h, c[l], Tail(e[Name[k]])) = q
    BY <1>2, <1>8, <2>1 DEF l
  <2> HIDE DEF q
  <2>3. [p EXCEPT ![Name[k]] = q] = [n \in T!Names |-> IF n = Name[k] THEN q ELSE p[n]]
    BY <2>1
  <2>4. \A n \in T!Names : PairsIn(g, c2[At(n)], e2[n]) = IF n = Name[k] THEN q ELSE p[n]
    BY <1>5, <2>1, <2>2 DEF l
  <2>5. PairsBy(g, c2, e2) = [p EXCEPT ![Name[k]] = q]
    BY <2>3, <2>4 DEF PairsBy
  <2> QED
    BY <2>5 DEF p, q
<1> QED
  BY <1>7, <1>9 DEF IsWithoutPair

(* Where an enumeration goes from a bucket, and where it starts.           *)
LaterFrom(d, i) == IF LaterIn(d, i) = {} THEN <<-1, NULL>>
                   ELSE LET m == T!Min(LaterIn(d, i)) IN <<m, d[m]>>

GoesOn(c, d, i) ==
  /\ Walking(c, LaterFrom(d, i)[1], LaterFrom(d, i)[2])
  /\ Rest(c, LaterFrom(d, i)[1], LaterFrom(d, i)[2]) =
       {a \in Address : \E l \in T!Locations : l > i /\ \E j \in 1 .. Len(c[l]) : a = c[l][j]}

LEMMA LaterIs ==
  ASSUME T!HashTablesAssumption, NEW h, NEW d, NEW c, Chained(h, d, c), NEW i \in Nat \cup {-1}
  PROVE  GoesOn(c, d, i)
<1>1. ASSUME NEW l \in T!Locations
      PROVE  /\ l \in Nat /\ Len(c[l]) \in Nat /\ (d[l] = NULL <=> Len(c[l]) = 0)
             /\ (Len(c[l]) # 0 => d[l] = c[l][1] /\ 1 \in 1 .. Len(c[l]) /\ d[l] # NULL)
             /\ \A j, k \in 1 .. Len(c[l]) : c[l][j] = c[l][k] => j = k
  <2> DEFINE s == c[l]
  <2>1. /\ s \in Seq(Address) /\ Len(s) \in Nat /\ (s = <<>> <=> Len(s) = 0)
        /\ IsChain(Links(h), d[l], s) /\ \A j \in 1 .. Len(s) : s[j] # NULL
    BY ChainedFacts
  <2> HIDE DEF s
  <2>2. d[l] = IF s = <<>> THEN NULL ELSE s[1]
    BY <2>1 DEF IsChain
  <2>3. s # <<>> => 1 \in 1 .. Len(s) /\ s[1] # NULL
    BY <2>1
  <2>4. \A j, k \in 1 .. Len(s) : s[j] = s[k] => j = k
    BY <2>1 DEF IsChain
  <2>5. l \in Nat
    BY LocationFacts
  <2> QED
    BY <2>1, <2>2, <2>3, <2>4, <2>5 DEF s
<1>2. CASE LaterIn(d, i) = {}
  <2>1. LaterFrom(d, i)[1] = -1 /\ LaterFrom(d, i)[2] = NULL
    BY <1>2 DEF LaterFrom
  <2>2. \A l \in T!Locations : l > i => Len(c[l]) = 0
    BY <1>1, <1>2 DEF LaterIn
  <2>3. \A l \in T!Locations : l > i => \A j \in 1 .. Len(c[l]) : FALSE
    BY <1>1, <2>2
  <2>4. Rest(c, LaterFrom(d, i)[1], LaterFrom(d, i)[2]) = {}
    BY <2>1 DEF Rest
  <2>5. {a \in Address : \E l \in T!Locations : l > i /\ \E j \in 1 .. Len(c[l]) : a = c[l][j]} = {}
    BY <2>3
  <2> QED
    BY <2>1, <2>4, <2>5 DEF Walking, GoesOn
<1>3. CASE LaterIn(d, i) # {}
  <2> DEFINE m == T!Min(LaterIn(d, i))
  <2>1. m \in LaterIn(d, i) /\ \A y \in LaterIn(d, i) : m <= y
    <3>1. LaterIn(d, i) \subseteq Nat
      BY <1>1 DEF LaterIn
    <3>2. \E x \in LaterIn(d, i) : \A y \in LaterIn(d, i) : x <= y
      BY <1>3, <3>1, SmallestNumber
    <3> QED
      BY <3>2 DEF T!Min
  <2> HIDE DEF m
  <2>2. LaterFrom(d, i)[1] = m /\ LaterFrom(d, i)[2] = d[m]
    BY <1>3 DEF LaterFrom, m
  <2>3. m \in T!Locations /\ m > i /\ d[m] # NULL
        /\ \A l \in T!Locations : l > i /\ Len(c[l]) # 0 => m <= l
    BY <1>1, <2>1 DEF LaterIn
  <2>4. Len(c[m]) # 0 /\ d[m] = c[m][1] /\ 1 \in 1 .. Len(c[m])
    BY <1>1, <2>3
  <2>5. Walking(c, m, d[m])
    BY <2>3, <2>4 DEF Walking
  <2>6. ASSUME NEW a \in Address
        PROVE  a \in Rest(c, m, d[m]) <=> \E l \in T!Locations : l > i /\ \E j \in 1 .. Len(c[l]) : a = c[l][j]
    <3>1. a \in Rest(c, m, d[m]) <=>
            \/ \E l \in T!Locations : l > m /\ \E j \in 1 .. Len(c[l]) : a = c[l][j]
            \/ \E j, k \in 1 .. Len(c[m]) : d[m] = c[m][k] /\ k <= j /\ a = c[m][j]
      BY <2>3 DEF Rest
    <3>2. (\E j, k \in 1 .. Len(c[m]) : d[m] = c[m][k] /\ k <= j /\ a = c[m][j]) <=>
            \E j \in 1 .. Len(c[m]) : a = c[m][j]
      <4>1. \A j \in 1 .. Len(c[m]) : 1 <= j
        OBVIOUS
      <4> QED
        BY <2>4, <4>1
    <3>3. \A l \in T!Locations : \A j \in 1 .. Len(c[l]) : l > i => (l = m \/ l > m)
      <4>1. \A l \in T!Locations : (\E j \in 1 .. Len(c[l]) : TRUE) => Len(c[l]) # 0
        BY <1>1
      <4>2. m \in Nat /\ \A l \in T!Locations : l \in Nat
        BY <1>1, <2>3
      <4> QED
        BY <2>3, <4>1, <4>2
    <3>4. \A l \in T!Locations : l > m => l > i
      BY <1>1, <2>3
    <3> QED
      BY <2>3, <3>1, <3>2, <3>3, <3>4
  <2>7. Rest(c, m, d[m]) = {a \in Address : \E l \in T!Locations : l > i /\ \E j \in 1 .. Len(c[l]) : a = c[l][j]}
    <3>1. Rest(c, m, d[m]) \subseteq Address
      BY DEF Rest
    <3> QED
      BY <2>6, <3>1
  <2> QED
    BY <2>2, <2>5, <2>7 DEF GoesOn
<1> QED
  BY <1>2, <1>3

AdvancedTo(h, d, i, b) == IF h[b].next # NULL THEN <<i, h[b].next>> ELSE LaterFrom(d, i)

LEMMA AdvanceIs ==
  ASSUME T!HashTablesAssumption, NEW h, NEW d, NEW c, Chained(h, d, c),
         NEW i, NEW b, Walking(c, i, b), b # NULL
  PROVE  /\ Walking(c, AdvancedTo(h, d, i, b)[1], AdvancedTo(h, d, i, b)[2])
         /\ b \in Rest(c, i, b)
         /\ Rest(c, AdvancedTo(h, d, i, b)[1], AdvancedTo(h, d, i, b)[2]) = Rest(c, i, b) \ {b}
<1>1. PICK j \in 1 .. Len(c[i]) : i \in T!Locations /\ b = c[i][j]
  BY DEF Walking
<1> DEFINE s == c[i]
           after == {a \in Address : \E l \in T!Locations : l > i /\ \E k \in 1 .. Len(c[l]) : a = c[l][k]}
<1>2. /\ i \in Nat /\ Len(s) \in Nat /\ j \in 1 .. Len(s) /\ b = s[j]
      /\ \A k \in 1 .. Len(s) : s[k] \in Address /\ s[k] # NULL
      /\ h[b].next = IF j = Len(s) THEN NULL ELSE s[j + 1]
      /\ \A k, m \in 1 .. Len(s) : s[k] = s[m] => k = m
  <2>1. i \in Nat
    BY <1>1, LocationFacts
  <2>2. /\ Len(s) \in Nat /\ \A k \in 1 .. Len(s) : s[k] \in Address /\ s[k] # NULL
        /\ \A k, m \in 1 .. Len(s) : s[k] = s[m] => k = m
    BY <1>1, ChainedFacts
  <2>3. \A k \in 1 .. Len(s) : h[s[k]].next = IF k = Len(s) THEN NULL ELSE s[k + 1]
    BY <1>1, ChainedFacts
  <2>4. j \in 1 .. Len(s) /\ b = s[j]
    BY <1>1
  <2> HIDE DEF s
  <2> QED
    BY <2>1, <2>2, <2>3, <2>4
<1>3. b \notin after
  <2>1. \A l \in T!Locations : \A k \in 1 .. Len(c[l]) : c[l][k] = s[j] => l = i
    BY <1>1 DEF Chained
  <2>2. ~ (i > i)
    BY <1>2
  <2> QED
    BY <1>2, <2>1, <2>2
<1> HIDE DEF s, after
<1>4. ASSUME NEW m \in 1 .. Len(s)
      PROVE  Rest(c, i, s[m]) = after \cup {s[k] : k \in m .. Len(s)}
  <2>1. ASSUME NEW a \in Address
        PROVE  a \in Rest(c, i, s[m]) <=>
                 (a \in after \/ \E k, n \in 1 .. Len(s) : s[m] = s[n] /\ n <= k /\ a = s[k])
    BY <1>1, <1>2 DEF Rest, s, after
  <2>2. ASSUME NEW a
        PROVE  (\E k, n \in 1 .. Len(s) : s[m] = s[n] /\ n <= k /\ a = s[k]) <=> \E k \in m .. Len(s) : a = s[k]
    <3>1. \A n \in 1 .. Len(s) : s[m] = s[n] <=> n = m
      BY <1>2
    <3>2. \A k : k \in m .. Len(s) <=> k \in 1 .. Len(s) /\ m <= k
      BY <1>2
    <3> QED
      BY <3>1, <3>2
  <2>3. Rest(c, i, s[m]) \subseteq Address /\ after \subseteq Address /\ {s[k] : k \in m .. Len(s)} \subseteq Address
    <3>1. m .. Len(s) \subseteq 1 .. Len(s)
      BY <1>2
    <3> QED
      BY <1>2, <3>1 DEF Rest, after
  <2> QED
    BY <2>1, <2>2, <2>3
<1>5. b \in Rest(c, i, b) /\ Rest(c, i, b) \ {b} = after \cup {s[k] : k \in j + 1 .. Len(s)}
  <2>1. Rest(c, i, b) = after \cup {s[k] : k \in j .. Len(s)}
    BY <1>2, <1>4
  <2>2. j .. Len(s) = {j} \cup (j + 1 .. Len(s)) /\ j \notin j + 1 .. Len(s)
    BY <1>2
  <2>3. \A k \in j + 1 .. Len(s) : s[k] # b
    BY <1>2
  <2> QED
    BY <1>2, <1>3, <2>1, <2>2, <2>3
<1>6. CASE j = Len(s)
  <2>1. AdvancedTo(h, d, i, b) = LaterFrom(d, i)
    BY <1>2, <1>6 DEF AdvancedTo
  <2>2. j + 1 .. Len(s) = {}
    BY <1>2, <1>6
  <2>3. Rest(c, i, b) \ {b} = after
    BY <1>5, <2>2
  <2>4. i \in Nat \cup {-1}
    BY <1>2
  <2>5. /\ Walking(c, LaterFrom(d, i)[1], LaterFrom(d, i)[2])
        /\ Rest(c, LaterFrom(d, i)[1], LaterFrom(d, i)[2]) = after
    <3>1. GoesOn(c, d, i)
      BY <2>4, LaterIs
    <3> QED
      BY <3>1 DEF GoesOn, after
  <2> QED
    BY <1>5, <2>1, <2>3, <2>5
<1>7. CASE j # Len(s)
  <2>1. j + 1 \in 1 .. Len(s) /\ h[b].next = s[j + 1] /\ s[j + 1] # NULL
    BY <1>2, <1>7
  <2>2. AdvancedTo(h, d, i, b)[1] = i /\ AdvancedTo(h, d, i, b)[2] = s[j + 1]
    BY <2>1 DEF AdvancedTo
  <2>3. Walking(c, i, s[j + 1])
    BY <1>1, <2>1 DEF Walking, s
  <2>4. Rest(c, i, s[j + 1]) = after \cup {s[k] : k \in j + 1 .. Len(s)}
    BY <1>4, <2>1
  <2> QED
    BY <1>5, <2>2, <2>3, <2>4
<1> QED
  BY <1>6, <1>7

(* Every bucket has one place.                                             *)
PlaceOf(h, c, e, b, n, q) ==
  /\ n \in T!Names /\ q \in 1 .. Len(e[n]) /\ b = c[At(n)][e[n][q]]
  /\ PairsBy(h, c, e)[n][q] = PairIn(h, b)
  /\ \A X : b \in X =>
       /\ <<n, q>> \in PlacesIn(c, e, X)
       /\ PlacesIn(c, e, X \ {b}) = PlacesIn(c, e, X) \ {<<n, q>>}

LEMMA OnePlace ==
  ASSUME T!HashTablesAssumption, NEW h, NEW d, NEW c, NEW e, Chained(h, d, c), NamesOrdered(h, c, e),
         NEW i \in T!Locations, NEW j \in 1 .. Len(c[i])
  PROVE  \E n, q : PlaceOf(h, c, e, c[i][j], n, q)
<1> DEFINE b == c[i][j]
           n == Name[h[b].key]
           P(m) == PlacesOf(h, c[At(m)], m)
<1>1. n \in T!Names /\ At(n) = i
  <2>1. h[b].key \in Key /\ At(n) = i
    BY ChainedFacts
  <2> QED
    BY <2>1, LocationFacts
<1>2. \A m \in T!Names : InOrder(e[m], P(m)) /\ At(m) \in T!Locations
  BY LocationFacts DEF NamesOrdered
<1>3. j \in P(n)
  BY <1>1 DEF PlacesOf
<1>4. ASSUME NEW m \in T!Names
      PROVE  /\ Len(e[m]) \in Nat /\ P(m) = {e[m][k] : k \in 1 .. Len(e[m])}
             /\ \A k, o \in 1 .. Len(e[m]) : e[m][k] = e[m][o] => k = o
  <2>1. /\ Len(e[m]) \in Nat /\ P(m) = {e[m][k] : k \in 1 .. Len(e[m])}
        /\ (\A k, o \in 1 .. Len(e[m]) : k < o => e[m][k] < e[m][o])
        /\ \A k \in 1 .. Len(e[m]) : e[m][k] \in Nat
    <3> DEFINE v == e[m]
               R == P(m)
    <3>1. InOrder(v, R)
      BY <1>2
    <3> HIDE DEF v, R
    <3>2. /\ Len(v) \in Nat /\ R = {v[k] : k \in 1 .. Len(v)}
          /\ (\A k, o \in 1 .. Len(v) : k < o => v[k] < v[o])
          /\ \A k \in 1 .. Len(v) : v[k] \in Nat
      BY <3>1 DEF InOrder
    <3> QED
      BY <3>2 DEF v, R
  <2> HIDE DEF P
  <2>2. ASSUME NEW k \in 1 .. Len(e[m]), NEW o \in 1 .. Len(e[m]), e[m][k] = e[m][o] PROVE k = o
    <3>1. ~ (k < o) /\ ~ (o < k)
      BY <2>1, <2>2
    <3> QED
      BY <2>1, <3>1
  <2> QED
    BY <2>1, <2>2
<1>5. PICK q \in 1 .. Len(e[n]) : j = e[n][q]
  <2> HIDE DEF P, n
  <2>1. P(n) = {e[n][k] : k \in 1 .. Len(e[n])}
    BY <1>1, <1>4
  <2> QED
    BY <1>3, <2>1
<1>6. b = c[At(n)][e[n][q]]
  BY <1>1, <1>5
<1>7. PairsBy(h, c, e)[n][q] = PairIn(h, b)
  BY <1>1, <1>5, <1>6 DEF PairsBy, PairsIn
<1>8. ASSUME NEW m \in T!Names, NEW o \in 1 .. Len(e[m]), c[At(m)][e[m][o]] = b
      PROVE  m = n /\ o = q
  <2>1. e[m][o] \in P(m)
    <3> HIDE DEF P
    <3>1. P(m) = {e[m][k] : k \in 1 .. Len(e[m])}
      BY <1>4
    <3> QED
      BY <3>1
  <2>2. e[m][o] \in 1 .. Len(c[At(m)]) /\ Name[h[c[At(m)][e[m][o]]].key] = m
    BY <2>1 DEF PlacesOf
  <2>3. m = n
    BY <1>8, <2>2
  <2>4. \A k, y \in 1 .. Len(c[i]) : c[i][k] = c[i][y] => k = y
    BY ChainedFacts
  <2>5. e[n][o] = e[n][q]
    BY <1>1, <1>5, <1>8, <2>2, <2>3, <2>4
  <2> QED
    BY <1>1, <1>4, <1>5, <2>3, <2>5
<1> HIDE DEF b, n, P
<1>9. ASSUME NEW X, b \in X
      PROVE  /\ <<n, q>> \in PlacesIn(c, e, X)
             /\ PlacesIn(c, e, X \ {b}) = PlacesIn(c, e, X) \ {<<n, q>>}
  <2>1. \A p : \A Y : p \in PlacesIn(c, e, Y) <=>
          \E m \in T!Names : \E o \in 1 .. Len(e[m]) : p = <<m, o>> /\ c[At(m)][e[m][o]] \in Y
    <3>1. \A m \in T!Names : Len(e[m]) \in Nat
      BY <1>4
    <3>2. \A m \in T!Names : \A o \in 1 .. Len(e[m]) : o \in Nat
      BY <3>1
    <3> QED
      BY <3>2 DEF PlacesIn
  <2>2. <<n, q>> \in PlacesIn(c, e, X)
    BY <1>1, <1>5, <1>6, <1>9, <2>1
  <2>3. ASSUME NEW p PROVE p \in PlacesIn(c, e, X \ {b}) <=> p \in PlacesIn(c, e, X) /\ p # <<n, q>>
    <3>1. ASSUME NEW m \in T!Names, NEW o \in 1 .. Len(e[m])
          PROVE  c[At(m)][e[m][o]] = b <=> <<m, o>> = <<n, q>>
      BY <1>6, <1>8
    <3> QED
      BY <2>1, <3>1
  <2> QED
    BY <2>2, <2>3
<1> QED
  BY <1>1, <1>5, <1>6, <1>7, <1>9 DEF PlaceOf, b

(* What the Dictionary sees of a table.                                    *)
PairsNow == [n \in T!Names |-> T!PairsOf(n)]
LeftNow == UNION {T!LeftOf(n) : n \in T!Names}

LEMMA StateIs ==
  ASSUME T!HashTablesAssumption, NEW c, NEW e, IsTable(buckets, table, location, bucket, c, e)
  PROVE  PairsNow = PairsBy(buckets, c, e) /\ LeftNow = PlacesIn(c, e, Rest(c, location, bucket))
<1>1. /\ [n \in T!Names |-> Seen(buckets, table, n)] = PairsBy(buckets, c, e)
      /\ SeenLeft(buckets, table, location, bucket) = PlacesIn(c, e, Rest(c, location, bucket))
  BY TableIs
<1>2. PairsNow = [n \in T!Names |-> Seen(buckets, table, n)]
  BY SameTable DEF PairsNow
<1>3. LeftNow = SeenLeft(buckets, table, location, bucket)
  BY SameTable DEF LeftNow
<1> QED
  BY <1>1, <1>2, <1>3

LEMMA NextStateIs ==
  ASSUME T!HashTablesAssumption, NEW c, NEW e, IsTable(buckets', table', location', bucket', c, e)
  PROVE  /\ TableInv'
         /\ PairsNow' = PairsBy(buckets', c, e) /\ LeftNow' = PlacesIn(c, e, Rest(c, location', bucket'))
<1>1. PICK h, d, i, b : h = buckets' /\ d = table' /\ i = location' /\ b = bucket'
  OBVIOUS
<1>2. IsTable(h, d, i, b, c, e)
  BY <1>1
<1>3. /\ [n \in T!Names |-> Seen(h, d, n)] = PairsBy(h, c, e)
      /\ SeenLeft(h, d, i, b) = PlacesIn(c, e, Rest(c, i, b))
  BY <1>2, TableIs
<1>4. PairsNow' = [n \in T!Names |-> Seen(h, d, n)]
  BY <1>1, SameTable DEF PairsNow, T!Names
<1>5. LeftNow' = SeenLeft(h, d, i, b)
  BY <1>1, SameTable DEF LeftNow
<1>6. TableInv'
  BY <1>1, <1>2 DEF TableInv
<1> QED
  BY <1>1, <1>3, <1>4, <1>5, <1>6

(* Nothing is left of an enumeration that is over.                         *)
LEMMA NoneLeft == \A c, e, i : Rest(c, i, NULL) = {} /\ PlacesIn(c, e, {}) = {}
  BY DEF Rest, PlacesIn

(* A key is inserted with its data.                                        *)
LEMMA TableInsert ==
  ASSUME T!HashTablesAssumption, TableInv, NEW k \in Key, NEW x \in Datum, T!Insert(k, x)
  PROVE  TableInv' /\ T!Table!Insert(k, x)
<1>1. PICK c, e : IsTable(buckets, table, location, bucket, c, e)
  BY DEF TableInv
<1>2. T!Location(k) = At(Name[k])
  BY LocationFacts
<1>3. PICK a \in Fresh(buckets) :
        /\ buckets' = NewBucket(buckets, table, a, k, x)
        /\ table' = [table EXCEPT ![At(Name[k])] = a]
  BY <1>2 DEF T!Insert, T!Fresh, T!Stored, Fresh, Stored, NewBucket
<1>4. location' = -1 /\ bucket' = NULL /\ answer' = answer
  BY DEF T!Insert, T!EndEnumeration
<1>5. Inserted(buckets, table, c, e, k, x, a, buckets', table')
  BY <1>1, <1>3 DEF Inserted, IsTable
<1>6. PICK g, f : g = buckets' /\ f = table'
  OBVIOUS
<1>7. PICK c2, e2 :
        /\ IsTable(g, f, -1, NULL, c2, e2)
        /\ PairsBy(g, c2, e2) = [PairsBy(buckets, c, e) EXCEPT ![Name[k]] = <<<<k, x>>>> \o @]
  <2>1. IsWithPair(buckets, c, e, k, x, g, f)
    BY <1>5, <1>6, TableInserted
  <2> QED
    BY <2>1 DEF IsWithPair
<1>8. IsTable(buckets', table', location', bucket', c2, e2)
  BY <1>4, <1>6, <1>7
<1>9. PairsNow' = [PairsNow EXCEPT ![Name[k]] = <<<<k, x>>>> \o @] /\ LeftNow' = {} /\ TableInv'
  <2>1. PairsNow = PairsBy(buckets, c, e)
    BY <1>1, StateIs
  <2>2. PairsNow' = PairsBy(g, c2, e2) /\ LeftNow' = PlacesIn(c2, e2, Rest(c2, location', bucket')) /\ TableInv'
    BY <1>6, <1>8, NextStateIs
  <2> QED
    BY <1>4, <1>7, <2>1, <2>2, NoneLeft
<1> QED
  BY <1>4, <1>9 DEF T!Table!Insert, PairsNow, LeftNow

(* The newest pair of a key, and the first bucket of it.                   *)
LEMMA NewestIs ==
  ASSUME T!HashTablesAssumption, NEW c, NEW e, IsTable(buckets, table, location, bucket, c, e),
         NEW k \in Key
  PROVE  /\ Name[k] \in T!Names /\ At(Name[k]) \in T!Locations /\ T!Location(k) = At(Name[k])
         /\ T!Buckets(table[At(Name[k])]) = c[At(Name[k])]
         /\ (T!Places(k) = {} <=> e[Name[k]] = <<>>)
         /\ (PairsNow[Name[k]] = <<>> <=> e[Name[k]] = <<>>)
         /\ e[Name[k]] # <<>> =>
              /\ T!Min(T!Places(k)) = e[Name[k]][1] /\ e[Name[k]][1] \in 1 .. Len(c[At(Name[k])])
              /\ Head(PairsNow[Name[k]]) = PairIn(buckets, c[At(Name[k])][e[Name[k]][1]])
<1> DEFINE n == Name[k]
           l == At(n)
           s == c[l]
           v == e[n]
<1>1. n \in T!Names /\ l \in T!Locations /\ T!Location(k) = l
  BY LocationFacts
<1>2. T!Buckets(table[l]) = s
  BY <1>1, TableIs, SameTable
<1>3. s \in Seq(Address)
  BY <1>1, ChainedFacts DEF IsTable
<1>4. PairsNow[n] = PairsIn(buckets, s, v)
  BY <1>1, StateIs DEF PairsBy
<1>5. InOrder(v, PlacesOf(buckets, s, n))
  BY <1>1 DEF IsTable, NamesOrdered
<1>6. T!Places(k) = {j \in DOMAIN T!Buckets(table[T!Location(k)]) :
                       Name[buckets[T!Buckets(table[T!Location(k)])[j]].key] = n}
  BY DEF T!Places
<1> HIDE DEF s, v, l, n
<1>7. T!Places(k) = PlacesOf(buckets, s, n) /\ DOMAIN s = 1 .. Len(s)
  BY <1>1, <1>2, <1>3, <1>6 DEF PlacesOf
<1>8. Len(v) \in Nat /\ (v = <<>> <=> Len(v) = 0) /\ PlacesOf(buckets, s, n) = {v[i] : i \in 1 .. Len(v)}
  BY <1>5 DEF InOrder
<1>9. T!Places(k) = {} <=> v = <<>>
  <2>1. v # <<>> => 1 \in 1 .. Len(v)
    BY <1>8
  <2>2. v = <<>> => \A i \in 1 .. Len(v) : FALSE
    BY <1>8
  <2> QED
    BY <1>7, <1>8, <2>1, <2>2, ZenonT(60)
<1> DEFINE p == PairsIn(buckets, s, v)
           R == {p[i] : i \in 1 .. Len(v)}
<1>10. p = [i \in 1 .. Len(v) |-> PairIn(buckets, s[v[i]])]
  BY DEF PairsIn
<1>11. p \in Seq(R) /\ Len(p) = Len(v)
  BY <1>8, <1>10
<1> HIDE DEF p, R
<1>12. p = <<>> <=> v = <<>>
  BY <1>8, <1>11
<1>13. ASSUME v # <<>>
       PROVE  /\ T!Min(T!Places(k)) = v[1] /\ v[1] \in 1 .. Len(s)
              /\ Head(p) = PairIn(buckets, s[v[1]])
  <2> DEFINE Q == PlacesOf(buckets, s, n)
  <2>1. v[1] \in Q /\ (\A j \in Q : v[1] <= j) /\ Q \subseteq Nat
    BY <1>5, <1>13, TailInOrder
  <2>2. v[1] \in 1 .. Len(s)
    BY <2>1 DEF PlacesOf
  <2> HIDE DEF Q
  <2>3. T!Min(Q) \in Q /\ \A j \in Q : T!Min(Q) <= j
    <3>1. \E i \in Q : \A j \in Q : i <= j
      BY <2>1
    <3> QED
      BY <3>1 DEF T!Min
  <2>4. T!Min(Q) = v[1]
    <3> DEFINE m == T!Min(Q)
    <3> HIDE DEF m
    <3>1. m \in Q /\ v[1] \in Q /\ m <= v[1] /\ v[1] <= m /\ m \in Nat /\ v[1] \in Nat
      BY <2>1, <2>3 DEF m
    <3>2. m = v[1]
      BY <3>1
    <3> QED
      BY <3>2 DEF m
  <2>5. Head(p) = p[1] /\ 1 \in 1 .. Len(v)
    BY <1>8, <1>11, <1>12, <1>13
  <2> QED
    BY <1>7, <1>10, <2>2, <2>4, <2>5 DEF Q
<1> QED
  BY <1>1, <1>2, <1>4, <1>9, <1>12, <1>13 DEF p, s, v, l, n

(* A key is looked for.                                                    *)
LEMMA TableFind ==
  ASSUME T!HashTablesAssumption, TableInv, NEW k \in Key, T!Find(k)
  PROVE  TableInv' /\ T!Table!Find(k)
<1>1. PICK c, e : IsTable(buckets, table, location, bucket, c, e)
  BY DEF TableInv
<1> DEFINE l == At(Name[k])
           v == e[Name[k]]
<1>2. /\ UNCHANGED <<buckets, table, location, bucket>>
      /\ answer' = IF T!Places(k) = {} THEN NULL
                   ELSE T!Pair(T!Buckets(table[T!Location(k)])[T!Min(T!Places(k))])
  BY DEF T!Find
<1>3. /\ T!Location(k) = l /\ T!Buckets(table[l]) = c[l]
      /\ (T!Places(k) = {} <=> v = <<>>) /\ (PairsNow[Name[k]] = <<>> <=> v = <<>>)
      /\ v # <<>> => T!Min(T!Places(k)) = v[1] /\ Head(PairsNow[Name[k]]) = PairIn(buckets, c[l][v[1]])
  BY <1>1, NewestIs
<1> HIDE DEF l, v
<1>4. answer' = IF PairsNow[Name[k]] = <<>> THEN NULL ELSE Head(PairsNow[Name[k]])
  <2>1. \A a : T!Pair(a) = PairIn(buckets, a)
    BY SameTable
  <2> QED
    BY <1>2, <1>3, <2>1
<1>5. IsTable(buckets', table', location', bucket', c, e)
  BY <1>1, <1>2
<1>6. PairsNow' = PairsNow /\ LeftNow' = LeftNow /\ TableInv'
  BY <1>1, <1>2, <1>5, StateIs, NextStateIs
<1> QED
  BY <1>4, <1>6 DEF T!Table!Find, T!Table!Newest, PairsNow, LeftNow

(* The newest pair of a key is removed.                                    *)
LEMMA TableRemove ==
  ASSUME T!HashTablesAssumption, TableInv, NEW k \in Key, T!Remove(k)
  PROVE  TableInv' /\ T!Table!Remove(k)
<1>1. PICK c, e : IsTable(buckets, table, location, bucket, c, e)
  BY DEF TableInv
<1> DEFINE n == Name[k]
           l == At(n)
           s == c[l]
           v == e[n]
           j == v[1]
           p == PairsNow[n]
<1>2. /\ n \in T!Names /\ l \in T!Locations
      /\ T!Location(k) = l /\ T!Buckets(table[l]) = s
      /\ (T!Places(k) = {} <=> v = <<>>) /\ (p = <<>> <=> v = <<>>)
      /\ v # <<>> => T!Min(T!Places(k)) = j /\ j \in 1 .. Len(s) /\ Head(p) = PairIn(buckets, s[j])
  BY <1>1, NewestIs
<1>3. location' = -1 /\ bucket' = NULL
  BY DEF T!Remove, T!EndEnumeration
<1>4. PairsNow = PairsBy(buckets, c, e) /\ DOMAIN PairsNow = T!Names
  BY <1>1, StateIs DEF PairsNow
<1> SUFFICES /\ TableInv' /\ answer' = (IF p = <<>> THEN NULL ELSE Head(p)) /\ LeftNow' = {}
             /\ PairsNow' = [PairsNow EXCEPT ![n] = IF @ = <<>> THEN @ ELSE Tail(@)]
  BY DEF T!Table!Remove, T!Table!Newest, PairsNow, LeftNow
<1>5. CASE v = <<>>
  <2>1. answer' = NULL /\ buckets' = buckets /\ table' = table
    <3> HIDE DEF v
    <3> QED
      BY <1>2, <1>5 DEF T!Remove
  <2>2. IsTable(buckets', table', location', bucket', c, e)
    BY <1>1, <1>3, <2>1 DEF IsTable, Walking
  <2>3. TableInv' /\ PairsNow' = PairsBy(buckets', c, e)
        /\ LeftNow' = PlacesIn(c, e, Rest(c, location', bucket'))
    BY <2>2, NextStateIs
  <2>4. LeftNow' = {} /\ PairsNow' = PairsNow
    BY <1>3, <1>4, <2>1, <2>3, NoneLeft
  <2> HIDE DEF v
  <2>5. p = <<>>
    BY <1>2, <1>5
  <2>6. [PairsNow EXCEPT ![n] = IF @ = <<>> THEN @ ELSE Tail(@)] = PairsNow
    <3> DEFINE P == PairsNow
    <3>1. P = [m \in T!Names |-> P[m]]
      BY DEF PairsNow
    <3>2. P[n] = <<>>
      BY <2>5
    <3> HIDE DEF P, n, p
    <3>3. [P EXCEPT ![n] = IF P[n] = <<>> THEN P[n] ELSE Tail(P[n])] = [P EXCEPT ![n] = P[n]]
      BY <3>2
    <3>4. [P EXCEPT ![n] = P[n]] = P
      BY <3>1
    <3> QED
      BY <3>3, <3>4 DEF P
  <2> QED
    BY <2>1, <2>3, <2>4, <2>5, <2>6
<1>6. CASE v # <<>>
  <2>1. /\ T!Places(k) # {} /\ T!Min(T!Places(k)) = j /\ j \in 1 .. Len(s)
        /\ T!Buckets(table[T!Location(k)]) = s
    <3> HIDE DEF v, s, j
    <3> QED
      BY <1>2, <1>6
  <2> HIDE DEF j, s, v, p
  <2>2. /\ answer' = T!Pair(s[j])
        /\ IF j = 1
           THEN table' = [table EXCEPT ![l] = buckets[s[j]].next] /\ buckets' = T!Freed(buckets, s[1])
           ELSE /\ buckets' = T!Freed([buckets EXCEPT ![s[j - 1]].next = buckets[s[j]].next], s[j])
                /\ table' = table
    <3>1. T!Location(k) = l
      BY <1>2
    <3> HIDE DEF l
    <3> QED
      BY <2>1, <3>1, Zenon DEF T!Remove
  <2>3. /\ Chained(buckets, table, c) /\ NamesOrdered(buckets, c, e) /\ v # <<>>
        /\ s \in Seq(Address) /\ Len(s) \in Nat /\ \A i \in 1 .. Len(s) : s[i] \in DOMAIN buckets
        /\ \A i, m \in 1 .. Len(s) : s[i] = s[m] => i = m
    <3>1. Chained(buckets, table, c) /\ NamesOrdered(buckets, c, e)
      BY <1>1 DEF IsTable
    <3>2. /\ s \in Seq(Address) /\ Len(s) \in Nat /\ \A i \in 1 .. Len(s) : s[i] \in DOMAIN buckets
          /\ \A i, m \in 1 .. Len(s) : s[i] = s[m] => i = m
      BY <1>2, <3>1, ChainedFacts DEF s
    <3> QED
      BY <1>6, <3>1, <3>2
  <2>4. CutFrom(buckets, s, j, buckets')
    <3>1. CASE j = 1
      <4>1. buckets' = [b \in DOMAIN buckets \ {s[j]} |-> buckets[b]]
        BY <2>2, <3>1 DEF T!Freed
      <4>2. ~ (j > 1)
        BY <3>1
      <4> QED
        BY <4>1, <4>2 DEF CutFrom
    <3>2. CASE j # 1
      <4> DEFINE y == buckets[s[j]].next
                 z == s[j - 1]
                 g == [buckets EXCEPT ![z].next = y]
      <4>1. buckets' = T!Freed(g, s[j])
        BY <2>2, <3>2
      <4>2. j > 1 /\ z \in DOMAIN buckets
        <5>1. j > 1 /\ j - 1 \in 1 .. Len(s)
          BY <2>1, <2>3, <3>2
        <5> QED
          BY <2>3, <5>1
      <4> HIDE DEF y, z
      <4>3. DOMAIN g = DOMAIN buckets
            /\ \A b \in DOMAIN buckets : g[b] = IF b = z THEN [buckets[b] EXCEPT !.next = y] ELSE buckets[b]
        BY <4>2
      <4> HIDE DEF g
      <4>4. DOMAIN buckets' = DOMAIN g \ {s[j]} /\ \A b \in DOMAIN g \ {s[j]} : buckets'[b] = g[b]
        BY <4>1 DEF T!Freed
      <4>5. \A b \in DOMAIN buckets' :
              buckets'[b] = IF b = z THEN [buckets[b] EXCEPT !.next = y] ELSE buckets[b]
        BY <4>3, <4>4
      <4> QED
        BY <4>2, <4>3, <4>4, <4>5 DEF CutFrom, y, z
    <3> QED
      BY <3>1, <3>2
  <2>5. table' = IF j = 1 THEN [table EXCEPT ![l] = buckets[s[1]].next] ELSE table
    BY <2>2
  <2>6. PICK g, f : g = buckets' /\ f = table'
    OBVIOUS
  <2>7. Removed(buckets, table, c, e, k, j, g, f)
    BY <2>3, <2>4, <2>5, <2>6 DEF Removed, j, v, s
  <2>8. PICK c2, e2 :
          /\ IsTable(g, f, -1, NULL, c2, e2)
          /\ PairsBy(g, c2, e2) = [PairsBy(buckets, c, e) EXCEPT ![n] = Tail(@)]
    <3>1. IsWithoutPair(buckets, c, e, k, g, f)
      BY <2>7, TableRemoved
    <3> QED
      BY <3>1 DEF IsWithoutPair
  <2>9. IsTable(buckets', table', location', bucket', c2, e2)
    BY <1>3, <2>6, <2>8
  <2>10. /\ TableInv' /\ PairsNow' = PairsBy(g, c2, e2)
         /\ LeftNow' = PlacesIn(c2, e2, Rest(c2, location', bucket'))
    BY <2>6, <2>9, NextStateIs
  <2>11. p # <<>> /\ answer' = Head(p)
    <3>1. T!Pair(s[j]) = PairIn(buckets, s[j])
      BY SameTable
    <3>2. p # <<>> /\ Head(p) = PairIn(buckets, s[j])
      BY <1>2, <1>6
    <3> QED
      BY <2>2, <3>1, <3>2
  <2>12. LeftNow' = {}
    BY <1>3, <2>10, NoneLeft
  <2>13. PairsNow' = [PairsNow EXCEPT ![n] = IF @ = <<>> THEN @ ELSE Tail(@)]
    <3> DEFINE P == PairsNow
    <3>1. P[n] # <<>>
      BY <2>11 DEF p
    <3>2. PairsNow' = [P EXCEPT ![n] = Tail(P[n])]
      BY <1>4, <2>8, <2>10
    <3> HIDE DEF P, n
    <3>3. [P EXCEPT ![n] = IF P[n] = <<>> THEN P[n] ELSE Tail(P[n])] = [P EXCEPT ![n] = Tail(P[n])]
      BY <3>1
    <3> QED
      BY <3>2, <3>3 DEF P
  <2> QED
    BY <2>10, <2>11, <2>12, <2>13
<1> QED
  BY <1>5, <1>6

(* LaterFrom is where Enumerate and Advance go.                            *)
LEMMA LaterSteps ==
  /\ T!Enumerate =>
       location' = LaterFrom(table, -1)[1] /\ bucket' = LaterFrom(table, -1)[2]
  /\ T!Advance =>
       /\ location' = AdvancedTo(buckets, table, location, bucket)[1]
       /\ bucket' = AdvancedTo(buckets, table, location, bucket)[2]
<1>1. \A i : T!Later(i) = LaterIn(table, i)
  BY DEF T!Later, LaterIn
<1>2. T!Enumerate => location' = LaterFrom(table, -1)[1] /\ bucket' = LaterFrom(table, -1)[2]
  BY <1>1 DEF T!Enumerate, T!EndEnumeration, LaterFrom
<1>3. ASSUME T!Advance
      PROVE  /\ location' = AdvancedTo(buckets, table, location, bucket)[1]
             /\ bucket' = AdvancedTo(buckets, table, location, bucket)[2]
  BY <1>1, <1>3 DEF T!Advance, T!EndEnumeration, AdvancedTo, LaterFrom
<1> QED
  BY <1>2, <1>3

(* An enumeration begins: every pair is still to be given.                 *)
LEMMA TableEnumerate ==
  ASSUME T!HashTablesAssumption, TableInv, T!Enumerate
  PROVE  TableInv' /\ T!Table!Enumerate
<1>1. PICK c, e : IsTable(buckets, table, location, bucket, c, e)
  BY DEF TableInv
<1>2. UNCHANGED <<buckets, table, answer>>
      /\ location' = LaterFrom(table, -1)[1] /\ bucket' = LaterFrom(table, -1)[2]
  BY LaterSteps DEF T!Enumerate
<1>3. Chained(buckets, table, c) /\ NamesOrdered(buckets, c, e)
  BY <1>1 DEF IsTable
<1>4. /\ Walking(c, location', bucket')
      /\ Rest(c, location', bucket') =
           {a \in Address : \E l \in T!Locations : l > -1 /\ \E j \in 1 .. Len(c[l]) : a = c[l][j]}
  <2>1. /\ Walking(c, LaterFrom(table, -1)[1], LaterFrom(table, -1)[2])
        /\ Rest(c, LaterFrom(table, -1)[1], LaterFrom(table, -1)[2]) =
             {a \in Address : \E l \in T!Locations : l > -1 /\ \E j \in 1 .. Len(c[l]) : a = c[l][j]}
    <3>1. GoesOn(c, table, -1)
      BY <1>3, LaterIs
    <3> QED
      BY <3>1 DEF GoesOn
  <2> QED
    BY <1>2, <2>1
<1>5. IsTable(buckets', table', location', bucket', c, e)
  BY <1>2, <1>3, <1>4 DEF IsTable
<1>6. /\ TableInv' /\ PairsNow' = PairsBy(buckets', c, e) /\ PairsNow = PairsBy(buckets, c, e)
      /\ LeftNow' = PlacesIn(c, e, Rest(c, location', bucket'))
  BY <1>1, <1>5, StateIs, NextStateIs
<1>7. ASSUME NEW n \in T!Names
      PROVE  /\ DOMAIN PairsNow[n] = 1 .. Len(e[n]) /\ Len(e[n]) \in Nat
             /\ \A i \in 1 .. Len(e[n]) : c[At(n)][e[n][i]] \in Rest(c, location', bucket')
  <2>1. DOMAIN PairsNow[n] = 1 .. Len(e[n])
    BY <1>6 DEF PairsBy, PairsIn
  <2>2. InOrder(e[n], PlacesOf(buckets, c[At(n)], n)) /\ At(n) \in T!Locations
    BY <1>3, LocationFacts DEF NamesOrdered
  <2>3. Len(e[n]) \in Nat /\ \A i \in 1 .. Len(e[n]) : e[n][i] \in 1 .. Len(c[At(n)])
    BY <2>2 DEF InOrder, PlacesOf
  <2>4. At(n) > -1 /\ \A j \in 1 .. Len(c[At(n)]) : c[At(n)][j] \in Address
    <3>1. At(n) \in Nat
      BY <2>2, LocationFacts
    <3> QED
      BY <1>3, <2>2, <3>1, ChainedFacts
  <2> QED
    BY <1>4, <2>1, <2>2, <2>3, <2>4
<1>8. LeftNow' = UNION {{n} \X DOMAIN PairsNow[n] : n \in T!Names}
  <2> DEFINE X == Rest(c, location', bucket')
  <2>1. \A q : q \in PlacesIn(c, e, X) <=> \E n \in T!Names : \E i \in 1 .. Len(e[n]) : q = <<n, i>>
    <3> HIDE DEF X
    <3>1. \A n \in T!Names : \A i \in 1 .. Len(e[n]) : i \in Nat /\ c[At(n)][e[n][i]] \in X
      BY <1>7 DEF X
    <3> QED
      BY <3>1 DEF PlacesIn
  <2>2. \A q : q \in UNION {{n} \X DOMAIN PairsNow[n] : n \in T!Names} <=>
          \E n \in T!Names : \E i \in 1 .. Len(e[n]) : q = <<n, i>>
    BY <1>7
  <2> HIDE DEF X
  <2>3. PlacesIn(c, e, X) = UNION {{n} \X DOMAIN PairsNow[n] : n \in T!Names}
    BY <2>1, <2>2
  <2> QED
    BY <1>6, <2>3 DEF X
<1>9. PairsNow' = PairsNow
  BY <1>2, <1>6
<1>10. T!Table!Names = T!Names
  BY DEF T!Table!Names, T!Names
<1> QED
  BY <1>2, <1>6, <1>8, <1>9, <1>10 DEF T!Table!Enumerate, T!Table!Places, PairsNow, LeftNow

(* The enumeration gives one more pair, or there are no more.              *)
LEMMA TableGive ==
  ASSUME T!HashTablesAssumption, TableInv, T!Give
  PROVE  TableInv' /\ T!Table!Give
<1>1. PICK c, e : IsTable(buckets, table, location, bucket, c, e)
  BY DEF TableInv
<1>2. Chained(buckets, table, c) /\ NamesOrdered(buckets, c, e) /\ Walking(c, location, bucket)
  BY <1>1 DEF IsTable
<1>3. PairsNow = PairsBy(buckets, c, e) /\ LeftNow = PlacesIn(c, e, Rest(c, location, bucket))
  BY <1>1, StateIs
<1>4. UNCHANGED <<buckets, table>>
  BY DEF T!Give
<1> SUFFICES /\ TableInv' /\ PairsNow' = PairsNow
             /\ IF LeftNow = {}
                THEN answer' = NULL /\ LeftNow' = LeftNow
                ELSE \E q \in LeftNow : answer' = PairsNow[q[1]][q[2]] /\ LeftNow' = LeftNow \ {q}
  BY DEF T!Table!Give, PairsNow, LeftNow
<1>5. CASE bucket = NULL
  <2>1. answer' = NULL /\ UNCHANGED <<location, bucket>>
    BY <1>5 DEF T!Give
  <2>2. IsTable(buckets', table', location', bucket', c, e)
    BY <1>1, <1>4, <2>1
  <2>3. TableInv' /\ PairsNow' = PairsBy(buckets', c, e)
        /\ LeftNow' = PlacesIn(c, e, Rest(c, location', bucket'))
    BY <2>2, NextStateIs
  <2> QED
    BY <1>3, <1>4, <1>5, <2>1, <2>3, NoneLeft
<1>6. CASE bucket # NULL
  <2>1. answer' = T!Pair(bucket) /\ T!Advance
    BY <1>6 DEF T!Give
  <2>2. /\ location' = AdvancedTo(buckets, table, location, bucket)[1]
        /\ bucket' = AdvancedTo(buckets, table, location, bucket)[2]
    BY <2>1, LaterSteps
  <2>3. /\ Walking(c, location', bucket') /\ bucket \in Rest(c, location, bucket)
        /\ Rest(c, location', bucket') = Rest(c, location, bucket) \ {bucket}
    BY <1>2, <1>6, <2>2, AdvanceIs
  <2>4. IsTable(buckets', table', location', bucket', c, e)
    BY <1>2, <1>4, <2>3 DEF IsTable
  <2>5. TableInv' /\ PairsNow' = PairsBy(buckets', c, e)
        /\ LeftNow' = PlacesIn(c, e, Rest(c, location', bucket'))
    BY <2>4, NextStateIs
  <2>6. PICK j \in 1 .. Len(c[location]) : location \in T!Locations /\ bucket = c[location][j]
    BY <1>2, <1>6 DEF Walking
  <2>7. PICK n, q : PlaceOf(buckets, c, e, bucket, n, q)
    BY <1>2, <2>6, OnePlace
  <2> DEFINE X == Rest(c, location, bucket)
  <2>8. /\ <<n, q>> \in LeftNow /\ LeftNow' = LeftNow \ {<<n, q>>}
        /\ PairsNow[n][q] = PairIn(buckets, bucket)
    <3>1. /\ <<n, q>> \in PlacesIn(c, e, X)
          /\ PlacesIn(c, e, X \ {bucket}) = PlacesIn(c, e, X) \ {<<n, q>>}
          /\ PairsBy(buckets, c, e)[n][q] = PairIn(buckets, bucket)
      BY <2>3, <2>7 DEF PlaceOf
    <3> QED
      BY <1>3, <2>3, <2>5, <3>1
  <2>9. answer' = PairsNow[n][q]
    BY <2>1, <2>8, SameTable
  <2>10. PairsNow' = PairsNow
    BY <1>3, <1>4, <2>5
  <2>11. \E p \in LeftNow : answer' = PairsNow[p[1]][p[2]] /\ LeftNow' = LeftNow \ {p}
    BY <2>8, <2>9
  <2> QED
    BY <2>5, <2>8, <2>10, <2>11
<1> QED
  BY <1>5, <1>6

(* A table without buckets.                                                *)
LEMMA EmptyTable ==
  ASSUME T!HashTablesAssumption
  PROVE  \E c, e : /\ IsTable(<<>>, [l \in T!Locations |-> NULL], -1, NULL, c, e)
                   /\ PairsBy(<<>>, c, e) = [n \in T!Names |-> <<>>]
<1> DEFINE c == [l \in T!Locations |-> <<>>]
           e == [n \in T!Names |-> <<>>]
           d == [l \in T!Locations |-> NULL]
<1>1. Chained(<<>>, d, c)
  <2>1. IsChain(Links(<<>>), NULL, <<>>)
    BY DEF IsChain
  <2>2. InChain(<<>>, <<>>, 0) /\ \A l : InChain(<<>>, <<>>, l)
    BY DEF InChain
  <2>3. d \in [T!Locations -> Address \cup {NULL}] /\ c \in [T!Locations -> Seq(Address)]
    OBVIOUS
  <2>4. DOMAIN <<>> \subseteq Address
    OBVIOUS
  <2>5. \A l \in T!Locations : d[l] = NULL /\ c[l] = <<>> /\ \A i \in 1 .. Len(c[l]) : FALSE
    OBVIOUS
  <2> HIDE DEF c, d
  <2> QED
    BY <2>1, <2>2, <2>3, <2>4, <2>5 DEF Chained
<1>2. NamesOrdered(<<>>, c, e)
  <2>1. \A n \in T!Names : e[n] = <<>> /\ c[At(n)] = <<>>
    BY LocationFacts
  <2>2. \A n : InOrder(<<>>, PlacesOf(<<>>, <<>>, n))
    BY DEF InOrder, PlacesOf
  <2>3. e \in [T!Names -> Seq(Nat)]
    OBVIOUS
  <2> HIDE DEF c, e
  <2> QED
    BY <2>1, <2>2, <2>3 DEF NamesOrdered
<1>3. IsTable(<<>>, d, -1, NULL, c, e)
  BY <1>1, <1>2 DEF IsTable, Walking
<1>4. PairsBy(<<>>, c, e) = [n \in T!Names |-> <<>>]
  BY DEF PairsBy, PairsIn
<1> QED
  BY <1>3, <1>4

(* The table is freed, and there is a new one.                             *)
LEMMA TableFree ==
  ASSUME T!HashTablesAssumption, TableInv, T!Free
  PROVE  TableInv' /\ T!Table!Free
<1>1. /\ buckets' = <<>> /\ table' = [l \in T!Locations |-> NULL]
      /\ location' = -1 /\ bucket' = NULL /\ answer' = NULL
  BY DEF T!Free, T!EndEnumeration
<1>2. PICK c, e : /\ IsTable(<<>>, [l \in T!Locations |-> NULL], -1, NULL, c, e)
                  /\ PairsBy(<<>>, c, e) = [n \in T!Names |-> <<>>]
  BY EmptyTable
<1>3. IsTable(buckets', table', location', bucket', c, e)
  BY <1>1, <1>2
<1>4. TableInv' /\ PairsNow' = [n \in T!Names |-> <<>>] /\ LeftNow' = {}
  BY <1>1, <1>2, <1>3, NextStateIs, NoneLeft
<1>5. T!Table!Names = T!Names
  BY DEF T!Table!Names, T!Names
<1> QED
  BY <1>1, <1>4, <1>5 DEF T!Table!Free, PairsNow, LeftNow

(* TablesImplementDictionary: however keys collide, hide each other and    *)
(* are removed, and whatever addresses malloc hands out again, the buckets *)
(* are a dictionary, and an enumeration gives every pair once and then no  *)
(* more.                                                                   *)
THEOREM TablesAreDictionaries == T!Spec => TablesImplementDictionary
<1>0. T!HashTablesAssumption
  BY ContainersAssumption
<1>1. T!Init => TableInv /\ T!Table!Init
  <2> SUFFICES ASSUME T!Init PROVE TableInv /\ T!Table!Init
    OBVIOUS
  <2>1. /\ buckets = <<>> /\ table = [l \in T!Locations |-> NULL]
        /\ location = -1 /\ bucket = NULL /\ answer = NULL
    BY DEF T!Init
  <2>2. PICK c, e : /\ IsTable(<<>>, [l \in T!Locations |-> NULL], -1, NULL, c, e)
                    /\ PairsBy(<<>>, c, e) = [n \in T!Names |-> <<>>]
    BY <1>0, EmptyTable
  <2>3. IsTable(buckets, table, location, bucket, c, e)
    BY <2>1, <2>2
  <2>4. TableInv /\ PairsNow = [n \in T!Names |-> <<>>] /\ LeftNow = {}
    BY <2>1, <2>2, <2>3, <1>0, StateIs, NoneLeft DEF TableInv
  <2>5. T!Table!Names = T!Names
    BY DEF T!Table!Names, T!Names
  <2> QED
    BY <2>1, <2>4, <2>5 DEF T!Table!Init, PairsNow, LeftNow
<1>2. TableInv /\ [T!Next]_(T!vars) => TableInv' /\ [T!Table!Next]_(T!Table!vars)
  <2> SUFFICES ASSUME TableInv, [T!Next]_(T!vars)
               PROVE  TableInv' /\ [T!Table!Next]_(T!Table!vars)
    OBVIOUS
  <2>1. ASSUME NEW k \in Key, NEW x \in Datum, T!Insert(k, x) PROVE TableInv' /\ [T!Table!Next]_(T!Table!vars)
    BY <2>1, <1>0, TableInsert DEF T!Table!Next
  <2>2. ASSUME NEW k \in Key, T!Find(k) PROVE TableInv' /\ [T!Table!Next]_(T!Table!vars)
    BY <2>2, <1>0, TableFind DEF T!Table!Next
  <2>3. ASSUME NEW k \in Key, T!Remove(k) PROVE TableInv' /\ [T!Table!Next]_(T!Table!vars)
    BY <2>3, <1>0, TableRemove DEF T!Table!Next
  <2>4. CASE T!Enumerate
    BY <2>4, <1>0, TableEnumerate DEF T!Table!Next
  <2>5. CASE T!Give
    BY <2>5, <1>0, TableGive DEF T!Table!Next
  <2>6. CASE T!Free
    BY <2>6, <1>0, TableFree DEF T!Table!Next
  <2>7. CASE UNCHANGED T!vars
    <3>1. UNCHANGED <<buckets, table, location, bucket, answer>>
      BY <2>7 DEF T!vars
    <3>2. TableInv'
      BY <3>1 DEF TableInv
    <3>3. PICK c, e : IsTable(buckets, table, location, bucket, c, e)
      BY DEF TableInv
    <3>4. IsTable(buckets', table', location', bucket', c, e)
      BY <3>1, <3>3
    <3>5. PairsNow' = PairsNow /\ LeftNow' = LeftNow
      BY <3>1, <3>3, <1>0, <3>4, StateIs, NextStateIs
    <3>6. UNCHANGED T!Table!vars
      BY <3>1, <3>5 DEF T!Table!vars, PairsNow, LeftNow
    <3> QED
      BY <3>2, <3>6
  <2> QED
    BY <2>1, <2>2, <2>3, <2>4, <2>5, <2>6, <2>7 DEF T!Next
<1> QED
  BY <1>1, <1>2, PTL DEF T!Spec, TablesImplementDictionary, T!ImplementsDictionary, T!Table!Spec
=============================================================================
