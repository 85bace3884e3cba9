--------------------------- MODULE ProgramsProofs ---------------------------
(***************************************************************************)
(* Proofs about icecc and icedc as commands, for every directory and every *)
(* sequence of command lines, about GuiExec, which runs them, and about    *)
(* the Tokenizer that reads their sources.                                 *)
(***************************************************************************)
EXTENDS Programs, GuiExec, Tokenizer, FiniteSetTheorems, SequenceTheorems,
        WellFoundedInduction, TLAPS

(* Induction over Nat, as a fact about sets. *)
LEMMA LeastNumber ==
  ASSUME NEW U, U \subseteq Nat, U # {}
  PROVE  \E x \in U : \A y \in U : x <= y
<1>1. PICK x \in U : \A y \in U : ~ (<<y, x>> \in OpToRel(<, Nat))
  BY WFMin, NatLessThanWellFounded
<1>2. \A y \in U : ~ (y < x)
  BY <1>1 DEF OpToRel
<1> QED
  BY <1>2

-----------------------------------------------------------------------------
(* The parts that arguments play. *)

IsValue(c, f, n) ==
  /\ n > 1 /\ ~ f[n - 1]
  /\ c.args[n - 1] \in WithValue(c.program)
  /\ \A k \in 1 .. n - 1 : c.args[k] = "--" => f[k]
ValuesUpTo(c, m, f) == f = [n \in 0 .. m |-> IsValue(c, f, n)]

LEMMA ValuesExist ==
  ASSUME NEW c, NEW m \in Nat
  PROVE  \E f : ValuesUpTo(c, m, f)
<1> DEFINE none == {k \in Nat : ~ \E f : ValuesUpTo(c, k, f)}
<1> SUFFICES ASSUME none # {} PROVE FALSE
  OBVIOUS
<1>1. PICK k \in none : \A y \in none : k <= y
  BY LeastNumber
<1>2. k # 0
  <2> DEFINE f == [n \in 0 .. 0 |-> FALSE]
  <2>1. ASSUME NEW n \in 0 .. 0 PROVE IsValue(c, f, n) = FALSE
    BY DEF IsValue
  <2>2. f = [n \in 0 .. 0 |-> IsValue(c, f, n)]
    BY <2>1
  <2>3. ValuesUpTo(c, 0, f)
    BY <2>2 DEF ValuesUpTo
  <2> QED
    BY <2>3
<1>3. k \in Nat /\ k - 1 \in Nat /\ k - 1 \notin none
  BY <1>1, <1>2
<1>4. PICK f : ValuesUpTo(c, k - 1, f)
  BY <1>3
<1> DEFINE g == [n \in 0 .. k |-> IF n = k THEN IsValue(c, f, k) ELSE f[n]]
<1>5. \A n \in 0 .. k - 1 : n \in 0 .. k /\ g[n] = f[n]
  BY <1>3
<1>6. \A n \in 0 .. k - 1 : f[n] = IsValue(c, f, n)
  BY <1>4 DEF ValuesUpTo
<1>7. ASSUME NEW n \in 0 .. k PROVE IsValue(c, f, n) = IsValue(c, g, n)
  <2>1. n > 1 => n - 1 \in 0 .. k - 1
    BY <1>3
  <2>2. \A j \in 1 .. n - 1 : j \in 0 .. k - 1
    BY <1>3
  <2> HIDE DEF g
  <2> QED
    BY <1>5, <2>1, <2>2 DEF IsValue
<1>8. ASSUME NEW n \in 0 .. k PROVE g[n] = IsValue(c, g, n)
  <2>1. CASE n = k
    BY <1>7, <2>1
  <2>2. CASE n # k
    <3>1. n \in 0 .. k - 1
      BY <1>3, <2>2
    <3> HIDE DEF g
    <3> QED
      BY <1>5, <1>6, <1>7, <3>1
  <2> QED
    BY <2>1, <2>2
<1>9. ValuesUpTo(c, k, g)
  <2>1. g = [n \in 0 .. k |-> g[n]]
    OBVIOUS
  <2> HIDE DEF g
  <2> QED
    BY <1>8, <2>1 DEF ValuesUpTo
<1> QED
  BY <1>1, <1>9

LEMMA CommandFacts ==
  ASSUME NEW c \in Commands
  PROVE  /\ c.program \in {"icecc", "icedc"}
         /\ c.args \in Seq(STRING) /\ Len(c.args) \in Nat /\ DOMAIN c.args = 1 .. Len(c.args)
         /\ \A n \in 1 .. Len(c.args) : c.args[n] \in STRING
         /\ Reading[c] = [version |-> Has(c, "-v"),
              output |-> LastValue(c, "-o", DefaultOutfile[c.program]),
              inputs |-> InputsOf(c),
              inbounds |-> NULL \notin (IF c.program = "icedc" THEN ScriptsOf(c) ELSE {}),
              ids |-> {id % 2^16 : id \in (IF c.program = "icedc" THEN Listed(c, "-i") ELSE {})
                 \cup ((IF c.program = "icedc" THEN ScriptsOf(c) ELSE {}) \ {NULL})}]
<1>1. c.program \in {"icecc", "icedc"} /\ c.args \in Seq(STRING)
  BY ProgramsAssumption DEF IsCommand
<1> QED
  BY <1>1 DEF Reading

(* Value, without the recursion. *)
LEMMA ValueFacts ==
  ASSUME NEW c \in Commands
  PROVE  /\ \A n \in 0 .. Len(c.args) : Value(c)[n] \in BOOLEAN
         /\ ~ Value(c)[0] /\ (Len(c.args) > 0 => ~ Value(c)[1])
         /\ \A n \in 1 .. Len(c.args) - 1 :
              Value(c)[n + 1] <=> /\ ~ Value(c)[n]
                                  /\ c.args[n] \in WithValue(c.program)
                                  /\ \A k \in 1 .. n : c.args[k] = "--" => Value(c)[k]
<1> DEFINE L == Len(c.args)
           f == CHOOSE f : ValuesUpTo(c, L, f)
<1>0. L \in Nat
  BY CommandFacts
<1>1. ValuesUpTo(c, L, f)
  BY <1>0, ValuesExist
<1>2. Value(c) = f
  BY DEF Value, ValuesUpTo, IsValue
<1> HIDE DEF f, L
<1>3. \A n \in 0 .. L : f[n] = IsValue(c, f, n)
  BY <1>1 DEF ValuesUpTo
<1>4. \A n \in 0 .. L : IsValue(c, f, n) \in BOOLEAN
  BY DEF IsValue
<1>5. ~ f[0] /\ (L > 0 => ~ f[1])
  <2>1. ~ IsValue(c, f, 0) /\ ~ IsValue(c, f, 1)
    BY DEF IsValue
  <2>2. 0 \in 0 .. L /\ (L > 0 => 1 \in 0 .. L)
    BY <1>0
  <2> QED
    BY <1>3, <2>1, <2>2
<1>6. ASSUME NEW n \in 1 .. L - 1
      PROVE  f[n + 1] <=> /\ ~ f[n] /\ c.args[n] \in WithValue(c.program)
                          /\ \A k \in 1 .. n : c.args[k] = "--" => f[k]
  <2>1. n + 1 \in 0 .. L /\ n + 1 > 1 /\ (n + 1) - 1 = n
    BY <1>0
  <2> QED
    BY <1>3, <2>1 DEF IsValue
<1> QED
  BY <1>2, <1>3, <1>4, <1>5, <1>6 DEF L

(* An argument that is no value, and the one after it. *)
LEMMA NextArgument ==
  ASSUME NEW c \in Commands, NEW m \in 1 .. Len(c.args), ~ Value(c)[m]
  PROVE  LET word == c.args[m]
             switched == word \in Dashed /\ ~ Plain(c, m) IN
         /\ m < Len(c.args) =>
              (Value(c)[m + 1] <=> word # "--" /\ switched /\ word \in WithValue(c.program))
         /\ Plain(c, m + 1) <=> Plain(c, m) \/ word = "--"
         /\ m \in Switches(c) <=> word # "--" /\ switched
         /\ m \in Named(c) <=> word # "--" /\ ~ switched
         /\ \A o : m \notin Values(c, o)
<1>0. Len(c.args) \in Nat /\ DOMAIN c.args = 1 .. Len(c.args)
  BY CommandFacts
<1>1. "--" \notin WithValue(c.program) /\ WithValue(c.program) \subseteq Dashed
  BY ProgramsAssumption DEF WithValue, Lists
<1>2. \A k \in 1 .. m : Value(c)[k] \in BOOLEAN
  BY <1>0, ValueFacts
<1>3. m - 1 \in Int /\ 1 .. m = 1 .. m - 1 \cup {m} /\ (m + 1) - 1 = m
  BY <1>0
<1>4. Plain(c, m + 1) <=> Plain(c, m) \/ c.args[m] = "--"
  BY <1>3 DEF Plain
<1>5. ASSUME m < Len(c.args)
      PROVE  Value(c)[m + 1] <=> /\ c.args[m] # "--" /\ c.args[m] \in Dashed /\ ~ Plain(c, m)
                                 /\ c.args[m] \in WithValue(c.program)
  <2>1. m \in 1 .. Len(c.args) - 1
    BY <1>0, <1>5
  <2>2. Value(c)[m + 1] <=> /\ c.args[m] \in WithValue(c.program)
                            /\ \A k \in 1 .. m : c.args[k] = "--" => Value(c)[k]
    BY <2>1, ValueFacts
  <2>3. (\A k \in 1 .. m : c.args[k] = "--" => Value(c)[k])
          <=> ~ Plain(c, m) /\ c.args[m] # "--"
    BY <1>2, <1>3 DEF Plain
  <2> QED
    BY <1>1, <2>2, <2>3
<1>6. m \in Switches(c) <=> c.args[m] # "--" /\ c.args[m] \in Dashed /\ ~ Plain(c, m)
  BY <1>0 DEF Switches
<1>7. m \in Named(c) <=> c.args[m] # "--" /\ m \notin Switches(c)
  BY <1>0 DEF Named
<1>8. \A o : m \notin Values(c, o)
  BY DEF Values
<1> QED
  BY <1>4, <1>5, <1>6, <1>7, <1>8

(* And a value. *)
LEMMA NextIsValue ==
  ASSUME NEW c \in Commands, NEW m \in 2 .. Len(c.args), Value(c)[m]
  PROVE  /\ m < Len(c.args) => ~ Value(c)[m + 1]
         /\ Plain(c, m + 1) <=> Plain(c, m)
         /\ m \notin Switches(c) /\ m \notin Named(c)
         /\ \A o : m \in Values(c, o) <=> c.args[m - 1] = o
<1>0. Len(c.args) \in Nat
  BY CommandFacts
<1>1. m < Len(c.args) => m \in 1 .. Len(c.args) - 1
  BY <1>0
<1>2. m \in 1 .. Len(c.args) /\ 1 .. m = 1 .. m - 1 \cup {m} /\ (m + 1) - 1 = m
  BY <1>0
<1>3. Plain(c, m + 1) <=> Plain(c, m)
  BY <1>2 DEF Plain
<1>4. m < Len(c.args) => ~ Value(c)[m + 1]
  BY <1>1, ValueFacts
<1>5. m \notin Switches(c) /\ m \notin Named(c)
  BY DEF Switches, Named
<1>6. \A o : m \in Values(c, o) <=> c.args[m - 1] = o
  BY DEF Values
<1> QED
  BY <1>3, <1>4, <1>5, <1>6

(* The last of the positions N, up to m, and what is said there. *)
Below(N, m) == {n \in N : n < m}
Says(N, word, x, none) ==
  \/ N = {} /\ x = none
  \/ \E n \in N : (\A k \in N : k <= n) /\ x = word[n]

LEMMA BelowNext ==
  ASSUME NEW N, N \subseteq Int, NEW m \in Int
  PROVE  Below(N, m + 1) = IF m \in N THEN Below(N, m) \cup {m} ELSE Below(N, m)
<1>1. \A n \in Int : n < m + 1 <=> n < m \/ n = m
  OBVIOUS
<1> QED
  BY <1>1 DEF Below

LEMMA SaysNext ==
  ASSUME NEW N, N \subseteq Int, NEW m \in Int, NEW word, NEW x, NEW none
  PROVE  /\ m \notin N /\ Says(Below(N, m), word, x, none) => Says(Below(N, m + 1), word, x, none)
         /\ m \in N => Says(Below(N, m + 1), word, word[m], none)
<1>1. ASSUME m \in N PROVE Says(Below(N, m + 1), word, word[m], none)
  <2>1. m \in Below(N, m + 1) /\ \A k \in Below(N, m + 1) : k <= m
    BY <1>1 DEF Below
  <2> QED
    BY <2>1 DEF Says
<1> QED
  BY <1>1, BelowNext

LEMMA SaysLatest ==
  ASSUME NEW N, N \subseteq Int, N # {}, NEW word, NEW x, NEW none, Says(N, word, x, none)
  PROVE  Latest({[at |-> n, is |-> word[n]] : n \in N}).is = x
<1> DEFINE S == {[at |-> n, is |-> word[n]] : n \in N}
<1>1. PICK n \in N : (\A k \in N : k <= n) /\ x = word[n]
  BY DEF Says
<1>2. [at |-> n, is |-> word[n]] \in S
  OBVIOUS
<1>3. \A y \in S : \E k \in N : y.at = k /\ y.is = word[k]
  OBVIOUS
<1>4. \A y \in S : y.at <= n
  BY <1>1, <1>3
<1>5. [at |-> n, is |-> word[n]].at = n
  OBVIOUS
<1>6. \E y \in S : \A z \in S : z.at <= y.at
  <2> HIDE DEF S
  <2> QED
    BY <1>2, <1>4, <1>5
<1>7. Latest(S) \in S /\ \A z \in S : z.at <= Latest(S).at
  <2> HIDE DEF S
  <2> QED
    BY <1>6 DEF Latest
<1>8. PICK k \in N : Latest(S).at = k /\ Latest(S).is = word[k]
  BY <1>3, <1>7
<1>9. n <= k
  <2> HIDE DEF S
  <2> QED
    BY <1>2, <1>5, <1>7, <1>8
<1>10. k = n
  BY <1>1, <1>9
<1> QED
  BY <1>1, <1>8, <1>10

-----------------------------------------------------------------------------
(* What the loop over the arguments has set when it has come to m. *)

Options ==
  [default : BOOLEAN, infiles : Seq(STRING), outfile : STRING \cup {NULL}, config : STRING,
   configdir : STRING \cup {NULL}, list : [Lists -> Seq(Entry)], separate : BOOLEAN]

Narrow(N) == {x % 2^16 : x \in N}
ListedBelow(c, l, m) == UNION {Range(Numbers[c.args[n]]) : n \in Below(Values(c, l), m)}

ValuesParsed(c, o, m) ==
  /\ Says(Below(Values(c, "-o"), m), c.args, o.outfile, NULL)
  /\ Says(Below(Values(c, "-c"), m), c.args, o.config, DefaultConfig)
  /\ Says(Below(Values(c, "-r"), m), c.args, o.configdir, NULL)
  /\ c.program = "icedc" => \A l \in Lists : Range(o.list[l]) = Narrow(ListedBelow(c, l, m))

DefaultParsed(c, o, m) ==
  o.default <=> \E n \in Below(Switches(c), m) : c.args[n] = UsesDefault[c.program]

(* icecc has the named files in their order, icedc the last of them. *)
InOrder(at) == \A j, k \in DOMAIN at : j < k => at[j] < at[k]
FilesInOrder(N, word, files) ==
  \E at \in [DOMAIN files -> N] :
    /\ InOrder(at)
    /\ \A n \in N : \E k \in DOMAIN files : at[k] = n
    /\ \A k \in DOMAIN files : files[k] = word[at[k]]
Alone(word) == [n \in DOMAIN word |-> <<word[n]>>]
FilesParsed(c, o, m) ==
  IF c.program = "icecc" THEN FilesInOrder(Below(Named(c), m), c.args, o.infiles)
  ELSE Says(Below(Named(c), m), Alone(c.args), o.infiles, <<>>)

Parsed(c, o, ended, m) ==
  /\ m \in 1 .. Len(c.args) + 1 /\ (m <= Len(c.args) => ~ Value(c)[m])
  /\ ended \in BOOLEAN /\ (ended <=> Plain(c, m))
  /\ o \in Options
  /\ ValuesParsed(c, o, m) /\ DefaultParsed(c, o, m) /\ FilesParsed(c, o, m)

LEMMA PositionsAreInts ==
  ASSUME NEW c \in Commands
  PROVE  /\ Switches(c) \subseteq Int /\ Named(c) \subseteq Int
         /\ \A o : Values(c, o) \subseteq Int
         /\ \A n \in Named(c) : n \in 1 .. Len(c.args)
         /\ \A o : \A n \in Values(c, o) : n \in 2 .. Len(c.args) /\ c.args[n - 1] = o
<1>1. DOMAIN c.args = 1 .. Len(c.args) /\ Len(c.args) \in Nat
  BY CommandFacts
<1>2. DOMAIN c.args \subseteq Int
  BY <1>1
<1> QED
  BY <1>1, <1>2 DEF Switches, Named, Values

LEMMA NothingParsed ==
  ASSUME NEW c \in Commands
  PROVE  Parsed(c, NoOptions, FALSE, 1)
<1>0. Len(c.args) \in Nat
  BY CommandFacts
<1>1. ASSUME NEW N, N \subseteq 1 .. Len(c.args) \cup 2 .. Len(c.args) PROVE Below(N, 1) = {}
  <2>1. \A n \in 1 .. Len(c.args) \cup 2 .. Len(c.args) : ~ n < 1
    BY <1>0
  <2> QED
    BY <1>1, <2>1 DEF Below
<1>2. /\ \A o : Values(c, o) \subseteq 1 .. Len(c.args) \cup 2 .. Len(c.args)
      /\ Switches(c) \subseteq 1 .. Len(c.args) /\ Named(c) \subseteq 1 .. Len(c.args)
  BY CommandFacts DEF Values, Switches, Named
<1>3. /\ \A o : Below(Values(c, o), 1) = {}
      /\ Below(Switches(c), 1) = {} /\ Below(Named(c), 1) = {}
  BY <1>1, <1>2
<1>4. NoOptions \in Options
  BY ProgramsAssumption DEF NoOptions, Options
<1>5. \A l \in Lists : Range(NoOptions.list[l]) = {} /\ Narrow(ListedBelow(c, l, 1)) = {}
  BY <1>3 DEF NoOptions, Range, Narrow, ListedBelow
<1>6. ValuesParsed(c, NoOptions, 1)
  BY <1>3, <1>5 DEF ValuesParsed, Says, NoOptions
<1>7. DefaultParsed(c, NoOptions, 1)
  BY <1>3 DEF DefaultParsed, NoOptions
<1>8. FilesParsed(c, NoOptions, 1)
  <2>1. FilesInOrder({}, c.args, <<>>)
    <3>1. DOMAIN <<>> = {}
      OBVIOUS
    <3>2. [k \in {} |-> 0] \in [{} -> {}] /\ InOrder([k \in {} |-> 0])
      BY DEF InOrder
    <3> QED
      BY <3>1, <3>2 DEF FilesInOrder
  <2>2. Says({}, Alone(c.args), <<>>, <<>>)
    BY DEF Says
  <2> QED
    BY <1>3, <2>1, <2>2 DEF FilesParsed, NoOptions
<1>9. ~ Plain(c, 1)
  BY DEF Plain
<1>10. 1 \in 1 .. Len(c.args) + 1 /\ (1 <= Len(c.args) => ~ Value(c)[1])
  BY <1>0, ValueFacts
<1> QED
  BY <1>4, <1>6, <1>7, <1>8, <1>9, <1>10 DEF Parsed

LEMMA BelowSets ==
  ASSUME NEW c \in Commands, NEW m \in Int
  PROVE  /\ \A w : Below(Values(c, w), m + 1) =
                    IF m \in Values(c, w) THEN Below(Values(c, w), m) \cup {m} ELSE Below(Values(c, w), m)
         /\ Below(Named(c), m + 1) =
              IF m \in Named(c) THEN Below(Named(c), m) \cup {m} ELSE Below(Named(c), m)
         /\ Below(Switches(c), m + 1) =
              IF m \in Switches(c) THEN Below(Switches(c), m) \cup {m} ELSE Below(Switches(c), m)
<1>1. /\ Switches(c) \subseteq Int /\ Named(c) \subseteq Int
      /\ \A o : Values(c, o) \subseteq Int
  BY PositionsAreInts
<1> QED
  BY <1>1, BelowNext

(* An argument that is an option without a value, or "--". *)
LEMMA ParsedSwitch ==
  ASSUME NEW c \in Commands, NEW o, NEW ended, NEW m \in 1 .. Len(c.args), Parsed(c, o, ended, m),
         c.args[m] = "--" \/ /\ c.args[m] \in Dashed /\ ~ ended
                             /\ c.args[m] \notin WithValue(c.program),
         NEW p, p \in Options, p.outfile = o.outfile, p.config = o.config,
         p.configdir = o.configdir, p.list = o.list, p.infiles = o.infiles,
         p.default <=> o.default \/ (c.args[m] # "--" /\ c.args[m] = UsesDefault[c.program])
  PROVE  Parsed(c, p, ended \/ c.args[m] = "--", m + 1)
<1>0. Len(c.args) \in Nat /\ m \in Int /\ ~ Value(c)[m] /\ (ended <=> Plain(c, m)) /\ ended \in BOOLEAN
  <2>1. Len(c.args) \in Nat
    BY CommandFacts
  <2>2. m \in Int /\ m <= Len(c.args)
    BY <2>1
  <2> QED
    BY <2>1, <2>2 DEF Parsed
<1>1. /\ m < Len(c.args) => ~ Value(c)[m + 1]
      /\ Plain(c, m + 1) <=> Plain(c, m) \/ c.args[m] = "--"
      /\ m \in Switches(c) <=> c.args[m] # "--"
      /\ m \notin Named(c)
      /\ \A w : m \notin Values(c, w)
  BY <1>0, NextArgument
<1>2. /\ \A w : Below(Values(c, w), m + 1) = Below(Values(c, w), m)
      /\ Below(Named(c), m + 1) = Below(Named(c), m)
      /\ Below(Switches(c), m + 1) =
           IF m \in Switches(c) THEN Below(Switches(c), m) \cup {m} ELSE Below(Switches(c), m)
  BY <1>0, <1>1, BelowSets
<1>3. ValuesParsed(c, p, m + 1)
  BY <1>2 DEF Parsed, ValuesParsed, ListedBelow
<1>4. FilesParsed(c, p, m + 1)
  BY <1>2 DEF Parsed, FilesParsed
<1>5. DefaultParsed(c, p, m + 1)
  BY <1>1, <1>2 DEF Parsed, DefaultParsed
<1>6. m + 1 \in 1 .. Len(c.args) + 1 /\ (m + 1 <= Len(c.args) => m < Len(c.args))
  BY <1>0
<1> QED
  BY <1>0, <1>1, <1>3, <1>4, <1>5, <1>6 DEF Parsed

(* The name of a file. *)
LEMMA ParsedFile ==
  ASSUME NEW c \in Commands, NEW o, NEW ended, NEW m \in 1 .. Len(c.args), Parsed(c, o, ended, m),
         c.args[m] # "--", ~ (c.args[m] \in Dashed /\ ~ ended),
         NEW p, p = [o EXCEPT !.infiles = IF c.program = "icecc" THEN Append(@, c.args[m])
                                          ELSE <<c.args[m]>>]
  PROVE  Parsed(c, p, ended, m + 1)
<1> DEFINE N == Below(Named(c), m)
           files == o.infiles
<1>0. Len(c.args) \in Nat /\ m \in Int /\ ~ Value(c)[m] /\ (ended <=> Plain(c, m)) /\ ended \in BOOLEAN
  <2>1. Len(c.args) \in Nat
    BY CommandFacts
  <2>2. m \in Int /\ m <= Len(c.args)
    BY <2>1
  <2> QED
    BY <2>1, <2>2 DEF Parsed
<1>1. /\ m < Len(c.args) => ~ Value(c)[m + 1]
      /\ Plain(c, m + 1) <=> Plain(c, m)
      /\ m \notin Switches(c) /\ m \in Named(c)
      /\ \A w : m \notin Values(c, w)
  BY <1>0, NextArgument
<1>2. /\ \A w : Below(Values(c, w), m + 1) = Below(Values(c, w), m)
      /\ Below(Named(c), m + 1) = N \cup {m}
      /\ Below(Switches(c), m + 1) = Below(Switches(c), m)
  BY <1>0, <1>1, BelowSets
<1>3. o \in Options /\ c.args[m] \in STRING /\ files \in Seq(STRING)
  BY CommandFacts DEF Parsed, Options
<1>4. /\ p \in Options
      /\ p.outfile = o.outfile /\ p.config = o.config /\ p.configdir = o.configdir
      /\ p.list = o.list /\ p.default = o.default
      /\ p.infiles = IF c.program = "icecc" THEN Append(files, c.args[m]) ELSE <<c.args[m]>>
  <2> DEFINE v == IF c.program = "icecc" THEN Append(files, c.args[m]) ELSE <<c.args[m]>>
  <2>1. v \in Seq(STRING)
    <3>1. Append(files, c.args[m]) \in Seq(STRING)
      <4> HIDE DEF files
      <4> QED
        BY <1>3
    <3>2. <<c.args[m]>> \in Seq(STRING)
      BY <1>3
    <3> QED
      BY <3>1, <3>2
  <2>2. p = [o EXCEPT !.infiles = v]
    OBVIOUS
  <2> HIDE DEF v
  <2>3. /\ p \in Options
        /\ p.outfile = o.outfile /\ p.config = o.config /\ p.configdir = o.configdir
        /\ p.list = o.list /\ p.default = o.default
        /\ p.infiles = v
    BY <1>3, <2>1, <2>2 DEF Options
  <2> QED
    BY <2>3 DEF v
<1>5. ValuesParsed(c, p, m + 1)
  BY <1>2, <1>4 DEF Parsed, ValuesParsed, ListedBelow
<1>6. DefaultParsed(c, p, m + 1)
  BY <1>1, <1>2, <1>4 DEF Parsed, DefaultParsed
<1>7. ASSUME c.program = "icecc" PROVE FilesParsed(c, p, m + 1)
  <2>1. FilesInOrder(N, c.args, files)
    BY <1>7 DEF Parsed, FilesParsed
  <2>2. PICK at \in [DOMAIN files -> N] :
          /\ InOrder(at)
          /\ \A n \in N : \E k \in DOMAIN files : at[k] = n
          /\ \A k \in DOMAIN files : files[k] = c.args[at[k]]
    BY <2>1 DEF FilesInOrder
  <2> DEFINE L == Len(files)
             new_ == Append(files, c.args[m])
             bt == [k \in 1 .. L + 1 |-> IF k = L + 1 THEN m ELSE at[k]]
  <2>3. /\ L \in Nat /\ DOMAIN files = 1 .. L /\ DOMAIN new_ = 1 .. L + 1
        /\ new_[L + 1] = c.args[m] /\ \A k \in 1 .. L : new_[k] = files[k]
    BY <1>3
  <2>4. \A k \in 1 .. L + 1 : k = L + 1 \/ (k \in 1 .. L /\ k # L + 1)
    BY <2>3
  <2>5. /\ bt[L + 1] = m /\ \A k \in 1 .. L : bt[k] = at[k] /\ bt[k] \in N /\ bt[k] < m
        /\ DOMAIN bt = 1 .. L + 1 /\ L + 1 \in 1 .. L + 1 /\ 1 .. L \subseteq 1 .. L + 1
    <3>1. /\ L + 1 \in 1 .. L + 1 /\ 1 .. L \subseteq 1 .. L + 1
          /\ \A k \in 1 .. L : k # L + 1
      BY <2>3
    <3>2. \A k \in 1 .. L : at[k] \in N
      BY <2>2, <2>3
    <3>3. \A n \in N : n < m
      BY DEF Below
    <3> QED
      BY <3>1, <3>2, <3>3
  <2> HIDE DEF L, bt, new_
  <2>6. bt \in [1 .. L + 1 -> N \cup {m}]
    <3>1. bt = [k \in 1 .. L + 1 |-> bt[k]]
      BY DEF bt
    <3> QED
      BY <2>4, <2>5, <3>1
  <2>7. InOrder(bt)
    <3> SUFFICES ASSUME NEW j \in 1 .. L + 1, NEW k \in 1 .. L + 1, j < k PROVE bt[j] < bt[k]
      BY <2>5 DEF InOrder
    <3>1. j \in 1 .. L
      BY <2>3
    <3>2. CASE k = L + 1
      BY <2>5, <3>1, <3>2
    <3>3. CASE k \in 1 .. L
      BY <2>2, <2>3, <2>5, <3>1, <3>3 DEF InOrder
    <3> QED
      BY <2>4, <3>2, <3>3
  <2>8. \A n \in N \cup {m} : \E k \in 1 .. L + 1 : bt[k] = n
    BY <2>2, <2>3, <2>5
  <2>9. \A k \in 1 .. L + 1 : new_[k] = c.args[bt[k]]
    BY <2>2, <2>3, <2>4, <2>5
  <2>10. FilesInOrder(N \cup {m}, c.args, new_)
    BY <2>3, <2>6, <2>7, <2>8, <2>9 DEF FilesInOrder
  <2>11. FilesParsed(c, p, m + 1)
    <3>1. p.infiles = new_ /\ Below(Named(c), m + 1) = N \cup {m}
      BY <1>2, <1>4, <1>7 DEF new_
    <3> HIDE DEF N
    <3> QED
      BY <1>7, <2>10, <3>1 DEF FilesParsed
  <2> QED
    BY <2>11
<1>8. ASSUME c.program # "icecc" PROVE FilesParsed(c, p, m + 1)
  <2>1. Alone(c.args)[m] = <<c.args[m]>>
    BY CommandFacts DEF Alone
  <2>2. Named(c) \subseteq Int
    BY PositionsAreInts
  <2>3. Says(Below(Named(c), m + 1), Alone(c.args), Alone(c.args)[m], <<>>)
    BY <1>0, <1>1, <2>2, SaysNext
  <2> QED
    <3>1. p.infiles = Alone(c.args)[m]
      BY <1>4, <1>8, <2>1
    <3> QED
      BY <1>8, <2>3, <3>1 DEF FilesParsed
<1>9. m + 1 \in 1 .. Len(c.args) + 1 /\ (m + 1 <= Len(c.args) => m < Len(c.args))
  BY <1>0
<1> QED
  BY <1>0, <1>1, <1>4, <1>5, <1>6, <1>7, <1>8, <1>9 DEF Parsed

LEMMA NarrowEntry ==
  ASSUME NEW x \in Int
  PROVE  x % 2^16 \in Entry /\ (x \in Entry => x % 2^16 = x)
<1>1. 2^16 = 65536
  BY SMT
<1> QED
  BY <1>1 DEF Entry

LEMMA NarrowedNumbers ==
  ASSUME NEW s \in Seq(Int)
  PROVE  Narrowed(s) \in Seq(Entry) /\ Range(Narrowed(s)) = Narrow(Range(s))
<1>1. Len(s) \in Nat /\ DOMAIN s = 1 .. Len(s) /\ \A n \in 1 .. Len(s) : s[n] \in Int
  OBVIOUS
<1>2. \A n \in 1 .. Len(s) : s[n] % 2^16 \in Entry
  BY <1>1, NarrowEntry
<1>3. Narrowed(s) = [n \in 1 .. Len(s) |-> s[n] % 2^16]
  BY <1>1 DEF Narrowed
<1>4. \A f \in [1 .. Len(s) -> Entry] : f \in Seq(Entry)
  BY <1>1
<1>5. Narrowed(s) \in [1 .. Len(s) -> Entry]
  BY <1>2, <1>3
<1>6. Range(Narrowed(s)) = Narrow(Range(s))
  BY <1>1, <1>3 DEF Range, Narrow
<1> QED
  BY <1>4, <1>5, <1>6

LEMMA ConcatFacts ==
  ASSUME NEW S, NEW s \in Seq(S), NEW t \in Seq(S)
  PROVE  /\ Len(s) \in Nat /\ Len(t) \in Nat
         /\ DOMAIN s = 1 .. Len(s) /\ DOMAIN t = 1 .. Len(t)
         /\ DOMAIN (s \o t) = 1 .. Len(s) + Len(t) /\ s \o t \in Seq(S)
         /\ \A n \in 1 .. Len(s) : (s \o t)[n] = s[n]
         /\ \A n \in 1 .. Len(t) : (s \o t)[Len(s) + n] = t[n]
  OBVIOUS

LEMMA ConcatRange ==
  ASSUME NEW S, NEW s \in Seq(S), NEW t \in Seq(S)
  PROVE  s \o t \in Seq(S) /\ Range(s \o t) = Range(s) \cup Range(t)
<1>1. /\ Len(s) \in Nat /\ Len(t) \in Nat
      /\ DOMAIN s = 1 .. Len(s) /\ DOMAIN t = 1 .. Len(t)
      /\ DOMAIN (s \o t) = 1 .. Len(s) + Len(t) /\ s \o t \in Seq(S)
      /\ \A n \in 1 .. Len(s) : (s \o t)[n] = s[n]
      /\ \A n \in 1 .. Len(t) : (s \o t)[Len(s) + n] = t[n]
  BY ConcatFacts
<1>2. \A n \in 1 .. Len(s) + Len(t) :
        n \in 1 .. Len(s) \/ (n - Len(s) \in 1 .. Len(t) /\ n = Len(s) + (n - Len(s)))
  BY <1>1
<1>3. /\ \A n \in 1 .. Len(s) : n \in 1 .. Len(s) + Len(t)
      /\ \A n \in 1 .. Len(t) : Len(s) + n \in 1 .. Len(s) + Len(t)
  BY <1>1
<1>4. ASSUME NEW n \in 1 .. Len(s) + Len(t) PROVE (s \o t)[n] \in Range(s) \cup Range(t)
  <2>1. CASE n \in 1 .. Len(s)
    BY <1>1, <2>1 DEF Range
  <2>2. CASE n - Len(s) \in 1 .. Len(t) /\ n = Len(s) + (n - Len(s))
    <3>1. (s \o t)[n] = t[n - Len(s)]
      BY <1>1, <2>2
    <3> QED
      BY <1>1, <2>2, <3>1 DEF Range
  <2> QED
    BY <1>2, <2>1, <2>2
<1>5. Range(s) \cup Range(t) \subseteq Range(s \o t)
  BY <1>1, <1>3 DEF Range
<1>6. Range(s \o t) \subseteq Range(s) \cup Range(t)
  BY <1>1, <1>4 DEF Range
<1> QED
  BY <1>1, <1>5, <1>6

(* WithOption, of any options. *)
Set(o, word, value) ==
  CASE word = "-o" -> [o EXCEPT !.outfile = value]
    [] word = "-c" -> [o EXCEPT !.config = value]
    [] word = "-r" -> [o EXCEPT !.configdir = value]
    [] word \in Lists -> [o EXCEPT !.list[word] = @ \o Narrowed(Numbers[value])]

(* An option and its value. *)
LEMMA ParsedValue ==
  ASSUME NEW c \in Commands, NEW o, NEW ended, NEW m \in 1 .. Len(c.args), Parsed(c, o, ended, m),
         c.args[m] \in WithValue(c.program), ~ ended, m < Len(c.args)
  PROVE  Parsed(c, Set(o, c.args[m], c.args[m + 1]), ended, m + 2)
<1> DEFINE w == c.args[m]
           v == c.args[m + 1]
           p == Set(o, w, v)
<1>0. Len(c.args) \in Nat /\ m \in Int /\ ~ Value(c)[m] /\ (ended <=> Plain(c, m)) /\ ended \in BOOLEAN
  <2>1. Len(c.args) \in Nat
    BY CommandFacts
  <2>2. m \in Int /\ m <= Len(c.args)
    BY <2>1
  <2> QED
    BY <2>1, <2>2 DEF Parsed
<1>1. w # "--" /\ w \in Dashed /\ m + 1 \in 2 .. Len(c.args) /\ (m + 1) - 1 = m /\ m + 2 = (m + 1) + 1
  BY <1>0, ProgramsAssumption DEF WithValue, Lists
<1>2. /\ Value(c)[m + 1]
      /\ Plain(c, m + 1) <=> Plain(c, m)
      /\ m \in Switches(c) /\ m \notin Named(c)
      /\ \A a : m \notin Values(c, a)
  BY <1>0, <1>1, NextArgument
<1>3. /\ m + 1 < Len(c.args) => ~ Value(c)[m + 2]
      /\ Plain(c, m + 2) <=> Plain(c, m + 1)
      /\ m + 1 \notin Switches(c) /\ m + 1 \notin Named(c)
      /\ \A a : m + 1 \in Values(c, a) <=> w = a
  <2> HIDE DEF w
  <2>1. LET k == m + 1 IN
          /\ k < Len(c.args) => ~ Value(c)[k + 1]
          /\ Plain(c, k + 1) <=> Plain(c, k)
          /\ k \notin Switches(c) /\ k \notin Named(c)
          /\ \A a : k \in Values(c, a) <=> c.args[k - 1] = a
    BY <1>1, <1>2, NextIsValue
  <2> QED
    BY <1>1, <2>1 DEF w
<1>4. /\ \A a : Below(Values(c, a), m + 2) =
                  IF w = a THEN Below(Values(c, a), m) \cup {m + 1} ELSE Below(Values(c, a), m)
      /\ Below(Named(c), m + 2) = Below(Named(c), m)
      /\ Below(Switches(c), m + 2) = Below(Switches(c), m) \cup {m}
  <2>1. /\ \A a : Below(Values(c, a), m + 1) = Below(Values(c, a), m)
        /\ Below(Named(c), m + 1) = Below(Named(c), m)
        /\ Below(Switches(c), m + 1) = Below(Switches(c), m) \cup {m}
    BY <1>0, <1>2, BelowSets
  <2>2. m + 1 \in Int
    BY <1>0
  <2>3. /\ \A a : Below(Values(c, a), (m + 1) + 1) =
                    IF w = a THEN Below(Values(c, a), m + 1) \cup {m + 1} ELSE Below(Values(c, a), m + 1)
        /\ Below(Named(c), (m + 1) + 1) = Below(Named(c), m + 1)
        /\ Below(Switches(c), (m + 1) + 1) = Below(Switches(c), m + 1)
    BY <1>3, <2>2, BelowSets
  <2> QED
    BY <1>1, <2>1, <2>3
<1>5. ASSUME NEW a, NEW x, NEW none, Says(Below(Values(c, a), m), c.args, x, none)
      PROVE  Says(Below(Values(c, a), m + 2), c.args, IF w = a THEN v ELSE x, none)
  <2>1. CASE w = a
    <3>1. m + 1 \in Below(Values(c, a), m + 2) /\ \A k \in Below(Values(c, a), m + 2) : k <= m + 1
      <4>1. Values(c, a) \subseteq Int
        BY PositionsAreInts
      <4>2. \A k \in Below(Values(c, a), m) : k < m /\ k \in Int
        BY <4>1 DEF Below
      <4>3. \A k \in Below(Values(c, a), m) : k <= m + 1
        BY <1>0, <4>2
      <4>4. m + 1 <= m + 1
        BY <1>0
      <4> HIDE DEF w
      <4>5. Below(Values(c, a), m + 2) = Below(Values(c, a), m) \cup {m + 1}
        BY <1>4, <2>1
      <4> QED
        BY <4>3, <4>4, <4>5
    <3> QED
      BY <2>1, <3>1 DEF Says
  <2>2. CASE w # a
    BY <1>4, <1>5, <2>2
  <2> QED
    BY <2>1, <2>2
<1>6. o \in Options /\ v \in STRING /\ w \in {"-o", "-c", "-r"} \cup Lists
      /\ (w \in Lists => c.program = "icedc")
  <2>1. o \in Options
    BY DEF Parsed
  <2>2. v \in STRING
    <3>1. m + 1 \in 1 .. Len(c.args)
      BY <1>0
    <3> QED
      BY <3>1, CommandFacts
  <2>3. w \in WithValue(c.program) /\ c.program \in {"icecc", "icedc"}
    BY CommandFacts
  <2> HIDE DEF w, v
  <2>4. w \in {"-o", "-c", "-r"} \cup Lists /\ (w \in Lists => c.program = "icedc")
    BY <2>3 DEF WithValue, Lists
  <2> QED
    BY <2>1, <2>2, <2>4
<1>7. w \in Lists => /\ Numbers[v] \in Seq(Int)
                     /\ Narrowed(Numbers[v]) \in Seq(Entry)
                     /\ Range(Narrowed(Numbers[v])) = Narrow(Range(Numbers[v]))
  <2> SUFFICES ASSUME w \in Lists PROVE Numbers[v] \in Seq(Int)
    BY NarrowedNumbers
  <2>1. IsCommand(c)
    BY ProgramsAssumption
  <2>2. v \in DOMAIN Numbers
    BY <1>1, <1>6, <2>1 DEF IsCommand
  <2>3. Numbers[v] \in Seq(Nat)
    BY <2>2, ProgramsAssumption
  <2> HIDE DEF v
  <2> QED
    BY <2>3
<1>8. /\ p \in Options /\ p.infiles = o.infiles /\ p.default = o.default
      /\ p.outfile = IF w = "-o" THEN v ELSE o.outfile
      /\ p.config = IF w = "-c" THEN v ELSE o.config
      /\ p.configdir = IF w = "-r" THEN v ELSE o.configdir
      /\ \A l \in Lists : p.list[l] = IF w = l THEN o.list[l] \o Narrowed(Numbers[v]) ELSE o.list[l]
  <2> HIDE DEF v, w
  <2>1. "-o" \notin Lists /\ "-c" \notin Lists /\ "-r" \notin Lists
    BY DEF Lists
  <2>2. CASE w = "-o"
    <3>1. p = [o EXCEPT !.outfile = v]
      BY <2>1, <2>2 DEF Set
    <3> QED
      BY <1>6, <2>1, <2>2, <3>1 DEF Options
  <2>3. CASE w = "-c"
    <3>1. p = [o EXCEPT !.config = v]
      BY <2>1, <2>3 DEF Set
    <3> QED
      BY <1>6, <2>1, <2>3, <3>1 DEF Options
  <2>4. CASE w = "-r"
    <3>1. p = [o EXCEPT !.configdir = v]
      BY <2>1, <2>4 DEF Set
    <3> QED
      BY <1>6, <2>1, <2>4, <3>1 DEF Options
  <2>5. CASE w \in Lists
    <3> DEFINE s == o.list[w] \o Narrowed(Numbers[v])
    <3>1. p = [o EXCEPT !.list[w] = s]
      BY <2>1, <2>5 DEF Set
    <3>2. s \in Seq(Entry)
      <4>1. o.list[w] \in Seq(Entry)
        BY <1>6, <2>5 DEF Options
      <4> QED
        BY <1>7, <2>5, <4>1, ConcatRange
    <3> HIDE DEF s
    <3>3. p = [o EXCEPT !.list = [o.list EXCEPT ![w] = s]]
      BY <3>1
    <3>4. [o.list EXCEPT ![w] = s] \in [Lists -> Seq(Entry)]
      BY <1>6, <3>2 DEF Options
    <3>5. \A l \in Lists : [o.list EXCEPT ![w] = s][l] = IF w = l THEN s ELSE o.list[l]
      BY <1>6 DEF Options
    <3> DEFINE ls == [o.list EXCEPT ![w] = s]
    <3> HIDE DEF ls
    <3>6. /\ p \in Options /\ p.infiles = o.infiles /\ p.default = o.default
          /\ p.outfile = o.outfile /\ p.config = o.config /\ p.configdir = o.configdir
          /\ p.list = ls
      BY <1>6, <3>3, <3>4 DEF Options, ls
    <3> QED
      BY <2>1, <2>5, <3>5, <3>6 DEF ls, s
  <2> QED
    BY <1>6, <2>2, <2>3, <2>4, <2>5
<1>9. ASSUME c.program = "icedc", NEW l \in Lists
      PROVE  Range(p.list[l]) = Narrow(ListedBelow(c, l, m + 2))
  <2>1. Range(o.list[l]) = Narrow(ListedBelow(c, l, m)) /\ o.list[l] \in Seq(Entry)
    BY <1>6, <1>9 DEF Parsed, ValuesParsed, Options
  <2>2. CASE w # l
    BY <1>4, <1>8, <2>1, <2>2 DEF ListedBelow
  <2>3. CASE w = l
    <3>1. ListedBelow(c, l, m + 2) = ListedBelow(c, l, m) \cup Range(Numbers[v])
      <4>1. Below(Values(c, l), m + 2) = Below(Values(c, l), m) \cup {m + 1}
        BY <1>4, <2>3
      <4> QED
        BY <4>1 DEF ListedBelow
    <3>2. Range(p.list[l]) = Range(o.list[l]) \cup Range(Narrowed(Numbers[v]))
      <4> HIDE DEF p, v, w
      <4>1. p.list[l] = o.list[l] \o Narrowed(Numbers[v])
        BY <1>8, <1>9, <2>3
      <4>2. o.list[l] \in Seq(Entry) /\ Narrowed(Numbers[v]) \in Seq(Entry)
        BY <1>7, <1>9, <2>1, <2>3
      <4>3. PICK x \in Seq(Entry), y \in Seq(Entry) : x = o.list[l] /\ y = Narrowed(Numbers[v])
        BY <4>2
      <4>4. Range(x \o y) = Range(x) \cup Range(y)
        BY ConcatRange
      <4> QED
        BY <4>1, <4>3, <4>4
    <3>3. \A A, B : Narrow(A \cup B) = Narrow(A) \cup Narrow(B)
      BY DEF Narrow
    <3> HIDE DEF p, v, w
    <3> QED
      BY <1>7, <1>9, <2>1, <2>3, <3>1, <3>2, <3>3, SMTT(30)
  <2> QED
    BY <2>2, <2>3
<1>10. ValuesParsed(c, p, m + 2)
  <2>1. /\ Says(Below(Values(c, "-o"), m), c.args, o.outfile, NULL)
        /\ Says(Below(Values(c, "-c"), m), c.args, o.config, DefaultConfig)
        /\ Says(Below(Values(c, "-r"), m), c.args, o.configdir, NULL)
    BY DEF Parsed, ValuesParsed
  <2> HIDE DEF p, v, w
  <2>2. /\ Says(Below(Values(c, "-o"), m + 2), c.args, p.outfile, NULL)
        /\ Says(Below(Values(c, "-c"), m + 2), c.args, p.config, DefaultConfig)
        /\ Says(Below(Values(c, "-r"), m + 2), c.args, p.configdir, NULL)
    BY <1>5, <1>8, <2>1
  <2> QED
    BY <1>9, <2>2 DEF ValuesParsed
<1>11. FilesParsed(c, p, m + 2)
  <2> HIDE DEF p
  <2> QED
    BY <1>4, <1>8 DEF Parsed, FilesParsed
<1>12. DefaultParsed(c, p, m + 2)
  <2>1. w # UsesDefault[c.program]
    <3>1. c.program \in {"icecc", "icedc"} /\ w \in WithValue(c.program)
      BY CommandFacts
    <3> HIDE DEF w
    <3>2. CASE c.program = "icecc"
      BY <3>1, <3>2 DEF UsesDefault, WithValue
    <3>3. CASE c.program = "icedc"
      BY <3>1, <3>3 DEF UsesDefault, WithValue, Lists
    <3> QED
      BY <3>1, <3>2, <3>3
  <2> HIDE DEF p
  <2> QED
    BY <1>4, <1>8, <2>1 DEF Parsed, DefaultParsed
<1>13. m + 2 \in 1 .. Len(c.args) + 1 /\ (m + 2 <= Len(c.args) => m + 1 < Len(c.args))
  BY <1>0, <1>1
<1> HIDE DEF p, v, w
<1>14. (m + 2 <= Len(c.args) => ~ Value(c)[m + 2]) /\ (ended <=> Plain(c, m + 2))
  BY <1>0, <1>2, <1>3, <1>13
<1> QED
  BY <1>0, <1>8, <1>10, <1>11, <1>12, <1>13, <1>14 DEF Parsed, p, v, w

-----------------------------------------------------------------------------
(* What the loop over the configuration file has set when it has come to m. *)

LinesOf(lines, var) == {n \in DOMAIN lines : lines[n].var = var}
ConfigDirs(lines) == [n \in DOMAIN lines |-> lines[n].val]
InstallDirs(lines) == [n \in DOMAIN lines |-> DataDir[lines[n].val]]

Configured(lines, m, d, free) ==
  /\ m \in 1 .. Len(lines) + 1 /\ d \in DOMAIN Resources
  /\ free \in BOOLEAN /\ (free <=> Below(LinesOf(lines, "CONFIGDIR"), m) = {})
  /\ IF Below(LinesOf(lines, "CONFIGDIR"), m) = {}
     THEN Says(Below(LinesOf(lines, "INSTALLDIR"), m), InstallDirs(lines), d, DefaultDir)
     ELSE Says(Below(LinesOf(lines, "CONFIGDIR"), m), ConfigDirs(lines), d, DefaultDir)

LEMMA ConfigFacts ==
  ASSUME NEW name
  PROVE  LET lines == ConfigLines(name) IN
         /\ IsConfig(lines) /\ Len(lines) \in Nat /\ DOMAIN lines = 1 .. Len(lines)
         /\ \A var : LinesOf(lines, var) \subseteq Int
<1> DEFINE lines == ConfigLines(name)
<1>1. IsConfig(<<>>)
  BY DEF IsConfig
<1>2. IsConfig(lines)
  BY <1>1, ProgramsAssumption DEF ConfigLines
<1> HIDE DEF lines
<1>3. Len(lines) \in Nat /\ DOMAIN lines = 1 .. Len(lines)
  BY <1>2 DEF IsConfig
<1>4. \A var : LinesOf(lines, var) \subseteq Int
  BY <1>3 DEF LinesOf
<1> QED
  BY <1>2, <1>3, <1>4 DEF lines

LEMMA NothingConfigured ==
  ASSUME NEW name
  PROVE  Configured(ConfigLines(name), 1, DefaultDir, TRUE)
<1> DEFINE lines == ConfigLines(name)
<1>1. Len(lines) \in Nat /\ DOMAIN lines = 1 .. Len(lines)
  BY ConfigFacts
<1> HIDE DEF lines
<1>2. \A var : Below(LinesOf(lines, var), 1) = {}
  <2>1. \A n \in DOMAIN lines : ~ n < 1
    BY <1>1
  <2> QED
    BY <2>1 DEF LinesOf, Below
<1>3. 1 \in 1 .. Len(lines) + 1
  BY <1>1
<1> QED
  BY <1>1, <1>2, <1>3, ProgramsAssumption DEF Configured, Says, lines

LEMMA ConfiguredLine ==
  ASSUME NEW name, NEW m \in 1 .. Len(ConfigLines(name)), NEW d, NEW free,
         Configured(ConfigLines(name), m, d, free)
  PROVE  LET lines == ConfigLines(name)
             line == lines[m] IN
         /\ line.var = "INSTALLDIR" =>
              Configured(lines, m + 1, IF free THEN DataDir[line.val] ELSE d, free)
         /\ line.var = "CONFIGDIR" => Configured(lines, m + 1, line.val, FALSE)
         /\ line.var \notin {"INSTALLDIR", "CONFIGDIR"} => Configured(lines, m + 1, d, free)
<1> DEFINE lines == ConfigLines(name)
           line == lines[m]
           N(var) == LinesOf(lines, var)
<1>1. /\ IsConfig(lines) /\ Len(lines) \in Nat /\ DOMAIN lines = 1 .. Len(lines)
      /\ \A var : N(var) \subseteq Int
  BY ConfigFacts
<1>a. Configured(lines, m, d, free) /\ m \in 1 .. Len(lines)
  OBVIOUS
<1> HIDE DEF lines
<1>2. m \in Int /\ m + 1 \in 1 .. Len(lines) + 1 /\ \A var : m \in N(var) <=> line.var = var
  BY <1>1, <1>a DEF LinesOf
<1>3. \A var : Below(N(var), m + 1) = IF line.var = var THEN Below(N(var), m) \cup {m} ELSE Below(N(var), m)
  BY <1>1, <1>2, BelowNext
<1>4. /\ InstallDirs(lines)[m] = DataDir[line.val]
      /\ ConfigDirs(lines)[m] = line.val
  BY <1>1, <1>a DEF InstallDirs, ConfigDirs
<1>5. ASSUME line.var = "INSTALLDIR"
      PROVE  Configured(lines, m + 1, IF free THEN DataDir[line.val] ELSE d, free)
  <2>1. DataDir[line.val] \in DOMAIN Resources
    BY <1>1, <1>a, <1>5 DEF IsConfig
  <2>2. Says(Below(N("INSTALLDIR"), m + 1), InstallDirs(lines), DataDir[line.val], DefaultDir)
    BY <1>1, <1>2, <1>4, <1>5, SaysNext
  <2>3. Below(N("CONFIGDIR"), m + 1) = Below(N("CONFIGDIR"), m)
    BY <1>3, <1>5
  <2> QED
    BY <1>2, <1>a, <2>1, <2>2, <2>3 DEF Configured
<1>6. ASSUME line.var = "CONFIGDIR" PROVE Configured(lines, m + 1, line.val, FALSE)
  <2>1. line.val \in DOMAIN Resources
    BY <1>1, <1>a, <1>6 DEF IsConfig
  <2>2. Says(Below(N("CONFIGDIR"), m + 1), ConfigDirs(lines), line.val, DefaultDir)
    BY <1>1, <1>2, <1>4, <1>6, SaysNext
  <2>3. Below(N("CONFIGDIR"), m + 1) # {}
    BY <1>3, <1>6
  <2> QED
    BY <1>2, <2>1, <2>2, <2>3 DEF Configured
<1>7. ASSUME line.var \notin {"INSTALLDIR", "CONFIGDIR"} PROVE Configured(lines, m + 1, d, free)
  <2>1. /\ Below(N("CONFIGDIR"), m + 1) = Below(N("CONFIGDIR"), m)
        /\ Below(N("INSTALLDIR"), m + 1) = Below(N("INSTALLDIR"), m)
    BY <1>3, <1>7
  <2> QED
    BY <1>2, <1>a, <2>1 DEF Configured
<1> QED
  BY <1>5, <1>6, <1>7 DEF lines

(* The end of both loops. *)
LEMMA BelowAll ==
  ASSUME NEW L \in Nat, NEW N, \A n \in N : n \in 1 .. L
  PROVE  Below(N, L + 1) = N
  BY DEF Below

LEMMA DirConfigured ==
  ASSUME NEW name, NEW d, NEW free,
         Configured(ConfigLines(name), Len(ConfigLines(name)) + 1, d, free)
  PROVE  d = ConfiguredDir(ConfigLines(name))
<1> DEFINE lines == ConfigLines(name)
           C == LinesOf(lines, "CONFIGDIR")
           I == LinesOf(lines, "INSTALLDIR")
           said(var) == {[at |-> n, is |-> lines[n].val] : n \in {k \in DOMAIN lines : lines[k].var = var}}
<1>1. /\ Len(lines) \in Nat /\ DOMAIN lines = 1 .. Len(lines)
      /\ \A var : LinesOf(lines, var) \subseteq Int
  BY ConfigFacts
<1>a. Configured(lines, Len(lines) + 1, d, free)
  OBVIOUS
<1>b. ConfiguredDir(lines) =
        CASE said("CONFIGDIR") # {} -> Latest(said("CONFIGDIR")).is
          [] said("CONFIGDIR") = {} /\ said("INSTALLDIR") # {} -> DataDir[Latest(said("INSTALLDIR")).is]
          [] OTHER -> DefaultDir
  BY DEF ConfiguredDir
<1> HIDE DEF lines
<1>2. /\ \A var : LinesOf(lines, var) \subseteq DOMAIN lines
      /\ Below(C, Len(lines) + 1) = C /\ Below(I, Len(lines) + 1) = I
  <2>1. \A var : \A n \in LinesOf(lines, var) : n \in 1 .. Len(lines)
    BY <1>1 DEF LinesOf
  <2> QED
    BY <1>1, <2>1, BelowAll
<1>3. \A var : said(var) = {[at |-> n, is |-> ConfigDirs(lines)[n]] : n \in LinesOf(lines, var)}
  BY DEF ConfigDirs, LinesOf
<1>4. \A var : said(var) = {} <=> LinesOf(lines, var) = {}
  BY DEF LinesOf
<1> HIDE DEF said
<1>5. CASE C # {}
  <2>1. Says(C, ConfigDirs(lines), d, DefaultDir)
    BY <1>a, <1>2, <1>5 DEF Configured
  <2>2. Latest({[at |-> n, is |-> ConfigDirs(lines)[n]] : n \in C}).is = d
    BY <1>1, <1>5, <2>1, SaysLatest
  <2> QED
    BY <1>b, <1>3, <1>4, <1>5, <2>2 DEF lines
<1>6. CASE C = {} /\ I # {}
  <2>1. Says(I, InstallDirs(lines), d, DefaultDir)
    BY <1>a, <1>2, <1>6 DEF Configured
  <2>2. PICK n \in I : (\A k \in I : k <= n) /\ d = InstallDirs(lines)[n]
    BY <1>6, <2>1 DEF Says
  <2>3. Says(I, ConfigDirs(lines), ConfigDirs(lines)[n], DefaultDir)
    BY <2>2 DEF Says
  <2>4. Latest({[at |-> k, is |-> ConfigDirs(lines)[k]] : k \in I}).is = ConfigDirs(lines)[n]
    BY <1>1, <1>6, <2>3, SaysLatest
  <2>5. d = DataDir[ConfigDirs(lines)[n]]
    BY <1>2, <2>2 DEF InstallDirs, ConfigDirs
  <2> QED
    BY <1>b, <1>3, <1>4, <1>6, <2>4, <2>5 DEF lines
<1>7. CASE C = {} /\ I = {}
  <2>1. d = DefaultDir
    BY <1>a, <1>2, <1>7 DEF Configured, Says
  <2> QED
    BY <1>b, <1>4, <1>7, <2>1 DEF lines
<1> QED
  BY <1>5, <1>6, <1>7

(* The inputs, in the order in which they are read. *)
InputsAre(c, files) ==
  \E at \in [DOMAIN files -> Int] :
    InOrder(at) /\ InputsOf(c) = {[at |-> at[k], is |-> files[k]] : k \in DOMAIN files}

FilesSettled(c, o) ==
  CASE ~ o.default -> o.infiles
    [] o.default /\ c.program = "icecc" -> <<Bin[DirOf(c)]>> \o o.infiles
    [] o.default /\ c.program = "icedc" -> <<Bin[DirOf(c)]>>

LEMMA NamedInOrder ==
  ASSUME NEW c \in Commands, NEW files, NEW at \in [DOMAIN files -> Named(c)],
         \A n \in Named(c) : \E k \in DOMAIN files : at[k] = n,
         \A k \in DOMAIN files : files[k] = c.args[at[k]]
  PROVE  Words(c, Named(c)) = {[at |-> at[k], is |-> files[k]] : k \in DOMAIN files}
<1>1. ASSUME NEW n \in Named(c)
      PROVE  [at |-> n, is |-> c.args[n]] \in {[at |-> at[k], is |-> files[k]] : k \in DOMAIN files}
  <2>1. PICK k \in DOMAIN files : at[k] = n
    OBVIOUS
  <2> QED
    BY <2>1
<1>2. ASSUME NEW k \in DOMAIN files
      PROVE  [at |-> at[k], is |-> files[k]] \in {[at |-> n, is |-> c.args[n]] : n \in Named(c)}
  <2>1. at[k] \in Named(c) /\ files[k] = c.args[at[k]]
    OBVIOUS
  <2> QED
    BY <2>1
<1> QED
  BY <1>1, <1>2 DEF Words

LEMMA OneName ==
  ASSUME NEW S, NEW x \in S
  PROVE  <<x>> \in Seq(S) /\ Len(<<x>>) = 1 /\ DOMAIN <<x>> = {1} /\ <<x>>[1] = x
<1>1. DOMAIN <<x>> = {1}
  OBVIOUS
<1>2. <<x>>[1] = x /\ Len(<<x>>) = 1
  OBVIOUS
<1>3. <<x>> \in Seq(S)
  OBVIOUS
<1> QED
  BY <1>1, <1>2, <1>3

LEMMA Prepended ==
  ASSUME NEW b \in STRING, NEW files \in Seq(STRING)
  PROVE  LET all == <<b>> \o files
             L == Len(files) IN
         /\ L \in Nat /\ DOMAIN files = 1 .. L /\ DOMAIN all = 1 .. L + 1 /\ all \in Seq(STRING)
         /\ all[1] = b /\ \A k \in 1 .. L : all[k + 1] = files[k]
<1>1. <<b>> \in Seq(STRING) /\ Len(<<b>>) = 1 /\ <<b>>[1] = b
  BY OneName
<1>2. /\ <<b>> \o files \in Seq(STRING)
      /\ DOMAIN (<<b>> \o files) = 1 .. 1 + Len(files)
      /\ \A k \in 1 .. 1 : (<<b>> \o files)[k] = <<b>>[k]
      /\ \A k \in 1 .. Len(files) : (<<b>> \o files)[1 + k] = files[k]
  <2> DEFINE s == <<b>>
  <2>1. s \in Seq(STRING) /\ Len(s) = 1
    BY <1>1
  <2> HIDE DEF s
  <2>2. /\ s \o files \in Seq(STRING)
        /\ DOMAIN (s \o files) = 1 .. Len(s) + Len(files)
        /\ \A k \in 1 .. Len(s) : (s \o files)[k] = s[k]
        /\ \A k \in 1 .. Len(files) : (s \o files)[Len(s) + k] = files[k]
    BY <2>1, ConcatFacts, SMTT(30)
  <2>3. /\ s \o files \in Seq(STRING)
        /\ DOMAIN (s \o files) = 1 .. 1 + Len(files)
        /\ \A k \in 1 .. 1 : (s \o files)[k] = s[k]
        /\ \A k \in 1 .. Len(files) : (s \o files)[1 + k] = files[k]
    BY <2>1, <2>2
  <2> QED
    BY <2>3 DEF s
<1>3. Len(files) \in Nat /\ DOMAIN files = 1 .. Len(files)
  OBVIOUS
<1>4. 1 + Len(files) = Len(files) + 1 /\ 1 \in 1 .. 1 /\ \A k \in 1 .. Len(files) : k + 1 = 1 + k
  BY <1>3
<1>5. (<<b>> \o files)[1] = b
  BY <1>2, <1>4, OneName
<1> QED
  BY <1>2, <1>3, <1>4, <1>5

Prepends(b, files, at) ==
  LET all == <<b>> \o files IN
  /\ all \in Seq(STRING)
  /\ \E bt \in [DOMAIN all -> Int] :
       /\ InOrder(bt)
       /\ {[at |-> bt[k], is |-> all[k]] : k \in DOMAIN all} =
            {[at |-> 0, is |-> b]} \cup {[at |-> at[k], is |-> files[k]] : k \in DOMAIN files}

LEMMA PrependInOrder ==
  ASSUME NEW files \in Seq(STRING), NEW at \in [DOMAIN files -> Int], InOrder(at),
         \A k \in DOMAIN files : at[k] > 0, NEW b \in STRING
  PROVE  Prepends(b, files, at)
<1> DEFINE L == Len(files)
           all == <<b>> \o files
           bt == [k \in 1 .. L + 1 |-> IF k = 1 THEN 0 ELSE at[k - 1]]
<1>1. /\ L \in Nat /\ DOMAIN files = 1 .. L /\ DOMAIN all = 1 .. L + 1 /\ all \in Seq(STRING)
      /\ all[1] = b /\ \A k \in 1 .. L : all[k + 1] = files[k]
  BY Prepended DEF L, all
<1>2. /\ \A k \in 1 .. L + 1 : k = 1 \/ (k - 1 \in 1 .. L /\ k = (k - 1) + 1 /\ k # 1)
      /\ \A k \in 1 .. L : k + 1 \in 1 .. L + 1 /\ k + 1 # 1 /\ (k + 1) - 1 = k
      /\ 1 \in 1 .. L + 1
  BY <1>1
<1>3. /\ DOMAIN bt = 1 .. L + 1 /\ bt[1] = 0
      /\ \A k \in 1 .. L : bt[k + 1] = at[k] /\ at[k] \in Int /\ at[k] > 0
      /\ bt = [k \in 1 .. L + 1 |-> bt[k]]
  BY <1>1, <1>2
<1> HIDE DEF L, all, bt
<1>4. \A k \in 1 .. L + 1 : bt[k] \in Int
  <2> SUFFICES ASSUME NEW k \in 1 .. L + 1 PROVE bt[k] \in Int
    OBVIOUS
  <2>1. CASE k - 1 \in 1 .. L /\ k = (k - 1) + 1
    BY <1>3, <2>1
  <2> QED
    BY <1>2, <1>3, <2>1
<1>5. bt \in [DOMAIN all -> Int]
  BY <1>1, <1>3, <1>4
<1>6. InOrder(bt)
  <2> SUFFICES ASSUME NEW j \in 1 .. L + 1, NEW k \in 1 .. L + 1, j < k PROVE bt[j] < bt[k]
    BY <1>3 DEF InOrder
  <2>1. k # 1
    BY <1>1
  <2>2. k - 1 \in 1 .. L /\ k = (k - 1) + 1
    BY <1>2, <2>1
  <2>3. bt[k] = at[k - 1] /\ at[k - 1] > 0 /\ at[k - 1] \in Int
    BY <1>3, <2>2
  <2>4. CASE j = 1
    BY <1>3, <2>3, <2>4
  <2>5. CASE j # 1
    <3>1. j - 1 \in 1 .. L /\ j = (j - 1) + 1 /\ j - 1 < k - 1
      BY <1>2, <2>2, <2>5
    <3>2. bt[j] = at[j - 1]
      BY <1>3, <3>1
    <3>3. at[j - 1] < at[k - 1]
      BY <1>1, <2>2, <3>1 DEF InOrder
    <3> QED
      BY <2>3, <3>2, <3>3
  <2> QED
    BY <2>4, <2>5
<1>7. {[at |-> bt[k], is |-> all[k]] : k \in 1 .. L + 1} =
        {[at |-> 0, is |-> b]} \cup {[at |-> at[k], is |-> files[k]] : k \in 1 .. L}
  <2> DEFINE A == {[at |-> bt[k], is |-> all[k]] : k \in 1 .. L + 1}
             B == {[at |-> 0, is |-> b]} \cup {[at |-> at[k], is |-> files[k]] : k \in 1 .. L}
  <2>1. ASSUME NEW k \in 1 .. L + 1 PROVE [at |-> bt[k], is |-> all[k]] \in B
    <3>1. CASE k = 1
      BY <1>1, <1>3, <3>1
    <3>2. CASE k - 1 \in 1 .. L /\ k = (k - 1) + 1
      <4>1. bt[k] = at[k - 1] /\ all[k] = files[k - 1]
        BY <1>1, <1>3, <3>2
      <4> QED
        BY <3>2, <4>1
    <3> QED
      BY <1>2, <3>1, <3>2
  <2>2. [at |-> 0, is |-> b] \in A
    BY <1>1, <1>2, <1>3
  <2>3. ASSUME NEW k \in 1 .. L PROVE [at |-> at[k], is |-> files[k]] \in A
    <3>1. bt[k + 1] = at[k] /\ all[k + 1] = files[k] /\ k + 1 \in 1 .. L + 1
      BY <1>1, <1>2, <1>3
    <3> QED
      BY <3>1
  <2>4. A \subseteq B
    BY <2>1
  <2>5. B \subseteq A
    BY <2>2, <2>3
  <2> QED
    BY <2>4, <2>5
<1>8. DOMAIN all = 1 .. L + 1 /\ DOMAIN files = 1 .. L
  BY <1>1
<1>9. /\ all \in Seq(STRING)
      /\ \E x \in [DOMAIN all -> Int] :
           /\ InOrder(x)
           /\ {[at |-> x[k], is |-> all[k]] : k \in DOMAIN all} =
                {[at |-> 0, is |-> b]} \cup {[at |-> at[k], is |-> files[k]] : k \in DOMAIN files}
  BY <1>1, <1>5, <1>6, <1>7, <1>8
<1> QED
  BY <1>9 DEF all, Prepends

LEMMA InputsSettled ==
  ASSUME NEW c \in Commands, NEW o, NEW ended, Parsed(c, o, ended, Len(c.args) + 1),
         DirOf(c) \in DOMAIN Resources
  PROVE  LET files == FilesSettled(c, o) IN
         /\ files \in Seq(STRING) /\ InputsAre(c, files)
         /\ c.program = "icedc" /\ files # <<>> => Len(files) = 1
<1> DEFINE b == Bin[DirOf(c)]
           files == FilesSettled(c, o)
           def == IF Has(c, UsesDefault[c.program]) THEN {[at |-> 0, is |-> b]} ELSE {}
           N == Named(c)
<1>1. /\ c.program \in {"icecc", "icedc"} /\ Len(c.args) \in Nat /\ DOMAIN c.args = 1 .. Len(c.args)
      /\ b \in STRING /\ o.infiles \in Seq(STRING) /\ o.default \in BOOLEAN
      /\ \A n \in N : n \in 1 .. Len(c.args)
  <2>1. o \in Options
    BY DEF Parsed
  <2> QED
    BY <2>1, CommandFacts, PositionsAreInts, ProgramsAssumption DEF Options
<1>2. Below(N, Len(c.args) + 1) = N /\ Below(Switches(c), Len(c.args) + 1) = Switches(c)
  <2>1. \A n \in Switches(c) : n \in 1 .. Len(c.args)
    BY <1>1 DEF Switches
  <2> QED
    BY <1>1, <2>1, BelowAll
<1>3. o.default <=> Has(c, UsesDefault[c.program])
  BY <1>2 DEF Parsed, DefaultParsed, Has
<1>4. InputsOf(c) = CASE c.program = "icecc" -> def \cup Words(c, N)
                      [] c.program = "icedc" /\ def = {} /\ Words(c, N) # {} -> {Latest(Words(c, N))}
                      [] OTHER -> def
  BY DEF InputsOf
<1>5. ASSUME c.program = "icecc" PROVE files \in Seq(STRING) /\ InputsAre(c, files)
  <2>1. FilesInOrder(N, c.args, o.infiles)
    BY <1>2, <1>5 DEF Parsed, FilesParsed
  <2>2. PICK at \in [DOMAIN o.infiles -> N] :
          /\ InOrder(at)
          /\ \A n \in N : \E k \in DOMAIN o.infiles : at[k] = n
          /\ \A k \in DOMAIN o.infiles : o.infiles[k] = c.args[at[k]]
    BY <2>1 DEF FilesInOrder
  <2>3. Words(c, N) = {[at |-> at[k], is |-> o.infiles[k]] : k \in DOMAIN o.infiles}
    BY <2>2, NamedInOrder
  <2>4. at \in [DOMAIN o.infiles -> Int] /\ \A k \in DOMAIN o.infiles : at[k] > 0
    <3>1. \A n \in N : n \in Int /\ n > 0
      BY <1>1
    <3> QED
      BY <2>2, <3>1
  <2>5. CASE o.default
    <3>1. InputsOf(c) = {[at |-> 0, is |-> b]} \cup Words(c, N)
      BY <1>3, <1>4, <1>5, <2>5
    <3>2. files = <<b>> \o o.infiles
      BY <1>5, <2>5 DEF FilesSettled
    <3> HIDE DEF b, files
    <3>3. /\ <<b>> \o o.infiles \in Seq(STRING)
          /\ \E bt \in [DOMAIN (<<b>> \o o.infiles) -> Int] :
               /\ InOrder(bt)
               /\ {[at |-> bt[k], is |-> (<<b>> \o o.infiles)[k]] : k \in DOMAIN (<<b>> \o o.infiles)} =
                    {[at |-> 0, is |-> b]} \cup {[at |-> at[k], is |-> o.infiles[k]] : k \in DOMAIN o.infiles}
      <4>1. Prepends(b, o.infiles, at)
        BY <1>1, <2>2, <2>4, PrependInOrder
      <4> QED
        BY <4>1 DEF Prepends
    <3> QED
      <4> DEFINE all == <<b>> \o o.infiles
      <4>1. /\ all \in Seq(STRING)
            /\ \E bt \in [DOMAIN all -> Int] :
                 InOrder(bt) /\ InputsOf(c) = {[at |-> bt[k], is |-> all[k]] : k \in DOMAIN all}
        BY <2>3, <3>1, <3>3
      <4>2. files = all
        BY <3>2
      <4> HIDE DEF all
      <4> QED
        BY <4>1, <4>2 DEF InputsAre
  <2>6. CASE ~ o.default
    <3>1. InputsOf(c) = Words(c, N)
      BY <1>3, <1>4, <1>5, <2>6
    <3>2. files = o.infiles
      BY <2>6 DEF FilesSettled
    <3> QED
      BY <1>1, <2>2, <2>3, <2>4, <3>1, <3>2 DEF InputsAre
  <2> QED
    BY <1>1, <2>5, <2>6
<1>6. ASSUME c.program = "icedc"
      PROVE  files \in Seq(STRING) /\ InputsAre(c, files) /\ (files # <<>> => Len(files) = 1)
  <2>a. \A x \in STRING : /\ <<x>> \in Seq(STRING) /\ Len(<<x>>) = 1
                          /\ DOMAIN <<x>> = {1} /\ <<x>>[1] = x
    BY OneName
  <2>b. ASSUME NEW n \in Int, NEW x \in STRING, files = <<x>>, InputsOf(c) = {[at |-> n, is |-> x]}
        PROVE  files \in Seq(STRING) /\ InputsAre(c, files) /\ (files # <<>> => Len(files) = 1)
    <3> DEFINE at == [k \in {1} |-> n]
    <3>1. at \in [{1} -> Int] /\ InOrder(at) /\ at[1] = n
      BY DEF InOrder
    <3> HIDE DEF at, files
    <3>2. {[at |-> at[k], is |-> files[k]] : k \in {1}} = {[at |-> n, is |-> x]}
      BY <2>a, <2>b, <3>1
    <3>3. DOMAIN files = {1}
      BY <2>a, <2>b
    <3> QED
      BY <2>a, <2>b, <3>1, <3>2, <3>3 DEF InputsAre
  <2>1. CASE o.default
    <3>1. files = <<b>>
      BY <1>6, <2>1 DEF FilesSettled
    <3>2. InputsOf(c) = {[at |-> 0, is |-> b]}
      BY <1>3, <1>4, <1>6, <2>1
    <3> HIDE DEF b, files
    <3> QED
      BY <1>1, <2>b, <3>1, <3>2
  <2>2. CASE ~ o.default
    <3>1. Says(N, Alone(c.args), o.infiles, <<>>)
      BY <1>2, <1>6 DEF Parsed, FilesParsed
    <3>2. files = o.infiles
      BY <2>2 DEF FilesSettled
    <3>3. CASE N = {}
      <4>1. files = <<>>
        BY <3>1, <3>2, <3>3 DEF Says
      <4>2. InputsOf(c) = {}
        BY <1>3, <1>4, <1>6, <2>2, <3>3 DEF Words
      <4>3. DOMAIN <<>> = {} /\ <<>> \in Seq(STRING)
        OBVIOUS
      <4>4. [k \in {} |-> 0] \in [{} -> Int] /\ InOrder([k \in {} |-> 0])
        BY DEF InOrder
      <4>5. {[at |-> [k \in {} |-> 0][j], is |-> <<>>[j]] : j \in {}} = {}
        OBVIOUS
      <4> HIDE DEF files
      <4> QED
        BY <4>1, <4>2, <4>3, <4>4, <4>5 DEF InputsAre
    <3>4. CASE N # {}
      <4>1. PICK n \in N : (\A k \in N : k <= n) /\ o.infiles = Alone(c.args)[n]
        BY <3>1, <3>4 DEF Says
      <4>2. o.infiles = <<c.args[n]>> /\ c.args[n] \in STRING /\ n \in Int
        <5>1. n \in 1 .. Len(c.args) /\ n \in DOMAIN c.args
          BY <1>1
        <5>2. c.args[n] \in STRING
          BY <5>1, CommandFacts
        <5>3. Alone(c.args)[n] = <<c.args[n]>>
          BY <5>1 DEF Alone
        <5> QED
          BY <4>1, <5>1, <5>2, <5>3
      <4>3. InputsOf(c) = {Latest(Words(c, N))}
        BY <1>3, <1>4, <1>6, <2>2, <3>4 DEF Words
      <4>4. Latest(Words(c, N)) = [at |-> n, is |-> c.args[n]]
        <5> DEFINE S == Words(c, N)
        <5>1. [at |-> n, is |-> c.args[n]] \in S /\ [at |-> n, is |-> c.args[n]].at = n
          BY DEF Words
        <5>2. \A y \in S : \E k \in N : y = [at |-> k, is |-> c.args[k]] /\ y.at = k
          BY DEF Words
        <5>3. \A y \in S : y.at <= n
          BY <4>1, <5>2
        <5>4. \E y \in S : \A z \in S : z.at <= y.at
          BY <5>1, <5>3
        <5>5. Latest(S) \in S /\ \A z \in S : z.at <= Latest(S).at
          BY <5>4 DEF Latest
        <5> HIDE DEF S
        <5>6. PICK k \in N : Latest(S) = [at |-> k, is |-> c.args[k]] /\ Latest(S).at = k
          BY <5>2, <5>5
        <5>7. n <= k /\ k <= n
          BY <4>1, <5>1, <5>5, <5>6
        <5>8. k = n
          BY <1>1, <4>2, <5>7
        <5> QED
          BY <5>6, <5>8 DEF S
      <4> HIDE DEF files
      <4> QED
        BY <2>b, <3>2, <4>2, <4>3, <4>4
    <3> QED
      BY <3>3, <3>4
  <2> QED
    BY <1>1, <2>1, <2>2
<1> QED
  BY <1>1, <1>5, <1>6

-----------------------------------------------------------------------------
(* The scripts of the inputs, those of a later one over those of an earlier. *)

IsArchive(a) == a = Restrict(a, DOMAIN a)
Merges(a, F, m) ==
  /\ IsArchive(a)
  /\ \A h : h \in DOMAIN a <=> \E k \in 1 .. m : h \in DOMAIN F[k]
  /\ \A h \in DOMAIN a : \E k \in 1 .. m :
       /\ h \in DOMAIN F[k] /\ a[h] = F[k][h]
       /\ \A j \in 1 .. m : j > k => h \notin DOMAIN F[j]

LEMMA OverIsArchive ==
  ASSUME NEW a, NEW b
  PROVE  /\ IsArchive(Over(a, b)) /\ DOMAIN Over(a, b) = DOMAIN a \cup DOMAIN b
         /\ \A h \in DOMAIN a \cup DOMAIN b :
              Over(a, b)[h] = IF h \in DOMAIN b THEN b[h] ELSE a[h]
  BY DEF Over, IsArchive, Restrict

LEMMA EmptyIsArchive == IsArchive(<<>>) /\ DOMAIN <<>> = {}
<1>1. DOMAIN <<>> = {}
  OBVIOUS
<1>2. <<>> = [x \in {} |-> <<>>[x]]
  OBVIOUS
<1> QED
  BY <1>1, <1>2 DEF IsArchive, Restrict

LEMMA MergesNothing ==
  ASSUME NEW F
  PROVE  Merges(<<>>, F, 0)
<1>1. 1 .. 0 = {}
  OBVIOUS
<1> QED
  BY <1>1, EmptyIsArchive DEF Merges

LEMMA MergesNext ==
  ASSUME NEW a, NEW F, NEW m \in Nat, Merges(a, F, m)
  PROVE  Merges(Over(a, F[m + 1]), F, m + 1)
<1> DEFINE b == F[m + 1]
           c == Over(a, b)
<1>1. /\ IsArchive(c) /\ DOMAIN c = DOMAIN a \cup DOMAIN b
      /\ \A h \in DOMAIN c : c[h] = IF h \in DOMAIN b THEN b[h] ELSE a[h]
  <2> HIDE DEF b
  <2>1. /\ IsArchive(c) /\ DOMAIN c = DOMAIN a \cup DOMAIN b
        /\ \A h \in DOMAIN a \cup DOMAIN b :
             c[h] = IF h \in DOMAIN b THEN b[h] ELSE a[h]
    BY OverIsArchive
  <2> HIDE DEF c
  <2> QED
    BY <2>1
<1>2. /\ \A k \in 1 .. m + 1 : k \in 1 .. m \/ k = m + 1
      /\ \A k \in 1 .. m : k \in 1 .. m + 1 /\ k < m + 1
      /\ m + 1 \in 1 .. m + 1
  OBVIOUS
<1> HIDE DEF c
<1>3. \A h : h \in DOMAIN c <=> \E k \in 1 .. m + 1 : h \in DOMAIN F[k]
  BY <1>1, <1>2 DEF Merges
<1>4. ASSUME NEW h \in DOMAIN c
      PROVE  \E k \in 1 .. m + 1 : /\ h \in DOMAIN F[k] /\ c[h] = F[k][h]
                                   /\ \A j \in 1 .. m + 1 : j > k => h \notin DOMAIN F[j]
  <2>1. CASE h \in DOMAIN b
    <3>1. \A j \in 1 .. m + 1 : ~ j > m + 1
      BY <1>2
    <3> QED
      BY <1>1, <1>2, <2>1, <3>1
  <2>2. CASE h \notin DOMAIN b
    <3>1. h \in DOMAIN a /\ c[h] = a[h]
      BY <1>1, <2>2
    <3>2. PICK k \in 1 .. m : /\ h \in DOMAIN F[k] /\ a[h] = F[k][h]
                              /\ \A j \in 1 .. m : j > k => h \notin DOMAIN F[j]
      BY <3>1 DEF Merges
    <3>3. \A j \in 1 .. m + 1 : j > k => h \notin DOMAIN F[j]
      BY <1>2, <2>2, <3>2
    <3> QED
      BY <1>2, <3>1, <3>2, <3>3
  <2> QED
    BY <2>1, <2>2
<1> QED
  BY <1>1, <1>3, <1>4 DEF Merges, c

LEMMA MergesOne ==
  ASSUME NEW F, IsArchive(F[1])
  PROVE  Merges(F[1], F, 1)
<1>1. 1 .. 1 = {1} /\ ~ 1 > 1
  OBVIOUS
<1> QED
  BY <1>1 DEF Merges

(* Which is what the property says of them. *)
LEMMA MergesLatest ==
  ASSUME NEW L \in Nat, NEW at \in [1 .. L -> Int], InOrder(at), NEW G, NEW a,
         Merges(a, [k \in 1 .. L |-> G[k].scripts], L)
  PROVE  LET files == {[at |-> at[k], is |-> G[k]] : k \in 1 .. L} IN
         a = [h \in UNION {DOMAIN f.is.scripts : f \in files} |->
                Latest({f \in files : h \in DOMAIN f.is.scripts}).is.scripts[h]]
<1> DEFINE files == {[at |-> at[k], is |-> G[k]] : k \in 1 .. L}
           F == [k \in 1 .. L |-> G[k].scripts]
           D == UNION {DOMAIN f.is.scripts : f \in files}
           have(h) == {f \in files : h \in DOMAIN f.is.scripts}
<1>1. \A k \in 1 .. L : F[k] = G[k].scripts
  OBVIOUS
<1>2. /\ \A k \in 1 .. L : [at |-> at[k], is |-> G[k]] \in files
      /\ \A f \in files : \E k \in 1 .. L : f.at = at[k] /\ f.is = G[k]
  <2>1. \A k \in 1 .. L : [at |-> at[k], is |-> G[k]] \in files
    OBVIOUS
  <2>2. ASSUME NEW f \in files
        PROVE  \E k \in 1 .. L : f.at = at[k] /\ f.is = G[k]
    <3>1. PICK k \in 1 .. L : f = [at |-> at[k], is |-> G[k]]
      OBVIOUS
    <3> QED
      BY <3>1
  <2> QED
    BY <2>1, <2>2
<1>3. Merges(a, F, L)
  OBVIOUS
<1> HIDE DEF F
<1>4. \A k \in 1 .. L : [at |-> at[k], is |-> G[k]].at = at[k] /\ [at |-> at[k], is |-> G[k]].is = G[k]
  OBVIOUS
<1>5. DOMAIN a = D
  <2>1. ASSUME NEW h, h \in DOMAIN a PROVE h \in D
    <3>1. PICK k \in 1 .. L : h \in DOMAIN G[k].scripts
      BY <1>1, <1>3, <2>1 DEF Merges
    <3>2. [at |-> at[k], is |-> G[k]] \in files /\ h \in DOMAIN [at |-> at[k], is |-> G[k]].is.scripts
      BY <1>2, <1>4, <3>1
    <3> HIDE DEF files
    <3> QED
      BY <3>2
  <2>2. ASSUME NEW h, h \in D PROVE h \in DOMAIN a
    <3>1. PICK f \in files : h \in DOMAIN f.is.scripts
      BY <2>2
    <3>2. PICK k \in 1 .. L : f.is = G[k]
      BY <1>2
    <3> QED
      BY <1>1, <1>3, <3>1, <3>2 DEF Merges
  <2> HIDE DEF D
  <2> QED
    BY <2>1, <2>2
<1>6. ASSUME NEW h \in D PROVE a[h] = Latest(have(h)).is.scripts[h]
  <2>1. PICK k \in 1 .. L : /\ h \in DOMAIN F[k] /\ a[h] = F[k][h]
                            /\ \A j \in 1 .. L : j > k => h \notin DOMAIN F[j]
    BY <1>3, <1>5 DEF Merges
  <2> DEFINE g == [at |-> at[k], is |-> G[k]]
  <2>2. g \in have(h) /\ g.at = at[k]
    BY <1>1, <1>2, <1>4, <2>1
  <2>3. ASSUME NEW f \in have(h)
        PROVE  \E j \in 1 .. L : f.at = at[j] /\ f.is = G[j] /\ (j = k \/ j < k)
    <3>1. PICK j \in 1 .. L : f.at = at[j] /\ f.is = G[j]
      BY <1>2
    <3>2. h \in DOMAIN F[j]
      BY <1>1, <3>1
    <3>3. ~ j > k
      BY <2>1, <3>2
    <3> QED
      BY <3>1, <3>3
  <2>4. \A j \in 1 .. L : at[j] \in Int /\ (j < k => at[j] < at[k])
    BY <2>1 DEF InOrder
  <2> HIDE DEF g, have, files
  <2>5. \A f \in have(h) : f.at <= g.at
    BY <2>2, <2>3, <2>4
  <2>6. Latest(have(h)) \in have(h) /\ g.at <= Latest(have(h)).at
    BY <2>2, <2>5 DEF Latest
  <2>7. PICK j \in 1 .. L : /\ Latest(have(h)).at = at[j] /\ Latest(have(h)).is = G[j]
                            /\ j = k \/ j < k
    BY <2>3, <2>6
  <2>8. j = k
    BY <2>2, <2>4, <2>6, <2>7
  <2> QED
    BY <1>1, <2>1, <2>7, <2>8
<1>7. a = [h \in DOMAIN a |-> a[h]]
  BY <1>3 DEF Merges, IsArchive, Restrict
<1>8. a = [h \in D |-> Latest(have(h)).is.scripts[h]]
  <2> HIDE DEF D, have
  <2> QED
    BY <1>5, <1>6, <1>7
<1> QED
  BY <1>8

-----------------------------------------------------------------------------
(* The resource tables. *)

ImageTables ==
  {"isid_to_imagesent_list", "imagesent_to_isid", "imagesent_to_name",
   "imagesent_to_grpstring", "imagesent_to_isturning"}
Steps ==
  {"none", "images", "sprites", "flingy", "units", "sfxdata", "weapons", "iscript", "ready", "failed"}

(* The tables that are there before each step. *)
Built ==
  [s \in Steps |->
     CASE s \in {"none", "images", "failed"} -> {}
       [] s = "sprites" -> ImageTables
       [] s = "flingy" -> ImageTables \cup {"spritesent_to_imagesent"}
       [] s = "units" -> ImageTables \cup {"spritesent_to_imagesent", "flingyent_to_spritesent"}
       [] s = "sfxdata" -> ImageTables \cup {"spritesent_to_imagesent", "flingyent_to_spritesent",
                                             "unitsent_to_flingyent"}
       [] s = "weapons" -> ImageTables \cup {"spritesent_to_imagesent", "flingyent_to_spritesent",
                                             "unitsent_to_flingyent", "sfxdataent_to_wavstring"}
       [] s = "iscript" -> T!TableName \ {"iscriptent_to_name"}
       [] s = "ready" -> T!TableName]

TablesInv ==
  /\ step \in Steps /\ DOMAIN tables = Built[step]
  /\ step \in {"none", "images", "failed"} => tables = T!NoTables
  /\ \A t \in T!StringTables \cap DOMAIN tables : \A e \in DOMAIN tables[t] :
       tables[t][e].owner = T!Own

(* What they say is what the files say. *)
ImageScripts(says) == [x \in DOMAIN says["images.dat"] |-> says["images.dat"][x].iscript]
TablesSay ==
  /\ "imagesent_to_isid" \in DOMAIN tables => tables["imagesent_to_isid"] = ImageScripts(data)
  /\ "spritesent_to_imagesent" \in DOMAIN tables =>
       tables["spritesent_to_imagesent"] = data["sprites.dat"]
  /\ "flingyent_to_spritesent" \in DOMAIN tables =>
       tables["flingyent_to_spritesent"] = data["flingy.dat"]
  /\ "unitsent_to_flingyent" \in DOMAIN tables =>
       tables["unitsent_to_flingyent"] = data["units.dat"]

LEMMA WithFacts ==
  ASSUME NEW more, NEW t
  PROVE  /\ DOMAIN T!With(more) = DOMAIN tables \cup DOMAIN more
         /\ t \in DOMAIN more => T!With(more)[t] = more[t]
         /\ t \in DOMAIN tables /\ t \notin DOMAIN more => T!With(more)[t] = tables[t]
  BY DEF T!With

LEMMA CopiedFacts ==
  ASSUME NEW strings,
         \A e \in DOMAIN strings : strings[e] = [owner |-> strings[e].owner, text |-> strings[e].text]
  PROVE  \A e \in DOMAIN T!Copied(strings) : T!Copied(strings)[e].owner = T!Own
<1> SUFFICES ASSUME NEW e \in DOMAIN strings PROVE T!Copied(strings)[e].owner = T!Own
  BY DEF T!Copied
<1>1. T!Copied(strings)[e] = [strings[e] EXCEPT !.owner = T!Own]
  BY DEF T!Copied
<1>2. strings[e] = [owner |-> strings[e].owner, text |-> strings[e].text]
  OBVIOUS
<1> DEFINE r == strings[e]
<1> HIDE DEF r
<1>3. r = [owner |-> r.owner, text |-> r.text] => [r EXCEPT !.owner = T!Own].owner = T!Own
  OBVIOUS
<1> QED
  BY <1>1, <1>2, <1>3 DEF r

LEMMA StringFacts ==
  /\ \A file, s : T!String(file, s) = [owner |-> file, text |-> s]
  /\ \A tbl, x : LET s == T!TblString(tbl, x) IN s = [owner |-> s.owner, text |-> s.text]
  BY DEF T!String, T!TblString, T!NoString

(* More tables, the strings in which are owned by them. *)
LEMMA TablesGrow ==
  ASSUME NEW more, NEW next \in Steps, TablesInv, step \notin {"none", "failed"},
         tables' = T!With(more), step' = next, next \notin {"none", "images", "failed"},
         Built[next] = Built[step] \cup DOMAIN more,
         \A t \in T!StringTables \cap DOMAIN more : \A e \in DOMAIN more[t] : more[t][e].owner = T!Own
  PROVE  TablesInv'
<1>1. DOMAIN tables' = Built[step']
  BY WithFacts DEF TablesInv
<1>2. ASSUME NEW t \in T!StringTables \cap DOMAIN tables', NEW e \in DOMAIN tables'[t]
      PROVE  tables'[t][e].owner = T!Own
  <2>1. CASE t \in DOMAIN more
    <3>1. tables'[t] = more[t]
      BY <2>1, WithFacts
    <3> QED
      BY <1>2, <2>1, <3>1
  <2>2. CASE t \notin DOMAIN more
    <3>1. t \in DOMAIN tables /\ tables'[t] = tables[t]
      BY <2>2, WithFacts
    <3> QED
      BY <1>2, <3>1 DEF TablesInv
  <2> QED
    BY <2>1, <2>2
<1>3. T!StringTables' = T!StringTables /\ T!Own' = T!Own
  BY DEF T!StringTables, T!Own
<1> QED
  BY <1>1, <1>2, <1>3 DEF TablesInv

LEMMA TablesFail ==
  ASSUME NEW left, T!Failed(left)
  PROVE  TablesInv' /\ TablesSay'
  BY DEF T!Failed, TablesInv, TablesSay, T!NoTables, Built, Steps

LEMMA TablesImages ==
  ASSUME NEW there, T!InitImages(there), TablesInv
  PROVE  TablesInv' /\ TablesSay'
<1> DEFINE all == {"images.dat", "images.tbl", "images.lst", "iscript.lst"} \subseteq there
           images == DOMAIN data["images.dat"]
           isid == [x \in images |-> data["images.dat"][x].iscript]
           names == [x \in images |-> T!String("images.lst", data["images.lst"][x])]
           grps == [x \in images |-> T!TblString("images.tbl", data["images.dat"][x].grp)]
           more == [isid_to_imagesent_list |->
                      [id \in {isid[x] : x \in images} \ {-1} |-> {x \in images : isid[x] = id}],
                    imagesent_to_isid |-> isid,
                    imagesent_to_name |-> T!Copied(names),
                    imagesent_to_grpstring |-> T!Copied(grps),
                    imagesent_to_isturning |-> [x \in images |-> data["images.dat"][x].turns]]
<1>1. CASE ~ all
  <2>1. T!Failed({})
    BY <1>1 DEF T!InitImages
  <2> QED
    BY <2>1, TablesFail
<1>2. CASE all
  <2>1. tables' = T!With(more) /\ step = "images" /\ step' = "sprites" /\ data' = data
    BY <1>2 DEF T!InitImages
  <2>2. DOMAIN more = ImageTables /\ more["imagesent_to_isid"] = isid
        /\ more["imagesent_to_name"] = T!Copied(names)
        /\ more["imagesent_to_grpstring"] = T!Copied(grps)
    BY DEF ImageTables
  <2>3. /\ \A e \in DOMAIN T!Copied(names) : T!Copied(names)[e].owner = T!Own
        /\ \A e \in DOMAIN T!Copied(grps) : T!Copied(grps)[e].owner = T!Own
    <3>1. \A e \in DOMAIN names : names[e] = [owner |-> names[e].owner, text |-> names[e].text]
      BY StringFacts
    <3>2. \A e \in DOMAIN grps : grps[e] = [owner |-> grps[e].owner, text |-> grps[e].text]
      BY StringFacts
    <3> HIDE DEF names, grps
    <3> QED
      BY <3>1, <3>2, CopiedFacts
  <2>4. isid = ImageScripts(data)
    BY DEF ImageScripts
  <2> HIDE DEF more, isid, names, grps
  <2>5. \A t \in T!StringTables \cap DOMAIN more : \A e \in DOMAIN more[t] : more[t][e].owner = T!Own
    BY <2>2, <2>3 DEF T!StringTables, ImageTables
  <2>6. Built["sprites"] = Built[step] \cup DOMAIN more
    BY <2>1, <2>2 DEF Built, Steps
  <2>7. TablesInv'
    <3>1. "sprites" \in Steps
      BY DEF Steps
    <3> QED
      BY <2>1, <2>5, <2>6, <3>1, TablesGrow
  <2>8. TablesSay'
    <3>1. DOMAIN tables' = ImageTables
      BY <2>1, <2>7 DEF TablesInv, Built, Steps
    <3>2. tables'["imagesent_to_isid"] = ImageScripts(data)
      BY <2>1, <2>2, <2>4, WithFacts DEF ImageTables
    <3> QED
      BY <2>1, <3>1, <3>2 DEF TablesSay, ImageTables, ImageScripts
  <2> QED
    BY <2>7, <2>8
<1> QED
  BY <1>1, <1>2

LEMMA TablesReferences ==
  ASSUME NEW file, NEW table, NEW next \in Steps, NEW there,
         T!InitReferences(file, table, next, there), TablesInv, TablesSay,
         step \notin {"none", "failed"}, next \notin {"none", "images", "failed"},
         Built[next] = Built[step] \cup {table}, table \notin T!StringTables,
         <<file, table>> \in {<<"sprites.dat", "spritesent_to_imagesent">>,
                              <<"flingy.dat", "flingyent_to_spritesent">>,
                              <<"units.dat", "unitsent_to_flingyent">>}
  PROVE  TablesInv' /\ TablesSay'
<1> DEFINE more == [t \in {table} |-> data[file]]
<1>1. CASE file \notin there
  <2>1. T!Failed({})
    BY <1>1 DEF T!InitReferences
  <2> QED
    BY <2>1, TablesFail
<1>2. CASE file \in there
  <2>1. tables' = T!With(more) /\ step' = next /\ data' = data
    BY <1>2 DEF T!InitReferences
  <2>2. DOMAIN more = {table} /\ more[table] = data[file]
    OBVIOUS
  <2> HIDE DEF more
  <2>3. TablesInv'
    BY <2>1, <2>2, TablesGrow
  <2>4. \A t : t \in DOMAIN tables' =>
                 IF t = table THEN tables'[t] = data[file]
                 ELSE t \in DOMAIN tables /\ tables'[t] = tables[t]
    <3>1. DOMAIN tables' = DOMAIN tables \cup {table} /\ tables'[table] = data[file]
      BY <2>1, <2>2, WithFacts
    <3>2. ASSUME NEW t \in DOMAIN tables, t # table PROVE tables'[t] = tables[t]
      BY <2>1, <2>2, <3>2, WithFacts
    <3> QED
      BY <3>1, <3>2
  <2>5. TablesSay'
    BY <2>1, <2>4 DEF TablesSay, ImageScripts
  <2> QED
    BY <2>3, <2>5
<1> QED
  BY <1>1, <1>2

LEMMA TablesStrings ==
  ASSUME NEW file, NEW tbl, NEW table, NEW next \in Steps, NEW there,
         T!InitStrings(file, tbl, table, next, there), TablesInv, TablesSay,
         step \notin {"none", "failed"}, next \notin {"none", "images", "failed"},
         Built[next] = Built[step] \cup {table}, table \in T!StringTables
  PROVE  TablesInv' /\ TablesSay'
<1> DEFINE strings == [e \in DOMAIN data[file] |-> T!TblString(tbl, data[file][e])]
           more == [t \in {table} |-> T!Copied(strings)]
<1>1. CASE ~ {file, tbl} \subseteq there
  <2>1. T!Failed({file, tbl} \cap there)
    BY <1>1 DEF T!InitStrings
  <2> QED
    BY <2>1, TablesFail
<1>2. CASE {file, tbl} \subseteq there
  <2>1. tables' = T!With(more) /\ step' = next /\ data' = data
    BY <1>2 DEF T!InitStrings
  <2>2. DOMAIN more = {table} /\ more[table] = T!Copied(strings)
    OBVIOUS
  <2>3. \A e \in DOMAIN T!Copied(strings) : T!Copied(strings)[e].owner = T!Own
    <3>1. \A e \in DOMAIN strings : strings[e] = [owner |-> strings[e].owner, text |-> strings[e].text]
      BY StringFacts
    <3> HIDE DEF strings
    <3> QED
      BY <3>1, CopiedFacts
  <2> HIDE DEF more, strings
  <2>4. TablesInv'
    BY <2>1, <2>2, <2>3, TablesGrow
  <2>5. \A t : t \in DOMAIN tables' /\ t # table => t \in DOMAIN tables /\ tables'[t] = tables[t]
    <3>1. DOMAIN tables' = DOMAIN tables \cup {table}
      BY <2>1, <2>2, WithFacts
    <3>2. ASSUME NEW t \in DOMAIN tables, t # table PROVE tables'[t] = tables[t]
      BY <2>1, <2>2, <3>2, WithFacts
    <3> QED
      BY <3>1, <3>2
  <2>6. TablesSay'
    BY <2>1, <2>5 DEF TablesSay, T!StringTables, ImageScripts
  <2> QED
    BY <2>4, <2>6
<1> QED
  BY <1>1, <1>2

LEMMA TablesIscripts ==
  ASSUME T!InitIscripts, TablesInv, TablesSay
  PROVE  TablesInv' /\ TablesSay'
<1> DEFINE names == [x \in DOMAIN data["iscript.lst"] |->
                       T!String("iscript.lst", data["iscript.lst"][x])]
           more == [iscriptent_to_name |-> T!Copied(names)]
<1>1. tables' = T!With(more) /\ step = "iscript" /\ step' = "ready" /\ data' = data
  BY DEF T!InitIscripts
<1>2. DOMAIN more = {"iscriptent_to_name"} /\ more["iscriptent_to_name"] = T!Copied(names)
  OBVIOUS
<1>3. \A e \in DOMAIN T!Copied(names) : T!Copied(names)[e].owner = T!Own
  <2>1. \A e \in DOMAIN names : names[e] = [owner |-> names[e].owner, text |-> names[e].text]
    BY StringFacts
  <2> HIDE DEF names
  <2> QED
    BY <2>1, CopiedFacts
<1> HIDE DEF more, names
<1>4. "ready" \in Steps /\ Built["ready"] = Built["iscript"] \cup {"iscriptent_to_name"}
  BY DEF Steps, Built, T!TableName
<1>5. TablesInv'
  BY <1>1, <1>2, <1>3, <1>4, TablesGrow
<1>6. \A t : t \in DOMAIN tables' /\ t # "iscriptent_to_name" => t \in DOMAIN tables /\ tables'[t] = tables[t]
  BY <1>1, <1>2, WithFacts
<1>7. TablesSay'
  BY <1>1, <1>6 DEF TablesSay, ImageScripts
<1> QED
  BY <1>5, <1>7

LEMMA TablesStep ==
  ASSUME T!InitTables, TablesInv, TablesSay
  PROVE  TablesInv' /\ TablesSay' /\ data' = data
<1>1. /\ \A s \in {"sprites", "flingy", "units", "sfxdata", "weapons", "iscript"} :
           s \in Steps /\ s \notin {"none", "images", "failed"}
      /\ Built["flingy"] = Built["sprites"] \cup {"spritesent_to_imagesent"}
      /\ Built["units"] = Built["flingy"] \cup {"flingyent_to_spritesent"}
      /\ Built["sfxdata"] = Built["units"] \cup {"unitsent_to_flingyent"}
      /\ Built["weapons"] = Built["sfxdata"] \cup {"sfxdataent_to_wavstring"}
      /\ Built["iscript"] = Built["weapons"] \cup {"weaponsent_to_name"}
  BY DEF Steps, Built, T!TableName, ImageTables
<1>2. ASSUME NEW there, T!InitSprites(there) PROVE TablesInv' /\ TablesSay' /\ data' = data
  <2>1. step = "sprites"
        /\ T!InitReferences("sprites.dat", "spritesent_to_imagesent", "flingy", there)
    BY <1>2 DEF T!InitSprites
  <2>2. "spritesent_to_imagesent" \notin T!StringTables
    BY DEF T!StringTables
  <2>3. TablesInv' /\ TablesSay'
    BY <1>1, <2>1, <2>2, TablesReferences
  <2> QED
    BY <2>1, <2>3 DEF T!InitReferences, T!Failed
<1>3. ASSUME NEW there, T!InitFlingy(there) PROVE TablesInv' /\ TablesSay' /\ data' = data
  <2>1. step = "flingy"
        /\ T!InitReferences("flingy.dat", "flingyent_to_spritesent", "units", there)
    BY <1>3 DEF T!InitFlingy
  <2>2. "flingyent_to_spritesent" \notin T!StringTables
    BY DEF T!StringTables
  <2>3. TablesInv' /\ TablesSay'
    BY <1>1, <2>1, <2>2, TablesReferences
  <2> QED
    BY <2>1, <2>3 DEF T!InitReferences, T!Failed
<1>4. ASSUME NEW there, T!InitUnits(there) PROVE TablesInv' /\ TablesSay' /\ data' = data
  <2>1. step = "units"
        /\ T!InitReferences("units.dat", "unitsent_to_flingyent", "sfxdata", there)
    BY <1>4 DEF T!InitUnits
  <2>2. "unitsent_to_flingyent" \notin T!StringTables
    BY DEF T!StringTables
  <2>3. TablesInv' /\ TablesSay'
    BY <1>1, <2>1, <2>2, TablesReferences
  <2> QED
    BY <2>1, <2>3 DEF T!InitReferences, T!Failed
<1>5. ASSUME NEW there, T!InitSfxdata(there) PROVE TablesInv' /\ TablesSay' /\ data' = data
  <2>1. step = "sfxdata"
        /\ T!InitStrings("sfxdata.dat", "sfxdata.tbl", "sfxdataent_to_wavstring", "weapons", there)
    BY <1>5 DEF T!InitSfxdata
  <2>2. "sfxdataent_to_wavstring" \in T!StringTables
    BY DEF T!StringTables
  <2>3. TablesInv' /\ TablesSay'
    BY <1>1, <2>1, <2>2, TablesStrings
  <2> QED
    BY <2>1, <2>3 DEF T!InitStrings, T!Failed
<1>6. ASSUME NEW there, T!InitWeapons(there) PROVE TablesInv' /\ TablesSay' /\ data' = data
  <2>1. step = "weapons"
        /\ T!InitStrings("weapons.dat", "stat_txt.tbl", "weaponsent_to_name", "iscript", there)
    BY <1>6 DEF T!InitWeapons
  <2>2. "weaponsent_to_name" \in T!StringTables
    BY DEF T!StringTables
  <2>3. TablesInv' /\ TablesSay'
    BY <1>1, <2>1, <2>2, TablesStrings
  <2> QED
    BY <2>1, <2>3 DEF T!InitStrings, T!Failed
<1>7. ASSUME NEW there, T!InitImages(there) PROVE TablesInv' /\ TablesSay' /\ data' = data
  <2>1. TablesInv' /\ TablesSay'
    BY <1>7, TablesImages
  <2> QED
    BY <1>7, <2>1 DEF T!InitImages, T!Failed
<1>8. ASSUME T!InitIscripts PROVE TablesInv' /\ TablesSay' /\ data' = data
  <2>1. TablesInv' /\ TablesSay'
    BY <1>8, TablesIscripts
  <2> QED
    BY <1>8, <2>1 DEF T!InitIscripts
<1> QED
  BY <1>2, <1>3, <1>4, <1>5, <1>6, <1>7, <1>8 DEF T!InitTables

(* The script of an entry, if the references are good. *)
ImageScript(says, x) == says["images.dat"][x].iscript
Script(says, l, x) ==
  CASE l = "-m" -> ImageScript(says, x)
    [] l = "-p" -> ImageScript(says, says["sprites.dat"][x])
    [] l = "-f" -> ImageScript(says, says["sprites.dat"][says["flingy.dat"][x]])
    [] l = "-u" -> ImageScript(says, says["sprites.dat"][says["flingy.dat"][says["units.dat"][x]]])
IsImage(says, x) == x \in DOMAIN says["images.dat"]
IsSprite(says, x) == x \in DOMAIN says["sprites.dat"] /\ IsImage(says, says["sprites.dat"][x])
IsFlingy(says, x) == x \in DOMAIN says["flingy.dat"] /\ IsSprite(says, says["flingy.dat"][x])
IsUnit(says, x) == x \in DOMAIN says["units.dat"] /\ IsFlingy(says, says["units.dat"][x])
IsEntry(says, l, x) ==
  CASE l = "-m" -> IsImage(says, x)
    [] l = "-p" -> IsSprite(says, x)
    [] l = "-f" -> IsFlingy(says, x)
    [] l = "-u" -> IsUnit(says, x)
EntryLists == {"-m", "-p", "-f", "-u"}

LEMMA EntriesAreInts ==
  \A x \in Entry : x \in Int
<1>1. \A k : \A x \in 0 .. k : x \in Int
  OBVIOUS
<1> QED
  BY <1>1 DEF Entry

LEMMA EntriesInBounds ==
  ASSUME NEW c, NEW says, says = Resources[DirOf(c)], IsResources(says), NULL \notin ScriptsOf(c)
  PROVE  /\ \A l \in EntryLists : \A x \in Listed(c, l) :
              IsEntry(says, l, x) /\ x \in Entry /\ Script(says, l, x) \in Int
         /\ ScriptsOf(c) = UNION {{Script(says, l, x) : x \in Listed(c, l)} : l \in EntryLists}
<1> DEFINE refer(entries, file) ==
             {IF e \in DOMAIN says[file] THEN says[file][e] ELSE NULL : e \in entries}
           flingies == Listed(c, "-f") \cup refer(Listed(c, "-u"), "units.dat")
           sprites == Listed(c, "-p") \cup refer(flingies, "flingy.dat")
           images == Listed(c, "-m") \cup refer(sprites, "sprites.dat")
           unit == says["units.dat"]
           flingy == says["flingy.dat"]
           sprite == says["sprites.dat"]
           image(x) == ImageScript(says, x)
<1>1. ScriptsOf(c) = {IF e \in DOMAIN says["images.dat"] THEN image(e) ELSE NULL : e \in images}
  <2> DEFINE Here == Resources[DirOf(c)]
             Refer(entries, file) ==
               {IF e \in DOMAIN Here[file] THEN Here[file][e] ELSE NULL : e \in entries}
             Flingies == Listed(c, "-f") \cup Refer(Listed(c, "-u"), "units.dat")
             Sprites == Listed(c, "-p") \cup Refer(Flingies, "flingy.dat")
             Images == Listed(c, "-m") \cup Refer(Sprites, "sprites.dat")
  <2>1. ScriptsOf(c) = {IF e \in DOMAIN Here["images.dat"] THEN Here["images.dat"][e].iscript ELSE NULL : e \in Images}
    BY DEF ScriptsOf
  <2>2. \A entries, file : Refer(entries, file) = refer(entries, file)
    OBVIOUS
  <2>3. Flingies = flingies
    BY <2>2
  <2>4. Sprites = sprites
    <3> HIDE DEF Flingies, flingies
    <3> QED
      BY <2>2, <2>3
  <2>5. Images = images
    <3> HIDE DEF Sprites, sprites
    <3> QED
      BY <2>2, <2>4
  <2> HIDE DEF Images, images
  <2> QED
    BY <2>1, <2>5 DEF ImageScript
<1>2. /\ \A e \in DOMAIN unit : unit[e] \in Int /\ e \in Entry
      /\ \A e \in DOMAIN flingy : flingy[e] \in Int /\ e \in Entry
      /\ \A e \in DOMAIN sprite : sprite[e] \in Int /\ e \in Entry
      /\ \A e \in DOMAIN says["images.dat"] : image(e) \in Int /\ e \in Entry
      /\ \A e \in Entry : e \in Int
  <2>1. \A e \in Entry : e \in Int
    BY EntriesAreInts
  <2>2. \A f \in References : DOMAIN says[f] \subseteq Entry /\ \A e \in DOMAIN says[f] : says[f][e] \in Int
    BY DEF IsResources
  <2>3. /\ DOMAIN says["images.dat"] \subseteq Entry
        /\ \A e \in DOMAIN says["images.dat"] : says["images.dat"][e].iscript \in Int
    BY DEF IsResources
  <2>4. "units.dat" \in References /\ "flingy.dat" \in References /\ "sprites.dat" \in References
    BY DEF References
  <2> QED
    BY <2>1, <2>2, <2>3, <2>4 DEF ImageScript
<1>3. NULL \notin Int
  BY ProgramsAssumption
<1>4. \A e \in images : IsImage(says, e)
  <2> HIDE DEF images, image
  <2> QED
    BY <1>1 DEF IsImage
<1>5. \A e \in sprites : e \in DOMAIN sprite /\ sprite[e] \in images
  <2>1. \A e \in sprites : (IF e \in DOMAIN sprite THEN sprite[e] ELSE NULL) \in images
    OBVIOUS
  <2>2. NULL \notin images
    BY <1>2, <1>3, <1>4 DEF IsImage
  <2> HIDE DEF sprites, images
  <2> QED
    BY <2>1, <2>2
<1>6. \A e \in flingies : e \in DOMAIN flingy /\ flingy[e] \in sprites
  <2>1. \A e \in flingies : (IF e \in DOMAIN flingy THEN flingy[e] ELSE NULL) \in sprites
    OBVIOUS
  <2>2. NULL \notin sprites
    BY <1>2, <1>3, <1>5
  <2> HIDE DEF sprites, flingies
  <2> QED
    BY <2>1, <2>2
<1>7. \A e \in Listed(c, "-u") : e \in DOMAIN unit /\ unit[e] \in flingies
  <2>1. \A e \in Listed(c, "-u") : (IF e \in DOMAIN unit THEN unit[e] ELSE NULL) \in flingies
    OBVIOUS
  <2>2. NULL \notin flingies
    BY <1>2, <1>3, <1>6
  <2> HIDE DEF flingies
  <2> QED
    BY <2>1, <2>2
<1>8. /\ flingies = Listed(c, "-f") \cup {unit[e] : e \in Listed(c, "-u")}
      /\ sprites = Listed(c, "-p") \cup {flingy[e] : e \in flingies}
      /\ images = Listed(c, "-m") \cup {sprite[e] : e \in sprites}
      /\ ScriptsOf(c) = {image(e) : e \in images}
  <2>1. refer(Listed(c, "-u"), "units.dat") = {unit[e] : e \in Listed(c, "-u")}
    BY <1>7
  <2>2. refer(flingies, "flingy.dat") = {flingy[e] : e \in flingies}
    <3> HIDE DEF flingies
    <3> QED
      BY <1>6
  <2>3. refer(sprites, "sprites.dat") = {sprite[e] : e \in sprites}
    <3> HIDE DEF sprites
    <3> QED
      BY <1>5
  <2>4. ScriptsOf(c) = {image(e) : e \in images}
    <3> HIDE DEF images, image
    <3> QED
      BY <1>1, <1>4 DEF IsImage
  <2>5. /\ flingies = Listed(c, "-f") \cup refer(Listed(c, "-u"), "units.dat")
        /\ sprites = Listed(c, "-p") \cup refer(flingies, "flingy.dat")
        /\ images = Listed(c, "-m") \cup refer(sprites, "sprites.dat")
    OBVIOUS
  <2> HIDE DEF flingies, sprites, images, refer, unit, flingy, sprite
  <2> QED
    BY <2>1, <2>2, <2>3, <2>4, <2>5
<1> HIDE DEF flingies, sprites, images
<1>9. /\ Listed(c, "-f") \subseteq flingies /\ Listed(c, "-p") \subseteq sprites
      /\ Listed(c, "-m") \subseteq images
  BY <1>8
<1>10. /\ \A e \in sprites : IsSprite(says, e)
       /\ \A e \in flingies : IsFlingy(says, e)
       /\ \A e \in Listed(c, "-u") : IsUnit(says, e)
  BY <1>4, <1>5, <1>6, <1>7 DEF IsSprite, IsFlingy, IsUnit
<1>11. ASSUME NEW l \in EntryLists, NEW x \in Listed(c, l)
       PROVE  IsEntry(says, l, x) /\ x \in Entry /\ Script(says, l, x) \in Int
  <2>1. CASE l = "-m"
    BY <1>2, <1>4, <1>9, <1>11, <2>1 DEF IsEntry, Script, IsImage
  <2>2. CASE l = "-p"
    BY <1>2, <1>4, <1>5, <1>9, <1>10, <1>11, <2>2 DEF IsEntry, Script, IsImage
  <2>3. CASE l = "-f"
    BY <1>2, <1>4, <1>5, <1>6, <1>9, <1>10, <1>11, <2>3 DEF IsEntry, Script, IsImage
  <2>4. CASE l = "-u"
    BY <1>2, <1>4, <1>5, <1>6, <1>7, <1>10, <1>11, <2>4 DEF IsEntry, Script, IsImage
  <2> QED
    BY <1>11, <2>1, <2>2, <2>3, <2>4 DEF EntryLists
<1>12. ScriptsOf(c) = UNION {{Script(says, l, x) : x \in Listed(c, l)} : l \in EntryLists}
  <2> DEFINE All == UNION {{Script(says, l, x) : x \in Listed(c, l)} : l \in EntryLists}
  <2>1. \A l \in EntryLists : \A x \in Listed(c, l) : Script(says, l, x) \in All
    OBVIOUS
  <2>2. /\ \A x \in Listed(c, "-m") : image(x) \in All
        /\ \A x \in Listed(c, "-p") : image(sprite[x]) \in All
        /\ \A x \in Listed(c, "-f") : image(sprite[flingy[x]]) \in All
        /\ \A x \in Listed(c, "-u") : image(sprite[flingy[unit[x]]]) \in All
    <3>1. /\ \A x : Script(says, "-m", x) = image(x)
          /\ \A x : Script(says, "-p", x) = image(sprite[x])
          /\ \A x : Script(says, "-f", x) = image(sprite[flingy[x]])
          /\ \A x : Script(says, "-u", x) = image(sprite[flingy[unit[x]]])
      BY DEF Script
    <3> HIDE DEF All
    <3> QED
      BY <2>1, <3>1 DEF EntryLists
  <2>3. ASSUME NEW s \in All PROVE s \in ScriptsOf(c)
    <3>1. PICK l \in EntryLists : \E x \in Listed(c, l) : s = Script(says, l, x)
      OBVIOUS
    <3>2. PICK x \in Listed(c, l) : s = Script(says, l, x)
      BY <3>1
    <3> HIDE DEF All, image, sprite, flingy, unit
    <3>3. CASE l = "-m"
      <4>1. x \in images /\ s = image(x)
        BY <1>9, <3>2, <3>3 DEF Script, image
      <4> QED
        BY <1>8, <4>1
    <3>4. CASE l = "-p"
      <4>1. x \in sprites /\ s = image(sprite[x])
        BY <1>9, <3>2, <3>4 DEF Script, image, sprite
      <4> QED
        BY <1>5, <1>8, <4>1
    <3>5. CASE l = "-f"
      <4>1. x \in flingies /\ s = image(sprite[flingy[x]])
        BY <1>9, <3>2, <3>5 DEF Script, image, sprite, flingy
      <4> QED
        BY <1>5, <1>6, <1>8, <4>1
    <3>6. CASE l = "-u"
      <4>1. x \in Listed(c, "-u") /\ s = image(sprite[flingy[unit[x]]])
        BY <3>2, <3>6 DEF Script, image, sprite, flingy, unit
      <4> QED
        BY <1>5, <1>6, <1>7, <1>8, <4>1
    <3> QED
      BY <3>3, <3>4, <3>5, <3>6 DEF EntryLists
  <2>4. ASSUME NEW s \in ScriptsOf(c) PROVE s \in All
    <3> HIDE DEF All, image, sprite, flingy, unit
    <3>1. PICK x \in images : s = image(x)
      BY <1>8
    <3>2. CASE x \in Listed(c, "-m")
      BY <2>2, <3>1, <3>2
    <3>3. ASSUME NEW y \in sprites, x = sprite[y] PROVE s \in All
      <4>1. CASE y \in Listed(c, "-p")
        BY <2>2, <3>1, <3>3, <4>1
      <4>2. ASSUME NEW z \in flingies, y = flingy[z] PROVE s \in All
        <5>1. CASE z \in Listed(c, "-f")
          BY <2>2, <3>1, <3>3, <4>2, <5>1
        <5>2. ASSUME NEW u \in Listed(c, "-u"), z = unit[u] PROVE s \in All
          BY <2>2, <3>1, <3>3, <4>2, <5>2
        <5> QED
          BY <1>8, <5>1, <5>2
      <4> QED
        BY <1>8, <4>1, <4>2
    <3> QED
      BY <1>8, <3>2, <3>3
  <2> HIDE DEF All
  <2>5. All = ScriptsOf(c)
    BY <2>3, <2>4
  <2> QED
    BY <2>5 DEF All
<1> QED
  BY <1>11, <1>12

(* The tables give the same. *)
LEMMA TablesAnswer ==
  ASSUME TablesInv, TablesSay, step = "ready", NEW l \in EntryLists, NEW x, IsEntry(data, l, x)
  PROVE  T!IsEntry(l, x) /\ T!Isid(l, x) = Script(data, l, x)
<1>1. /\ tables["imagesent_to_isid"] = ImageScripts(data)
      /\ tables["spritesent_to_imagesent"] = data["sprites.dat"]
      /\ tables["flingyent_to_spritesent"] = data["flingy.dat"]
      /\ tables["unitsent_to_flingyent"] = data["units.dat"]
  <2>1. DOMAIN tables = T!TableName
    BY DEF TablesInv, Built, Steps
  <2> QED
    BY <2>1 DEF TablesSay, T!TableName
<1>2. DOMAIN ImageScripts(data) = DOMAIN data["images.dat"]
  BY DEF ImageScripts
<1>3. \A y : IsImage(data, y) => T!IsImage(y) /\ T!ImageIsid(y) = ImageScript(data, y)
  BY <1>1, <1>2 DEF IsImage, T!IsImage, T!ImageIsid, ImageScript, ImageScripts
<1>4. \A y : IsSprite(data, y) =>
        T!IsSprite(y) /\ T!SpriteIsid(y) = ImageScript(data, data["sprites.dat"][y])
  BY <1>1, <1>3 DEF IsSprite, T!IsSprite, T!SpriteIsid
<1>5. \A y : IsFlingy(data, y) =>
        T!IsFlingy(y) /\ T!FlingyIsid(y) = ImageScript(data, data["sprites.dat"][data["flingy.dat"][y]])
  BY <1>1, <1>4 DEF IsFlingy, T!IsFlingy, T!FlingyIsid
<1>6. \A y : IsUnit(data, y) =>
        T!IsUnit(y) /\ T!UnitIsid(y) =
          ImageScript(data, data["sprites.dat"][data["flingy.dat"][data["units.dat"][y]]])
  BY <1>1, <1>5 DEF IsUnit, T!IsUnit, T!UnitIsid
<1>7. CASE l = "-m"
  BY <1>3, <1>7 DEF IsEntry, T!IsEntry, T!Isid, Script
<1>8. CASE l = "-p"
  BY <1>4, <1>8 DEF IsEntry, T!IsEntry, T!Isid, Script
<1>9. CASE l = "-f"
  BY <1>5, <1>9 DEF IsEntry, T!IsEntry, T!Isid, Script
<1>10. CASE l = "-u"
  BY <1>6, <1>10 DEF IsEntry, T!IsEntry, T!Isid, Script
<1> QED
  BY <1>7, <1>8, <1>9, <1>10 DEF EntryLists

(* A list of entries that the tables have is the list of their scripts. *)
LEMMA IdsOfEntries ==
  ASSUME NEW l \in EntryLists, NEW N, NEW outside, TablesInv, TablesSay, step = "ready",
         opt.list[l] \in Seq(Entry), Range(opt.list[l]) = Narrow(N),
         \A x \in N : IsEntry(data, l, x) /\ x \in Entry /\ Script(data, l, x) \in Int
  PROVE  /\ Ids(l, outside) \in Seq(Entry)
         /\ Range(Ids(l, outside)) = Narrow({Script(data, l, x) : x \in N})
<1> DEFINE list == opt.list[l]
           script(x) == Script(data, l, x)
           got == [n \in DOMAIN list |->
                    LET e == list[n] IN IF T!IsEntry(l, e) THEN T!Isid(l, e) ELSE outside]
<1>1. Narrow(N) = N
  <2>0. \A x \in Entry : x \in Int
    BY EntriesAreInts
  <2>1. \A x \in N : x \in Int /\ x \in Entry
    BY <2>0
  <2>2. ASSUME NEW x \in N PROVE x % 2^16 = x
    <3>1. x \in Int /\ x \in Entry
      BY <2>1
    <3> QED
      BY <3>1, NarrowEntry
  <2> QED
    BY <2>2 DEF Narrow
<1>2. \A n \in DOMAIN list : list[n] \in N
  BY <1>1 DEF Range
<1>3. \A x \in N : \E n \in DOMAIN list : x = list[n]
  BY <1>1 DEF Range
<1>4. \A n \in DOMAIN list : got[n] = script(list[n]) /\ got[n] \in Int
  <2> SUFFICES ASSUME NEW n \in DOMAIN list
               PROVE  got[n] = script(list[n]) /\ got[n] \in Int
    OBVIOUS
  <2>1. IsEntry(data, l, list[n]) /\ script(list[n]) \in Int
    BY <1>2
  <2>2. T!IsEntry(l, list[n]) /\ T!Isid(l, list[n]) = Script(data, l, list[n])
    BY <2>1, TablesAnswer
  <2> QED
    BY <2>1, <2>2
<1>5. DOMAIN got = DOMAIN list /\ Len(list) \in Nat /\ DOMAIN list = 1 .. Len(list)
  OBVIOUS
<1> HIDE DEF got
<1>6. got \in Seq(Int)
  <2>1. got = [n \in 1 .. Len(list) |-> got[n]]
    <3>1. got = [n \in DOMAIN got |-> got[n]]
      BY DEF got
    <3> QED
      BY <1>5, <3>1
  <2> HIDE DEF list
  <2>2. \A n \in 1 .. Len(list) : got[n] \in Int
    BY <1>4, <1>5
  <2> QED
    BY <1>5, <2>1, <2>2
<1>7. Range(got) = {script(x) : x \in N}
  <2> HIDE DEF script, list
  <2>1. \A s \in Range(got) : s \in {script(x) : x \in N}
    BY <1>2, <1>4, <1>5 DEF Range
  <2>2. \A x \in N : script(x) \in Range(got)
    BY <1>3, <1>4, <1>5 DEF Range
  <2> QED
    BY <2>1, <2>2
<1>8. Ids(l, outside) = Narrowed(got)
  BY DEF Ids, got
<1> HIDE DEF script
<1>9. Narrowed(got) \in Seq(Entry) /\ Range(Narrowed(got)) = Narrow(Range(got))
  BY <1>6, NarrowedNumbers
<1>10. Range(Ids(l, outside)) = Narrow({script(x) : x \in N})
  BY <1>7, <1>8, <1>9
<1> QED
  BY <1>8, <1>9, <1>10 DEF script

LEMMA LookedUp ==
  ASSUME NEW c \in Commands, c.program = "icedc", NEW outside,
         opt.list \in [Lists -> Seq(Entry)], \A l \in Lists : Range(opt.list[l]) = Narrow(Listed(c, l)),
         TablesInv, TablesSay, step = "ready", DirOf(c) \in DOMAIN Resources,
         data = Resources[DirOf(c)], Reading[c].inbounds
  PROVE  LET ids == opt.list["-i"] \o Ids("-m", outside) \o Ids("-p", outside)
                      \o Ids("-f", outside) \o Ids("-u", outside) IN
         ids \in Seq(Entry) /\ Range(ids) = Reading[c].ids
<1> DEFINE S(l) == {Script(data, l, x) : x \in Listed(c, l)}
           scripts == ScriptsOf(c)
<1>1. /\ Reading[c].inbounds = (NULL \notin scripts)
      /\ Reading[c].ids = {id % 2^16 : id \in Listed(c, "-i") \cup (scripts \ {NULL})}
  <2> DEFINE v == Has(c, "-v")  w == LastValue(c, "-o", DefaultOutfile[c.program])
             x == InputsOf(c)  y == (NULL \notin scripts)
             z == {id % 2^16 : id \in Listed(c, "-i") \cup (scripts \ {NULL})}
  <2>1. Reading[c] = [version |-> v, output |-> w, inputs |-> x, inbounds |-> y, ids |-> z]
    <3>1. Reading[c] = [version |-> v, output |-> w, inputs |-> x,
              inbounds |-> NULL \notin (IF c.program = "icedc" THEN ScriptsOf(c) ELSE {}),
              ids |-> {id % 2^16 : id \in (IF c.program = "icedc" THEN Listed(c, "-i") ELSE {})
                 \cup ((IF c.program = "icedc" THEN ScriptsOf(c) ELSE {}) \ {NULL})}]
      BY CommandFacts
    <3>2. (IF c.program = "icedc" THEN ScriptsOf(c) ELSE {}) = scripts
      BY DEF scripts
    <3>3. (IF c.program = "icedc" THEN Listed(c, "-i") ELSE {}) = Listed(c, "-i")
      OBVIOUS
    <3> QED
      BY <3>1, <3>2, <3>3
  <2>2. y = (NULL \notin scripts) /\ z = {id % 2^16 : id \in Listed(c, "-i") \cup (scripts \ {NULL})}
    OBVIOUS
  <2> HIDE DEF v, w, x, y, z, scripts
  <2>3. Reading[c].inbounds = y /\ Reading[c].ids = z
    BY <2>1
  <2> QED
    BY <2>2, <2>3
<1>2. IsResources(data) /\ NULL \notin scripts
  BY <1>1, ProgramsAssumption
<1>3. /\ \A l \in EntryLists : \A x \in Listed(c, l) :
           IsEntry(data, l, x) /\ x \in Entry /\ Script(data, l, x) \in Int
      /\ scripts = UNION {S(l) : l \in EntryLists}
  <2>1. NULL \notin ScriptsOf(c)
    BY <1>2
  <2> QED
    BY <1>2, <2>1, EntriesInBounds
<1>4. \A l \in EntryLists : l \in Lists /\ opt.list[l] \in Seq(Entry) /\ Range(opt.list[l]) = Narrow(Listed(c, l))
  BY DEF EntryLists, Lists
<1>5. ASSUME NEW l \in EntryLists
      PROVE  Ids(l, outside) \in Seq(Entry) /\ Range(Ids(l, outside)) = Narrow(S(l))
  BY <1>3, <1>4, IdsOfEntries
<1> DEFINE a == opt.list["-i"]  b == Ids("-m", outside)  d == Ids("-p", outside)
           e == Ids("-f", outside)  f == Ids("-u", outside)
<1>6. /\ a \in Seq(Entry) /\ Range(a) = Narrow(Listed(c, "-i"))
      /\ b \in Seq(Entry) /\ Range(b) = Narrow(S("-m")) /\ d \in Seq(Entry) /\ Range(d) = Narrow(S("-p"))
      /\ e \in Seq(Entry) /\ Range(e) = Narrow(S("-f")) /\ f \in Seq(Entry) /\ Range(f) = Narrow(S("-u"))
  <2>1. "-i" \in Lists /\ "-m" \in EntryLists /\ "-p" \in EntryLists /\ "-f" \in EntryLists /\ "-u" \in EntryLists
    BY DEF EntryLists, Lists
  <2> HIDE DEF S
  <2> QED
    BY <1>5, <2>1
<1> HIDE DEF a, b, d, e, f, S, scripts
<1> DEFINE ab == a \o b  abd == ab \o d  abde == abd \o e  all == abde \o f
<1>7. ab \in Seq(Entry) /\ Range(ab) = Range(a) \cup Range(b)
  BY <1>6, ConcatRange
<1> HIDE DEF ab
<1>8. abd \in Seq(Entry) /\ Range(abd) = Range(ab) \cup Range(d)
  BY <1>6, <1>7, ConcatRange
<1> HIDE DEF abd
<1>9. abde \in Seq(Entry) /\ Range(abde) = Range(abd) \cup Range(e)
  BY <1>6, <1>8, ConcatRange
<1> HIDE DEF abde
<1>10. all \in Seq(Entry) /\ Range(all) = Range(abde) \cup Range(f)
  BY <1>6, <1>9, ConcatRange
<1> HIDE DEF all
<1>11. scripts \ {NULL} = S("-m") \cup S("-p") \cup S("-f") \cup S("-u")
  BY <1>2, <1>3 DEF EntryLists
<1>12. Reading[c].ids = Narrow(Listed(c, "-i") \cup (S("-m") \cup S("-p") \cup S("-f") \cup S("-u")))
  BY <1>1, <1>11 DEF Narrow
<1>13. Reading[c].ids = Range(a) \cup Range(b) \cup Range(d) \cup Range(e) \cup Range(f)
  <2>1. Narrow(Listed(c, "-i") \cup (S("-m") \cup S("-p") \cup S("-f") \cup S("-u"))) =
          Narrow(Listed(c, "-i")) \cup Narrow(S("-m")) \cup Narrow(S("-p")) \cup Narrow(S("-f")) \cup Narrow(S("-u"))
    <3> DEFINE A1 == Listed(c, "-i")  A2 == S("-m")  A3 == S("-p")  A4 == S("-f")  A5 == S("-u")
    <3> HIDE DEF A1, A2, A3, A4, A5
    <3>1. Narrow(A1 \cup (A2 \cup A3 \cup A4 \cup A5)) =
            Narrow(A1) \cup Narrow(A2) \cup Narrow(A3) \cup Narrow(A4) \cup Narrow(A5)
      BY DEF Narrow
    <3> QED
      BY <3>1 DEF A1, A2, A3, A4, A5
  <2> QED
    BY <1>6, <1>12, <2>1
<1>14. all \in Seq(Entry) /\ Range(all) = Reading[c].ids
  BY <1>7, <1>8, <1>9, <1>10, <1>13
<1>15. all = opt.list["-i"] \o Ids("-m", outside) \o Ids("-p", outside)
                 \o Ids("-f", outside) \o Ids("-u", outside)
  BY DEF a, b, d, e, f, ab, abd, abde, all
<1> QED
  BY <1>14, <1>15

-----------------------------------------------------------------------------
(* What the arguments and the configuration have set when both are read.   *)
(* The parts of what a command asks for. *)
LEMMA ReadingFacts ==
  ASSUME NEW c \in Commands
  PROVE  /\ Reading[c].version = Has(c, "-v")
         /\ Reading[c].output = LastValue(c, "-o", DefaultOutfile[c.program])
         /\ Reading[c].inputs = InputsOf(c)
<1> DEFINE v == Has(c, "-v")  w == LastValue(c, "-o", DefaultOutfile[c.program])
           x == InputsOf(c)  y == NULL \notin (IF c.program = "icedc" THEN ScriptsOf(c) ELSE {})
           z == {id % 2^16 : id \in (IF c.program = "icedc" THEN Listed(c, "-i") ELSE {})
               \cup ((IF c.program = "icedc" THEN ScriptsOf(c) ELSE {}) \ {NULL})}
<1>1. Reading[c] = [version |-> v, output |-> w, inputs |-> x, inbounds |-> y, ids |-> z]
  BY CommandFacts
<1> HIDE DEF v, w, x, y, z
<1>2. Reading[c].version = v /\ Reading[c].output = w /\ Reading[c].inputs = x
  BY <1>1
<1> QED
  BY <1>2 DEF v, w, x

Said(c, w, x, none) ==
  /\ Values(c, w) = {} => x = none
  /\ Values(c, w) # {} =>
       /\ x = Latest(Words(c, Values(c, w))).is
       /\ \E n \in 2 .. Len(c.args) : x = c.args[n] /\ c.args[n - 1] = w

LEMMA LastSaid ==
  ASSUME NEW c \in Commands, NEW w, NEW x, NEW none,
         Says(Below(Values(c, w), Len(c.args) + 1), c.args, x, none)
  PROVE  Said(c, w, x, none)
<1> DEFINE V == Values(c, w)
<1>1. /\ Len(c.args) \in Nat /\ V \subseteq Int
      /\ \A n \in V : n \in 2 .. Len(c.args) /\ c.args[n - 1] = w
  BY CommandFacts, PositionsAreInts
<1> HIDE DEF V
<1>2. \A n \in V : n \in 1 .. Len(c.args)
  BY <1>1
<1>3. Below(V, Len(c.args) + 1) = V
  BY <1>1, <1>2, BelowAll
<1>4. Says(V, c.args, x, none)
  BY <1>3 DEF V
<1>5. V = {} => x = none
  BY <1>4 DEF Says
<1>6. ASSUME V # {} PROVE x = Latest(Words(c, V)).is /\ \E n \in V : x = c.args[n]
  <2>1. Latest({[at |-> n, is |-> c.args[n]] : n \in V}).is = x
    BY <1>1, <1>4, <1>6, SaysLatest
  <2>2. \E n \in V : x = c.args[n]
    BY <1>4, <1>6 DEF Says
  <2> QED
    BY <2>1, <2>2 DEF Words
<1> QED
  BY <1>1, <1>5, <1>6 DEF V, Said

LEMMA OptionsSettled ==
  ASSUME NEW c \in Commands, NEW o, NEW ended, Parsed(c, o, ended, Len(c.args) + 1), NEW d, NEW free,
         Configured(ConfigLines(o.config), Len(ConfigLines(o.config)) + 1, d, free)
  PROVE  /\ Reading[c].output = (IF o.outfile = NULL THEN DefaultOutfile[c.program] ELSE o.outfile)
         /\ Reading[c].output \in Name
         /\ DirOf(c) = (IF o.configdir = NULL THEN d ELSE o.configdir)
         /\ DirOf(c) \in DOMAIN Resources
         /\ c.program = "icedc" =>
              \A l \in Lists : Range(o.list[l]) = Narrow(Listed(c, l))
<1> DEFINE L == Len(c.args)
<1>0. /\ L \in Nat /\ c.program \in {"icecc", "icedc"} /\ \A n \in 1 .. L : c.args[n] \in STRING
      /\ NULL \notin STRING /\ IsCommand(c) /\ DefaultOutfile[c.program] \in Name
  BY CommandFacts, ProgramsAssumption
<1>1. c.program = "icedc" => \A l \in Lists : Range(o.list[l]) = Narrow(ListedBelow(c, l, L + 1))
  BY DEF Parsed, ValuesParsed
<1>a. Said(c, "-o", o.outfile, NULL)
  <2>1. Says(Below(Values(c, "-o"), Len(c.args) + 1), c.args, o.outfile, NULL)
    BY DEF Parsed, ValuesParsed
  <2> QED
    BY <2>1, LastSaid
<1>b. Said(c, "-c", o.config, DefaultConfig)
  <2>1. Says(Below(Values(c, "-c"), Len(c.args) + 1), c.args, o.config, DefaultConfig)
    BY DEF Parsed, ValuesParsed
  <2> QED
    BY <2>1, LastSaid
<1>c. Said(c, "-r", o.configdir, NULL)
  <2>1. Says(Below(Values(c, "-r"), Len(c.args) + 1), c.args, o.configdir, NULL)
    BY DEF Parsed, ValuesParsed
  <2> QED
    BY <2>1, LastSaid
<1>2. Reading[c].output = LastValue(c, "-o", DefaultOutfile[c.program])
  BY ReadingFacts
<1>3. /\ Reading[c].output = (IF o.outfile = NULL THEN DefaultOutfile[c.program] ELSE o.outfile)
      /\ Reading[c].output \in Name
  <2>1. CASE Values(c, "-o") = {}
    <3>1. o.outfile = NULL
      BY <1>a, <2>1 DEF Said
    <3> QED
      BY <1>0, <1>2, <2>1, <3>1 DEF LastValue
  <2>2. CASE Values(c, "-o") # {}
    <3>1. /\ o.outfile = Latest(Words(c, Values(c, "-o"))).is
          /\ \E n \in 2 .. L : o.outfile = c.args[n] /\ c.args[n - 1] = "-o"
      BY <1>a, <2>2 DEF Said
    <3>2. PICK n \in 2 .. L : o.outfile = c.args[n] /\ c.args[n - 1] = "-o"
      BY <3>1
    <3>3. o.outfile \in Name /\ o.outfile \in STRING
      <4>1. n \in 1 .. L
        BY <1>0
      <4>2. n \in 2 .. Len(c.args)
        OBVIOUS
      <4>3. c.args[n] \in Name
        BY <1>0, <3>2, <4>2 DEF IsCommand
      <4> QED
        BY <1>0, <3>2, <4>1, <4>3
    <3>4. Reading[c].output = o.outfile
      BY <1>2, <2>2, <3>1 DEF LastValue
    <3> QED
      BY <1>0, <3>3, <3>4
  <2> QED
    BY <2>1, <2>2
<1>4. o.config = LastValue(c, "-c", DefaultConfig)
  <2>1. CASE Values(c, "-c") = {}
    <3>1. o.config = DefaultConfig
      BY <1>b, <2>1 DEF Said
    <3> QED
      BY <2>1, <3>1 DEF LastValue
  <2>2. CASE Values(c, "-c") # {}
    <3>1. o.config = Latest(Words(c, Values(c, "-c"))).is
      BY <1>b, <2>2 DEF Said
    <3> QED
      BY <2>2, <3>1 DEF LastValue
  <2> QED
    BY <2>1, <2>2
<1>5. d = ConfiguredDir(ConfigLines(o.config))
  BY DirConfigured
<1>6. d \in DOMAIN Resources
  BY DEF Configured
<1>7. /\ DirOf(c) = (IF o.configdir = NULL THEN d ELSE o.configdir)
      /\ DirOf(c) \in DOMAIN Resources
  <2>0. DirOf(c) = LastValue(c, "-r", d)
    BY <1>4, <1>5 DEF DirOf
  <2>1. CASE Values(c, "-r") = {}
    <3>1. o.configdir = NULL
      BY <1>c, <2>1 DEF Said
    <3> QED
      BY <1>6, <2>0, <2>1, <3>1 DEF LastValue
  <2>2. CASE Values(c, "-r") # {}
    <3>1. /\ o.configdir = Latest(Words(c, Values(c, "-r"))).is
          /\ \E n \in 2 .. L : o.configdir = c.args[n] /\ c.args[n - 1] = "-r"
      BY <1>c, <2>2 DEF Said
    <3>2. PICK n \in 2 .. L : o.configdir = c.args[n] /\ c.args[n - 1] = "-r"
      BY <3>1
    <3>3. o.configdir \in DOMAIN Resources /\ o.configdir \in STRING
      <4>1. n \in 1 .. L
        BY <1>0
      <4>2. n \in 2 .. Len(c.args)
        OBVIOUS
      <4>3. c.args[n] \in DOMAIN Resources
        BY <1>0, <3>2, <4>2 DEF IsCommand
      <4> QED
        BY <1>0, <3>2, <4>1, <4>3
    <3>4. DirOf(c) = o.configdir
      BY <2>0, <2>2, <3>1 DEF LastValue
    <3> QED
      BY <1>0, <3>3, <3>4
  <2> QED
    BY <2>1, <2>2
<1>8. ASSUME c.program = "icedc", NEW l \in Lists PROVE Range(o.list[l]) = Narrow(Listed(c, l))
  <2>1. \A n \in Values(c, l) : n \in 1 .. L
    <3>1. \A n \in Values(c, l) : n \in 2 .. Len(c.args)
      BY PositionsAreInts
    <3> QED
      BY <1>0, <3>1
  <2>2. Below(Values(c, l), L + 1) = Values(c, l)
    BY <1>0, <2>1, BelowAll
  <2>3. ListedBelow(c, l, L + 1) = Listed(c, l)
    BY <2>2 DEF ListedBelow, Listed
  <2> QED
    BY <1>1, <1>8, <2>3
<1> QED
  BY <1>3, <1>7, <1>8

-----------------------------------------------------------------------------
(* What the inputs have to give. *)
Old(name) == IF icecc /\ name = "-" /\ name \notin Compiled THEN Stdin ELSE On(before, name)
OldForm(name) == IF icecc THEN Form(name) ELSE "bin"
OldScripts(files) == [k \in 1 .. Len(files) |-> Old(files[k]).scripts]
WholeOnes(files) == \A k \in DOMAIN files : Old(files[k]).form = OldForm(files[k])

LEMMA InputsAsked ==
  ASSUME command \in Commands, NEW files \in Seq(STRING), InputsAre(command, files)
  PROVE  /\ Whole <=> WholeOnes(files)
         /\ (\E input \in asked.inputs : Was(input).form \notin {FormOf(input), "part"}) <=>
              \E k \in DOMAIN files : Old(files[k]).form \notin {OldForm(files[k]), "part"}
         /\ \A a : Merges(a, OldScripts(files), Len(files)) => a = Available
<1> DEFINE c == command  L == Len(files)
<1>1. L \in Nat /\ DOMAIN files = 1 .. L
  OBVIOUS
<1>2. PICK at \in [DOMAIN files -> Int] :
        InOrder(at) /\ InputsOf(c) = {[at |-> at[k], is |-> files[k]] : k \in DOMAIN files}
  BY DEF InputsAre
<1>3. asked.inputs = InputsOf(c)
  BY ReadingFacts DEF asked
<1>4. asked.inputs = {[at |-> at[k], is |-> files[k]] : k \in DOMAIN files}
  BY <1>2, <1>3
<1>5. \A input : Was(input) = Old(input.is) /\ FormOf(input) = OldForm(input.is)
  BY DEF Was, Old, FormOf, OldForm
<1>6. /\ \A input \in asked.inputs : \E k \in DOMAIN files : input.is = files[k] /\ input.at = at[k]
      /\ \A k \in DOMAIN files : \E input \in asked.inputs : input.is = files[k] /\ input.at = at[k]
  <2>1. ASSUME NEW input \in asked.inputs
        PROVE  \E k \in DOMAIN files : input.is = files[k] /\ input.at = at[k]
    <3>1. PICK k \in DOMAIN files : input = [at |-> at[k], is |-> files[k]]
      BY <1>4
    <3> QED
      BY <3>1
  <2>2. ASSUME NEW k \in DOMAIN files
        PROVE  \E input \in asked.inputs : input.is = files[k] /\ input.at = at[k]
    <3>1. [at |-> at[k], is |-> files[k]] \in asked.inputs
      BY <1>4
    <3> QED
      BY <3>1
  <2> QED
    BY <2>1, <2>2
<1>7. Whole <=> WholeOnes(files)
  <2>1. ASSUME Whole PROVE WholeOnes(files)
    <3> SUFFICES ASSUME NEW k \in DOMAIN files PROVE Old(files[k]).form = OldForm(files[k])
      BY DEF WholeOnes
    <3>1. PICK input \in asked.inputs : input.is = files[k]
      BY <1>6
    <3> QED
      BY <1>5, <2>1, <3>1 DEF Whole
  <2>2. ASSUME WholeOnes(files) PROVE Whole
    <3> SUFFICES ASSUME NEW input \in asked.inputs PROVE Was(input).form = FormOf(input)
      BY DEF Whole
    <3>1. PICK k \in DOMAIN files : input.is = files[k]
      BY <1>6
    <3> QED
      BY <1>5, <2>2, <3>1 DEF WholeOnes
  <2> QED
    BY <2>1, <2>2
<1>8. (\E input \in asked.inputs : Was(input).form \notin {FormOf(input), "part"}) <=>
        \E k \in DOMAIN files : Old(files[k]).form \notin {OldForm(files[k]), "part"}
  BY <1>5, <1>6
<1>9. ASSUME NEW a, Merges(a, OldScripts(files), L) PROVE a = Available
  <2> DEFINE G == [k \in 1 .. L |-> Old(files[k])]
             them == {[at |-> at[k], is |-> G[k]] : k \in 1 .. L}
             there == {[at |-> input.at, is |-> Was(input)] : input \in asked.inputs}
  <2>1. OldScripts(files) = [k \in 1 .. L |-> G[k].scripts]
    BY DEF OldScripts
  <2>2. a = [h \in UNION {DOMAIN f.is.scripts : f \in them} |->
                Latest({f \in them : h \in DOMAIN f.is.scripts}).is.scripts[h]]
    <3> HIDE DEF G
    <3>1. Merges(a, [k \in 1 .. L |-> G[k].scripts], L)
      BY <1>9, <2>1
    <3>2. at \in [1 .. L -> Int] /\ InOrder(at) /\ L \in Nat
      BY <1>1, <1>2
    <3> HIDE DEF L
    <3> QED
      BY <3>1, <3>2, MergesLatest
  <2>3. them = there
    <3>1. \A k \in 1 .. L : [at |-> at[k], is |-> G[k]] \in there
      <4> SUFFICES ASSUME NEW k \in 1 .. L PROVE [at |-> at[k], is |-> G[k]] \in there
        OBVIOUS
      <4>1. PICK input \in asked.inputs : input.is = files[k] /\ input.at = at[k]
        BY <1>1, <1>6
      <4>2. Was(input) = G[k]
        BY <1>5, <4>1
      <4> QED
        BY <4>1, <4>2
    <3>2. \A input \in asked.inputs : [at |-> input.at, is |-> Was(input)] \in them
      <4> SUFFICES ASSUME NEW input \in asked.inputs PROVE [at |-> input.at, is |-> Was(input)] \in them
        OBVIOUS
      <4>1. PICK k \in DOMAIN files : input.is = files[k] /\ input.at = at[k]
        BY <1>6
      <4>2. Was(input) = G[k] /\ k \in 1 .. L
        BY <1>1, <1>5, <4>1
      <4> QED
        BY <4>1, <4>2
    <3> HIDE DEF G
    <3> QED
      BY <3>1, <3>2
  <2>4. Available = [h \in UNION {DOMAIN f.is.scripts : f \in there} |->
                Latest({f \in there : h \in DOMAIN f.is.scripts}).is.scripts[h]]
    BY DEF Available
  <2> HIDE DEF them, there
  <2> QED
    BY <2>2, <2>3, <2>4
<1> QED
  BY <1>7, <1>8, <1>9

-----------------------------------------------------------------------------
(* The invariant.  Each phase of a program has what the one before it made: *)
(* the arguments are read up to i, the configuration up to its line i, what *)
(* both ask for is settled, some of the inputs are read, some of the ids    *)
(* are extracted, and the output is of what was asked for.                  *)
Phases ==
  {"shell", "args", "config", "input", "save", "write",
   "lookup", "load", "extract", "open", "print", "exit"}
Compiling == {"input", "save", "write"}
Decompiling == {"lookup", "load", "extract", "open", "print"}

PhaseInv ==
  /\ pc \in Phases
  /\ pc # "shell" => command \in Commands
  /\ pc \in Compiling => command.program = "icecc"
  /\ pc \in Decompiling => command.program = "icedc"
  /\ step = "none" \/ pc \in {"lookup", "print", "exit"}
  /\ pc \in {"lookup", "print"} => data = Resources[dir]

Stored(a_disk) == DOMAIN a_disk = Name /\ \A name \in Name : IsFile(a_disk[name])
FilesInv ==
  /\ Stored(disk) /\ Stored(before)
  /\ IsArchive(iscript) /\ IsArchive(new)
  /\ pc \notin {"write", "print", "exit"} => disk = before
  /\ pc \in {"write", "print"} => \A name \in Name \ {opt.outfile} : disk[name] = before[name]

ArgsInv ==
  /\ pc = "args" =>
       Parsed(command, opt, nomoreswitches, i) /\ dir = DefaultDir /\ loadconfigdir = TRUE
  /\ pc = "config" =>
       /\ Parsed(command, opt, nomoreswitches, Len(command.args) + 1)
       /\ Configured(ConfigLines(opt.config), i, dir, loadconfigdir)
  /\ pc \in {"args", "config"} => iscript = <<>>
  /\ pc \in {"args", "config", "lookup", "load"} => new = <<>>

SettledInv ==
  pc \in Compiling \cup Decompiling =>
    /\ opt.outfile = asked.output /\ opt.outfile \in Name
    /\ opt.infiles \in Seq(STRING) /\ opt.infiles # <<>> /\ InputsAre(command, opt.infiles)
    /\ dir = DirOf(command) /\ dir \in DOMAIN Resources
    /\ command.program = "icedc" =>
         /\ Len(opt.infiles) = 1
         /\ opt.list \in [Lists -> Seq(Entry)]
         /\ \A l \in Lists : Range(opt.list[l]) = Narrow(Listed(command, l))

(* The inputs that are still to be read. *)
Ahead(files, m) ==
  todo \in Seq(STRING) /\ Len(todo) = Len(files) - m /\ \A k \in 1 .. Len(todo) : todo[k] = files[m + k]
ReadUpTo(files, m) == \A k \in 1 .. m : Old(files[k]).form \in {OldForm(files[k]), "part"}
WholeUpTo(files, m) == \A k \in 1 .. m : Old(files[k]).form = OldForm(files[k])
InputInv ==
  pc = "input" =>
    \E m \in 0 .. Len(opt.infiles) - 1 :
      /\ Ahead(opt.infiles, m)
      /\ ReadUpTo(opt.infiles, m)
      /\ WholeUpTo(opt.infiles, m) => Merges(iscript, OldScripts(opt.infiles), m)

Readable == \A input \in asked.inputs : Was(input).form \in {FormOf(input), "part"}

(* The ids that are still to be extracted, and those that are. *)
ReadInv ==
  /\ pc \in {"save", "write", "extract"} => Readable /\ (Whole => iscript = Available)
  /\ pc = "load" => (asked.inbounds => todo \in Seq(Entry) /\ Range(todo) = asked.ids)
  /\ pc = "extract" =>
       /\ \A h \in DOMAIN new : h \in DOMAIN iscript /\ new[h] = iscript[h]
       /\ asked.inbounds =>
            todo \in Seq(Entry) /\ Range(todo) \cup DOMAIN new = asked.ids /\ asked.ids # {}
  /\ pc \in {"open", "print"} =>
       /\ Readable
       /\ Whole /\ asked.inbounds =>
            iscript = Result(Available, asked.ids) /\ asked.ids \subseteq DOMAIN Available

Inv ==
  /\ PhaseInv /\ FilesInv /\ ArgsInv /\ SettledInv /\ InputInv /\ ReadInv
  /\ TablesInv /\ TablesSay
  /\ FailureKeepsFiles /\ OutputIsWhatWasAsked

(* What a command asks for stays the same while it runs. *)
LEMMA SameAsked ==
  ASSUME command' = command, before' = before
  PROVE  /\ asked' = asked /\ Available' = Available
         /\ Whole' <=> Whole
         /\ Readable' <=> Readable
         /\ \A available, ids : Result(available, ids)' = Result(available, ids)
<1>1. asked' = asked
  BY DEF asked
<1>2. icecc' = icecc
  BY DEF icecc
<1>3. \A input : Was(input)' = Was(input) /\ FormOf(input)' = FormOf(input)
  BY <1>2 DEF Was, On, FormOf
<1>4. (Whole' <=> Whole) /\ (Readable' <=> Readable)
  BY <1>1, <1>3 DEF Whole, Readable
<1>5. Available' = Available
  <2> DEFINE there == {[at |-> input.at, is |-> Was(input)] : input \in asked.inputs}
  <2>1. there' = there
    BY <1>1, <1>3
  <2> HIDE DEF there
  <2>2. Available = [h \in UNION {DOMAIN f.is.scripts : f \in there} |->
                Latest({f \in there : h \in DOMAIN f.is.scripts}).is.scripts[h]]
    BY DEF Available, there
  <2>3. Available' = [h \in UNION {DOMAIN f.is.scripts : f \in there'} |->
                Latest({f \in there' : h \in DOMAIN f.is.scripts}).is.scripts[h]]
    BY DEF Available, there
  <2> QED
    BY <2>1, <2>2, <2>3
<1>6. \A available, ids : Result(available, ids)' = Result(available, ids)
  BY <1>2 DEF Result
<1> QED
  BY <1>1, <1>4, <1>5, <1>6

LEMMA TablesSame ==
  ASSUME TablesInv, TablesSay, UNCHANGED tvars
  PROVE  TablesInv' /\ TablesSay'
BY DEF TablesInv, TablesSay, tvars

LEMMA TablesStart ==
  ASSUME TablesInv, step = "none", NEW files, T!StartTables(files)
  PROVE  TablesInv' /\ TablesSay' /\ step' = "images" /\ data' = files
<1>1. /\ tables' = tables /\ tables = T!NoTables /\ step' = "images" /\ data' = files
      /\ DOMAIN tables = {}
  BY DEF TablesInv, T!StartTables, T!NoTables
<1>2. Built["images"] = {} /\ "images" \in Steps
  BY DEF Built, Steps
<1> QED
  BY <1>1, <1>2 DEF TablesInv, TablesSay

LEMMA TablesNone ==
  ASSUME tables' = T!NoTables, step' = "none"
  PROVE  TablesInv' /\ TablesSay'
<1>1. DOMAIN tables' = {}
  BY DEF T!NoTables
<1>2. Built["none"] = {} /\ "none" \in Steps
  BY DEF Built, Steps
<1> QED
  BY <1>1, <1>2 DEF TablesInv, TablesSay

(* A program that ends. *)
LEMMA Ends ==
  ASSUME Inv, pc # "shell", pc' = "exit", command' = command, before' = before, Stored(disk'),
         IsArchive(iscript'), IsArchive(new'), TablesInv', TablesSay',
         FailureKeepsFiles', OutputIsWhatWasAsked'
  PROVE  Inv'
<1>1. PhaseInv'
  BY DEF Inv, PhaseInv, Phases, Compiling, Decompiling
<1>2. FilesInv'
  BY DEF Inv, FilesInv, Stored
<1>3. ArgsInv' /\ SettledInv' /\ InputInv' /\ ReadInv'
  BY DEF ArgsInv, SettledInv, InputInv, ReadInv, Compiling, Decompiling
<1> QED
  BY <1>1, <1>2, <1>3 DEF Inv

(* It gives up, and the files are as they were. *)
LEMMA GivesUp ==
  ASSUME Inv, pc # "shell", NEW s, Exit(s), before' = before, disk' = disk, disk = before,
         UNCHANGED <<iscript, new, tvars>>,
         OutputIsWhatWasAsked'
  PROVE  Inv'
<1>1. pc' = "exit" /\ command' = command /\ iscript' = iscript /\ new' = new
  BY DEF Exit
<1>2. Stored(disk') /\ IsArchive(iscript') /\ IsArchive(new') /\ TablesInv' /\ TablesSay'
  BY TablesSame DEF Inv, FilesInv
<1>3. FailureKeepsFiles'
  BY <1>1 DEF FailureKeepsFiles
<1> QED
  BY <1>1, <1>2, <1>3, Ends

(* It ends when its inputs are read: only its output is another. *)
LEMMA EndsLate ==
  ASSUME Inv, pc \in {"save", "write", "print"}, NEW s, Exit(s), before' = before, Stored(disk'),
         \A name \in Name \ {opt.outfile} : disk'[name] = before[name],
         s = 1 => disk'[opt.outfile] \in {before[opt.outfile], NoFile},
         UNCHANGED <<iscript, new>>, TablesInv', TablesSay', OutputIsWhatWasAsked'
  PROVE  Inv'
<1>1. /\ pc' = "exit" /\ status' = s /\ command' = command /\ iscript' = iscript /\ new' = new
      /\ pc # "shell" /\ opt.outfile = asked.output
  BY DEF Exit, Inv, SettledInv, Compiling, Decompiling
<1>2. IsArchive(iscript') /\ IsArchive(new')
  BY <1>1 DEF Inv, FilesInv
<1>3. asked' = asked /\ Available' = Available /\ (Whole' <=> Whole) /\ (Readable' <=> Readable)
  BY <1>1, SameAsked
<1>4. Readable
  BY DEF Inv, ReadInv
<1>5. ~ icecc /\ Whole /\ asked.inbounds => asked.ids \subseteq DOMAIN Available
  BY DEF Inv, PhaseInv, ReadInv, icecc, Compiling
<1>6. icecc' = icecc
  BY <1>1 DEF icecc
<1>7. FailureKeepsFiles'
  <2>1. ~ (\E input \in asked.inputs : Was(input).form \notin {FormOf(input), "part"})'
    BY <1>3, <1>4 DEF Readable
  <2>2. (~ icecc /\ Whole /\ asked.inbounds => asked.ids \subseteq DOMAIN Available)'
    BY <1>3, <1>5, <1>6
  <2>3. (\A name \in Name \ {asked.output} : disk[name] = before[name])'
    BY <1>1, <1>3
  <2>4. (status = 1 => disk[asked.output] \in {before[asked.output], NoFile})'
    BY <1>1, <1>3
  <2> QED
    BY <2>1, <2>2, <2>3, <2>4 DEF FailureKeepsFiles
<1> QED
  BY <1>1, <1>2, <1>7, Ends

-----------------------------------------------------------------------------
(* The shell. *)
LEMMA EmptyArchive == IsArchive(<<>>)
<1>1. Merges(<<>>, <<>>, 0)
  BY MergesNothing
<1> QED
  BY <1>1 DEF Merges

LEMMA InitInv ==
  ASSUME Init
  PROVE  Inv
<1>1. /\ pc = "shell" /\ disk = before /\ disk \in Disks /\ iscript = <<>> /\ new = <<>>
      /\ tables = T!NoTables /\ step = "none"
  BY DEF Init, Idle
<1>2. TablesInv /\ TablesSay
  <2>1. DOMAIN tables = {}
    BY <1>1 DEF T!NoTables
  <2>2. Built["none"] = {} /\ "none" \in Steps
    BY DEF Built, Steps
  <2> QED
    BY <1>1, <2>1, <2>2 DEF TablesInv, TablesSay
<1>3. Stored(disk) /\ Stored(before)
  BY <1>1, ProgramsAssumption DEF Stored
<1>4. PhaseInv
  BY <1>1 DEF PhaseInv, Phases, Compiling, Decompiling
<1>5. FilesInv
  BY <1>1, <1>3, EmptyArchive DEF FilesInv
<1>6. ArgsInv /\ SettledInv /\ InputInv /\ ReadInv /\ FailureKeepsFiles /\ OutputIsWhatWasAsked
  BY <1>1 DEF ArgsInv, SettledInv, InputInv, ReadInv, FailureKeepsFiles, OutputIsWhatWasAsked,
              Compiling, Decompiling
<1> QED
  BY <1>2, <1>4, <1>5, <1>6 DEF Inv

LEMMA FreshTables ==
  ASSUME Fresh
  PROVE  /\ TablesInv' /\ TablesSay' /\ IsArchive(iscript') /\ IsArchive(new')
         /\ iscript' = <<>> /\ new' = <<>> /\ step' = "none"
BY TablesNone, EmptyArchive DEF Fresh

LEMMA RunStep ==
  ASSUME Inv, NEW c \in Commands, Run(c)
  PROVE  Inv'
<1>1. /\ pc = "shell" /\ command' = c /\ i' = 1 /\ nomoreswitches' = FALSE /\ opt' = NoOptions
      /\ dir' = DefaultDir /\ loadconfigdir' = TRUE /\ pc' = "args"
      /\ before' = disk /\ disk' = disk /\ Fresh
  BY DEF Run, Start
<1>2. PhaseInv'
  BY <1>1, FreshTables DEF PhaseInv, Phases, Compiling, Decompiling
<1>3. FilesInv'
  BY <1>1, FreshTables DEF Inv, FilesInv, Stored
<1>4. ArgsInv'
  <2>1. Parsed(c, NoOptions, FALSE, 1)
    BY NothingParsed
  <2> QED
    BY <1>1, <2>1, FreshTables DEF ArgsInv
<1>5. SettledInv' /\ InputInv' /\ ReadInv' /\ FailureKeepsFiles' /\ OutputIsWhatWasAsked'
  BY <1>1 DEF SettledInv, InputInv, ReadInv, FailureKeepsFiles, OutputIsWhatWasAsked,
              Compiling, Decompiling
<1> QED
  BY <1>1, <1>2, <1>3, <1>4, <1>5, FreshTables DEF Inv

LEMMA ReapStep ==
  ASSUME Inv, Reap
  PROVE  Inv'
<1>1. pc' = "shell" /\ before' = disk /\ disk' = disk /\ Fresh
  BY DEF Reap
<1>2. PhaseInv'
  BY <1>1, FreshTables DEF PhaseInv, Phases, Compiling, Decompiling
<1>3. FilesInv'
  BY <1>1, FreshTables DEF Inv, FilesInv, Stored
<1>4. ArgsInv' /\ SettledInv' /\ InputInv' /\ ReadInv' /\ FailureKeepsFiles' /\ OutputIsWhatWasAsked'
  BY <1>1 DEF ArgsInv, SettledInv, InputInv, ReadInv, FailureKeepsFiles, OutputIsWhatWasAsked,
              Compiling, Decompiling
<1> QED
  BY <1>1, <1>2, <1>3, <1>4, FreshTables DEF Inv

LEMMA KillStep ==
  ASSUME Inv, Kill
  PROVE  Inv'
<1>1. /\ pc \notin {"shell", "exit"} /\ Exit(Killed) /\ before' = before /\ disk' = disk
      /\ UNCHANGED <<iscript, new, tvars>>
  BY DEF Kill, memory, shell, output
<1>2. OutputIsWhatWasAsked'
  BY <1>1 DEF OutputIsWhatWasAsked, Exit, Killed
<1>3. CASE disk = before
  BY <1>1, <1>2, <1>3, GivesUp
<1>4. CASE pc \in {"write", "print"}
  <2>1. \A name \in Name \ {opt.outfile} : disk'[name] = before[name]
    BY <1>1, <1>4 DEF Inv, FilesInv
  <2>2. Stored(disk') /\ TablesInv' /\ TablesSay'
    BY <1>1, TablesSame DEF Inv, FilesInv
  <2>3. Killed # 1
    BY DEF Killed
  <2> QED
    BY <1>1, <1>2, <1>4, <2>1, <2>2, <2>3, EndsLate
<1> QED
  BY <1>1, <1>3, <1>4 DEF Inv, FilesInv

-----------------------------------------------------------------------------
(* The arguments and the configuration. *)
LEMMA Prepares ==
  ASSUME Inv, pc \in {"args", "config"}, pc' \in {"args", "config"}, command' = command,
         UNCHANGED <<tvars, memory, shell, output>>, ArgsInv'
  PROVE  Inv'
<1>1. /\ iscript' = iscript /\ new' = new /\ before' = before /\ disk' = disk /\ step' = step
  BY DEF tvars, memory, shell, output
<1>2. PhaseInv'
  BY <1>1 DEF Inv, PhaseInv, Phases, Compiling, Decompiling
<1>3. FilesInv'
  BY <1>1 DEF Inv, FilesInv, Stored
<1>4. SettledInv' /\ InputInv' /\ ReadInv' /\ FailureKeepsFiles' /\ OutputIsWhatWasAsked'
  BY DEF SettledInv, InputInv, ReadInv, FailureKeepsFiles, OutputIsWhatWasAsked, Compiling, Decompiling
<1> QED
  BY <1>2, <1>3, <1>4, TablesSame DEF Inv

LEMMA ArgumentStep ==
  ASSUME Inv, Argument, UNCHANGED <<tvars, memory, shell, output>>
  PROVE  Inv'
<1> DEFINE word == command.args[i]
<1>1. /\ pc = "args" /\ i <= Len(command.args) /\ command' = command
      /\ dir' = dir /\ loadconfigdir' = loadconfigdir
  BY DEF Argument, args
<1>2. /\ command \in Commands /\ Parsed(command, opt, nomoreswitches, i)
      /\ dir = DefaultDir /\ loadconfigdir = TRUE /\ iscript = <<>> /\ new = <<>> /\ disk = before
  BY <1>1 DEF Inv, PhaseInv, ArgsInv, FilesInv
<1>3. /\ i \in 1 .. Len(command.args) /\ ~ Value(command)[i] /\ nomoreswitches \in BOOLEAN
      /\ (nomoreswitches <=> Plain(command, i)) /\ opt \in Options
      /\ Len(command.args) \in Nat /\ command.program \in {"icecc", "icedc"}
  <2>1. Len(command.args) \in Nat /\ command.program \in {"icecc", "icedc"}
    BY <1>2, CommandFacts
  <2>2. /\ i \in 1 .. Len(command.args) + 1 /\ (i <= Len(command.args) => ~ Value(command)[i])
        /\ nomoreswitches \in BOOLEAN /\ (nomoreswitches <=> Plain(command, i)) /\ opt \in Options
    BY <1>2 DEF Parsed
  <2> QED
    BY <1>1, <2>1, <2>2
<1>4. /\ iscript' = iscript /\ new' = new /\ before' = before /\ disk' = disk
      /\ UNCHANGED <<iscript, new, tvars>>
  BY DEF memory, shell, output
<1>5. ASSUME pc' = pc, Parsed(command, opt', nomoreswitches', i') PROVE Inv'
  <2>1. ArgsInv'
    BY <1>1, <1>2, <1>4, <1>5 DEF ArgsInv
  <2> QED
    BY <1>1, <1>5, <2>1, Prepares
<1>6. CASE word = "--"
  <2>1. nomoreswitches' = TRUE /\ i' = i + 1 /\ opt' = opt /\ pc' = pc
    BY <1>3, <1>6 DEF Argument, args, WithValue, Lists, UsesDefault
  <2>2. Parsed(command, opt, nomoreswitches \/ command.args[i] = "--", i + 1)
    BY <1>2, <1>3, <1>6, ParsedSwitch
  <2>3. (nomoreswitches \/ command.args[i] = "--") = TRUE
    BY <1>6
  <2> QED
    BY <1>5, <2>1, <2>2, <2>3
<1>7. CASE word # "--" /\ ~ Switched(word)
  <2>1. nomoreswitches' = nomoreswitches /\ i' = i + 1 /\ opt' = WithFile(word) /\ pc' = pc
    BY <1>7 DEF Argument, args
  <2>2. Parsed(command, WithFile(word), nomoreswitches, i + 1)
    BY <1>2, <1>3, <1>7, ParsedFile DEF WithFile, Switched
  <2> QED
    BY <1>5, <2>1, <2>2
<1>8. CASE Switched(word) /\ word # "--" /\ word \in {"-h", "-v"}
  <2>1. Exit(IF word = "-h" THEN 1 ELSE 0)
    BY <1>3, <1>8 DEF Argument, args, WithValue, Lists, UsesDefault
  <2>2. CASE word = "-h"
    <3>1. Exit(1)
      BY <2>1, <2>2
    <3>2. OutputIsWhatWasAsked'
      BY <3>1 DEF Exit, OutputIsWhatWasAsked
    <3> QED
      BY <1>1, <1>2, <1>4, <3>1, <3>2, GivesUp
  <2>3. CASE word = "-v"
    <3>1. Exit(0)
      BY <2>1, <2>3
    <3>2. i \in Switches(command)
      BY <1>2, <1>3, <1>8, NextArgument DEF Switched
    <3>3. Has(command, "-v")
      BY <2>3, <3>2 DEF Has
    <3>4. asked.version
      BY <1>2, <3>3, ReadingFacts DEF asked
    <3>5. asked' = asked
      BY <1>1, <1>4, SameAsked
    <3>6. OutputIsWhatWasAsked'
      BY <3>4, <3>5 DEF OutputIsWhatWasAsked
    <3> QED
      BY <1>1, <1>2, <1>4, <3>1, <3>6, GivesUp
  <2> QED
    BY <1>8, <2>2, <2>3
<1>9. CASE Switched(word) /\ word # "--" /\ word \in WithValue(command.program)
  <2>0. word \notin {"-h", "-v"}
    BY <1>9 DEF WithValue, Lists
  <2>1. CASE i = Len(command.args)
    <3>1. Exit(1)
      BY <1>3, <1>9, <2>0, <2>1 DEF Argument, args, WithValue, Lists, UsesDefault
    <3>2. OutputIsWhatWasAsked'
      BY <3>1 DEF Exit, OutputIsWhatWasAsked
    <3> QED
      BY <1>1, <1>2, <1>4, <3>1, <3>2, GivesUp
  <2>2. CASE i # Len(command.args)
    <3>1. /\ nomoreswitches' = nomoreswitches /\ i' = i + 2 /\ pc' = pc
          /\ opt' = WithOption(word, command.args[i + 1])
      BY <1>3, <1>9, <2>0, <2>2 DEF Argument, args, WithValue, Lists, UsesDefault
    <3>2. WithOption(word, command.args[i + 1]) = Set(opt, word, command.args[i + 1])
      BY DEF WithOption, Set
    <3>3. Parsed(command, Set(opt, command.args[i], command.args[i + 1]), nomoreswitches, i + 2)
      BY <1>2, <1>3, <1>9, <2>2, ParsedValue DEF Switched
    <3> QED
      BY <1>5, <3>1, <3>2, <3>3
  <2> QED
    BY <2>1, <2>2
<1>10. CASE /\ Switched(word) /\ word # "--" /\ word \notin {"-h", "-v"}
            /\ word \notin WithValue(command.program)
  <2>1. word \in Dashed /\ nomoreswitches = FALSE
    BY <1>3, <1>10 DEF Switched
  <2> DEFINE Kept(p) ==
        /\ p \in Options /\ p.outfile = opt.outfile /\ p.config = opt.config
        /\ p.configdir = opt.configdir /\ p.list = opt.list /\ p.infiles = opt.infiles
        /\ p.default <=> opt.default \/ word = UsesDefault[command.program]
  <2>2. /\ nomoreswitches' = nomoreswitches /\ i' = i + 1 /\ pc' = pc
        /\ Kept(opt')
    <3>1. CASE word = UsesDefault[command.program]
      <4>1. nomoreswitches' = nomoreswitches /\ i' = i + 1 /\ pc' = pc /\ opt' = [opt EXCEPT !.default = TRUE]
        BY <1>3, <1>10, <3>1 DEF Argument, args, UsesDefault
      <4> QED
        BY <1>3, <3>1, <4>1 DEF Options
    <3>2. CASE word # UsesDefault[command.program] /\ word = "-s" /\ command.program = "icedc"
      <4>1. nomoreswitches' = nomoreswitches /\ i' = i + 1 /\ pc' = pc /\ opt' = [opt EXCEPT !.separate = TRUE]
        BY <1>10, <3>2 DEF Argument, args
      <4> QED
        BY <1>3, <3>2, <4>1 DEF Options
    <3>3. CASE word # UsesDefault[command.program] /\ ~ (word = "-s" /\ command.program = "icedc")
      <4>1. nomoreswitches' = nomoreswitches /\ i' = i + 1 /\ pc' = pc /\ opt' = opt
        BY <1>10, <3>3 DEF Argument, args
      <4> QED
        BY <1>3, <3>3, <4>1 DEF Options
    <3> QED
      BY <3>1, <3>2, <3>3
  <2>3. Parsed(command, opt', nomoreswitches \/ command.args[i] = "--", i + 1)
    BY <1>2, <1>3, <1>10, <2>1, <2>2, ParsedSwitch
  <2>4. (nomoreswitches \/ command.args[i] = "--") = nomoreswitches
    BY <1>3, <1>10
  <2> QED
    BY <1>5, <2>2, <2>3, <2>4
<1> QED
  BY <1>6, <1>7, <1>8, <1>9, <1>10

LEMMA ConfigStep ==
  ASSUME Inv, OpenConfig \/ ConfigLine, UNCHANGED <<tvars, memory, shell, output>>
  PROVE  Inv'
<1>1. iscript' = iscript /\ new' = new
  BY DEF memory
<1>2. CASE OpenConfig
  <2>1. /\ pc = "args" /\ i > Len(command.args) /\ pc' = "config" /\ i' = 1 /\ command' = command
        /\ nomoreswitches' = nomoreswitches /\ opt' = opt
        /\ dir' = dir /\ loadconfigdir' = loadconfigdir
    BY <1>2 DEF OpenConfig, args
  <2>2. /\ command \in Commands /\ Parsed(command, opt, nomoreswitches, i)
        /\ dir = DefaultDir /\ loadconfigdir = TRUE /\ iscript = <<>> /\ new = <<>>
    BY <2>1 DEF Inv, PhaseInv, ArgsInv
  <2>3. i = Len(command.args) + 1
    <3>1. i \in 1 .. Len(command.args) + 1 /\ Len(command.args) \in Nat
      BY <2>2, CommandFacts DEF Parsed
    <3> QED
      BY <2>1, <3>1
  <2>4. Configured(ConfigLines(opt.config), 1, DefaultDir, TRUE)
    BY NothingConfigured
  <2>5. ArgsInv'
    BY <1>1, <2>1, <2>2, <2>3, <2>4 DEF ArgsInv
  <2> QED
    BY <2>1, <2>5, Prepares
<1>3. CASE ConfigLine
  <2> DEFINE lines == ConfigLines(opt.config)  line == lines[i]
  <2>1. ConfigFile = lines
    BY DEF ConfigFile, ConfigLines
  <2>2. /\ pc = "config" /\ i <= Len(lines) /\ pc' = pc /\ i' = i + 1 /\ command' = command
        /\ nomoreswitches' = nomoreswitches /\ opt' = opt
    BY <1>3, <2>1 DEF ConfigLine
  <2>3. \/ /\ line.var = "INSTALLDIR"
           /\ dir' = (IF loadconfigdir THEN DataDir[line.val] ELSE dir) /\ loadconfigdir' = loadconfigdir
        \/ line.var = "CONFIGDIR" /\ dir' = line.val /\ loadconfigdir' = FALSE
        \/ /\ line.var \notin {"INSTALLDIR", "CONFIGDIR"}
           /\ dir' = dir /\ loadconfigdir' = loadconfigdir
    BY <1>3, <2>1 DEF ConfigLine
  <2>4. /\ Parsed(command, opt, nomoreswitches, Len(command.args) + 1)
        /\ Configured(lines, i, dir, loadconfigdir) /\ iscript = <<>> /\ new = <<>>
    BY <2>2 DEF Inv, ArgsInv
  <2>5. i \in 1 .. Len(lines)
    <3>1. i \in 1 .. Len(lines) + 1 /\ Len(lines) \in Nat
      BY <2>4, ConfigFacts DEF Configured
    <3> QED
      BY <2>2, <3>1
  <2>6. Configured(lines, i + 1, dir', loadconfigdir')
    <3>1. /\ line.var = "INSTALLDIR" =>
               Configured(lines, i + 1, IF loadconfigdir THEN DataDir[line.val] ELSE dir, loadconfigdir)
          /\ line.var = "CONFIGDIR" => Configured(lines, i + 1, line.val, FALSE)
          /\ line.var \notin {"INSTALLDIR", "CONFIGDIR"} => Configured(lines, i + 1, dir, loadconfigdir)
      BY <2>4, <2>5, ConfiguredLine
    <3> QED
      BY <2>3, <3>1
  <2>7. ArgsInv'
    BY <1>1, <2>2, <2>4, <2>6 DEF ArgsInv
  <2> QED
    BY <2>2, <2>7, Prepares
<1> QED
  BY <1>2, <1>3

LEMMA SettleStep ==
  ASSUME Inv, Settle
  PROVE  Inv'
<1> DEFINE c == command
           where == IF opt.configdir = NULL THEN dir ELSE opt.configdir
           files == FilesSettled(c, opt)
           out == IF opt.outfile = NULL THEN DefaultOutfile[c.program] ELSE opt.outfile
           lines == ConfigLines(opt.config)
<1>1. pc = "config" /\ i > Len(lines) /\ before' = before /\ disk' = disk /\ iscript' = iscript /\ new' = new
  BY DEF Settle, Settled, shell, output, ConfigFile, ConfigLines
<1>2. /\ c \in Commands /\ Parsed(c, opt, nomoreswitches, Len(c.args) + 1)
      /\ Configured(lines, i, dir, loadconfigdir) /\ iscript = <<>> /\ new = <<>> /\ disk = before
      /\ step = "none"
  BY <1>1 DEF Inv, PhaseInv, ArgsInv, FilesInv
<1>3. i = Len(lines) + 1
  <2>1. i \in 1 .. Len(lines) + 1 /\ Len(lines) \in Nat
    BY <1>2, ConfigFacts DEF Configured
  <2> QED
    BY <1>1, <2>1
<1>4. /\ Reading[c].output = out /\ out \in Name
      /\ DirOf(c) = where /\ DirOf(c) \in DOMAIN Resources
      /\ c.program = "icedc" => \A l \in Lists : Range(opt.list[l]) = Narrow(Listed(c, l))
  <2>1. Configured(ConfigLines(opt.config), Len(ConfigLines(opt.config)) + 1, dir, loadconfigdir)
    BY <1>2, <1>3
  <2>2. Reading[c].output = out /\ Reading[c].output \in Name
    BY <1>2, <2>1, OptionsSettled
  <2>3. DirOf(c) = where /\ DirOf(c) \in DOMAIN Resources
    BY <1>2, <2>1, OptionsSettled
  <2>4. c.program = "icedc" => \A l \in Lists : Range(opt.list[l]) = Narrow(Listed(c, l))
    BY <1>2, <2>1, OptionsSettled
  <2> QED
    BY <2>2, <2>3, <2>4
<1>5. /\ files \in Seq(STRING) /\ InputsAre(c, files)
      /\ c.program = "icedc" /\ files # <<>> => Len(files) = 1
  BY <1>2, <1>4, InputsSettled
<1>6. c.program \in {"icecc", "icedc"} /\ opt \in Options
  BY <1>2, CommandFacts DEF Parsed
<1>7. files = CASE ~ opt.default -> opt.infiles
                [] opt.default /\ command.program = "icecc" -> <<Bin[where]>> \o opt.infiles
                [] opt.default /\ command.program = "icedc" -> <<Bin[where]>>
  BY <1>4 DEF FilesSettled
<1> HIDE DEF files, where, out
<1>8. IF files = <<>> THEN Exit(1)
      ELSE /\ dir' = where
           /\ opt' = [opt EXCEPT !.infiles = files,
                                 !.outfile = IF @ = NULL THEN DefaultOutfile[command.program] ELSE @]
           /\ pc' = IF command.program = "icecc" THEN "input" ELSE "lookup"
           /\ UNCHANGED <<command, i, nomoreswitches, loadconfigdir, status>>
  <2> DEFINE infiles == CASE ~ opt.default -> opt.infiles
                [] opt.default /\ command.program = "icecc" -> <<Bin[where]>> \o opt.infiles
                [] opt.default /\ command.program = "icedc" -> <<Bin[where]>>
  <2>1. IF infiles = <<>> THEN Exit(1)
        ELSE /\ dir' = where
             /\ opt' = [opt EXCEPT !.infiles = infiles,
                                 !.outfile = IF @ = NULL THEN DefaultOutfile[command.program] ELSE @]
             /\ pc' = IF command.program = "icecc" THEN "input" ELSE "lookup"
             /\ UNCHANGED <<command, i, nomoreswitches, loadconfigdir, status>>
    BY DEF Settle, Settled, where
  <2> HIDE DEF infiles
  <2>2. infiles = files
    BY <1>7 DEF infiles
  <2> QED
    BY <2>1, <2>2
<1>9. CASE files = <<>>
  <2>1. Exit(1)
    BY <1>8, <1>9
  <2>2. OutputIsWhatWasAsked' /\ pc' # "lookup"
    BY <2>1 DEF Exit, OutputIsWhatWasAsked
  <2>3. UNCHANGED tvars
    BY <2>2 DEF Settle
  <2> QED
    BY <1>1, <1>2, <2>1, <2>2, <2>3, GivesUp
<1>10. CASE files # <<>>
  <2>1. /\ dir' = where /\ command' = command
        /\ opt' = [opt EXCEPT !.infiles = files,
                              !.outfile = IF @ = NULL THEN DefaultOutfile[command.program] ELSE @]
        /\ pc' = IF command.program = "icecc" THEN "input" ELSE "lookup"
    BY <1>8, <1>10
  <2>2. opt'.infiles = files /\ opt'.outfile = out /\ opt'.list = opt.list /\ opt.list \in [Lists -> Seq(Entry)]
    BY <1>6, <2>1 DEF Options, out
  <2>3. asked' = asked
    BY <1>1, <2>1, SameAsked
  <2>4. /\ TablesInv' /\ TablesSay'
        /\ pc' = "lookup" => data' = Resources[dir']
        /\ pc' # "lookup" => step' = "none"
    <3>1. CASE pc' = "lookup"
      <4>1. T!StartTables(Resources[dir'])
        BY <3>1 DEF Settle
      <4> QED
        BY <1>2, <3>1, <4>1, TablesStart DEF Inv
    <3>2. CASE pc' # "lookup"
      <4>1. UNCHANGED tvars
        BY <3>2 DEF Settle
      <4>2. step' = step
        BY <4>1 DEF tvars
      <4> QED
        BY <1>2, <3>2, <4>1, <4>2, TablesSame DEF Inv
    <3> QED
      BY <3>1, <3>2
  <2>5. PhaseInv'
    BY <1>2, <1>6, <2>1, <2>4 DEF PhaseInv, Phases, Compiling, Decompiling
  <2>6. FilesInv'
    BY <1>1, <1>2, <2>1 DEF Inv, FilesInv, Stored
  <2>7. ArgsInv'
    BY <1>1, <1>2, <2>1 DEF ArgsInv
  <2>8. SettledInv'
    <3>1. opt'.outfile = (asked').output
      BY <1>4, <2>2, <2>3 DEF asked
    <3>2. InputsAre(command', opt'.infiles) /\ opt'.infiles \in Seq(STRING) /\ opt'.infiles # <<>>
      BY <1>5, <1>10, <2>1, <2>2
    <3>3. dir' = DirOf(command') /\ dir' \in DOMAIN Resources
      BY <1>4, <2>1
    <3>4. command'.program = "icedc" =>
            /\ Len(opt'.infiles) = 1 /\ opt'.list \in [Lists -> Seq(Entry)]
            /\ \A l \in Lists : Range(opt'.list[l]) = Narrow(Listed(command', l))
      BY <1>4, <1>5, <1>10, <2>1, <2>2
    <3> QED
      BY <1>4, <2>2, <3>1, <3>2, <3>3, <3>4 DEF SettledInv
  <2>9. InputInv'
    <3> SUFFICES ASSUME pc' = "input" PROVE InputInv'
      BY DEF InputInv
    <3>0. PICK F : F = files
      OBVIOUS
    <3>1. todo' = F /\ F \in Seq(STRING) /\ opt'.infiles = F /\ iscript' = <<>>
      BY <1>1, <1>2, <1>5, <2>2, <3>0 DEF Settle
    <3>2. Len(F) \in Nat /\ Len(F) > 0
      BY <1>10, <3>0, <3>1
    <3>3. Ahead(F, 0)'
      <4>1. Len(F) = Len(F) - 0 /\ \A k \in 1 .. Len(F) : F[k] = F[0 + k]
        BY <3>2
      <4> QED
        BY <3>1, <4>1 DEF Ahead
    <3>4. ReadUpTo(F, 0)'
      BY DEF ReadUpTo
    <3>5. (Merges(iscript, OldScripts(F), 0))'
      <4>1. Merges(<<>>, (OldScripts(F))', 0)
        BY MergesNothing
      <4> QED
        BY <3>1, <4>1
    <3>6. 0 \in 0 .. Len(F) - 1
      BY <3>2
    <3> QED
      BY <3>1, <3>3, <3>4, <3>5, <3>6 DEF InputInv
  <2>10. ReadInv' /\ FailureKeepsFiles' /\ OutputIsWhatWasAsked'
    BY <2>1 DEF ReadInv, FailureKeepsFiles, OutputIsWhatWasAsked
  <2> QED
    BY <2>4, <2>5, <2>6, <2>7, <2>8, <2>9, <2>10 DEF Inv
<1> QED
  BY <1>9, <1>10

-----------------------------------------------------------------------------
(* From one phase to the next. *)
LEMMA Continues ==
  ASSUME Inv, (pc \in Compiling /\ pc' \in Compiling) \/ (pc \in Decompiling /\ pc' \in Decompiling),
         command' = command, opt' = opt, dir' = dir, before' = before
  PROVE  SettledInv' /\ FailureKeepsFiles' /\ OutputIsWhatWasAsked'
<1>1. pc' # "exit" /\ pc \in Compiling \cup Decompiling
  BY DEF Compiling, Decompiling
<1>2. asked' = asked
  BY SameAsked
<1>3. SettledInv'
  BY <1>1, <1>2 DEF Inv, SettledInv
<1> QED
  BY <1>1, <1>3 DEF FailureKeepsFiles, OutputIsWhatWasAsked

LEMMA ScriptsRead ==
  ASSUME NEW file, IsFile(file), NEW form, form # "part", NEW scripts \in Readings(file, form)
  PROVE  /\ file.form \in {form, "part"} /\ IsArchive(scripts)
         /\ file.form = form => scripts = file.scripts
<1>1. CASE file.form = form
  <2>1. scripts = file.scripts
    BY <1>1 DEF Readings
  <2> QED
    BY <1>1, <2>1 DEF IsFile, IsArchive
<1>2. CASE file.form = "part"
  <2>1. PICK S \in SUBSET DOMAIN file.scripts : scripts = Restrict(file.scripts, S)
    BY <1>2 DEF Readings
  <2>2. scripts = [h \in S |-> file.scripts[h]]
    BY <2>1 DEF Restrict
  <2>3. DOMAIN scripts = S /\ \A h \in S : scripts[h] = file.scripts[h]
    BY <2>2
  <2>4. scripts = [h \in DOMAIN scripts |-> scripts[h]]
    BY <2>2
  <2> QED
    BY <1>2, <2>4 DEF IsArchive, Restrict
<1>3. CASE file.form # form /\ file.form # "part"
  BY <1>3 DEF Readings
<1> QED
  BY <1>1, <1>2, <1>3

LEMMA EmptyWhen ==
  ASSUME NEW S, NEW s \in Seq(S)
  PROVE  s = <<>> <=> Len(s) = 0
OBVIOUS

LEMMA TailFacts ==
  ASSUME NEW S, NEW s \in Seq(S), s # <<>>
  PROVE  /\ Head(s) = s[1] /\ s[1] \in S /\ Len(s) \in Nat /\ Len(s) > 0
         /\ Tail(s) \in Seq(S) /\ Len(Tail(s)) = Len(s) - 1
         /\ \A k \in 1 .. Len(s) - 1 : Tail(s)[k] = s[k + 1]
         /\ Tail(s) = <<>> <=> Len(s) = 1
<1>1. /\ Head(s) = s[1] /\ s[1] \in S /\ Len(s) \in Nat /\ Len(s) > 0
      /\ Tail(s) \in Seq(S) /\ Len(Tail(s)) = Len(s) - 1
      /\ \A k \in 1 .. Len(s) - 1 : Tail(s)[k] = s[k + 1]
  OBVIOUS
<1>2. Tail(s) = <<>> <=> Len(Tail(s)) = 0
  BY <1>1, EmptyWhen
<1> QED
  BY <1>1, <1>2

LEMMA OldFacts ==
  ASSUME Inv, pc # "shell", NEW name
  PROVE  IsFile(Old(name))
<1>1. IsFile(NoFile) /\ IsFile(Stdin)
  <2>1. IsFile(NoFile)
    <3>1. NoFile.scripts = <<>> /\ NoFile = [form |-> "none", scripts |-> <<>>]
      BY DEF NoFile, File
    <3>2. <<>> = Restrict(<<>>, DOMAIN <<>>)
      BY EmptyArchive DEF IsArchive
    <3> QED
      BY <3>1, <3>2 DEF IsFile, File
  <2> QED
    BY <2>1, ProgramsAssumption
<1>2. Stored(before)
  BY DEF Inv, FilesInv
<1> QED
  BY <1>1, <1>2 DEF Stored, Old, On

(* icecc reads the next file. *)
LEMMA InputStep ==
  ASSUME Inv, Input
  PROVE  Inv'
<1>1. /\ pc = "input" /\ new' = new /\ before' = before /\ disk' = disk /\ UNCHANGED tvars
  BY DEF Input, shell, output
<1>2. /\ disk = before /\ command \in Commands /\ command.program = "icecc" /\ step = "none"
      /\ opt.infiles \in Seq(STRING) /\ InputsAre(command, opt.infiles)
  BY <1>1 DEF Inv, PhaseInv, FilesInv, SettledInv, Compiling
<1>3. PICK F : F = opt.infiles
  OBVIOUS
<1>4. F \in Seq(STRING) /\ InputsAre(command, F) /\ Len(F) \in Nat /\ DOMAIN F = 1 .. Len(F)
  BY <1>2, <1>3
<1>5. PICK m \in 0 .. Len(F) - 1 :
        /\ Ahead(F, m) /\ ReadUpTo(F, m)
        /\ WholeUpTo(F, m) => Merges(iscript, OldScripts(F), m)
  BY <1>1, <1>3 DEF Inv, InputInv
<1>6. /\ m \in Nat /\ m + 1 \in 1 .. Len(F)
      /\ todo \in Seq(STRING) /\ Len(todo) = Len(F) - m /\ Len(todo) \in Nat /\ Len(todo) > 0
      /\ \A k \in 1 .. Len(todo) : todo[k] = F[m + k]
  <2>1. todo \in Seq(STRING) /\ Len(todo) = Len(F) - m /\ \A k \in 1 .. Len(todo) : todo[k] = F[m + k]
    BY <1>5 DEF Ahead
  <2> QED
    BY <1>4, <2>1
<1>7. /\ Head(todo) = F[m + 1] /\ Tail(todo) \in Seq(STRING) /\ Len(Tail(todo)) = Len(todo) - 1
      /\ \A k \in 1 .. Len(todo) - 1 : Tail(todo)[k] = todo[k + 1]
      /\ Tail(todo) = <<>> <=> Len(todo) = 1
  <2>1. todo # <<>>
    BY <1>6
  <2>2. /\ Head(todo) = todo[1] /\ Tail(todo) \in Seq(STRING) /\ Len(Tail(todo)) = Len(todo) - 1
        /\ \A k \in 1 .. Len(todo) - 1 : Tail(todo)[k] = todo[k + 1]
        /\ Tail(todo) = <<>> <=> Len(todo) = 1
    BY <1>6, <2>1, TailFacts
  <2>3. todo[1] = F[m + 1]
    BY <1>6
  <2> QED
    BY <2>2, <2>3
<1> DEFINE name == F[m + 1]
<1>8. icecc /\ Source(name) = Old(name) /\ Form(name) = OldForm(name)
  BY <1>2 DEF icecc, Source, Old, OldForm
<1>9. IsFile(Old(name)) /\ Form(name) # "part"
  BY <1>1, OldFacts DEF Form
<1>10. CASE Refuses(Source(name), Form(name)) /\ Exit(1) /\ UNCHANGED <<iscript, todo>>
  <2>1. OutputIsWhatWasAsked'
    BY <1>10 DEF Exit, OutputIsWhatWasAsked
  <2> QED
    BY <1>1, <1>2, <1>10, <2>1, GivesUp
<1>11. CASE /\ \E scripts \in Readings(Source(name), Form(name)) : iscript' = Merged(iscript, scripts)
            /\ todo' = Tail(todo)
            /\ Go(IF Tail(todo) = <<>> THEN "save" ELSE "input")
  <2>1. PICK scripts \in Readings(Old(name), Form(name)) : iscript' = Over(iscript, scripts)
    BY <1>8, <1>11 DEF Merged
  <2>2. /\ Old(name).form \in {OldForm(name), "part"} /\ IsArchive(scripts)
        /\ Old(name).form = OldForm(name) => scripts = Old(name).scripts
    BY <1>8, <1>9, <2>1, ScriptsRead
  <2>3. /\ pc' = (IF Tail(todo) = <<>> THEN "save" ELSE "input") /\ todo' = Tail(todo)
        /\ command' = command /\ opt' = opt /\ dir' = dir
    BY <1>11 DEF Go
  <2>4. IsArchive(iscript')
    BY <2>1, OverIsArchive
  <2>5. ReadUpTo(F, m + 1)
    <3>1. ASSUME NEW k \in 1 .. m + 1 PROVE Old(F[k]).form \in {OldForm(F[k]), "part"}
      <4>1. k \in 1 .. m \/ k = m + 1
        BY <1>6
      <4>2. CASE k \in 1 .. m
        BY <1>5, <4>2 DEF ReadUpTo
      <4> QED
        BY <2>2, <4>1, <4>2
    <3> QED
      BY <3>1 DEF ReadUpTo
  <2>6. ASSUME WholeUpTo(F, m + 1) PROVE Merges(iscript', OldScripts(F), m + 1)
    <3>1. WholeUpTo(F, m) /\ Old(name).form = OldForm(name)
      BY <1>6, <2>6 DEF WholeUpTo
    <3>2. OldScripts(F)[m + 1] = scripts
      BY <1>6, <2>2, <3>1 DEF OldScripts
    <3>3. Merges(iscript, OldScripts(F), m)
      BY <1>5, <3>1
    <3>4. Merges(Over(iscript, OldScripts(F)[m + 1]), OldScripts(F), m + 1)
      BY <1>6, <3>3, MergesNext
    <3> QED
      BY <2>1, <3>2, <3>4
  <2>7. /\ ReadUpTo(F, m + 1)' <=> ReadUpTo(F, m + 1)
        /\ WholeUpTo(F, m + 1)' <=> WholeUpTo(F, m + 1)
        /\ OldScripts(F)' = OldScripts(F)
    <3>1. \A x : Old(x)' = Old(x) /\ OldForm(x)' = OldForm(x)
      BY <1>1, <2>3 DEF Old, OldForm, On, icecc
    <3> QED
      BY <3>1 DEF ReadUpTo, WholeUpTo, OldScripts
  <2>8. InputInv'
    <3> SUFFICES ASSUME pc' = "input" PROVE InputInv'
      BY DEF InputInv
    <3>1. Len(todo) # 1
      BY <1>7, <2>3
    <3>2. m + 1 \in 0 .. Len(F) - 1
      <4>1. Len(F) \in Nat /\ m \in Nat
        BY <1>4, <1>6
      <4>2. Len(F) - m \in Nat /\ Len(F) - m > 0 /\ Len(F) - m # 1
        BY <1>6, <3>1
      <4> QED
        BY ONLY <4>1, <4>2
    <3>3. Ahead(F, m + 1)'
      <4>1. todo' \in Seq(STRING) /\ Len(todo') = Len(F) - (m + 1)
        <5>1. todo' \in Seq(STRING) /\ Len(todo') = Len(todo) - 1
          BY <1>7, <2>3
        <5>2. m \in Nat /\ Len(F) \in Nat /\ Len(todo) = Len(F) - m
          BY <1>4, <1>6
        <5>3. Len(F) - m - 1 = Len(F) - (m + 1)
          BY <5>2
        <5> QED
          BY <5>1, <5>2, <5>3
      <4>2. ASSUME NEW k \in 1 .. Len(todo') PROVE todo'[k] = F[m + 1 + k]
        <5>1. k \in 1 .. Len(todo) - 1 /\ k + 1 \in 1 .. Len(todo) /\ m + (k + 1) = m + 1 + k
          BY <1>4, <1>6, <4>1
        <5> QED
          BY <1>6, <1>7, <2>3, <5>1
      <4> QED
        BY <4>1, <4>2 DEF Ahead
    <3>4. opt'.infiles = F
      BY <1>3, <2>3
    <3>5. (Merges(iscript, OldScripts(F), m + 1))' <=> Merges(iscript', OldScripts(F), m + 1)
      BY <2>7
    <3> QED
      BY <2>5, <2>6, <2>7, <3>2, <3>3, <3>4, <3>5 DEF InputInv
  <2>9. ReadInv'
    <3> SUFFICES ASSUME pc' = "save" PROVE (Readable /\ (Whole => iscript = Available))'
      BY <2>3 DEF ReadInv
    <3>1. Len(F) = m + 1
      <4>1. Tail(todo) = <<>>
        BY <2>3
      <4>2. Len(todo) = 1
        BY <1>7, <4>1
      <4>3. m \in Nat /\ Len(F) \in Nat /\ 1 = Len(F) - m
        BY <1>4, <1>6, <4>2
      <4> QED
        BY <4>3
    <3>2. /\ Whole <=> WholeOnes(F)
          /\ (\E input \in asked.inputs : Was(input).form \notin {FormOf(input), "part"}) <=>
               \E k \in DOMAIN F : Old(F[k]).form \notin {OldForm(F[k]), "part"}
          /\ \A a : Merges(a, OldScripts(F), Len(F)) => a = Available
      BY <1>2, <1>4, InputsAsked
    <3>3. Readable
      BY <1>4, <2>5, <3>1, <3>2 DEF ReadUpTo, Readable
    <3>4. ASSUME Whole PROVE iscript' = Available
      <4>1. WholeUpTo(F, m + 1)
        BY <1>4, <3>1, <3>2, <3>4 DEF WholeOnes, WholeUpTo
      <4> QED
        BY <2>6, <3>1, <3>2, <4>1
    <3>5. (Readable' <=> Readable) /\ (Whole' <=> Whole) /\ Available' = Available
      BY <1>1, <2>3, SameAsked
    <3> QED
      BY <3>3, <3>4, <3>5
  <2>10. PhaseInv'
    <3>1. step' = step
      BY <1>1 DEF tvars
    <3> QED
      BY <1>2, <2>3, <3>1 DEF PhaseInv, Phases, Compiling, Decompiling
  <2>11. FilesInv'
    BY <1>1, <1>2, <2>3, <2>4 DEF Inv, FilesInv, Stored
  <2>12. ArgsInv'
    BY <2>3 DEF ArgsInv
  <2>13. SettledInv' /\ FailureKeepsFiles' /\ OutputIsWhatWasAsked'
    BY <1>1, <2>3, Continues DEF Compiling
  <2>14. TablesInv' /\ TablesSay'
    BY <1>1, TablesSame DEF Inv
  <2> QED
    BY <2>8, <2>9, <2>10, <2>11, <2>12, <2>13, <2>14 DEF Inv
<1> QED
  BY <1>7, <1>10, <1>11 DEF Input

LEMMA Written ==
  ASSUME Inv, NEW name \in Name, NEW file, IsFile(file), disk' = [disk EXCEPT ![name] = file]
  PROVE  Stored(disk') /\ disk'[name] = file /\ \A other \in Name \ {name} : disk'[other] = disk[other]
<1>1. Stored(disk)
  BY DEF Inv, FilesInv
<1>2. DOMAIN disk' = Name /\ \A other \in Name : disk'[other] = IF other = name THEN file ELSE disk[other]
  BY <1>1 DEF Stored
<1> QED
  BY <1>1, <1>2 DEF Stored

LEMMA FilesOf ==
  ASSUME Inv
  PROVE  IsFile(NoFile) /\ \A form : IsFile(File(form, iscript))
<1>1. \A form, a : File(form, a).form = form /\ File(form, a).scripts = a
  BY DEF File
<1>2. \A a : IsArchive(a) => \A form : IsFile(File(form, a))
  BY <1>1 DEF IsFile, IsArchive
<1>3. IsArchive(<<>>) /\ IsArchive(iscript)
  BY EmptyArchive DEF Inv, FilesInv
<1> QED
  BY <1>2, <1>3 DEF NoFile

(* The output is removed, and the program fails. *)
LEMMA Removes ==
  ASSUME Inv, pc \in {"save", "write", "print"}, Exit(1), disk' = Removed(opt.outfile),
         before' = before, UNCHANGED <<iscript, new, tvars>>
  PROVE  Inv'
<1> DEFINE out == opt.outfile
<1>1. out \in Name /\ \A name \in Name \ {out} : disk[name] = before[name]
  BY DEF Inv, FilesInv, SettledInv, Compiling, Decompiling
<1>2. disk' = [disk EXCEPT ![out] = NoFile]
  BY DEF Removed
<1>3. Stored(disk') /\ disk'[out] = NoFile /\ \A other \in Name \ {out} : disk'[other] = disk[other]
  <2>1. IsFile(NoFile)
    BY FilesOf
  <2> HIDE DEF out
  <2> QED
    BY <1>1, <1>2, <2>1, Written
<1>4. \A name \in Name \ {opt.outfile} : disk'[name] = before[name]
  BY <1>1, <1>3
<1>5. TablesInv' /\ TablesSay' /\ iscript' = iscript /\ new' = new
  BY TablesSame DEF Inv
<1>6. OutputIsWhatWasAsked'
  BY DEF Exit, OutputIsWhatWasAsked
<1>7. disk'[opt.outfile] \in {before[opt.outfile], NoFile}
  BY <1>3
<1> QED
  BY <1>3, <1>4, <1>5, <1>6, <1>7, EndsLate

(* icecc writes its output. *)
LEMMA SaveStep ==
  ASSUME Inv, Save
  PROVE  Inv'
<1>1. /\ pc = "save" /\ iscript' = iscript /\ new' = new /\ before' = before /\ UNCHANGED tvars
      /\ UNCHANGED <<iscript, new, tvars>>
  BY DEF Save, memory, shell
<1>2. /\ disk = before /\ command \in Commands /\ command.program = "icecc" /\ step = "none"
      /\ opt.outfile \in Name
  BY <1>1 DEF Inv, PhaseInv, FilesInv, SettledInv, Compiling
<1>3. CASE disk' = Removed(opt.outfile) /\ Exit(1)
  BY <1>1, <1>3, Removes
<1>4. CASE disk' = [disk EXCEPT ![opt.outfile] = File("part", iscript)] /\ Go("write")
  <2>1. /\ Stored(disk') /\ \A other \in Name \ {opt.outfile} : disk'[other] = disk[other]
    BY <1>2, <1>4, FilesOf, Written
  <2>2. pc' = "write" /\ command' = command /\ opt' = opt /\ dir' = dir
    BY <1>4 DEF Go
  <2>3. PhaseInv'
    <3>1. step' = step
      BY <1>1 DEF tvars
    <3> QED
      BY <1>2, <2>2, <3>1 DEF PhaseInv, Phases, Compiling, Decompiling
  <2>4. FilesInv'
    BY <1>1, <1>2, <2>1, <2>2 DEF Inv, FilesInv
  <2>5. ArgsInv' /\ InputInv'
    BY <2>2 DEF ArgsInv, InputInv
  <2>6. SettledInv' /\ FailureKeepsFiles' /\ OutputIsWhatWasAsked'
    BY <1>1, <2>2, Continues DEF Compiling
  <2>7. ReadInv'
    <3>1. Readable /\ (Whole => iscript = Available)
      BY <1>1 DEF Inv, ReadInv
    <3>2. (Readable' <=> Readable) /\ (Whole' <=> Whole) /\ Available' = Available
      BY <1>1, <2>2, SameAsked
    <3> QED
      BY <1>1, <2>2, <3>1, <3>2 DEF ReadInv
  <2>8. TablesInv' /\ TablesSay'
    BY <1>1, TablesSame DEF Inv
  <2> QED
    BY <2>3, <2>4, <2>5, <2>6, <2>7, <2>8 DEF Inv
<1> QED
  BY <1>3, <1>4 DEF Save

LEMMA WriteStep ==
  ASSUME Inv, Write
  PROVE  Inv'
<1>1. /\ pc = "write" /\ iscript' = iscript /\ new' = new /\ before' = before /\ UNCHANGED tvars
      /\ UNCHANGED <<iscript, new, tvars>>
  BY DEF Write, memory, shell
<1>2. /\ command \in Commands /\ command.program = "icecc" /\ opt.outfile \in Name
      /\ opt.outfile = asked.output /\ Stored(disk)
      /\ \A name \in Name \ {opt.outfile} : disk[name] = before[name]
  BY <1>1 DEF Inv, PhaseInv, FilesInv, SettledInv, Compiling
<1>3. CASE disk' = Removed(opt.outfile) /\ Exit(1)
  BY <1>1, <1>3, Removes
<1>4. CASE disk' = [disk EXCEPT ![opt.outfile] = File("bin", iscript)] /\ Exit(0)
  <2>1. /\ Stored(disk') /\ disk'[opt.outfile] = File("bin", iscript)
        /\ \A other \in Name \ {opt.outfile} : disk'[other] = disk[other]
    BY <1>2, <1>4, FilesOf, Written
  <2>2. command' = command
    BY <1>4 DEF Exit
  <2>3. asked' = asked /\ (Whole' <=> Whole) /\ Available' = Available /\ icecc' /\ icecc
    BY <1>1, <1>2, <2>2, SameAsked DEF icecc
  <2>4. Whole => iscript = Available
    BY <1>1 DEF Inv, ReadInv
  <2>5. ASSUME Whole' PROVE disk'[(asked').output] = File("bin", Result(Available, asked.ids)')
    <3>1. Result(Available, asked.ids)' = Available
      BY <2>3 DEF Result
    <3> QED
      BY <1>2, <2>1, <2>3, <2>4, <2>5, <3>1
  <2>6. OutputIsWhatWasAsked'
    BY <2>3, <2>5 DEF OutputIsWhatWasAsked
  <2>7. \A name \in Name \ {opt.outfile} : disk'[name] = before[name]
    BY <1>2, <2>1
  <2>8. TablesInv' /\ TablesSay'
    BY <1>1, TablesSame DEF Inv
  <2>9. Exit(0) /\ Stored(disk') /\ before' = before /\ pc \in {"save", "write", "print"}
    BY <1>1, <1>4, <2>1
  <2>10. 0 = 1 => disk'[opt.outfile] \in {before[opt.outfile], NoFile}
    OBVIOUS
  <2> QED
    BY <1>1, <2>6, <2>7, <2>8, <2>9, <2>10, EndsLate
<1>5. CASE disk' = disk /\ unnoticed' = TRUE /\ Exit(0)
  <2>1. OutputIsWhatWasAsked'
    BY <1>5 DEF OutputIsWhatWasAsked
  <2>2. TablesInv' /\ TablesSay'
    BY <1>1, TablesSame DEF Inv
  <2>3. /\ \A name \in Name \ {opt.outfile} : disk'[name] = before[name]
        /\ Stored(disk')
    BY <1>2, <1>5
  <2> QED
    BY <1>1, <1>5, <2>1, <2>2, <2>3, EndsLate
<1> QED
  BY <1>3, <1>4, <1>5 DEF Write

-----------------------------------------------------------------------------
(* icedc builds its tables and looks the entries up. *)
LEMMA LoadTablesStep ==
  ASSUME Inv, LoadTables
  PROVE  Inv'
<1>1. /\ pc \in {"lookup", "print"} /\ T!InitTables
      /\ UNCHANGED clvars /\ UNCHANGED memory /\ UNCHANGED shell /\ UNCHANGED output
  BY DEF LoadTables
<1>2. /\ pc' = pc /\ command' = command /\ opt' = opt /\ dir' = dir /\ disk' = disk
      /\ before' = before /\ iscript' = iscript /\ new' = new
  BY <1>1 DEF clvars, memory, shell, output
<1>3. TablesInv' /\ TablesSay' /\ data' = data
  BY <1>1, TablesStep DEF Inv
<1>4. PhaseInv'
  BY <1>1, <1>2, <1>3 DEF Inv, PhaseInv, Phases, Compiling, Decompiling
<1>5. FilesInv'
  BY <1>2 DEF Inv, FilesInv
<1>6. ArgsInv' /\ InputInv'
  BY <1>1, <1>2 DEF Inv, ArgsInv, InputInv
<1>7. SettledInv' /\ FailureKeepsFiles' /\ OutputIsWhatWasAsked'
  BY <1>1, <1>2, Continues DEF Decompiling
<1>8. ReadInv'
  <2>1. /\ asked' = asked /\ Available' = Available /\ (Whole' <=> Whole) /\ (Readable' <=> Readable)
        /\ Result(Available, asked.ids)' = Result(Available, asked.ids)
    <3>1. icecc' = icecc
      BY <1>2 DEF icecc
    <3> QED
      BY <1>2, <3>1, SameAsked DEF Result
  <2>2. pc = "print" =>
          /\ Readable
          /\ Whole /\ asked.inbounds =>
               iscript = Result(Available, asked.ids) /\ asked.ids \subseteq DOMAIN Available
    BY DEF Inv, ReadInv
  <2> QED
    BY <1>1, <1>2, <2>1, <2>2 DEF ReadInv
<1> QED
  BY <1>3, <1>4, <1>5, <1>6, <1>7, <1>8 DEF Inv

LEMMA LookUpStep ==
  ASSUME Inv, LookUp
  PROVE  Inv'
<1>1. /\ pc = "lookup" /\ iscript' = iscript /\ new' = new /\ before' = before /\ disk' = disk
  BY DEF LookUp, shell, output
<1>2. /\ disk = before /\ command \in Commands /\ command.program = "icedc"
      /\ data = Resources[dir] /\ dir = DirOf(command) /\ dir \in DOMAIN Resources
      /\ opt.list \in [Lists -> Seq(Entry)]
      /\ \A l \in Lists : Range(opt.list[l]) = Narrow(Listed(command, l))
      /\ new = <<>> /\ TablesInv /\ TablesSay
  <2>1. PhaseInv /\ FilesInv /\ SettledInv /\ ArgsInv /\ TablesInv /\ TablesSay
    BY DEF Inv
  <2>2. pc \in Decompiling
    BY <1>1 DEF Decompiling
  <2>3. disk = before /\ command \in Commands /\ command.program = "icedc" /\ data = Resources[dir]
    BY <1>1, <2>1, <2>2 DEF PhaseInv, FilesInv
  <2>4. new = <<>>
    BY <1>1, <2>1 DEF ArgsInv
  <2>5. /\ dir = DirOf(command) /\ dir \in DOMAIN Resources
        /\ opt.list \in [Lists -> Seq(Entry)]
        /\ \A l \in Lists : Range(opt.list[l]) = Narrow(Listed(command, l))
    BY <2>1, <2>2, <2>3 DEF SettledInv
  <2> QED
    BY <2>1, <2>3, <2>4, <2>5
<1>3. CASE step = "failed" /\ Exit(1) /\ UNCHANGED <<todo, tvars>>
  <2>1. OutputIsWhatWasAsked'
    BY <1>3 DEF Exit, OutputIsWhatWasAsked
  <2> QED
    BY <1>1, <1>2, <1>3, <2>1, GivesUp
<1>4. ASSUME NEW outside,
             step = "ready",
             todo' = opt.list["-i"] \o Ids("-m", outside) \o Ids("-p", outside)
                       \o Ids("-f", outside) \o Ids("-u", outside),
             T!FreeTables, Go("load")
      PROVE  Inv'
  <2>1. pc' = "load" /\ command' = command /\ opt' = opt /\ dir' = dir
    BY <1>4 DEF Go
  <2>2. tables' = T!NoTables /\ step' = "none"
    BY <1>4 DEF T!FreeTables
  <2>3. PhaseInv'
    BY <1>2, <2>1, <2>2 DEF PhaseInv, Phases, Compiling, Decompiling
  <2>4. FilesInv'
    BY <1>1, <1>2, <2>1 DEF Inv, FilesInv
  <2>5. ArgsInv' /\ InputInv'
    BY <1>1, <1>2, <2>1 DEF ArgsInv, InputInv
  <2>6. SettledInv' /\ FailureKeepsFiles' /\ OutputIsWhatWasAsked'
    BY <1>1, <2>1, Continues DEF Decompiling
  <2>7. ASSUME asked.inbounds PROVE todo' \in Seq(Entry) /\ Range(todo') = asked.ids
    <3>1. Reading[command].inbounds
      BY <2>7 DEF asked
    <3> DEFINE ids == opt.list["-i"] \o Ids("-m", outside) \o Ids("-p", outside)
                       \o Ids("-f", outside) \o Ids("-u", outside)
    <3>2. ids \in Seq(Entry) /\ Range(ids) = Reading[command].ids
      BY <1>2, <1>4, <3>1, LookedUp
    <3> QED
      BY <1>4, <3>2 DEF asked
  <2>8. ReadInv'
    <3>1. asked' = asked
      BY <1>1, <2>1, SameAsked
    <3> QED
      BY <2>1, <2>7, <3>1 DEF ReadInv
  <2>9. TablesInv' /\ TablesSay'
    BY <2>2, TablesNone
  <2> QED
    BY <2>3, <2>4, <2>5, <2>6, <2>8, <2>9 DEF Inv
<1> QED
  BY <1>3, <1>4 DEF LookUp

(* It reads its one file. *)
LEMMA LoadStep ==
  ASSUME Inv, Load
  PROVE  Inv'
<1>1. /\ pc = "load" /\ new' = new /\ todo' = todo /\ before' = before /\ disk' = disk /\ UNCHANGED tvars
  BY DEF Load, shell, output
<1>2. /\ disk = before /\ command \in Commands /\ command.program = "icedc" /\ step = "none"
      /\ opt.infiles \in Seq(STRING) /\ InputsAre(command, opt.infiles) /\ Len(opt.infiles) = 1
      /\ new = <<>>
  <2>1. PhaseInv /\ FilesInv /\ SettledInv /\ ArgsInv
    BY DEF Inv
  <2>2. pc \in Decompiling
    BY <1>1 DEF Decompiling
  <2> QED
    BY <1>1, <2>1, <2>2 DEF PhaseInv, FilesInv, SettledInv, ArgsInv
<1> DEFINE name == opt.infiles[1]  infile == On(disk, name)
<1>3. infile = Old(name) /\ OldForm(name) = "bin" /\ ~ icecc
  BY <1>2 DEF Old, OldForm, icecc
<1>4. CASE Refuses(infile, "bin") /\ Exit(1) /\ UNCHANGED iscript
  <2>1. OutputIsWhatWasAsked'
    BY <1>4 DEF Exit, OutputIsWhatWasAsked
  <2> QED
    BY <1>1, <1>2, <1>4, <2>1, GivesUp
<1>5. CASE /\ iscript' \in Readings(infile, "bin")
           /\ Go(IF todo = <<>> THEN "open" ELSE "extract")
  <2>1. /\ pc' = (IF todo = <<>> THEN "open" ELSE "extract")
        /\ command' = command /\ opt' = opt /\ dir' = dir
    BY <1>5 DEF Go
  <2>2. /\ Old(name).form \in {"bin", "part"} /\ IsArchive(iscript')
        /\ Old(name).form = "bin" => iscript' = Old(name).scripts
    <3>1. IsFile(Old(name)) /\ iscript' \in Readings(Old(name), "bin")
      BY <1>1, <1>3, <1>5, OldFacts
    <3>2. PICK scripts \in Readings(Old(name), "bin") : scripts = iscript'
      BY <3>1
    <3>3. /\ Old(name).form \in {"bin", "part"} /\ IsArchive(scripts)
          /\ Old(name).form = "bin" => scripts = Old(name).scripts
      BY <3>1, ScriptsRead
    <3> QED
      BY <3>2, <3>3
  <2>3. PICK F : F = opt.infiles
    OBVIOUS
  <2>4. /\ F \in Seq(STRING) /\ InputsAre(command, F) /\ Len(F) = 1 /\ DOMAIN F = {1} /\ F[1] = name
    <3>1. F \in Seq(STRING) /\ InputsAre(command, F) /\ Len(F) = 1 /\ F[1] = name
      BY <1>2, <2>3
    <3>2. DOMAIN F = 1 .. 1
      BY <3>1
    <3> QED
      BY <3>1, <3>2
  <2>5. Readable /\ (Whole => iscript' = Available)
    <3>1. /\ Whole <=> WholeOnes(F)
          /\ (\E input \in asked.inputs : Was(input).form \notin {FormOf(input), "part"}) <=>
               \E k \in DOMAIN F : Old(F[k]).form \notin {OldForm(F[k]), "part"}
          /\ \A a : Merges(a, OldScripts(F), Len(F)) => a = Available
      BY <1>2, <2>4, InputsAsked
    <3>2. Readable
      BY <1>3, <2>2, <2>4, <3>1 DEF Readable
    <3>3. ASSUME Whole PROVE iscript' = Available
      <4>1. Old(name).form = "bin"
        BY <1>3, <2>4, <3>1, <3>3 DEF WholeOnes
      <4>2. OldScripts(F)[1] = iscript'
        <5>1. 1 \in 1 .. Len(F)
          BY <2>4
        <5> QED
          BY <2>2, <2>4, <4>1, <5>1 DEF OldScripts
      <4>3. Merges(OldScripts(F)[1], OldScripts(F), 1)
        BY <2>2, <4>2, MergesOne
      <4> QED
        BY <2>4, <3>1, <4>2, <4>3
    <3> QED
      BY <3>2, <3>3
  <2>6. /\ asked' = asked /\ Available' = Available /\ (Whole' <=> Whole) /\ (Readable' <=> Readable)
        /\ Result(Available, asked.ids)' = Result(Available, asked.ids)
    <3>1. icecc' = icecc
      BY <2>1 DEF icecc
    <3> QED
      BY <1>1, <2>1, <3>1, SameAsked DEF Result
  <2>7. asked.inbounds => todo \in Seq(Entry) /\ Range(todo) = asked.ids
    BY <1>1 DEF Inv, ReadInv
  <2>8. ReadInv'
    <3>1. CASE todo = <<>>
      <4>1. pc' = "open"
        BY <2>1, <3>1
      <4>2. asked.inbounds => asked.ids = {}
        BY <2>7, <3>1 DEF Range
      <4>3. ASSUME Whole, asked.inbounds
            PROVE  iscript' = Result(Available, asked.ids) /\ asked.ids \subseteq DOMAIN Available
        BY <2>5, <4>2, <4>3 DEF Result
      <4> QED
        BY <2>5, <2>6, <4>1, <4>3 DEF ReadInv
    <3>2. CASE todo # <<>>
      <4>1. pc' = "extract"
        BY <2>1, <3>2
      <4>2. asked.inbounds => Range(todo) \cup DOMAIN new = asked.ids /\ asked.ids # {}
        <5>1. DOMAIN new = {}
          BY <1>2
        <5>2. ASSUME asked.inbounds PROVE Range(todo) # {}
          <6>1. todo \in Seq(Entry) /\ Len(todo) # 0
            BY <2>7, <3>2, <5>2, EmptyWhen
          <6>2. 1 \in DOMAIN todo
            BY <6>1
          <6> QED
            BY <6>2 DEF Range
        <5> QED
          BY <2>7, <5>1, <5>2
      <4>3. \A h \in DOMAIN new : h \in DOMAIN iscript' /\ new[h] = iscript'[h]
        BY <1>2
      <4> QED
        BY <1>1, <2>5, <2>6, <2>7, <4>1, <4>2, <4>3 DEF ReadInv
    <3> QED
      BY <3>1, <3>2
  <2>9. PhaseInv'
    <3>1. step' = step
      BY <1>1 DEF tvars
    <3> QED
      BY <1>2, <2>1, <3>1 DEF PhaseInv, Phases, Compiling, Decompiling
  <2>10. FilesInv'
    BY <1>1, <1>2, <2>1, <2>2 DEF Inv, FilesInv
  <2>11. ArgsInv' /\ InputInv'
    BY <2>1 DEF ArgsInv, InputInv
  <2>12. SettledInv' /\ FailureKeepsFiles' /\ OutputIsWhatWasAsked'
    BY <1>1, <2>1, Continues DEF Decompiling
  <2>13. TablesInv' /\ TablesSay'
    BY <1>1, TablesSame DEF Inv
  <2> QED
    BY <2>8, <2>9, <2>10, <2>11, <2>12, <2>13 DEF Inv
<1> QED
  BY <1>4, <1>5 DEF Load

LEMMA TailRange ==
  ASSUME NEW S, NEW s \in Seq(S), s # <<>>
  PROVE  Range(s) = {Head(s)} \cup Range(Tail(s))
<1>1. /\ Head(s) = s[1] /\ Len(s) \in Nat /\ Len(s) > 0
      /\ Tail(s) \in Seq(S) /\ Len(Tail(s)) = Len(s) - 1
      /\ \A k \in 1 .. Len(s) - 1 : Tail(s)[k] = s[k + 1]
  BY TailFacts
<1>2. DOMAIN s = 1 .. Len(s) /\ DOMAIN Tail(s) = 1 .. Len(s) - 1
  BY <1>1
<1>3. ASSUME NEW x \in Range(s) PROVE x \in {Head(s)} \cup Range(Tail(s))
  <2>1. PICK k \in DOMAIN s : x = s[k]
    BY DEF Range
  <2>2. CASE k = 1
    BY <1>1, <2>1, <2>2
  <2>3. CASE k # 1
    <3>1. k - 1 \in 1 .. Len(s) - 1 /\ (k - 1) + 1 = k
      BY <1>1, <1>2, <2>1, <2>3
    <3>2. Tail(s)[k - 1] = x
      BY <1>1, <2>1, <3>1
    <3>3. k - 1 \in DOMAIN Tail(s)
      BY <1>2, <3>1
    <3> QED
      BY <3>2, <3>3 DEF Range
  <2> QED
    BY <2>2, <2>3
<1>4. ASSUME NEW x \in Range(Tail(s)) PROVE x \in Range(s)
  <2>1. PICK k \in DOMAIN Tail(s) : x = Tail(s)[k]
    BY DEF Range
  <2>2. k \in 1 .. Len(s) - 1 /\ k + 1 \in 1 .. Len(s) /\ Tail(s)[k] = s[k + 1]
    BY <1>1, <1>2, <2>1
  <2> QED
    BY <1>2, <2>1, <2>2 DEF Range
<1>5. Head(s) \in Range(s)
  <2>1. 1 \in DOMAIN s
    BY <1>1, <1>2
  <2> QED
    BY <1>1, <2>1 DEF Range
<1> QED
  BY <1>3, <1>4, <1>5

(* icedc extracts the next id. *)
LEMMA ExtractStep ==
  ASSUME Inv, Extract
  PROVE  Inv'
<1>1. pc = "extract" /\ before' = before /\ disk' = disk /\ UNCHANGED tvars
  BY DEF Extract, shell, output
<1>2. /\ disk = before /\ command \in Commands /\ command.program = "icedc" /\ step = "none"
      /\ IsArchive(iscript) /\ IsArchive(new)
  <2>1. PhaseInv /\ FilesInv
    BY DEF Inv
  <2>2. pc \in Decompiling
    BY <1>1 DEF Decompiling
  <2> QED
    BY <1>1, <2>1, <2>2 DEF PhaseInv, FilesInv
<1>3. /\ Readable /\ (Whole => iscript = Available)
      /\ \A h \in DOMAIN new : h \in DOMAIN iscript /\ new[h] = iscript[h]
      /\ asked.inbounds =>
            todo \in Seq(Entry) /\ Range(todo) \cup DOMAIN new = asked.ids /\ asked.ids # {}
  BY <1>1 DEF Inv, ReadInv
<1>4. ~ icecc
  BY <1>2 DEF icecc
<1>5. ASSUME command' = command, opt' = opt, dir' = dir, pc' \in {"extract", "open"},
             IsArchive(iscript'), IsArchive(new'), ReadInv'
      PROVE  Inv'
  <2>1. PhaseInv'
    <3>1. step' = step
      BY <1>1 DEF tvars
    <3> QED
      BY <1>2, <1>5, <3>1 DEF PhaseInv, Phases, Compiling, Decompiling
  <2>2. FilesInv'
    BY <1>1, <1>2, <1>5 DEF Inv, FilesInv
  <2>3. ArgsInv' /\ InputInv'
    BY <1>5 DEF ArgsInv, InputInv
  <2>4. SettledInv' /\ FailureKeepsFiles' /\ OutputIsWhatWasAsked'
    BY <1>1, <1>5, Continues DEF Decompiling
  <2>5. TablesInv' /\ TablesSay'
    BY <1>1, TablesSame DEF Inv
  <2> QED
    BY <1>5, <2>1, <2>2, <2>3, <2>4, <2>5 DEF Inv
<1>6. ASSUME command' = command
      PROVE  /\ asked' = asked /\ Available' = Available /\ (Whole' <=> Whole) /\ (Readable' <=> Readable)
             /\ Result(Available, asked.ids)' = Result(Available, asked.ids)
  <2>1. icecc' = icecc
    BY <1>6 DEF icecc
  <2> QED
    BY <1>1, <1>6, <2>1, SameAsked DEF Result
<1> DEFINE id == Head(todo)
<1>7. CASE todo # <<>> /\ id \in DOMAIN iscript
  <2> DEFINE more == [h \in {id} |-> iscript[h]]
  <2>1. /\ new' = Over(new, more) /\ todo' = Tail(todo) /\ UNCHANGED clvars /\ iscript' = iscript
    BY <1>7 DEF Extract, Merged
  <2>2. command' = command /\ opt' = opt /\ dir' = dir /\ pc' = "extract"
    BY <1>1, <2>1 DEF clvars
  <2>3. /\ IsArchive(new') /\ DOMAIN new' = DOMAIN new \cup {id}
        /\ \A h \in DOMAIN new' : new'[h] = iscript[h] /\ h \in DOMAIN iscript
    <3>1. DOMAIN more = {id} /\ more[id] = iscript[id]
      OBVIOUS
    <3>2. /\ IsArchive(Over(new, more)) /\ DOMAIN Over(new, more) = DOMAIN new \cup DOMAIN more
          /\ \A h \in DOMAIN new \cup DOMAIN more :
               Over(new, more)[h] = IF h \in DOMAIN more THEN more[h] ELSE new[h]
      BY OverIsArchive
    <3> HIDE DEF more, id
    <3> QED
      BY <1>3, <1>7, <2>1, <3>1, <3>2
  <2>4. ASSUME asked.inbounds
        PROVE  todo' \in Seq(Entry) /\ Range(todo') \cup DOMAIN new' = asked.ids /\ asked.ids # {}
    <3>1. todo \in Seq(Entry) /\ Range(todo) \cup DOMAIN new = asked.ids /\ asked.ids # {}
      BY <1>3, <2>4
    <3>2. Tail(todo) \in Seq(Entry) /\ Range(todo) = {id} \cup Range(Tail(todo))
      BY <1>7, <3>1, TailFacts, TailRange
    <3> QED
      BY <2>1, <2>3, <3>1, <3>2
  <2>5. ReadInv'
    BY <1>3, <1>6, <2>1, <2>2, <2>3, <2>4 DEF ReadInv
  <2> QED
    BY <1>2, <1>5, <2>1, <2>2, <2>3, <2>5
<1>8. CASE todo # <<>> /\ id \notin DOMAIN iscript
  <2>1. Exit(1) /\ UNCHANGED <<iscript, new, todo>>
    BY <1>8 DEF Extract
  <2>2. OutputIsWhatWasAsked'
    BY <2>1 DEF Exit, OutputIsWhatWasAsked
  <2> QED
    BY <1>1, <1>2, <2>1, <2>2, GivesUp
<1>9. CASE todo = <<>>
  <2>1. iscript' = new /\ Go("open") /\ new' = new
    BY <1>9 DEF Extract
  <2>2. pc' = "open" /\ command' = command /\ opt' = opt /\ dir' = dir
    BY <2>1 DEF Go
  <2>3. ASSUME Whole, asked.inbounds
        PROVE  iscript' = Result(Available, asked.ids) /\ asked.ids \subseteq DOMAIN Available
    <3>0. Range(todo) = {}
      BY <1>9 DEF Range
    <3>1. DOMAIN new = asked.ids /\ asked.ids # {}
      <4>1. Range(todo) \cup DOMAIN new = asked.ids /\ asked.ids # {}
        BY <1>3, <2>3
      <4> QED
        BY <3>0, <4>1
    <3>2. new = [h \in asked.ids |-> Available[h]]
      <4>1. new = [h \in DOMAIN new |-> new[h]]
        BY <1>2 DEF IsArchive, Restrict
      <4>2. \A h \in DOMAIN new : new[h] = Available[h]
        BY <1>3, <2>3
      <4> QED
        BY <3>1, <4>1, <4>2
    <3> QED
      BY <1>3, <1>4, <2>1, <2>3, <3>1, <3>2 DEF Result, Restrict
  <2>4. ReadInv'
    BY <1>3, <1>6, <2>2, <2>3 DEF ReadInv
  <2> QED
    BY <1>2, <1>5, <2>1, <2>2, <2>4
<1> QED
  BY <1>7, <1>8, <1>9

(* It opens its output and writes it. *)
LEMMA OpenOutputStep ==
  ASSUME Inv, OpenOutput
  PROVE  Inv'
<1>1. pc = "open" /\ iscript' = iscript /\ new' = new /\ before' = before
  BY DEF OpenOutput, memory, shell
<1>2. /\ disk = before /\ command \in Commands /\ command.program = "icedc" /\ step = "none"
      /\ opt.outfile \in Name /\ TablesInv
  <2>1. PhaseInv /\ FilesInv /\ SettledInv /\ TablesInv
    BY DEF Inv
  <2>2. pc \in Decompiling
    BY <1>1 DEF Decompiling
  <2> QED
    BY <1>1, <2>1, <2>2 DEF PhaseInv, FilesInv, SettledInv
<1>3. CASE ~ ToStdout /\ Exit(1) /\ UNCHANGED <<disk, stdout, tvars>>
  <2>1. OutputIsWhatWasAsked'
    BY <1>3 DEF Exit, OutputIsWhatWasAsked
  <2> QED
    BY <1>1, <1>2, <1>3, <2>1, GivesUp
<1>4. CASE /\ IF ToStdout
              THEN stdout' = File("part", iscript) /\ UNCHANGED disk
              ELSE disk' = [disk EXCEPT ![opt.outfile] = File("part", iscript)] /\ UNCHANGED stdout
           /\ T!StartTables(Resources[dir]) /\ Go("print")
  <2>1. pc' = "print" /\ command' = command /\ opt' = opt /\ dir' = dir
    BY <1>4 DEF Go
  <2>2. Stored(disk') /\ \A other \in Name \ {opt.outfile} : disk'[other] = disk[other]
    <3>1. CASE ToStdout
      BY <1>4, <3>1 DEF Inv, FilesInv
    <3>2. CASE ~ ToStdout
      <4>1. disk' = [disk EXCEPT ![opt.outfile] = File("part", iscript)]
        BY <1>4, <3>2
      <4> QED
        BY <1>2, <4>1, FilesOf, Written
    <3> QED
      BY <3>1, <3>2
  <2>3. TablesInv' /\ TablesSay' /\ data' = Resources[dir]
    BY <1>2, <1>4, TablesStart
  <2>4. PhaseInv'
    BY <1>2, <2>1, <2>3 DEF PhaseInv, Phases, Compiling, Decompiling
  <2>5. FilesInv'
    BY <1>1, <1>2, <2>1, <2>2 DEF Inv, FilesInv
  <2>6. ArgsInv' /\ InputInv'
    BY <2>1 DEF ArgsInv, InputInv
  <2>7. SettledInv' /\ FailureKeepsFiles' /\ OutputIsWhatWasAsked'
    BY <1>1, <2>1, Continues DEF Decompiling
  <2>8. ReadInv'
    <3>1. /\ asked' = asked /\ Available' = Available /\ (Whole' <=> Whole) /\ (Readable' <=> Readable)
          /\ Result(Available, asked.ids)' = Result(Available, asked.ids)
      <4>1. icecc' = icecc
        BY <2>1 DEF icecc
      <4> QED
        BY <1>1, <2>1, <4>1, SameAsked DEF Result
    <3>2. /\ Readable
          /\ Whole /\ asked.inbounds =>
               iscript = Result(Available, asked.ids) /\ asked.ids \subseteq DOMAIN Available
      BY <1>1 DEF Inv, ReadInv
    <3> QED
      BY <1>1, <2>1, <3>1, <3>2 DEF ReadInv
  <2> QED
    BY <2>3, <2>4, <2>5, <2>6, <2>7, <2>8 DEF Inv
<1> QED
  BY <1>3, <1>4 DEF OpenOutput

LEMMA PrintOutputStep ==
  ASSUME Inv, PrintOutput
  PROVE  Inv'
<1>1. pc = "print" /\ iscript' = iscript /\ new' = new /\ before' = before
  BY DEF PrintOutput, memory, shell
<1>2. /\ command \in Commands /\ command.program = "icedc" /\ opt.outfile \in Name
      /\ opt.outfile = asked.output /\ Stored(disk)
      /\ \A name \in Name \ {opt.outfile} : disk[name] = before[name]
  <2>1. PhaseInv /\ FilesInv /\ SettledInv
    BY DEF Inv
  <2>2. pc \in Decompiling
    BY <1>1 DEF Decompiling
  <2> QED
    BY <1>1, <2>1, <2>2 DEF PhaseInv, FilesInv, SettledInv
<1>3. CASE disk' = Removed(opt.outfile) /\ Exit(1) /\ UNCHANGED <<stdout, unnoticed, tvars>>
  BY <1>1, <1>3, Removes
<1>4. ASSUME T!FreeTables, Exit(0), OutputIsWhatWasAsked', Stored(disk'),
             \A other \in Name \ {opt.outfile} : disk'[other] = disk[other]
      PROVE  Inv'
  <2>1. TablesInv' /\ TablesSay'
    BY <1>4, TablesNone DEF T!FreeTables
  <2>2. \A name \in Name \ {opt.outfile} : disk'[name] = before[name]
    BY <1>2, <1>4
  <2>3. 0 = 1 => disk'[opt.outfile] \in {before[opt.outfile], NoFile}
    OBVIOUS
  <2> QED
    BY <1>1, <1>4, <2>1, <2>2, <2>3, EndsLate
<1>5. CASE /\ IF ToStdout
              THEN stdout' = File("txt", iscript) /\ UNCHANGED disk
              ELSE disk' = [disk EXCEPT ![opt.outfile] = File("txt", iscript)] /\ UNCHANGED stdout
           /\ T!FreeTables /\ Exit(0)
  <2>1. Stored(disk') /\ \A other \in Name \ {opt.outfile} : disk'[other] = disk[other]
    <3>1. CASE ToStdout
      BY <1>2, <1>5, <3>1
    <3>2. CASE ~ ToStdout
      <4>1. disk' = [disk EXCEPT ![opt.outfile] = File("txt", iscript)]
        BY <1>5, <3>2
      <4> QED
        BY <1>2, <4>1, FilesOf, Written
    <3> QED
      BY <3>1, <3>2
  <2>2. (IF opt.outfile = "-" THEN stdout' ELSE disk'[opt.outfile]) = File("txt", iscript)
    <3>1. CASE ToStdout
      BY <1>5, <3>1 DEF ToStdout
    <3>2. CASE ~ ToStdout
      <4>1. disk' = [disk EXCEPT ![opt.outfile] = File("txt", iscript)]
        BY <1>5, <3>2
      <4>2. disk'[opt.outfile] = File("txt", iscript)
        BY <1>2, <4>1, FilesOf, Written
      <4> QED
        BY <3>2, <4>2 DEF ToStdout
    <3> QED
      BY <3>1, <3>2
  <2>3. command' = command
    BY <1>5 DEF Exit
  <2>4. /\ asked' = asked /\ Available' = Available /\ (Whole' <=> Whole) /\ ~ icecc /\ ~ icecc'
        /\ Result(Available, asked.ids)' = Result(Available, asked.ids)
    <3>1. ~ icecc /\ ~ icecc'
      BY <1>2, <2>3 DEF icecc
    <3> QED
      BY <1>1, <2>3, <3>1, SameAsked DEF Result
  <2>5. Whole /\ asked.inbounds => iscript = Result(Available, asked.ids)
    BY <1>1 DEF Inv, ReadInv
  <2>6. OutputIsWhatWasAsked'
    BY <1>2, <2>2, <2>4, <2>5 DEF OutputIsWhatWasAsked
  <2> QED
    BY <1>4, <1>5, <2>1, <2>6
<1>6. CASE unnoticed' = TRUE /\ UNCHANGED <<disk, stdout>> /\ T!FreeTables /\ Exit(0)
  <2>1. OutputIsWhatWasAsked'
    BY <1>6 DEF OutputIsWhatWasAsked
  <2>2. Stored(disk') /\ \A other \in Name \ {opt.outfile} : disk'[other] = disk[other]
    BY <1>2, <1>6
  <2> QED
    BY <1>4, <1>6, <2>1, <2>2
<1> QED
  BY <1>3, <1>5, <1>6 DEF PrintOutput

-----------------------------------------------------------------------------
LEMMA NextInv ==
  ASSUME Inv, [Next]_vars
  PROVE  Inv'
<1>1. CASE \E c \in Commands : Run(c)
  BY <1>1, RunStep
<1>2. CASE Reap
  BY <1>2, ReapStep
<1>3. CASE Kill
  BY <1>3, KillStep
<1>4. CASE GetArgs
  BY <1>4, ArgumentStep, ConfigStep DEF GetArgs
<1>5. CASE Settle
  BY <1>5, SettleStep
<1>6. CASE Input \/ Save \/ Write
  BY <1>6, InputStep, SaveStep, WriteStep
<1>7. CASE LoadTables \/ LookUp \/ Load
  BY <1>7, LoadTablesStep, LookUpStep, LoadStep
<1>8. CASE Extract \/ OpenOutput \/ PrintOutput
  BY <1>8, ExtractStep, OpenOutputStep, PrintOutputStep
<1>9. CASE UNCHANGED vars
  <2>1. /\ UNCHANGED <<disk, stdout, commands, iscript, new, todo, data, tables, loaded, step, before, unnoticed>>
        /\ UNCHANGED <<command, i, nomoreswitches, opt, dir, loadconfigdir, pc, status>>
    BY <1>9 DEF vars, clvars, tvars, memory, shell, output
  <2>2. asked' = asked /\ Available' = Available /\ (Whole' <=> Whole) /\ (Readable' <=> Readable)
    BY <2>1, SameAsked
  <2>3. icecc' = icecc
    BY <2>1 DEF icecc
  <2>4. Result(Available, asked.ids)' = Result(Available, asked.ids)
    BY <2>2, <2>3 DEF Result
  <2>5. \A x : Old(x)' = Old(x) /\ OldForm(x)' = OldForm(x) /\ Was(x)' = Was(x) /\ FormOf(x)' = FormOf(x)
    BY <2>1, <2>3 DEF Old, OldForm, Was, FormOf, On
  <2>6. PhaseInv' /\ FilesInv' /\ ArgsInv'
    BY <2>1 DEF Inv, PhaseInv, FilesInv, ArgsInv
  <2>7. SettledInv'
    BY <2>1, <2>2 DEF Inv, SettledInv
  <2>8. InputInv'
    <3>1. \A files, m : /\ ReadUpTo(files, m)' <=> ReadUpTo(files, m)
                        /\ WholeUpTo(files, m)' <=> WholeUpTo(files, m)
                        /\ OldScripts(files)' = OldScripts(files)
                        /\ Ahead(files, m)' <=> Ahead(files, m)
      BY <2>1, <2>5 DEF ReadUpTo, WholeUpTo, OldScripts, Ahead
    <3> SUFFICES ASSUME pc' = "input" PROVE InputInv'
      BY DEF InputInv
    <3>2. PICK F : F = opt.infiles
      OBVIOUS
    <3>3. PICK m \in 0 .. Len(F) - 1 :
            /\ Ahead(F, m) /\ ReadUpTo(F, m)
            /\ WholeUpTo(F, m) => Merges(iscript, OldScripts(F), m)
      BY <2>1, <3>2 DEF Inv, InputInv
    <3>4. (Merges(iscript, OldScripts(F), m))' <=> Merges(iscript, OldScripts(F), m)
      BY <2>1, <3>1
    <3>5. opt'.infiles = F
      BY <2>1, <3>2
    <3> QED
      BY <3>1, <3>3, <3>4, <3>5 DEF InputInv
  <2>9. ReadInv'
    BY <2>1, <2>2, <2>4 DEF Inv, ReadInv
  <2>10. TablesInv' /\ TablesSay'
    BY <2>1 DEF Inv, TablesInv, TablesSay
  <2>11. FailureKeepsFiles'
    BY <2>1, <2>2, <2>3, <2>5 DEF Inv, FailureKeepsFiles
  <2>12. OutputIsWhatWasAsked'
    BY <2>1, <2>2, <2>3, <2>4 DEF Inv, OutputIsWhatWasAsked
  <2> QED
    BY <2>6, <2>7, <2>8, <2>9, <2>10, <2>11, <2>12 DEF Inv
<1> QED
  BY <1>1, <1>2, <1>3, <1>4, <1>5, <1>6, <1>7, <1>8, <1>9 DEF Next

(* The invariant of icecc and icedc holds, whatever the command lines, the *)
(* files and the configuration are.                                        *)
THEOREM ProgramsKeepInv == Spec => []Inv
<1>1. Init => Inv
  BY InitInv
<1>2. Inv /\ [Next]_vars => Inv'
  BY NextInv
<1> QED
  BY <1>1, <1>2, PTL DEF Spec

(* The tables of icedc are there all or none, and no string in them has    *)
(* gone with the file that it was read from (init_resource_tables).        *)
THEOREM TablesAreWhole == Spec => []TablesWhole
<1>1. Inv => TablesWhole
  <2> SUFFICES ASSUME TablesInv PROVE TablesWhole
    BY DEF Inv
  <2>1. step = "ready" => DOMAIN tables = T!TableName
    BY DEF TablesInv, Built, Steps
  <2> QED
    BY <2>1 DEF TablesInv, TablesWhole, T!TablesWhole
<1> QED
  BY <1>1, ProgramsKeepInv, PTL

(* A command changes no file but its output, removes that or leaves it     *)
(* when it fails, and has not touched it when the inputs cannot be read or *)
(* an id that is asked for is not there (main of icecc.c and icedc.c).     *)
THEOREM FilesAreKept == Spec => []FailureKeepsFiles
<1>1. Inv => FailureKeepsFiles
  BY DEF Inv
<1> QED
  BY <1>1, ProgramsKeepInv, PTL

(* A command that succeeds has made the output that its arguments and the  *)
(* configuration ask for, however they are ordered (get_args,              *)
(* load_config_file, main).                                                *)
THEOREM OutputIsAsAsked == Spec => []OutputIsWhatWasAsked
<1>1. Inv => OutputIsWhatWasAsked
  BY DEF Inv
<1> QED
  BY <1>1, ProgramsKeepInv, PTL

-----------------------------------------------------------------------------
(* How the GUI runs them: proofs about GuiExec, for any number of clicks,  *)
(* any commands and any size of the pipes.  No message of a program that   *)
(* failed gets lost between the child, the pipe and the dialog.            *)

Occur(s) == {s[k] : k \in DOMAIN s}

(* What Append and Tail do to a sequence of lines in order.                *)
LEMMA AppendLines ==
  ASSUME NEW s \in Seq(Nat), NEW n \in Nat
  PROVE  /\ Append(s, n) \in Seq(Nat)
         /\ Occur(Append(s, n)) = Occur(s) \cup {n}
         /\ Increasing(s) /\ (\A m \in Occur(s) : m < n) => Increasing(Append(s, n))
<1>1. /\ Len(s) \in Nat /\ DOMAIN s = 1 .. Len(s)
      /\ DOMAIN Append(s, n) = 1 .. Len(s) + 1
      /\ Append(s, n)[Len(s) + 1] = n
      /\ \A k \in 1 .. Len(s) : Append(s, n)[k] = s[k]
  OBVIOUS
<1>2. \A k \in 1 .. Len(s) + 1 : k \in 1 .. Len(s) \/ k = Len(s) + 1
  BY <1>1
<1>3. /\ \A k \in 1 .. Len(s) : k \in 1 .. Len(s) + 1
      /\ Len(s) + 1 \in 1 .. Len(s) + 1
  BY <1>1
<1>4. Occur(Append(s, n)) = Occur(s) \cup {n}
  BY <1>1, <1>2, <1>3 DEF Occur
<1>5. ASSUME Increasing(s), \A m \in Occur(s) : m < n,
             NEW j \in 1 .. Len(s) + 1, NEW k \in 1 .. Len(s) + 1, j < k
      PROVE  Append(s, n)[j] < Append(s, n)[k]
  <2>1. j \in 1 .. Len(s)
    BY <1>1, <1>5
  <2>2. CASE k \in 1 .. Len(s)
    BY <1>1, <1>5, <2>1, <2>2 DEF Increasing
  <2>3. CASE k = Len(s) + 1
    BY <1>1, <1>5, <2>1, <2>3 DEF Occur
  <2> QED
    BY <1>2, <2>2, <2>3
<1> QED
  BY <1>1, <1>4, <1>5 DEF Increasing

LEMMA TailLines ==
  ASSUME NEW s \in Seq(Nat), s # <<>>
  PROVE  /\ Tail(s) \in Seq(Nat) /\ Head(s) \in Nat
         /\ Occur(s) = {Head(s)} \cup Occur(Tail(s))
         /\ Increasing(s) => Increasing(Tail(s)) /\ \A m \in Occur(Tail(s)) : Head(s) < m
<1>1. /\ Len(s) \in Nat \ {0} /\ DOMAIN s = 1 .. Len(s) /\ Head(s) = s[1]
      /\ Tail(s) \in Seq(Nat)
      /\ DOMAIN Tail(s) = 1 .. Len(s) - 1
      /\ \A k \in 1 .. Len(s) - 1 : Tail(s)[k] = s[k + 1]
  OBVIOUS
<1>2. \A k \in 1 .. Len(s) : k = 1 \/ (k - 1 \in 1 .. Len(s) - 1 /\ (k - 1) + 1 = k)
  BY <1>1
<1>3. 1 \in 1 .. Len(s) /\ \A k \in 1 .. Len(s) - 1 : k + 1 \in 1 .. Len(s) /\ 1 < k + 1
  BY <1>1
<1>4. Occur(s) = {Head(s)} \cup Occur(Tail(s))
  <2>1. \A k \in 1 .. Len(s) : s[k] = Head(s) \/ s[k] \in Occur(Tail(s))
    <3> SUFFICES ASSUME NEW k \in 1 .. Len(s), k # 1 PROVE s[k] \in Occur(Tail(s))
      BY <1>1
    <3>1. k - 1 \in DOMAIN Tail(s) /\ Tail(s)[k - 1] = s[k]
      BY <1>1, <1>2
    <3> QED
      BY <3>1 DEF Occur
  <2>2. \A k \in DOMAIN Tail(s) : Tail(s)[k] \in Occur(s)
    BY <1>1, <1>3 DEF Occur
  <2> QED
    BY <1>1, <1>3, <2>1, <2>2, ZenonT(60) DEF Occur
<1>5. ASSUME Increasing(s) PROVE Increasing(Tail(s)) /\ \A m \in Occur(Tail(s)) : Head(s) < m
  <2>1. \A j, k \in 1 .. Len(s) - 1 : j < k => j + 1 < k + 1
    BY <1>1
  <2> QED
    BY <1>1, <1>3, <1>5, <2>1 DEF Increasing, Occur
<1>6. Head(s) \in Nat
  BY <1>1
<1> QED
  BY <1>1, <1>4, <1>5, <1>6

(* The types of what one thread and its child have.                        *)
TypeOf(t) ==
  /\ cmd[t] \in Jobs \cup {None}
  /\ phase[t] \in {"new", "exec", "no such program", "stderr", "stdout", "wait", "done", "read failed"}
  /\ shown[t] \in BOOLEAN
  /\ child[t] \in {"none", "running", "closed", "exited"}
  /\ written[t] \in Nat
  /\ messages[t] \in Seq(Nat)
  /\ pipe[t] \in [Streams -> Seq(Nat)]

(* What is known of a command. *)
LEMMA JobFacts ==
  ASSUME NEW c \in Jobs \cup {None}
  PROVE  /\ c.writes \in Seq(Streams) /\ Len(c.writes) \in Nat
         /\ DOMAIN c.writes = 1 .. Len(c.writes)
         /\ \A k \in 1 .. Len(c.writes) : c.writes[k] \in Streams
<1>1. c.writes \in Seq(Streams)
  <2>1. CASE c \in Jobs
    BY <2>1, GuiAssumption DEF Streams
  <2>2. CASE c = None
    <3>1. c.writes = <<>>
      BY <2>2 DEF None
    <3> QED
      BY <3>1
  <2> QED
    BY <2>1, <2>2
<1> QED
  BY <1>1

(* A step of one thread or its child leaves the others alone. *)
ThreadAlone(t) ==
  \A u \in Threads \ {t} :
    /\ cmd'[u] = cmd[u] /\ phase'[u] = phase[u] /\ messages'[u] = messages[u]
    /\ shown'[u] = shown[u] /\ child'[u] = child[u] /\ written'[u] = written[u]
    /\ pipe'[u] = pipe[u]

OfThreads(f) == f = [t \in Threads |-> f[t]]

Domains ==
  /\ OfThreads(cmd) /\ OfThreads(phase) /\ OfThreads(messages) /\ OfThreads(shown)
  /\ OfThreads(child) /\ OfThreads(written) /\ OfThreads(pipe)

(* The actions of a thread, with what they do to it spelt out.             *)
Step(t) ==
  \/ /\ phase[t] = "new" /\ phase'[t] = "exec" /\ cmd'[t] \in Jobs
     /\ UNCHANGED <<messages[t], shown[t], child[t], written[t], pipe[t]>>
  \/ /\ phase[t] = "exec"
     /\ \/ phase'[t] = "stderr" /\ child'[t] = "running"
        \/ phase'[t] = "no such program" /\ child'[t] = child[t]
     /\ UNCHANGED <<cmd[t], messages[t], shown[t], written[t], pipe[t]>>
  \/ /\ phase[t] = "stderr" /\ pipe[t]["stderr"] # <<>>
     /\ messages'[t] = Append(messages[t], Head(pipe[t]["stderr"]))
     /\ pipe'[t] = [pipe[t] EXCEPT !["stderr"] = Tail(pipe[t]["stderr"])]
     /\ UNCHANGED <<cmd[t], phase[t], shown[t], child[t], written[t]>>
  \/ /\ phase[t] = "stderr" /\ pipe[t]["stderr"] = <<>> /\ child[t] # "running"
     /\ phase'[t] = "stdout"
     /\ UNCHANGED <<cmd[t], messages[t], shown[t], child[t], written[t], pipe[t]>>
  \/ /\ phase[t] = "stdout"
     /\ \/ /\ pipe[t]["stdout"] # <<>>
           /\ pipe'[t] = [pipe[t] EXCEPT !["stdout"] = Tail(pipe[t]["stdout"])]
           /\ phase'[t] = phase[t]
        \/ phase'[t] = "wait" /\ pipe'[t] = pipe[t]
     /\ UNCHANGED <<cmd[t], messages[t], shown[t], child[t], written[t]>>
  \/ /\ phase[t] = "wait" /\ child[t] = "exited" /\ phase'[t] = "done"
     /\ shown'[t] = (WatchExit(cmd[t]) /\ cmd[t].status # 0)
     /\ UNCHANGED <<cmd[t], messages[t], child[t], written[t], pipe[t]>>
  \/ /\ phase[t] \in Streams /\ phase'[t] = "read failed"
     /\ UNCHANGED <<cmd[t], messages[t], shown[t], child[t], written[t], pipe[t]>>
  \/ /\ child[t] = "running" /\ written[t] + 1 <= Len(cmd[t].writes)
     /\ written'[t] = written[t] + 1
     /\ pipe'[t] = [pipe[t] EXCEPT ![cmd[t].writes[written[t] + 1]] =
                      Append(pipe[t][cmd[t].writes[written[t] + 1]], written[t] + 1)]
     /\ UNCHANGED <<cmd[t], phase[t], messages[t], shown[t], child[t]>>
  \/ /\ \/ child[t] = "running" /\ written[t] = Len(cmd[t].writes) /\ child'[t] = "closed"
        \/ child[t] = "closed" /\ child'[t] = "exited"
     /\ UNCHANGED <<cmd[t], phase[t], messages[t], shown[t], written[t], pipe[t]>>

LEMMA StepOfOne ==
  ASSUME Domains, GuiNext
  PROVE  Domains' /\ \E t \in Threads : Step(t) /\ ThreadAlone(t)
<1>1. PICK t \in Threads : Clicks(t) \/ Thread(t) \/ ReadFails(t) \/ Child(t)
  BY DEF GuiNext
<1>2. CASE Clicks(t)
  <2>1. PICK c \in Jobs : Execute(t, c)
    BY <1>2 DEF Clicks, HandleCompile, HandleDecompile, HandleOpenWithEditor, OpenInEditor
  <2> QED
    BY <2>1 DEF Execute, Domains, OfThreads, ThreadAlone, Step
<1>3. CASE Exec(t) \/ ExecFails(t)
  BY <1>3 DEF Exec, ExecFails, FirstPhase, Domains, OfThreads, ThreadAlone, Step
<1>4. CASE ReadMessage(t)
  BY <1>4 DEF ReadMessage, Reads, Domains, OfThreads, ThreadAlone, Step
<1>5. CASE EndOfErrors(t)
  BY <1>5 DEF EndOfErrors, AtEnd, Domains, OfThreads, ThreadAlone, Step
<1>6. CASE FlushOutput(t) \/ EndOfOutput(t)
  BY <1>6 DEF FlushOutput, EndOfOutput, Reads, reader, Domains, OfThreads, ThreadAlone, Step
<1>7. CASE WaitFor(t) \/ ReadFails(t)
  BY <1>7 DEF WaitFor, ReadFails, HasExited, Domains, OfThreads, ThreadAlone, Step
<1>8. CASE ChildWrites(t)
  BY <1>8 DEF ChildWrites, reader, Domains, OfThreads, ThreadAlone, Step
<1>9. CASE ChildCloses(t) \/ ChildExits(t)
  BY <1>9 DEF ChildCloses, ChildExits, reader, Domains, OfThreads, ThreadAlone, Step
<1> QED
  BY <1>1, <1>2, <1>3, <1>4, <1>5, <1>6, <1>7, <1>8, <1>9 DEF Thread, Child

(* The lines of its error stream that the child has written so far.        *)
Uttered(t) == {k \in 1 .. written[t] : cmd[t].writes[k] = "stderr"}

(* The inductive invariant: what was read, followed by what is in the      *)
(* pipe, is what was written, in order; the thread leaves the error stream *)
(* only after the child has closed it, when all was written and all read.  *)
ReaderInv(t) ==
  /\ phase[t] \in {"new", "exec", "no such program"} =>
       /\ child[t] = "none" /\ written[t] = 0 /\ messages[t] = <<>>
       /\ pipe[t]["stderr"] = <<>>
  /\ phase[t] \in {"stderr", "stdout", "wait", "done", "read failed"} => child[t] # "none"
  /\ phase[t] \in {"stdout", "wait", "done"} =>
       pipe[t]["stderr"] = <<>> /\ child[t] # "running"
  /\ phase[t] = "done" =>
       /\ shown[t] = (WatchExit(cmd[t]) /\ cmd[t].status # 0)
       /\ child[t] = "exited"
  /\ written[t] <= Len(cmd[t].writes)
  /\ child[t] \in {"closed", "exited"} => written[t] = Len(cmd[t].writes)

LinesInv(t) ==
  /\ Occur(messages[t]) \cup Occur(pipe[t]["stderr"]) = Uttered(t)
  /\ Increasing(messages[t]) /\ Increasing(pipe[t]["stderr"])
  /\ \A m \in Occur(messages[t]), n \in Occur(pipe[t]["stderr"]) : m < n

ThreadInv(t) == TypeOf(t) /\ ReaderInv(t) /\ LinesInv(t)

GuiInv == Domains /\ \A t \in Threads : ThreadInv(t)

(* The empty sequence of lines. *)
LEMMA NoLines == /\ Occur(<<>>) = {} /\ Increasing(<<>>)
                 /\ \A s \in Seq(Nat) : Occur(s) \subseteq Nat
BY DEF Occur, Increasing

LEMMA InitGui == GuiInit => GuiInv
<1> SUFFICES ASSUME GuiInit PROVE GuiInv
  OBVIOUS
<1>1. Domains
  BY DEF GuiInit, Domains, OfThreads
<1>2. ASSUME NEW t \in Threads PROVE ThreadInv(t)
  <2>1. /\ cmd[t] = None /\ phase[t] = "new" /\ messages[t] = <<>> /\ shown[t] = FALSE
        /\ child[t] = "none" /\ written[t] = 0
        /\ pipe[t] = [s \in Streams |-> <<>>]
    BY <1>2 DEF GuiInit
  <2>2. pipe[t]["stderr"] = <<>> /\ Uttered(t) = {}
    BY <2>1 DEF Streams, Uttered
  <2>3. pipe[t] \in [Streams -> Seq(Nat)] /\ messages[t] \in Seq(Nat)
    <3>1. <<>> \in Seq(Nat)
      OBVIOUS
    <3> QED
      BY <2>1, <3>1
  <2>4. TypeOf(t)
    <3>1. /\ cmd[t] \in Jobs \cup {None} /\ child[t] = "none" /\ phase[t] = "new"
          /\ written[t] \in Nat
      BY <2>1
    <3>2. shown[t] \in BOOLEAN
      BY <2>1
    <3> QED
      BY <2>3, <3>1, <3>2 DEF TypeOf
  <2>5. ReaderInv(t)
    <3>1. Len(cmd[t].writes) = 0
      BY <2>1 DEF None
    <3> QED
      BY <2>1, <2>2, <3>1 DEF ReaderInv
  <2>6. LinesInv(t)
    BY <2>1, <2>2, NoLines DEF LinesInv
  <2> QED
    BY <2>4, <2>5, <2>6 DEF ThreadInv
<1> QED
  BY <1>1, <1>2 DEF GuiInv

(* The line that a child writes next. *)
LEMMA NextLine ==
  ASSUME NEW t \in Threads, TypeOf(t), written[t] + 1 <= Len(cmd[t].writes)
  PROVE  cmd[t].writes[written[t] + 1] \in Streams /\ written[t] + 1 \in Nat
<1>1. PICK c \in Jobs \cup {None} : c = cmd[t]
  BY DEF TypeOf
<1>2. PICK n \in Nat : n = written[t]
  BY DEF TypeOf
<1>3. n + 1 \in 1 .. Len(c.writes)
  BY <1>1, <1>2, JobFacts
<1> QED
  BY <1>1, <1>2, <1>3, JobFacts

(* What a thread and its child do keeps the types.                         *)
LEMMA StepType == ASSUME NEW t \in Threads, TypeOf(t), Step(t) PROVE TypeOf(t)'
<1> DEFINE line == cmd[t].writes[written[t] + 1]
           errors == pipe[t]["stderr"]
           out == pipe[t]["stdout"]
<1>1. /\ cmd'[t] \in Jobs \cup {None} /\ written'[t] \in Nat
      /\ phase'[t] \in {"new", "exec", "no such program", "stderr", "stdout", "wait", "done", "read failed"}
      /\ child'[t] \in {"none", "running", "closed", "exited"}
  <2>1. cmd'[t] = cmd[t] \/ cmd'[t] \in Jobs
    BY Zenon DEF Step
  <2>2. written'[t] = written[t] \/ written'[t] = written[t] + 1
    BY Zenon DEF Step
  <2>3. phase'[t] = phase[t] \/ phase'[t] \in {"exec", "no such program", "stderr", "stdout", "wait", "done", "read failed"}
    BY DEF Step
  <2>4. child'[t] = child[t] \/ child'[t] \in {"running", "closed", "exited"}
    BY DEF Step
  <2>5. cmd'[t] \in Jobs \cup {None}
    BY <2>1 DEF TypeOf
  <2>6. written'[t] \in Nat
    <3>1. PICK n \in Nat : n = written[t]
      BY DEF TypeOf
    <3>2. n \in Nat /\ n + 1 \in Nat
      BY <3>1
    <3> QED
      BY <2>2, <3>1, <3>2
  <2>7. phase'[t] \in {"new", "exec", "no such program", "stderr", "stdout", "wait", "done", "read failed"}
    BY <2>3 DEF TypeOf
  <2>8. child'[t] \in {"none", "running", "closed", "exited"}
    BY <2>4 DEF TypeOf
  <2> QED
    BY <2>5, <2>6, <2>7, <2>8
<1>2. shown'[t] \in BOOLEAN
  <2>1. (WatchExit(cmd[t]) /\ cmd[t].status # 0) \in BOOLEAN
    OBVIOUS
  <2>2. shown'[t] = shown[t] \/ shown'[t] = (WatchExit(cmd[t]) /\ cmd[t].status # 0)
    BY Zenon DEF Step
  <2> QED
    BY <2>1, <2>2 DEF TypeOf
<1>3. pipe[t] \in [Streams -> Seq(Nat)] /\ messages[t] \in Seq(Nat) /\ errors \in Seq(Nat) /\ out \in Seq(Nat)
  BY DEF TypeOf, Streams
<1>4. messages'[t] \in Seq(Nat)
  <2>1. CASE messages'[t] = messages[t]
    BY <1>3, <2>1
  <2>2. CASE errors # <<>> /\ messages'[t] = Append(messages[t], Head(errors))
    BY <1>3, <2>2, TailLines, AppendLines
  <2> QED
    BY <2>1, <2>2 DEF Step
<1>5. pipe'[t] \in [Streams -> Seq(Nat)]
  <2>1. CASE pipe'[t] = pipe[t]
    BY <1>3, <2>1
  <2>2. CASE errors # <<>> /\ pipe'[t] = [pipe[t] EXCEPT !["stderr"] = Tail(errors)]
    <3>1. Tail(errors) \in Seq(Nat)
      BY <1>3, <2>2, TailLines
    <3> QED
      BY <1>3, <2>2, <3>1
  <2>3. CASE out # <<>> /\ pipe'[t] = [pipe[t] EXCEPT !["stdout"] = Tail(out)]
    <3>1. Tail(out) \in Seq(Nat)
      BY <1>3, <2>3, TailLines
    <3> QED
      BY <1>3, <2>3, <3>1
  <2>4. CASE /\ written[t] + 1 <= Len(cmd[t].writes)
             /\ pipe'[t] = [pipe[t] EXCEPT ![line] = Append(pipe[t][line], written[t] + 1)]
    <3>1. line \in Streams /\ written[t] + 1 \in Nat
      BY <2>4, NextLine
    <3>2. Append(pipe[t][line], written[t] + 1) \in Seq(Nat)
      BY <1>3, <3>1, AppendLines
    <3> QED
      BY <1>3, <2>4, <3>1, <3>2
  <2> QED
    BY <2>1, <2>2, <2>3, <2>4 DEF Step
<1> QED
  BY <1>1, <1>2, <1>4, <1>5 DEF TypeOf

(* ... the protocol of streams and exit status ...                         *)
LEMMA StepPhase ==
  ASSUME NEW t \in Threads, TypeOf(t), ReaderInv(t), Step(t) PROVE ReaderInv(t)'
<1>1. written[t] \in Nat /\ Len(cmd[t].writes) \in Nat /\ Len(cmd'[t].writes) \in Nat
  BY StepType, JobFacts DEF TypeOf
<1>2. \/ pipe'[t]["stderr"] = pipe[t]["stderr"]
      \/ child[t] = "running" /\ phase'[t] = phase[t]
      \/ phase[t] = "stderr" /\ phase'[t] = phase[t]
  BY DEF Step, TypeOf, Streams
<1>3. CASE phase[t] = "new" /\ phase'[t] = "exec"
  BY <1>1, <1>2, <1>3 DEF ReaderInv, Step
<1>4. CASE phase[t] = "exec" /\ phase'[t] # "exec"
  BY <1>1, <1>2, <1>4 DEF ReaderInv, Step, Streams
<1>5. CASE phase[t] = "stderr"
  BY <1>1, <1>2, <1>5 DEF ReaderInv, Step, Streams
<1>6. CASE phase[t] = "stdout"
  BY <1>1, <1>2, <1>6 DEF ReaderInv, Step, Streams
<1>7. CASE phase[t] = "wait" /\ phase'[t] = "done"
  BY <1>1, <1>2, <1>7 DEF ReaderInv, Step, Streams
<1>8. CASE phase'[t] = phase[t] /\ phase[t] \notin {"stderr", "stdout"}
  BY <1>1, <1>2, <1>8 DEF ReaderInv, Step, Streams
<1> QED
  BY <1>3, <1>4, <1>5, <1>6, <1>7, <1>8 DEF Step, Streams, TypeOf

(* ... and the lines of the error stream.                                  *)
LEMMA StepLines ==
  ASSUME NEW t \in Threads, TypeOf(t), ReaderInv(t), LinesInv(t), Step(t)
  PROVE  LinesInv(t)'
<1>0. /\ messages[t] \in Seq(Nat) /\ pipe[t] \in [Streams -> Seq(Nat)]
      /\ pipe[t]["stderr"] \in Seq(Nat) /\ written[t] \in Nat
  BY DEF TypeOf, Streams
<1>1. CASE /\ pipe'[t]["stderr"] = pipe[t]["stderr"]
           /\ UNCHANGED <<messages[t], cmd[t], written[t]>>
  BY <1>1 DEF LinesInv, Uttered
<1>2. CASE phase[t] = "new" /\ UNCHANGED <<messages[t], written[t], pipe[t]>>
  <2>1. written[t] = 0
    BY <1>2 DEF ReaderInv
  <2>2. Uttered(t) = {} /\ Uttered(t)' = {}
    BY <1>2, <2>1 DEF Uttered
  <2> QED
    BY <1>2, <2>2 DEF LinesInv
<1>3. CASE /\ phase[t] = "stderr" /\ pipe[t]["stderr"] # <<>>
           /\ messages'[t] = Append(messages[t], Head(pipe[t]["stderr"]))
           /\ pipe'[t]["stderr"] = Tail(pipe[t]["stderr"])
           /\ UNCHANGED <<cmd[t], written[t]>>
  <2> DEFINE read == messages[t]
             left == pipe[t]["stderr"]
  <2>1. /\ Head(left) \in Nat /\ Tail(left) \in Seq(Nat)
        /\ Occur(left) = {Head(left)} \cup Occur(Tail(left))
        /\ Increasing(Tail(left)) /\ \A m \in Occur(Tail(left)) : Head(left) < m
    BY <1>0, <1>3, TailLines DEF LinesInv
  <2>2. \A m \in Occur(read) : m < Head(left)
    BY <2>1 DEF LinesInv
  <2>3. /\ Occur(Append(read, Head(left))) = Occur(read) \cup {Head(left)}
        /\ Increasing(Append(read, Head(left)))
    BY <1>0, <2>1, <2>2, AppendLines DEF LinesInv
  <2>4. Occur(read) \cup Occur(left) = Uttered(t) /\ Uttered(t)' = Uttered(t)
    BY <1>3 DEF LinesInv, Uttered
  <2>5. \A m \in Occur(read), n \in Occur(left) : m < n
    BY DEF LinesInv
  <2> QED
    BY <1>3, <2>1, <2>3, <2>4, <2>5 DEF LinesInv
<1>4. CASE /\ written[t] + 1 <= Len(cmd[t].writes) /\ written'[t] = written[t] + 1
           /\ pipe'[t] = [pipe[t] EXCEPT ![cmd[t].writes[written[t] + 1]] =
                            Append(pipe[t][cmd[t].writes[written[t] + 1]], written[t] + 1)]
           /\ UNCHANGED <<cmd[t], messages[t]>>
  <2> DEFINE next == written[t] + 1
             left == pipe[t]["stderr"]
  <2>1. /\ next \in Nat /\ cmd[t].writes[next] \in Streams
        /\ \A k \in 1 .. next : k \in 1 .. written[t] \/ k = next
        /\ \A k \in 1 .. written[t] : k \in 1 .. next /\ k < next
        /\ next \in 1 .. next
    <3>1. next \in Nat /\ cmd[t].writes[next] \in Streams
      BY <1>4, NextLine
    <3>2. PICK n \in Nat : n = written[t]
      BY <1>0
    <3>3. /\ \A k \in 1 .. n + 1 : k \in 1 .. n \/ k = n + 1
          /\ \A k \in 1 .. n : k \in 1 .. n + 1 /\ k < n + 1
          /\ n + 1 \in 1 .. n + 1
      OBVIOUS
    <3> QED
      BY <3>1, <3>2, <3>3
  <2>2. Uttered(t)' = Uttered(t) \cup IF cmd[t].writes[next] = "stderr" THEN {next} ELSE {}
    BY <1>4, <2>1 DEF Uttered
  <2>3. CASE cmd[t].writes[next] = "stdout"
    <3>1. pipe'[t]["stderr"] = left
      BY <1>0, <1>4, <2>3 DEF Streams
    <3> QED
      BY <1>4, <2>2, <2>3, <3>1 DEF LinesInv
  <2>4. CASE cmd[t].writes[next] = "stderr"
    <3>1. pipe'[t]["stderr"] = Append(left, next)
      BY <1>0, <1>4, <2>4 DEF Streams
    <3>2. \A m \in Uttered(t) : m < next
      BY <2>1 DEF Uttered
    <3>3. \A m \in Occur(left) \cup Occur(messages[t]) : m < next
      BY <3>2 DEF LinesInv
    <3>4. /\ Occur(Append(left, next)) = Occur(left) \cup {next}
          /\ Increasing(Append(left, next))
      BY <1>0, <2>1, <3>3, AppendLines DEF LinesInv
    <3> HIDE DEF next, left
    <3>5. Occur(messages[t]) \cup Occur(left) = Uttered(t) /\ Increasing(messages[t])
          /\ \A m \in Occur(messages[t]), n \in Occur(left) : m < n
      BY DEF LinesInv, left
    <3>6. Occur(messages[t]) \cup Occur(Append(left, next)) = Uttered(t)'
      BY <2>2, <2>4, <3>4, <3>5
    <3>7. \A m \in Occur(messages[t]), n \in Occur(Append(left, next)) : m < n
      BY <3>3, <3>4, <3>5
    <3> QED
      BY <1>4, <3>1, <3>4, <3>5, <3>6, <3>7 DEF LinesInv
  <2> QED
    BY <2>1, <2>3, <2>4 DEF Streams
<1> QED
  BY <1>0, <1>1, <1>2, <1>3, <1>4 DEF Step, Streams

(* Every step keeps the invariant: it is that of one thread.               *)
LEMMA NextGui == GuiInv /\ [GuiNext]_gui_vars => GuiInv'
<1>1. ASSUME GuiInv, GuiNext PROVE GuiInv'
  <2>1. Domains' /\ \E t \in Threads : Step(t) /\ ThreadAlone(t)
    BY <1>1, StepOfOne DEF GuiInv
  <2>2. PICK t \in Threads : Step(t) /\ ThreadAlone(t)
    BY <2>1
  <2>3. ThreadInv(t)'
    BY <1>1, <2>2, StepType, StepPhase, StepLines DEF GuiInv, ThreadInv
  <2>4. ASSUME NEW u \in Threads, u # t PROVE ThreadInv(u)'
    <3>1. /\ cmd'[u] = cmd[u] /\ phase'[u] = phase[u] /\ messages'[u] = messages[u]
          /\ shown'[u] = shown[u] /\ child'[u] = child[u] /\ written'[u] = written[u]
          /\ pipe'[u] = pipe[u]
      BY <2>2, <2>4 DEF ThreadAlone
    <3>2. ThreadInv(u)
      BY <1>1 DEF GuiInv
    <3> QED
      BY <3>1, <3>2 DEF ThreadInv, TypeOf, ReaderInv, LinesInv, Uttered
  <2> QED
    BY <2>1, <2>3, <2>4 DEF GuiInv
<1>2. ASSUME GuiInv, UNCHANGED gui_vars PROVE GuiInv'
  BY <1>2, ZenonT(60) DEF gui_vars, reader, GuiInv, Domains, OfThreads, ThreadInv, TypeOf, ReaderInv, LinesInv, Uttered
<1> QED
  BY <1>1, <1>2

(* Whatever the commands write, and however the threads, the children and  *)
(* the clicks interleave: a thread that is done has read every line of the *)
(* error stream, in order, and its child has exited.                       *)
THEOREM NoErrorLost == GuiSpec => []ErrorsAreShown
<1>1. GuiSpec => []GuiInv
  BY InitGui, NextGui, PTL DEF GuiSpec
<1>2. GuiInv => ErrorsAreShown
  <2> SUFFICES ASSUME GuiInv, NEW t \in Threads, phase[t] = "done"
               PROVE  /\ shown[t] = (WatchExit(cmd[t]) /\ cmd[t].status # 0)
                      /\ Occur(messages[t]) = Lines(cmd[t], "stderr")
                      /\ Increasing(messages[t])
                      /\ child[t] = "exited"
    BY DEF ErrorsAreShown, Occur
  <2>1. TypeOf(t) /\ ReaderInv(t) /\ LinesInv(t)
    BY DEF GuiInv, ThreadInv
  <2>2. DOMAIN cmd[t].writes = 1 .. written[t]
    BY <2>1, JobFacts DEF ReaderInv, TypeOf
  <2>3. pipe[t]["stderr"] = <<>>
    BY <2>1 DEF ReaderInv
  <2> QED
    BY <2>1, <2>2, <2>3, NoLines DEF ReaderInv, LinesInv, Uttered, Lines
<1> QED
  BY <1>1, <1>2, PTL

(* The types of the threads, their children and the pipes.                 *)
THEOREM GuiTypeCorrect == GuiSpec => []TypeOK
<1>1. GuiSpec => []GuiInv
  BY InitGui, NextGui, PTL DEF GuiSpec
<1>2. GuiInv => TypeOK
  <2> SUFFICES ASSUME GuiInv PROVE TypeOK
    OBVIOUS
  <2>1. ASSUME NEW f, NEW S, OfThreads(f), \A t \in Threads : f[t] \in S
        PROVE  f \in [Threads -> S]
    BY <2>1 DEF OfThreads
  <2>2. \A t \in Threads : TypeOf(t)
    BY DEF GuiInv, ThreadInv
  <2>3. Domains
    BY DEF GuiInv
  <2>4. cmd \in [Threads -> Jobs \cup {None}]
    BY <2>1, <2>2, <2>3 DEF TypeOf, Domains
  <2>5. phase \in [Threads -> {"new", "exec", "no such program", "stderr", "stdout", "wait", "done", "read failed"}]
    BY <2>1, <2>2, <2>3 DEF TypeOf, Domains
  <2>6. shown \in [Threads -> BOOLEAN]
    BY <2>1, <2>2, <2>3, Zenon DEF TypeOf, Domains
  <2>7. child \in [Threads -> {"none", "running", "closed", "exited"}]
    BY <2>1, <2>2, <2>3 DEF TypeOf, Domains
  <2>8. written \in [Threads -> Nat] /\ messages \in [Threads -> Seq(Nat)]
    BY <2>1, <2>2, <2>3 DEF TypeOf, Domains
  <2>9. pipe \in [Threads -> [Streams -> Seq(Nat)]]
    BY <2>1, <2>2, <2>3 DEF TypeOf, Domains
  <2> QED
    BY <2>4, <2>5, <2>6, <2>7, <2>8, <2>9 DEF TypeOK
<1> QED
  BY <1>1, <1>2, PTL
-----------------------------------------------------------------------------
(* The tokenizer. *)

LEMMA LeastPlace ==
  ASSUME NEW U, U \subseteq Nat, U # {}
  PROVE  Min(U) \in U /\ \A y \in U : Min(U) <= y
<1>1. \E x \in U : \A y \in U : x =< y
  BY LeastNumber
<1> QED
  BY <1>1 DEF Min

LEMMA TextFacts ==
  ASSUME text \in Texts
  PROVE  /\ text \in Seq({text[p] : p \in DOMAIN text})
         /\ Len(text) \in Nat /\ DOMAIN text = 1 .. Len(text)
<1>1. text \in Seq({text[p] : p \in DOMAIN text})
  BY TokenizerAssumption
<1>2. \A S : text \in Seq(S) => Len(text) \in Nat /\ DOMAIN text = 1 .. Len(text)
  OBVIOUS
<1> QED
  BY <1>1, <1>2

(* Parts of sequences, place by place.                                     *)
LEMMA PartFacts ==
  ASSUME NEW S, NEW s, NEW m \in Nat \ {0}, NEW n \in Nat, m <= n + 1, \A h \in m .. n : s[h] \in S
  PROVE  /\ SubSeq(s, m, n) \in Seq(S)
         /\ SubSeq(s, m, n) = [h \in 1 .. n - m + 1 |-> s[m + h - 1]]
         /\ Len(SubSeq(s, m, n)) = n - m + 1
<1> DEFINE t == SubSeq(s, m, n)
<1>0. m \in Int /\ n \in Int
  OBVIOUS
<1>1. /\ t \in Seq(S) /\ Len(t) = (IF m <= n THEN n - m + 1 ELSE 0)
      /\ \A h \in 1 .. n - m + 1 : t[h] = s[m + h - 1]
  <2>1. \A h \in m .. n : s[h] \in S
    OBVIOUS
  <2>2. /\ SubSeq(s, m, n) \in Seq(S)
        /\ Len(SubSeq(s, m, n)) = IF m <= n THEN n - m + 1 ELSE 0
        /\ \A h \in 1 .. n - m + 1 : SubSeq(s, m, n)[h] = s[m + h - 1]
    BY ONLY <1>0, <2>1, SubSeqProperties
  <2> QED
    BY <2>2
<1> HIDE DEF t
<1>2. Len(t) = n - m + 1
  BY <1>1
<1>3. t = [h \in 1 .. n - m + 1 |-> t[h]]
  BY <1>1, <1>2
<1>4. t = [h \in 1 .. n - m + 1 |-> s[m + h - 1]]
  BY <1>1, <1>3
<1> QED
  BY <1>1, <1>2, <1>4 DEF t

LEMMA SliceFacts ==
  ASSUME text \in Texts, NEW m \in Nat \ {0}, NEW n \in Nat, n <= Len(text), m <= n + 1
  PROVE  /\ SubSeq(text, m, n) = [h \in 1 .. n - m + 1 |-> text[m + h - 1]]
         /\ Len(SubSeq(text, m, n)) = n - m + 1
         /\ SubSeq(text, m, n) \in Seq({text[p] : p \in DOMAIN text})
<1> DEFINE S == {text[p] : p \in DOMAIN text}
<1>1. \A h \in m .. n : text[h] \in S
  BY TextFacts
<1> HIDE DEF S
<1>2. /\ SubSeq(text, m, n) \in Seq(S)
      /\ SubSeq(text, m, n) = [h \in 1 .. n - m + 1 |-> text[m + h - 1]]
      /\ Len(SubSeq(text, m, n)) = n - m + 1
  BY <1>1, PartFacts
<1> QED
  BY <1>2 DEF S

(* What a part of a part is.                                               *)
LEMMA SliceOfSlice ==
  ASSUME text \in Texts, NEW o \in Nat, NEW r \in Nat, o <= r, r <= Len(text),
         NEW s, s = SubSeq(text, o + 1, r),
         NEW h \in Nat \ {0}, NEW j \in Nat, h <= j + 1, j <= r - o
  PROVE  SubSeq(s, h, j) = SubSeq(text, o + h, o + j)
<1> DEFINE S == {text[p] : p \in DOMAIN text}
<1>1. \A k \in 1 .. r - o : s[k] = text[o + k] /\ s[k] \in S
  <2>1. s = [k \in 1 .. r - (o + 1) + 1 |-> text[(o + 1) + k - 1]]
    BY SliceFacts
  <2>2. r - (o + 1) + 1 = r - o /\ \A k \in 1 .. r - o : (o + 1) + k - 1 = o + k
    OBVIOUS
  <2>3. \A k \in 1 .. r - o : o + k \in DOMAIN text
    BY TextFacts
  <2> QED
    BY <2>1, <2>2, <2>3
<1>2. \A k \in h .. j : s[k] \in S
  BY <1>1
<1>3. SubSeq(s, h, j) = [k \in 1 .. j - h + 1 |-> s[h + k - 1]]
  <2> HIDE DEF S
  <2> QED
    BY <1>2, PartFacts
<1>4. SubSeq(text, o + h, o + j) = [k \in 1 .. (o + j) - (o + h) + 1 |-> text[(o + h) + k - 1]]
  BY SliceFacts
<1>5. \A k \in 1 .. j - h + 1 : s[h + k - 1] = text[(o + h) + k - 1]
  <2> SUFFICES ASSUME NEW k \in 1 .. j - h + 1 PROVE s[h + k - 1] = text[(o + h) + k - 1]
    OBVIOUS
  <2>1. h + k - 1 \in 1 .. r - o /\ o + (h + k - 1) = (o + h) + k - 1
    OBVIOUS
  <2>2. s[h + k - 1] = text[o + (h + k - 1)]
    BY <1>1, <2>1
  <2> QED
    BY <2>1, <2>2
<1>6. (o + j) - (o + h) + 1 = j - h + 1
  OBVIOUS
<1> QED
  BY <1>3, <1>4, <1>5, <1>6

LEMMA SlicesJoin ==
  ASSUME text \in Texts, NEW m \in Nat \ {0}, NEW k \in Nat, NEW n \in Nat,
         m <= k + 1, k <= n, n <= Len(text)
  PROVE  SubSeq(text, m, k) \o SubSeq(text, k + 1, n) = SubSeq(text, m, n)
<1> DEFINE S == {text[p] : p \in DOMAIN text}
<1>1. text \in Seq(S) /\ Len(text) \in Nat
  BY TextFacts
<1> HIDE DEF S
<1>2. m \in 1 .. Len(text) + 1 /\ k \in m - 1 .. Len(text) /\ n \in k .. Len(text)
  BY <1>1
<1> QED
  BY <1>1, <1>2, ConcatAdjacentSubSeq
-----------------------------------------------------------------------------
LEMMA AppendIs ==
  ASSUME NEW S, NEW s \in Seq(S), NEW e
  PROVE  Append(s, e) = [k \in 1 .. Len(s) + 1 |-> IF k = Len(s) + 1 THEN e ELSE s[k]]
<1> DEFINE V == S \cup {e}
           t == Append(s, e)
<1>1. s \in Seq(V) /\ e \in V /\ Len(s) \in Nat
  OBVIOUS
<1>2. /\ t \in Seq(V) /\ Len(t) = Len(s) + 1
      /\ \A h \in 1 .. Len(s) : t[h] = s[h]
      /\ t[Len(s) + 1] = e
  BY <1>1, AppendProperties
<1> HIDE DEF t, V
<1>3. t = [k \in 1 .. Len(s) + 1 |-> t[k]]
  BY <1>2
<1>4. \A k \in 1 .. Len(s) + 1 : t[k] = IF k = Len(s) + 1 THEN e ELSE s[k]
  BY <1>1, <1>2
<1> QED
  BY <1>3, <1>4 DEF t

(* How many tokens start up to a place, and these tokens.                  *)
Before(x) == Cardinality({q \in Starts : q <= x})
Given(x) == [k \in 1 .. Before(x) |-> AllTokens[k]]

LEMMA StartsAreFinite ==
  ASSUME text \in Texts
  PROVE  /\ IsFiniteSet(Starts) /\ Starts \subseteq 1 .. Len(text)
         /\ \A x : IsFiniteSet({q \in Starts : q <= x}) /\ Before(x) \in Nat
<1>1. Starts \subseteq 1 .. Len(text)
  BY TextFacts DEF Starts
<1>2. IsFiniteSet(Starts)
  <2>1. IsFiniteSet(1 .. Len(text))
    BY TextFacts, FS_Interval
  <2> QED
    BY <1>1, <2>1, FS_Subset
<1>3. \A x : IsFiniteSet({q \in Starts : q <= x})
  BY <1>2, FS_Subset
<1> QED
  BY <1>1, <1>2, <1>3, FS_CardinalityType DEF Before

LEMMA SameCount ==
  ASSUME text \in Texts, NEW x \in Nat, NEW y \in Nat, x <= y,
         \A q \in Nat : x < q /\ q <= y => q \notin Starts
  PROVE  Before(y) = Before(x) /\ Given(y) = Given(x)
<1>1. {q \in Starts : q <= y} = {q \in Starts : q <= x}
  BY StartsAreFinite, TextFacts
<1> QED
  BY <1>1 DEF Before, Given

LEMMA OneMore ==
  ASSUME text \in Texts, NEW p \in Starts
  PROVE  Before(p) = Before(p - 1) + 1
<1> DEFINE U == {q \in Starts : q <= p - 1}
<1>1. p \in Nat \ {0}
  BY StartsAreFinite
<1>2. {q \in Starts : q <= p} = U \cup {p} /\ p \notin U
  <2>1. \A q \in Starts : q \in Nat
    BY StartsAreFinite, TextFacts
  <2>2. \A q \in Starts : q <= p <=> q <= p - 1 \/ q = p
    BY <1>1, <2>1
  <2>3. ~ p <= p - 1 /\ p <= p
    BY <1>1
  <2>4. {q \in Starts : q <= p} = {q \in Starts : q <= p - 1 \/ q = p}
    BY <2>2
  <2> QED
    BY <2>3, <2>4
<1>3. IsFiniteSet(U)
  BY StartsAreFinite
<1> HIDE DEF U
<1>4. Cardinality(U \cup {p}) = Cardinality(U) + 1
  BY <1>2, <1>3, FS_AddElement
<1> QED
  BY <1>2, <1>4 DEF Before, U

LEMMA CountGrows ==
  ASSUME text \in Texts, NEW x \in Nat, NEW y \in Nat, x <= y
  PROVE  Before(x) <= Before(y)
<1>1. {q \in Starts : q <= x} \subseteq {q \in Starts : q <= y}
  BY StartsAreFinite
<1> QED
  BY <1>1, StartsAreFinite, FS_Subset DEF Before

LEMMA CountsDiffer ==
  ASSUME text \in Texts, NEW p \in Starts, NEW q \in Starts, Before(p) = Before(q)
  PROVE  p = q
<1>1. ASSUME NEW x \in Starts, NEW y \in Starts, x < y PROVE Before(x) < Before(y)
  <2>1. x \in Nat /\ y - 1 \in Nat /\ x <= y - 1
    BY <1>1, StartsAreFinite
  <2>2. Before(x) <= Before(y - 1) /\ Before(y) = Before(y - 1) + 1
    BY <2>1, CountGrows, OneMore
  <2>3. Before(x) \in Nat /\ Before(y) \in Nat /\ Before(y - 1) \in Nat
    BY StartsAreFinite
  <2> QED
    BY <2>2, <2>3
<1>2. p \in Nat /\ q \in Nat
  BY StartsAreFinite, TextFacts
<1>3. Before(p) \in Nat
  BY StartsAreFinite
<1> QED
  BY <1>1, <1>2, <1>3

LEMMA Numbered ==
  ASSUME text \in Texts, NEW p \in Starts
  PROVE  Before(p) \in 1 .. Cardinality(Starts) /\ AllTokens[Before(p)] = TokenAt(p)
<1>1. p \in Nat \ {0} /\ p - 1 \in Nat
  BY StartsAreFinite
<1>2. Before(p) \in Nat /\ Before(p - 1) \in Nat /\ Before(p) = Before(p - 1) + 1
  BY <1>1, StartsAreFinite, OneMore
<1>3. Before(p) <= Cardinality(Starts)
  BY StartsAreFinite, FS_Subset DEF Before
<1>4. Cardinality(Starts) \in Nat
  BY StartsAreFinite, FS_CardinalityType
<1>5. Before(p) \in 1 .. Cardinality(Starts)
  BY <1>2, <1>3, <1>4
<1>6. StartOf(Before(p)) \in Starts /\ Before(StartOf(Before(p))) = Before(p)
  BY DEF StartOf, Before
<1>7. StartOf(Before(p)) = p
  BY <1>6, CountsDiffer
<1> QED
  BY <1>5, <1>7 DEF AllTokens

(* The tokens given are those of the text, and the next one makes one more.*)
LEMMA GivenFacts ==
  ASSUME text \in Texts, NEW x \in Nat
  PROVE  /\ Given(x) \in Seq({AllTokens[k] : k \in Nat}) /\ Len(Given(x)) = Before(x)
         /\ Before(x) \in Nat /\ Before(x) <= Cardinality(Starts) /\ Cardinality(Starts) \in Nat
<1>1. Before(x) \in Nat
  BY StartsAreFinite
<1>2. Before(x) <= Cardinality(Starts)
  BY StartsAreFinite, FS_Subset DEF Before
<1>3. Cardinality(Starts) \in Nat
  BY StartsAreFinite, FS_CardinalityType
<1>4. Given(x) \in Seq({AllTokens[k] : k \in Nat}) /\ Len(Given(x)) = Before(x)
  BY <1>1 DEF Given
<1> QED
  BY <1>1, <1>2, <1>3, <1>4

LEMMA NextToken ==
  ASSUME text \in Texts, NEW p \in Starts
  PROVE  Append(Given(p - 1), TokenAt(p)) = Given(p)
<1> DEFINE b == Before(p - 1)
           g == Given(p - 1)
<1>1. p - 1 \in Nat
  BY StartsAreFinite
<1>2. b \in Nat /\ Before(p) = b + 1 /\ AllTokens[b + 1] = TokenAt(p)
  BY <1>1, StartsAreFinite, OneMore, Numbered
<1>3. PICK S : g \in Seq(S) /\ Len(g) = b
  BY <1>1, GivenFacts
<1>4. g = [k \in 1 .. b |-> AllTokens[k]] /\ Given(p) = [k \in 1 .. b + 1 |-> AllTokens[k]]
  BY <1>2 DEF Given
<1>5. Append(g, TokenAt(p)) = [k \in 1 .. b + 1 |-> IF k = b + 1 THEN TokenAt(p) ELSE g[k]]
  <2> HIDE DEF g, b
  <2> QED
    BY <1>2, <1>3, AppendIs
<1> HIDE DEF g, b
<1>6. \A k \in 1 .. b + 1 : (IF k = b + 1 THEN TokenAt(p) ELSE g[k]) = AllTokens[k]
  BY <1>2, <1>4
<1>7. Append(g, TokenAt(p)) = Given(p)
  BY <1>4, <1>5, <1>6
<1> QED
  BY <1>7 DEF g
-----------------------------------------------------------------------------
(* Where tokens end, and which characters start none.                      *)
LEMMA CharacterToken ==
  ASSUME text \in Texts, use \in Uses, NEW p \in 1 .. Len(text), text[p] \in use.chartokens
  PROVE  p \in Starts /\ TokenAt(p) = <<text[p]>>
<1>1. ~ Ordinary(text[p])
  BY DEF Ordinary
<1> QED
  BY <1>1, TextFacts DEF Starts, TokenAt

LEMMA NoStart ==
  ASSUME text \in Texts, use \in Uses, NEW p \in 1 .. Len(text), text[p] \in use.delimiters
  PROVE  p \notin Starts /\ ~ Ordinary(text[p])
<1>1. text[p] \notin use.chartokens
  BY TokenizerAssumption
<1> QED
  BY <1>1 DEF Starts, Ordinary

LEMMA NoStartInside ==
  ASSUME text \in Texts, NEW p \in 1 .. Len(text), p > 1, Ordinary(text[p]), Ordinary(text[p - 1])
  PROVE  p \notin Starts
BY DEF Starts, Ordinary

LEMMA TokenEnds ==
  ASSUME text \in Texts, NEW p \in 1 .. Len(text), NEW e \in Nat, p < e, e <= Len(text) + 1,
         \A q \in p .. e - 1 : Ordinary(text[q]),
         e <= Len(text) => ~ Ordinary(text[e])
  PROVE  TokenAt(p) = SubSeq(text, p, e - 1)
<1> DEFINE U == {q \in p + 1 .. Len(text) : ~ Ordinary(text[q])} \cup {Len(text) + 1}
<1>1. Len(text) \in Nat
  BY TextFacts
<1>2. U \subseteq Nat /\ U # {}
  BY <1>1
<1>3. e \in U /\ \A q \in U : e <= q
  BY <1>1
<1>4. Min(U) = e
  <2> HIDE DEF U
  <2>1. Min(U) \in U /\ Min(U) <= e
    BY <1>2, <1>3, LeastPlace
  <2>2. e <= Min(U) /\ Min(U) \in Nat
    BY <1>2, <1>3, <2>1
  <2> QED
    BY <2>1, <2>2
<1>5. Ordinary(text[p])
  OBVIOUS
<1> QED
  BY <1>4, <1>5 DEF TokenAt

LEMMA TokenReaches ==
  ASSUME text \in Texts, NEW p \in 1 .. Len(text), NEW r \in Nat, p <= r, r <= Len(text),
         \A q \in p .. r : Ordinary(text[q])
  PROVE  Len(TokenAt(p)) \in Nat /\ r - p + 1 <= Len(TokenAt(p))
<1> DEFINE U == {q \in p + 1 .. Len(text) : ~ Ordinary(text[q])} \cup {Len(text) + 1}
           e == Min(U)
<1>1. Len(text) \in Nat
  BY TextFacts
<1>2. U \subseteq Nat /\ U # {} /\ \A q \in U : q <= Len(text) + 1 /\ q > r
  BY <1>1
<1>3. e \in Nat /\ e <= Len(text) + 1 /\ e > r
  <2> HIDE DEF U
  <2> QED
    BY <1>2, LeastPlace
<1>4. TokenAt(p) = SubSeq(text, p, e - 1)
  <2>1. Ordinary(text[p])
    OBVIOUS
  <2> QED
    BY <2>1 DEF TokenAt
<1> HIDE DEF e
<1>5. Len(TokenAt(p)) = (e - 1) - p + 1
  BY <1>1, <1>3, <1>4, SliceFacts
<1> QED
  BY <1>3, <1>5

(* What fgets reads: a part of what is left, as long as a line at most.    *)
LEMMA PieceFacts ==
  ASSUME text \in Texts, NEW r \in Nat, r < Len(text), rest = SubSeq(text, r + 1, Len(text))
  PROVE  \E m \in Nat \ {0} :
           /\ m <= MAX_LINE_LENGTH /\ r + m <= Len(text)
           /\ Len(Piece) = m /\ Piece = SubSeq(text, r + 1, r + m)
           /\ SubSeq(rest, Len(Piece) + 1, Len(rest)) = SubSeq(text, (r + m) + 1, Len(text))
<1> DEFINE U == {k \in 1 .. Len(rest) : rest[k] = Newline \/ k = MAX_LINE_LENGTH} \cup {Len(rest)}
           m == Min(U)
<1>1. Len(text) \in Nat /\ MAX_LINE_LENGTH \in Nat \ {0}
  BY TextFacts, TokenizerAssumption
<1>2. Len(rest) = Len(text) - r
  BY <1>1, SliceFacts
<1>3. U \subseteq 1 .. Len(text) - r /\ U # {}
  BY <1>1, <1>2
<1>4. \E u \in U : u <= MAX_LINE_LENGTH
  <2>1. CASE Len(rest) <= MAX_LINE_LENGTH
    BY <2>1
  <2>2. CASE MAX_LINE_LENGTH < Len(rest)
    <3>1. MAX_LINE_LENGTH \in 1 .. Len(rest)
      BY <1>1, <1>2, <2>2
    <3>2. MAX_LINE_LENGTH \in U
      BY <3>1
    <3>3. MAX_LINE_LENGTH <= MAX_LINE_LENGTH
      BY <1>1
    <3> HIDE DEF U
    <3> QED
      BY <3>2, <3>3
  <2>3. Len(rest) <= MAX_LINE_LENGTH \/ MAX_LINE_LENGTH < Len(rest)
    BY <1>1, <1>2
  <2> HIDE DEF U
  <2> QED
    BY <2>1, <2>2, <2>3
<1>5. m \in 1 .. Len(text) - r /\ m <= MAX_LINE_LENGTH
  <2> HIDE DEF U
  <2>1. U \subseteq Nat
    BY <1>3
  <2>2. m \in U /\ \A u \in U : m <= u
    BY <1>3, <2>1, LeastPlace
  <2>3. PICK u \in U : u <= MAX_LINE_LENGTH
    BY <1>4
  <2>4. m <= u /\ u \in Nat /\ m \in 1 .. Len(text) - r
    BY <1>3, <2>1, <2>2
  <2> HIDE DEF m
  <2> QED
    BY <1>1, <2>3, <2>4
<1>6. Piece = SubSeq(rest, 1, m)
  BY DEF Piece
<1> HIDE DEF m, U
<1>7. Piece = SubSeq(text, r + 1, r + m)
  BY <1>1, <1>5, <1>6, SliceOfSlice
<1>8. Len(Piece) = m
  <2>1. Len(SubSeq(text, r + 1, r + m)) = (r + m) - (r + 1) + 1
    BY <1>1, <1>5, SliceFacts
  <2> QED
    BY <1>5, <1>7, <2>1
<1>9. SubSeq(rest, m + 1, Len(rest)) = SubSeq(text, r + (m + 1), r + (Len(text) - r))
  BY <1>1, <1>2, <1>5, SliceOfSlice
<1>10. r + (m + 1) = (r + m) + 1 /\ r + (Len(text) - r) = Len(text)
  BY <1>1, <1>5
<1> QED
  BY <1>5, <1>7, <1>8, <1>9, <1>10, SMTT(30)
-----------------------------------------------------------------------------
(* The invariant: r characters have been read, and the tokens given are    *)
(* those that start at the first d.  The buffer ends with the last that    *)
(* was read, and a token that has started is the next one of the text.     *)
Boundary(d) == d = 0 \/ d = Len(text) \/ ~ Ordinary(text[d])

Buffered(r, d) ==
  \E o \in 0 .. d : tokenbuffer = SubSeq(text, o + 1, r) /\ ptr = d - o + 1

Started(r, d) == d < r /\ d + 1 \in Starts

Waiting(r, d) ==
  /\ Boundary(d)
  /\ eol \in BOOLEAN /\ IF eol THEN d = r ELSE Buffered(r, d)
  /\ IF chartok = NoChar
     THEN tokens = Given(d)
     ELSE d > 0 /\ chartok = text[d] /\ chartok \in use.chartokens /\ tokens = Given(d - 1)

Filling(r, d) ==
  /\ eol = TRUE /\ chartok = NoChar /\ tokens = Given(d)
  /\ \/ token = 0 /\ fillstart = 0 /\ d = r /\ Boundary(d)
     \/ /\ token = 1 /\ fillstart = r - d /\ Started(r, d)
        /\ tokenbuffer = SubSeq(text, d + 1, r)
        /\ \A q \in d + 1 .. r : Ordinary(text[q])

Skipping(r, d) ==
  /\ eol = FALSE /\ chartok = NoChar /\ tokens = Given(d)
  /\ token = 0 /\ fillstart = 0 /\ Boundary(d) /\ Buffered(r, d)

Scanning(r, d) ==
  /\ eol = FALSE /\ chartok = NoChar /\ tokens = Given(d)
  /\ token = ptr /\ Started(r, d) /\ Buffered(r, d)

Ended ==
  \/ tokens = Given(Len(text))
  \/ \E p \in Starts : tokens = Given(p - 1) /\ Len(TokenAt(p)) > MAX_LINE_LENGTH + 1

Tokenizing(r, d) ==
  /\ d <= r /\ rest = SubSeq(text, r + 1, Len(text))
  /\ \/ stage = "idle" /\ Waiting(r, d)
     \/ stage = "fill" /\ Filling(r, d)
     \/ stage = "skip" /\ Skipping(r, d)
     \/ stage = "scan" /\ Scanning(r, d)
     \/ stage = "end" /\ Ended

TokenizerInv ==
  use \in Uses /\ text \in Texts /\ \E r, d \in 0 .. Len(text) : Tokenizing(r, d)

LEMMA SameText ==
  ASSUME use' = use, text' = text
  PROVE  /\ Starts' = Starts
         /\ \A p : Given(p)' = Given(p) /\ TokenAt(p)' = TokenAt(p)
                  /\ Boundary(p)' = Boundary(p) /\ Ordinary(text[p])' = Ordinary(text[p])
<1>1. \A c : Ordinary(c)' = Ordinary(c)
  BY DEF Ordinary
<1>2. Starts' = Starts
  BY <1>1 DEF Starts
<1>3. \A p : TokenAt(p)' = TokenAt(p)
  BY <1>1 DEF TokenAt
<1>4. \A p : Given(p)' = Given(p)
  <2>1. AllTokens' = AllTokens
    <3>1. \A k : StartOf(k)' = StartOf(k)
      BY <1>2, Zenon DEF StartOf
    <3> QED
      BY <1>2, <1>3, <3>1 DEF AllTokens
  <2>2. \A p : Before(p)' = Before(p)
    BY <1>2, Zenon DEF Before
  <2> QED
    BY <2>1, <2>2, Zenon DEF Given
<1>5. \A p : Boundary(p)' = Boundary(p)
  BY <1>1 DEF Boundary
<1> QED
  BY <1>1, <1>2, <1>3, <1>4, <1>5

LEMMA StepCall ==
  ASSUME use \in Uses, text \in Texts, NEW r \in 0 .. Len(text), NEW d \in 0 .. Len(text),
         Tokenizing(r, d), Call
  PROVE  Tokenizing(r, d)'
<1>1. /\ stage = "idle" /\ Waiting(r, d)
      /\ UNCHANGED <<use, text, rest, tokenbuffer, ptr, eol>>
  BY DEF Call, Tokenizing
<1>2. d <= r /\ rest' = SubSeq(text, r + 1, Len(text))
  BY <1>1 DEF Tokenizing
<1>3. CASE chartok # NoChar
  <2>1. d > 0 /\ chartok = text[d] /\ text[d] \in use.chartokens /\ tokens = Given(d - 1)
    BY <1>1, <1>3 DEF Waiting
  <2>2. d \in 1 .. Len(text)
    BY <2>1, TextFacts
  <2>3. d \in Starts /\ TokenAt(d) = <<chartok>>
    BY <2>1, <2>2, CharacterToken
  <2>4. tokens' = Append(tokens, <<chartok>>) /\ stage' = "idle" /\ chartok' = NoChar
    BY <1>3 DEF Call, Return
  <2>5. tokens' = Given(d)
    BY <2>1, <2>3, <2>4, NextToken
  <2>6. Boundary(d) /\ eol \in BOOLEAN /\ IF eol THEN d = r ELSE Buffered(r, d)
    BY <1>1 DEF Waiting
  <2>7. Waiting(r, d)'
    BY <1>1, <2>4, <2>5, <2>6, SameText DEF Waiting, Buffered
  <2> QED
    BY <1>1, <1>2, <2>4, <2>7 DEF Tokenizing
<1>4. CASE chartok = NoChar
  <2>1. /\ token' = 0 /\ fillstart' = 0 /\ chartok' = NoChar /\ tokens' = Given(d)
        /\ stage' = IF eol THEN "fill" ELSE "skip"
    BY <1>1, <1>4 DEF Call, Waiting
  <2>2. Boundary(d)' /\ tokens' = Given(d)'
    BY <1>1, <2>1, SameText DEF Waiting
  <2>3. CASE eol = TRUE
    <3>1. d = r /\ stage' = "fill" /\ eol' = TRUE
      BY <1>1, <2>1, <2>3 DEF Waiting
    <3>2. Filling(r, d)'
      BY <2>1, <2>2, <3>1 DEF Filling
    <3> QED
      BY <1>1, <1>2, <3>1, <3>2 DEF Tokenizing
  <2>4. CASE eol = FALSE
    <3>1. Buffered(r, d) /\ stage' = "skip" /\ eol' = FALSE
      BY <1>1, <2>1, <2>4 DEF Waiting
    <3>2. Buffered(r, d)'
      BY <1>1, <3>1 DEF Buffered
    <3>3. Skipping(r, d)'
      BY <2>1, <2>2, <3>1, <3>2 DEF Skipping
    <3> QED
      BY <1>1, <1>2, <3>1, <3>3 DEF Tokenizing
  <2> QED
    BY <1>1, <2>3, <2>4 DEF Waiting
<1> QED
  BY <1>3, <1>4
LEMMA StepFill ==
  ASSUME use \in Uses, text \in Texts, NEW r \in 0 .. Len(text), NEW d \in 0 .. Len(text),
         Tokenizing(r, d), Fill
  PROVE  \E s, e \in 0 .. Len(text) : Tokenizing(s, e)'
<1>1. /\ stage = "fill" /\ Filling(r, d) /\ d <= r /\ rest = SubSeq(text, r + 1, Len(text))
      /\ UNCHANGED <<use, text, chartok, token, fillstart>>
  BY DEF Fill, Tokenizing
<1>2. Len(text) \in Nat /\ r \in Nat /\ d \in Nat
  BY TextFacts
<1>3. Len(rest) = Len(text) - r /\ (rest = <<>> <=> r = Len(text))
  <2>1. Len(rest) = Len(text) - r /\ rest \in Seq({text[p] : p \in DOMAIN text})
    BY <1>1, <1>2, SliceFacts
  <2>2. rest = <<>> <=> Len(rest) = 0
    BY <2>1
  <2> QED
    BY <1>2, <2>1, <2>2
<1>4. eol = TRUE /\ chartok = NoChar /\ tokens = Given(d)
  BY <1>1 DEF Filling
<1>5. CASE rest = <<>> /\ token # 0
  <2>1. /\ tokens' = Append(tokens, SubSeq(tokenbuffer, token, Len(tokenbuffer)))
        /\ stage' = "idle" /\ UNCHANGED <<rest, tokenbuffer, ptr, eol>>
    BY <1>5 DEF Fill, Return
  <2>2. /\ token = 1 /\ d < r /\ d + 1 \in Starts /\ tokenbuffer = SubSeq(text, d + 1, r)
        /\ \A q \in d + 1 .. r : Ordinary(text[q])
    BY <1>1, <1>5 DEF Filling, Started
  <2>3. r = Len(text) /\ d + 1 \in 1 .. Len(text)
    BY <1>2, <1>3, <1>5, <2>2
  <2>4. TokenAt(d + 1) = SubSeq(text, d + 1, r)
    <3>1. d + 1 < r + 1 /\ r + 1 <= Len(text) + 1 /\ r + 1 \in Nat /\ (r + 1) - 1 = r
          /\ ~ r + 1 <= Len(text)
      BY <1>2, <2>2, <2>3
    <3> QED
      BY <2>2, <2>3, <3>1, TokenEnds
  <2>5. SubSeq(tokenbuffer, token, Len(tokenbuffer)) = SubSeq(text, d + 1, r)
    <3>1. Len(tokenbuffer) = r - d
      <4>1. Len(tokenbuffer) = r - (d + 1) + 1
        BY <1>2, <2>2, <2>3, SliceFacts
      <4> QED
        BY <1>2, <4>1
    <3>2. SubSeq(tokenbuffer, 1, r - d) = SubSeq(text, d + 1, d + (r - d))
      BY <1>2, <2>2, <2>3, SliceOfSlice
    <3> QED
      BY <1>2, <2>2, <3>1, <3>2
  <2>6. tokens' = Given(d + 1)
    <3>1. d = (d + 1) - 1
      BY <1>2
    <3> QED
      BY <1>4, <2>1, <2>2, <2>4, <2>5, <3>1, NextToken
  <2>7. Given(r) = Given(d + 1)
    <3>1. \A q \in Nat : d + 1 < q /\ q <= r => q \notin Starts
      <4> SUFFICES ASSUME NEW q \in Nat, d + 1 < q, q <= r PROVE q \notin Starts
        OBVIOUS
      <4>1. q \in 1 .. Len(text) /\ q > 1 /\ q \in d + 1 .. r /\ q - 1 \in d + 1 .. r
        BY <1>2, <2>3
      <4> QED
        BY <2>2, <4>1, NoStartInside
    <3> QED
      BY <1>2, <2>2, <3>1, SameCount
  <2>8. Waiting(r, r)'
    <3>1. Boundary(r)' /\ tokens' = Given(r)' /\ chartok' = NoChar /\ eol' = TRUE
      BY <1>1, <1>4, <2>1, <2>3, <2>6, <2>7, SameText DEF Boundary
    <3> QED
      BY <3>1 DEF Waiting
  <2>9. Tokenizing(r, r)'
    BY <1>1, <1>2, <2>1, <2>8 DEF Tokenizing
  <2> QED
    BY <2>9
<1>6. CASE rest = <<>> /\ token = 0
  <2>1. stage' = "end" /\ UNCHANGED <<rest, tokenbuffer, ptr, eol, tokens>>
    BY <1>6 DEF Fill
  <2>2. d = r /\ r = Len(text)
    BY <1>1, <1>3, <1>6 DEF Filling
  <2>3. tokens' = Given(Len(text))'
    BY <1>1, <1>4, <2>1, <2>2, SameText
  <2>4. Ended'
    BY <1>1, <2>3 DEF Ended
  <2>5. Tokenizing(r, d)'
    BY <1>1, <2>1, <2>4 DEF Tokenizing
  <2> QED
    BY <2>5
<1>7. CASE rest # <<>>
  <2>1. r < Len(text)
    BY <1>2, <1>3, <1>7
  <2>2. PICK m \in Nat \ {0} :
          /\ m <= MAX_LINE_LENGTH /\ r + m <= Len(text)
          /\ Len(Piece) = m /\ Piece = SubSeq(text, r + 1, r + m)
          /\ SubSeq(rest, Len(Piece) + 1, Len(rest)) = SubSeq(text, (r + m) + 1, Len(text))
    BY <1>1, <1>2, <2>1, PieceFacts
  <2>3. /\ rest' = SubSeq(text, (r + m) + 1, Len(text)) /\ tokens' = tokens
        /\ IF fillstart + m > 2 * MAX_LINE_LENGTH + 1
           THEN stage' = "end"
           ELSE /\ tokenbuffer' = Filled(Piece) /\ ptr' = 1 /\ eol' = FALSE
                /\ stage' = IF token = 0 THEN "skip" ELSE "scan"
    BY <1>7, <2>2 DEF Fill
  <2>4. MAX_LINE_LENGTH \in Nat \ {0}
    BY TokenizerAssumption
  <2>5. r + m \in 0 .. Len(text) /\ d <= r + m
    BY <1>1, <1>2, <2>2
  <2>6. CASE fillstart + m > 2 * MAX_LINE_LENGTH + 1
    <3>1. /\ token = 1 /\ fillstart = r - d /\ d < r /\ d + 1 \in Starts
          /\ \A q \in d + 1 .. r : Ordinary(text[q])
      <4>1. ~ fillstart = 0
        BY <2>2, <2>4, <2>6
      <4> QED
        BY <1>1, <4>1 DEF Filling, Started
    <3>2. Len(TokenAt(d + 1)) \in Nat /\ r - (d + 1) + 1 <= Len(TokenAt(d + 1))
      <4>1. d + 1 \in 1 .. Len(text) /\ d + 1 <= r /\ r <= Len(text)
        BY <1>2, <3>1
      <4> QED
        BY <1>2, <3>1, <4>1, TokenReaches
    <3>3. Len(TokenAt(d + 1)) > MAX_LINE_LENGTH + 1
      <4>1. r - d > MAX_LINE_LENGTH + 1
        BY <1>2, <2>2, <2>4, <2>6, <3>1
      <4> QED
        BY <1>2, <2>4, <3>2, <4>1
    <3>4. tokens' = Given((d + 1) - 1)
      <4>1. (d + 1) - 1 = d
        BY <1>2
      <4> QED
        BY <1>4, <2>3, <4>1
    <3>5. Ended'
      <4>1. /\ d + 1 \in Starts' /\ tokens' = Given((d + 1) - 1)'
            /\ Len(TokenAt(d + 1)') > MAX_LINE_LENGTH + 1
        BY <1>1, <3>1, <3>3, <3>4, SameText
      <4> QED
        BY <4>1 DEF Ended
    <3>6. stage' = "end"
      BY <2>3, <2>6
    <3>7. Tokenizing(r + m, d)'
      BY <1>1, <2>3, <2>5, <3>5, <3>6 DEF Tokenizing
    <3> QED
      BY <1>1, <2>5, <3>7
  <2>7. CASE ~ fillstart + m > 2 * MAX_LINE_LENGTH + 1
    <3>1. /\ tokenbuffer' = SubSeq(tokenbuffer, 1, fillstart) \o SubSeq(text, r + 1, r + m)
          /\ ptr' = 1 /\ eol' = FALSE /\ stage' = IF token = 0 THEN "skip" ELSE "scan"
      BY <2>2, <2>3, <2>7 DEF Filled
    <3>2. SubSeq(tokenbuffer, 1, fillstart) = SubSeq(text, d + 1, r)
      <4>1. CASE token = 0
        <5>1. fillstart = 0 /\ d = r
          BY <1>1, <4>1 DEF Filling
        <5>2. SubSeq(tokenbuffer, 1, 0) = <<>> /\ SubSeq(text, r + 1, r) = <<>>
          <6>1. 1 \in Int /\ 0 \in Int /\ 0 < 1 /\ r + 1 \in Int /\ r \in Int /\ r < r + 1
            BY <1>2
          <6> QED
            BY <6>1, SubSeqEmpty
        <5> QED
          BY <5>1, <5>2
      <4>2. CASE token # 0
        <5>1. fillstart = r - d /\ d < r /\ tokenbuffer = SubSeq(text, d + 1, r)
          BY <1>1, <4>2 DEF Filling, Started
        <5>2. SubSeq(tokenbuffer, 1, r - d) = SubSeq(text, d + 1, d + (r - d))
          BY <1>2, <5>1, SliceOfSlice
        <5>3. d + (r - d) = r
          BY <1>2
        <5> QED
          BY <5>1, <5>2, <5>3
      <4> QED
        BY <4>1, <4>2
    <3>3. tokenbuffer' = SubSeq(text, d + 1, r + m)
      <4>1. d + 1 \in Nat \ {0} /\ d + 1 <= r + 1 /\ r <= r + m /\ r + m \in Nat /\ r + m <= Len(text)
        BY <1>1, <1>2, <2>2
      <4>2. SubSeq(text, d + 1, r) \o SubSeq(text, r + 1, r + m) = SubSeq(text, d + 1, r + m)
        BY <1>2, <4>1, SlicesJoin
      <4> QED
        BY <3>1, <3>2, <4>2
    <3>4. Buffered(r + m, d)'
      <4>1. d \in 0 .. d /\ d - d + 1 = 1
        BY <1>2
      <4> QED
        BY <1>1, <3>1, <3>3, <4>1 DEF Buffered
    <3>5. tokens' = Given(d)' /\ chartok' = NoChar
      BY <1>1, <1>4, <2>3, SameText
    <3>6. CASE token = 0
      <4>1. fillstart = 0 /\ Boundary(d)
        BY <1>1, <3>6 DEF Filling
      <4>2. Skipping(r + m, d)'
        BY <1>1, <3>1, <3>4, <3>5, <3>6, <4>1, SameText DEF Skipping
      <4>3. stage' = "skip"
        BY <3>1, <3>6
      <4>4. Tokenizing(r + m, d)'
        BY <1>1, <2>3, <2>5, <4>2, <4>3 DEF Tokenizing
      <4> QED
        BY <1>1, <2>5, <4>4
    <3>7. CASE token # 0
      <4>1. token = 1 /\ d < r /\ d + 1 \in Starts
        BY <1>1, <3>7 DEF Filling, Started
      <4>2. Started(r + m, d)'
        BY <1>1, <1>2, <2>2, <4>1, SameText DEF Started
      <4>3. Scanning(r + m, d)'
        BY <1>1, <3>1, <3>4, <3>5, <4>1, <4>2 DEF Scanning
      <4>4. stage' = "scan"
        BY <3>1, <3>7
      <4>5. Tokenizing(r + m, d)'
        BY <1>1, <2>3, <2>5, <4>3, <4>4 DEF Tokenizing
      <4> QED
        BY <1>1, <2>5, <4>5
    <3> QED
      BY <3>6, <3>7
  <2> QED
    BY <2>6, <2>7
<1> QED
  BY <1>5, <1>6, <1>7
(* The characters of the buffer, where they are in the text.               *)
LEMMA BufferFacts ==
  ASSUME text \in Texts, NEW r \in Nat, r <= Len(text), NEW o \in Nat, o <= r,
         tokenbuffer = SubSeq(text, o + 1, r)
  PROVE  Len(tokenbuffer) = r - o /\ \A p \in 1 .. r - o : tokenbuffer[p] = text[o + p]
<1>1. Len(text) \in Nat
  BY TextFacts
<1>2. /\ tokenbuffer = [h \in 1 .. r - (o + 1) + 1 |-> text[(o + 1) + h - 1]]
      /\ Len(tokenbuffer) = r - (o + 1) + 1
  BY <1>1, SliceFacts
<1>3. r - (o + 1) + 1 = r - o /\ \A p \in 1 .. r - o : (o + 1) + p - 1 = o + p
  OBVIOUS
<1> QED
  BY <1>2, <1>3

LEMMA StepSkip ==
  ASSUME use \in Uses, text \in Texts, NEW r \in 0 .. Len(text), NEW d \in 0 .. Len(text),
         Tokenizing(r, d), Skip
  PROVE  \E s, e \in 0 .. Len(text) : Tokenizing(s, e)'
<1> DEFINE starts == {p \in ptr .. Len(tokenbuffer) : tokenbuffer[p] \notin use.delimiters}
<1>1. /\ stage = "skip" /\ Skipping(r, d) /\ d <= r /\ rest = SubSeq(text, r + 1, Len(text))
      /\ UNCHANGED <<use, text, rest, tokenbuffer, chartok, fillstart, tokens>>
  BY DEF Skip, Tokenizing
<1>2. Len(text) \in Nat /\ r \in Nat /\ d \in Nat /\ r <= Len(text)
  BY TextFacts
<1>3. /\ eol = FALSE /\ chartok = NoChar /\ tokens = Given(d)
      /\ token = 0 /\ fillstart = 0 /\ Boundary(d)
  BY <1>1 DEF Skipping
<1>4. PICK o \in 0 .. d : tokenbuffer = SubSeq(text, o + 1, r) /\ ptr = d - o + 1
  BY <1>1 DEF Skipping, Buffered
<1>5. o \in Nat /\ o <= r /\ o <= d
  BY <1>1, <1>2
<1>6. Len(tokenbuffer) = r - o /\ \A p \in 1 .. r - o : tokenbuffer[p] = text[o + p]
  BY <1>2, <1>4, <1>5, BufferFacts
<1>7. CASE starts = {}
  <2>1. stage' = "fill" /\ eol' = TRUE /\ token' = token
    BY <1>7 DEF Skip
  <2>2. \A q \in Nat : d < q /\ q <= r => q \in 1 .. Len(text) /\ text[q] \in use.delimiters
    <3> SUFFICES ASSUME NEW q \in Nat, d < q, q <= r
                 PROVE  q \in 1 .. Len(text) /\ text[q] \in use.delimiters
      OBVIOUS
    <3>1. q - o \in ptr .. Len(tokenbuffer) /\ q - o \in 1 .. r - o /\ o + (q - o) = q
      BY <1>2, <1>4, <1>5, <1>6
    <3>2. tokenbuffer[q - o] \in use.delimiters /\ tokenbuffer[q - o] = text[q]
      BY <1>6, <1>7, <3>1
    <3> QED
      BY <1>2, <3>2
  <2>3. \A q \in Nat : d < q /\ q <= r => q \notin Starts /\ ~ Ordinary(text[q])
    BY <2>2, NoStart
  <2>4. Given(r) = Given(d)
    BY <1>1, <1>2, <2>3, SameCount
  <2>5. Boundary(r)
    <3>1. CASE r = d
      BY <1>3, <3>1
    <3>2. CASE r # d
      BY <1>1, <1>2, <2>3, <3>2 DEF Boundary
    <3> QED
      BY <3>1, <3>2
  <2>6. Filling(r, r)'
    <3>1. Boundary(r)' /\ tokens' = Given(r)' /\ chartok' = NoChar
      BY <1>1, <1>3, <2>4, <2>5, SameText
    <3> QED
      BY <1>1, <1>3, <2>1, <3>1 DEF Filling
  <2>7. Tokenizing(r, r)'
    BY <1>1, <1>2, <2>1, <2>6 DEF Tokenizing
  <2> QED
    BY <2>7
<1>8. CASE starts # {}
  <2>0. Min(starts) \in starts /\ (\A q \in starts : Min(starts) <= q) /\ starts \subseteq Nat
    <3>1. starts \subseteq Nat
      BY <1>2, <1>4, <1>5, <1>6
    <3> HIDE DEF starts
    <3> QED
      BY <1>8, <3>1, LeastPlace
  <2>1. PICK p \in Nat : p = Min(starts)
    BY <2>0
  <2>2. /\ p \in starts /\ \A q \in starts : p <= q
        /\ ptr' = p /\ token' = p /\ stage' = "scan" /\ eol' = eol
    <3>1. p \in starts /\ \A q \in starts : p <= q
      BY <2>0, <2>1
    <3>2. ptr' = Min(starts) /\ token' = Min(starts) /\ stage' = "scan" /\ eol' = eol
      BY <1>8 DEF Skip
    <3> HIDE DEF starts
    <3> QED
      BY <2>1, <3>1, <3>2
  <2>3. /\ p \in ptr .. Len(tokenbuffer) /\ tokenbuffer[p] \notin use.delimiters
        /\ \A q \in ptr .. p - 1 : tokenbuffer[q] \in use.delimiters
    <3>1. p \in ptr .. Len(tokenbuffer) /\ tokenbuffer[p] \notin use.delimiters
      BY <2>2
    <3>2. ASSUME NEW q \in ptr .. p - 1 PROVE tokenbuffer[q] \in use.delimiters
      <4>1. q \in ptr .. Len(tokenbuffer) /\ ~ p <= q
        BY <1>2, <1>4, <1>5, <1>6, <3>1
      <4> QED
        BY <2>2, <4>1
    <3> QED
      BY <3>1, <3>2
  <2> HIDE DEF starts
  <2>4. o + p \in 1 .. Len(text) /\ d < o + p /\ o + p <= r /\ tokenbuffer[p] = text[o + p]
        /\ p \in Nat /\ p >= 1
    BY <1>2, <1>4, <1>5, <1>6, <2>3
  <2>5. \A q \in Nat : d < q /\ q <= (o + p) - 1 => q \in 1 .. Len(text) /\ text[q] \in use.delimiters
    <3> SUFFICES ASSUME NEW q \in Nat, d < q, q <= (o + p) - 1
                 PROVE  q \in 1 .. Len(text) /\ text[q] \in use.delimiters
      OBVIOUS
    <3>1. q - o \in ptr .. p - 1 /\ q - o \in 1 .. r - o /\ o + (q - o) = q
      BY <1>2, <1>4, <1>5, <2>4
    <3>2. tokenbuffer[q - o] \in use.delimiters /\ tokenbuffer[q - o] = text[q]
      BY <1>6, <2>3, <3>1
    <3> QED
      BY <1>2, <2>4, <3>2
  <2>6. \A q \in Nat : d < q /\ q <= (o + p) - 1 => q \notin Starts /\ ~ Ordinary(text[q])
    BY <2>5, NoStart
  <2>7. (o + p) - 1 \in 0 .. Len(text) /\ d <= (o + p) - 1 /\ (o + p) - 1 < r
    BY <1>2, <2>4
  <2>8. Given((o + p) - 1) = Given(d)
    BY <1>2, <2>6, <2>7, SameCount
  <2>9. Boundary((o + p) - 1)
    <3>1. CASE (o + p) - 1 = d
      BY <1>3, <3>1
    <3>2. CASE (o + p) - 1 # d
      BY <1>2, <2>6, <2>7, <3>2 DEF Boundary
    <3> QED
      BY <3>1, <3>2
  <2>10. o + p \in Starts
    <3>1. CASE text[o + p] \in use.chartokens
      BY <2>4, <3>1, CharacterToken
    <3>2. CASE text[o + p] \notin use.chartokens
      <4>1. Ordinary(text[o + p])
        BY <2>3, <2>4, <3>2 DEF Ordinary
      <4>2. (o + p) - 1 # Len(text)
        BY <1>2, <2>7
      <4>3. o + p = 1 \/ ~ Ordinary(text[(o + p) - 1])
        BY <1>2, <2>4, <2>9, <4>2 DEF Boundary
      <4> QED
        BY <2>4, <4>1, <4>3, TextFacts DEF Starts
    <3> QED
      BY <3>1, <3>2
  <2>11. Scanning(r, (o + p) - 1)'
    <3>1. tokens' = Given((o + p) - 1)' /\ chartok' = NoChar /\ eol' = FALSE /\ token' = ptr'
      BY <1>1, <1>3, <2>2, <2>8, SameText
    <3>2. Started(r, (o + p) - 1)'
      <4>1. ((o + p) - 1) + 1 = o + p
        BY <2>4, <1>5
      <4>2. ((o + p) - 1) + 1 \in Starts'
        BY <1>1, <2>10, <4>1, SameText
      <4> QED
        BY <2>7, <4>2 DEF Started
    <3>3. Buffered(r, (o + p) - 1)'
      <4>1. o \in 0 .. (o + p) - 1 /\ ptr' = ((o + p) - 1) - o + 1
        BY <1>5, <2>2, <2>4
      <4>2. tokenbuffer' = SubSeq(text, o + 1, r)'
        BY <1>1, <1>4
      <4> QED
        BY <4>1, <4>2 DEF Buffered
    <3> QED
      BY <3>1, <3>2, <3>3 DEF Scanning
  <2>12. Tokenizing(r, (o + p) - 1)'
    <3>1. (o + p) - 1 <= r
      BY <1>2, <2>7
    <3> QED
      BY <1>1, <2>2, <2>11, <3>1 DEF Tokenizing
  <2> QED
    BY <2>7, <2>12
<1> QED
  BY <1>7, <1>8
LEMMA StepScan ==
  ASSUME use \in Uses, text \in Texts, NEW r \in 0 .. Len(text), NEW d \in 0 .. Len(text),
         Tokenizing(r, d), Scan
  PROVE  \E s, e \in 0 .. Len(text) : Tokenizing(s, e)'
<1> DEFINE ends == {p \in ptr .. Len(tokenbuffer) :
                      tokenbuffer[p] \in use.delimiters \cup use.chartokens}
<1>1. /\ stage = "scan" /\ Scanning(r, d) /\ d <= r /\ rest = SubSeq(text, r + 1, Len(text))
      /\ UNCHANGED <<use, text, rest>>
  BY DEF Scan, Tokenizing
<1>2. Len(text) \in Nat /\ r \in Nat /\ d \in Nat /\ r <= Len(text)
  BY TextFacts
<1>3. /\ eol = FALSE /\ chartok = NoChar /\ tokens = Given(d)
      /\ token = ptr /\ d < r /\ d + 1 \in Starts
  BY <1>1 DEF Scanning, Started
<1>4. PICK o \in 0 .. d : tokenbuffer = SubSeq(text, o + 1, r) /\ ptr = d - o + 1
  BY <1>1 DEF Scanning, Buffered
<1>5. o \in Nat /\ o <= r /\ o <= d
  BY <1>1, <1>2
<1>6. Len(tokenbuffer) = r - o /\ \A p \in 1 .. r - o : tokenbuffer[p] = text[o + p]
  BY <1>2, <1>4, <1>5, BufferFacts
<1>7. CASE ends = {}
  <2>1. /\ stage' = "fill" /\ eol' = TRUE /\ chartok' = chartok /\ tokens' = tokens
        /\ tokenbuffer' = SubSeq(tokenbuffer, token, Len(tokenbuffer))
        /\ token' = 1 /\ fillstart' = Len(tokenbuffer')
    BY <1>7 DEF Scan
  <2>2. \A q \in d + 1 .. r : Ordinary(text[q])
    <3> SUFFICES ASSUME NEW q \in d + 1 .. r PROVE Ordinary(text[q])
      OBVIOUS
    <3>1. q - o \in ptr .. Len(tokenbuffer) /\ q - o \in 1 .. r - o /\ o + (q - o) = q
      <4>1. q \in Nat /\ d + 1 <= q /\ q <= r
        BY <1>2
      <4>2. ptr = d - o + 1 /\ Len(tokenbuffer) = r - o
        BY <1>4, <1>6
      <4> QED
        BY <1>2, <1>5, <4>1, <4>2
    <3>2. tokenbuffer[q - o] \notin use.delimiters \cup use.chartokens /\ tokenbuffer[q - o] = text[q]
      BY <1>6, <1>7, <3>1
    <3> QED
      BY <3>2 DEF Ordinary
  <2>3. tokenbuffer' = SubSeq(text, d + 1, r)
    <3>1. SubSeq(tokenbuffer, d - o + 1, r - o) = SubSeq(text, o + (d - o + 1), o + (r - o))
      <4>1. d - o + 1 \in Nat \ {0} /\ r - o \in Nat /\ d - o + 1 <= (r - o) + 1 /\ r - o <= r - o
        BY <1>1, <1>2, <1>5
      <4> QED
        BY <1>2, <1>4, <1>5, <4>1, SliceOfSlice
    <3>2. o + (d - o + 1) = d + 1 /\ o + (r - o) = r
      BY <1>2, <1>5
    <3> QED
      BY <1>3, <1>4, <1>6, <2>1, <3>1, <3>2
  <2>4. fillstart' = r - d
    <3>1. Len(SubSeq(text, d + 1, r)) = r - (d + 1) + 1
      BY <1>1, <1>2, SliceFacts
    <3> QED
      BY <1>2, <2>1, <2>3, <3>1
  <2>5. Filling(r, d)'
    <3>1. tokens' = Given(d)' /\ chartok' = NoChar /\ d + 1 \in Starts'
      BY <1>1, <1>3, <2>1, SameText
    <3>2. Started(r, d)'
      BY <1>3, <3>1 DEF Started
    <3>3. \A q \in d + 1 .. r : Ordinary(text[q])'
      BY <1>1, <2>2, SameText
    <3> QED
      BY <1>1, <2>1, <2>3, <2>4, <3>1, <3>2, <3>3 DEF Filling
  <2>6. Tokenizing(r, d)'
    BY <1>1, <2>1, <2>5 DEF Tokenizing
  <2> QED
    BY <2>6
<1>8. CASE ends # {}
  <2>0. Min(ends) \in ends /\ (\A q \in ends : Min(ends) <= q) /\ ends \subseteq Nat
    <3>1. ends \subseteq Nat
      BY <1>2, <1>4, <1>5, <1>6
    <3> HIDE DEF ends
    <3> QED
      BY <1>8, <3>1, LeastPlace
  <2>1. PICK end \in Nat : end = Min(ends)
    BY <2>0
  <2>2. /\ end \in ends /\ (\A q \in ends : end <= q) /\ ptr' = end + 1
        /\ UNCHANGED <<tokenbuffer, token, fillstart, eol>>
        /\ stage' = "idle"
        /\ tokens' = Append(tokens, IF end = token THEN <<tokenbuffer[end]>>
                                    ELSE SubSeq(tokenbuffer, token, end - 1))
        /\ chartok' = IF tokenbuffer[end] \in use.chartokens /\ end # token
                      THEN tokenbuffer[end] ELSE chartok
    <3>1. end \in ends /\ \A q \in ends : end <= q
      BY <2>0, <2>1
    <3>2. LET e == Min(ends) IN
          /\ ptr' = e + 1 /\ UNCHANGED <<tokenbuffer, token, fillstart, eol>>
          /\ stage' = "idle"
          /\ tokens' = Append(tokens, IF e = token THEN <<tokenbuffer[e]>>
                                      ELSE SubSeq(tokenbuffer, token, e - 1))
          /\ chartok' = IF tokenbuffer[e] \in use.chartokens /\ e # token
                        THEN tokenbuffer[e] ELSE chartok
      BY <1>8 DEF Scan, Return
    <3> HIDE DEF ends
    <3> QED
      BY <2>1, <3>1, <3>2
  <2>3. /\ end \in ptr .. Len(tokenbuffer)
        /\ tokenbuffer[end] \in use.delimiters \cup use.chartokens
        /\ \A q \in ptr .. end - 1 : tokenbuffer[q] \notin use.delimiters \cup use.chartokens
    <3>1. end \in ptr .. Len(tokenbuffer) /\ tokenbuffer[end] \in use.delimiters \cup use.chartokens
      BY <2>2
    <3>2. ASSUME NEW q \in ptr .. end - 1
          PROVE  tokenbuffer[q] \notin use.delimiters \cup use.chartokens
      <4>1. q \in ptr .. Len(tokenbuffer) /\ ~ end <= q
        BY <1>2, <1>4, <1>5, <1>6, <3>1
      <4> QED
        BY <2>2, <4>1
    <3> QED
      BY <3>1, <3>2
  <2> HIDE DEF ends
  <2>4. PICK e \in Nat : e = o + end
    BY <1>5
  <2>5. e \in 1 .. Len(text) /\ d < e /\ e <= r /\ tokenbuffer[end] = text[e] /\ end >= 1
    <3>1. end \in d - o + 1 .. r - o
      BY <1>4, <1>6, <2>3
    <3>2. end \in 1 .. r - o /\ end >= 1 /\ o + end \in 1 .. Len(text) /\ d < o + end /\ o + end <= r
      BY ONLY <1>2, <1>5, <3>1
    <3>3. tokenbuffer[end] = text[o + end]
      BY <1>6, <3>2
    <3> QED
      BY <2>4, <3>2, <3>3
  <2>6. \A q \in d + 1 .. e - 1 : Ordinary(text[q])
    <3> SUFFICES ASSUME NEW q \in d + 1 .. e - 1 PROVE Ordinary(text[q])
      OBVIOUS
    <3>1. q - o \in ptr .. end - 1 /\ q - o \in 1 .. r - o /\ o + (q - o) = q
      BY <1>2, <1>4, <1>5, <2>4, <2>5
    <3>2. tokenbuffer[q - o] \notin use.delimiters \cup use.chartokens /\ tokenbuffer[q - o] = text[q]
      BY <1>6, <2>3, <3>1
    <3> QED
      BY <3>2 DEF Ordinary
  <2>7. ~ Ordinary(text[e]) /\ text[e] \in use.delimiters \cup use.chartokens
    BY <2>3, <2>5 DEF Ordinary
  <2>8. /\ Boundary(e)' /\ eol' = FALSE /\ Buffered(r, e)'
    <3>1. Boundary(e)
      BY <2>7 DEF Boundary
    <3>2. o \in 0 .. e /\ ptr' = e - o + 1
      BY <1>2, <1>5, <2>2, <2>4, <2>5
    <3>3. tokenbuffer' = SubSeq(text, o + 1, r)'
      BY <1>1, <1>4, <2>2
    <3>4. Buffered(r, e)'
      BY <3>2, <3>3 DEF Buffered
    <3> QED
      BY <1>1, <1>3, <2>2, <3>1, <3>4, SameText
  <2>9. IF chartok' = NoChar THEN tokens' = Given(e)
        ELSE chartok' = text[e] /\ text[e] \in use.chartokens /\ tokens' = Given(e - 1)
    <3>1. CASE end = token
      <4>1. e = d + 1 /\ tokens' = Append(tokens, <<text[e]>>) /\ chartok' = NoChar
        BY <1>2, <1>3, <1>4, <1>5, <2>2, <2>4, <2>5, <3>1
      <4>2. text[e] \in use.chartokens
        <5>1. text[e] \notin use.delimiters
          BY <1>3, <2>5, <4>1, NoStart
        <5> QED
          BY <2>7, <5>1
      <4>3. TokenAt(e) = <<text[e]>> /\ e \in Starts /\ e - 1 = d
        BY <1>2, <2>5, <4>1, <4>2, CharacterToken
      <4>4. tokens' = Given(e)
        BY <1>3, <4>1, <4>3, NextToken
      <4> QED
        BY <4>1, <4>4
    <3>2. CASE end # token
      <4>1. end > token /\ d + 1 < e /\ d + 1 \in 1 .. Len(text)
        BY <1>2, <1>3, <1>4, <1>5, <2>3, <2>4, <2>5, <3>2
      <4>2. TokenAt(d + 1) = SubSeq(text, d + 1, e - 1)
        <5>1. d + 1 < e /\ e \in Nat /\ e <= Len(text) + 1
          BY <1>2, <2>5, <4>1
        <5> QED
          BY <2>6, <2>7, <4>1, <5>1, TokenEnds
      <4>3. SubSeq(tokenbuffer, token, end - 1) = SubSeq(text, d + 1, e - 1)
        <5>1. SubSeq(tokenbuffer, d - o + 1, end - 1) = SubSeq(text, o + (d - o + 1), o + (end - 1))
          <6>1. d - o + 1 \in Nat \ {0} /\ end - 1 \in Nat /\ d - o + 1 <= (end - 1) + 1
                /\ end - 1 <= r - o
            BY <1>2, <1>3, <1>4, <1>5, <1>6, <2>3, <2>5, <4>1
          <6> QED
            BY <1>2, <1>4, <1>5, <6>1, SliceOfSlice
        <5>2. o + (d - o + 1) = d + 1 /\ o + (end - 1) = e - 1
          BY <1>2, <1>5, <2>4
        <5> QED
          BY <1>3, <1>4, <5>1, <5>2
      <4>4. tokens' = Given(d + 1)
        <5>1. (d + 1) - 1 = d
          BY <1>2
        <5> QED
          BY <1>3, <2>2, <3>2, <4>2, <4>3, <5>1, NextToken
      <4>5. \A q \in Nat : d + 1 < q /\ q <= e - 1 => q \notin Starts
        <5> SUFFICES ASSUME NEW q \in Nat, d + 1 < q, q <= e - 1 PROVE q \notin Starts
          OBVIOUS
        <5>1. q \in 1 .. Len(text) /\ q > 1 /\ q \in d + 1 .. e - 1 /\ q - 1 \in d + 1 .. e - 1
          BY <1>2, <2>5
        <5> QED
          BY <2>6, <5>1, NoStartInside
      <4>6. Given(e - 1) = Given(d + 1)
        <5>1. d + 1 \in Nat /\ e - 1 \in Nat /\ d + 1 <= e - 1
          BY <1>2, <2>5, <4>1
        <5> QED
          BY <4>5, <5>1, SameCount
      <4>7. CASE text[e] \in use.chartokens
        <5>1. chartok' = text[e] /\ text[e] # NoChar
          BY <2>2, <2>5, <3>2, <4>7, TokenizerAssumption
        <5> QED
          BY <4>4, <4>6, <4>7, <5>1
      <4>8. CASE text[e] \notin use.chartokens
        <5>1. chartok' = NoChar
          BY <1>3, <2>2, <2>5, <4>8
        <5>2. e \notin Starts
          BY <2>5, <2>7, <4>8, NoStart
        <5>3. \A q \in Nat : e - 1 < q /\ q <= e => q = e
          BY <2>5
        <5>4. Given(e) = Given(e - 1)
          <6>1. e - 1 \in Nat /\ e - 1 <= e
            BY <2>5
          <6> QED
            BY <5>2, <5>3, <6>1, SameCount
        <5> QED
          BY <4>4, <4>6, <5>1, <5>4
      <4> QED
        BY <4>7, <4>8
    <3> QED
      BY <3>1, <3>2
  <2>10. Waiting(r, e)'
    <3>1. e > 0 /\ e - 1 \in Nat
      BY <2>5
    <3>2. IF chartok' = NoChar THEN tokens' = Given(e)'
          ELSE e > 0 /\ chartok' = text'[e] /\ chartok' \in use'.chartokens /\ tokens' = Given(e - 1)'
      BY <1>1, <2>9, <3>1, SameText
    <3> QED
      BY <2>8, <3>2 DEF Waiting
  <2>11. Tokenizing(r, e)'
    BY <1>1, <2>2, <2>5, <2>10 DEF Tokenizing
  <2>12. e \in 0 .. Len(text)
    BY <2>5
  <2> QED
    BY <2>11, <2>12
<1> QED
  BY <1>7, <1>8

(* What is given is a beginning of all, and at the end of the text all.    *)
LEMMA GivenIsPrefix ==
  ASSUME text \in Texts, NEW x \in Nat
  PROVE  Tokens!IsPrefix(Given(x), AllTokens)
<1> DEFINE g == Given(x)
           n == Cardinality(Starts)
           b == Before(x)
           S == {AllTokens[k] : k \in Nat}
<1>1. b \in Nat /\ n \in Nat /\ b <= n /\ Len(g) = b
  BY GivenFacts
<1>2. Len(AllTokens) = n
  BY <1>1 DEF AllTokens
<1>3. \A k \in 1 .. b : g[k] = AllTokens[k] /\ AllTokens[k] \in S
  BY DEF Given
<1>4. \A k \in 1 .. b : g[k] \in S
  BY <1>3
<1> HIDE DEF g, b, n, S
<1>5. SubSeq(g, 1, b) = [h \in 1 .. b - 1 + 1 |-> g[1 + h - 1]]
  BY <1>1, <1>4, PartFacts
<1>6. SubSeq(AllTokens, 1, b) = [h \in 1 .. b - 1 + 1 |-> AllTokens[1 + h - 1]]
  BY <1>1, <1>3, PartFacts
<1>7. b - 1 + 1 = b /\ \A h \in 1 .. b : 1 + h - 1 = h
  BY <1>1
<1>8. SubSeq(g, 1, b) = SubSeq(AllTokens, 1, b)
  BY <1>3, <1>5, <1>6, <1>7
<1>9. Tokens!IsPrefix(g, AllTokens)
  BY <1>1, <1>2, <1>8 DEF Tokens!IsPrefix
<1> QED
  BY <1>9 DEF g

LEMMA AllGiven ==
  ASSUME text \in Texts
  PROVE  Given(Len(text)) = AllTokens
<1>1. {q \in Starts : q <= Len(text)} = Starts
  BY StartsAreFinite, TextFacts
<1>2. Before(Len(text)) = Cardinality(Starts)
  BY <1>1 DEF Before
<1>3. \A k \in 1 .. Cardinality(Starts) : AllTokens[k] = TokenAt(StartOf(k))
  BY DEF AllTokens
<1> QED
  BY <1>2, <1>3 DEF Given, AllTokens

(* TokensAreTheText: wherever the lines and the pieces of long lines end,  *)
(* tokenizer_next returns the tokens of the text in order, and all of them *)
(* unless one is longer than its buffer.                                   *)
THEOREM TokensAreThoseOfTheText == TokenizerSpec => []TokensAreTheText
<1>1. TokenizerInit => TokenizerInv
  <2> SUFFICES ASSUME TokenizerInit PROVE TokenizerInv
    OBVIOUS
  <2>1. use \in Uses /\ text \in Texts /\ rest = text /\ Len(text) \in Nat
    BY TextFacts DEF TokenizerInit
  <2>2. rest = SubSeq(text, 0 + 1, Len(text))
    <3>1. text \in Seq({text[p] : p \in DOMAIN text})
      BY <2>1, TextFacts
    <3> QED
      BY <2>1, <3>1, SubSeqFull
  <2>3. tokens = Given(0)
    <3>1. {q \in Starts : q <= 0} = {}
      BY <2>1, StartsAreFinite
    <3>2. Before(0) = 0
      BY <3>1, FS_EmptySet DEF Before
    <3>3. Given(0) = <<>>
      BY <3>2 DEF Given
    <3> QED
      BY <3>3 DEF TokenizerInit
  <2>4. Waiting(0, 0)
    BY <2>3 DEF TokenizerInit, Waiting, Boundary
  <2>5. Tokenizing(0, 0)
    BY <2>2, <2>4 DEF TokenizerInit, Tokenizing
  <2> QED
    BY <2>1, <2>5 DEF TokenizerInv
<1>2. TokenizerInv /\ [TokenizerNext]_tokenizer_vars => TokenizerInv'
  <2> SUFFICES ASSUME TokenizerInv, [TokenizerNext]_tokenizer_vars PROVE TokenizerInv'
    OBVIOUS
  <2>1. use \in Uses /\ text \in Texts
    BY DEF TokenizerInv
  <2>2. PICK r \in 0 .. Len(text), d \in 0 .. Len(text) : Tokenizing(r, d)
    BY DEF TokenizerInv
  <2>3. use' = use /\ text' = text
    BY DEF TokenizerNext, Call, Fill, Skip, Scan, tokenizer_vars
  <2>4. \E s, e \in 0 .. Len(text) : Tokenizing(s, e)'
    <3>1. CASE Call
      BY <2>1, <2>2, <3>1, StepCall
    <3>2. CASE Fill
      BY <2>1, <2>2, <3>2, StepFill
    <3>3. CASE Skip
      BY <2>1, <2>2, <3>3, StepSkip
    <3>4. CASE Scan
      BY <2>1, <2>2, <3>4, StepScan
    <3>5. CASE UNCHANGED tokenizer_vars
      <4>1. UNCHANGED <<use, text, rest, tokenbuffer, ptr, eol, chartok, token, fillstart, tokens, stage>>
        BY <3>5 DEF tokenizer_vars
      <4>2. Tokenizing(r, d)'
        BY <2>2, <4>1, SameText DEF Tokenizing, Waiting, Filling, Skipping, Scanning, Ended, Buffered, Started
      <4> QED
        BY <2>2, <4>2
    <3> QED
      BY <3>1, <3>2, <3>3, <3>4, <3>5 DEF TokenizerNext
  <2> QED
    BY <2>1, <2>3, <2>4 DEF TokenizerInv
<1>3. TokenizerInv => TokensAreTheText
  <2> SUFFICES ASSUME TokenizerInv PROVE TokensAreTheText
    OBVIOUS
  <2>1. use \in Uses /\ text \in Texts /\ Len(text) \in Nat
    BY TextFacts DEF TokenizerInv
  <2>2. PICK r \in 0 .. Len(text), d \in 0 .. Len(text) : Tokenizing(r, d)
    BY DEF TokenizerInv
  <2>3. \E x \in Nat : tokens = Given(x)
    <3>1. CASE stage = "end"
      <4>1. Ended
        BY <2>2, <3>1 DEF Tokenizing
      <4>2. \A p \in Starts : p - 1 \in Nat
        BY <2>1, StartsAreFinite
      <4> QED
        BY <2>1, <4>1, <4>2 DEF Ended
    <3>2. CASE stage # "end"
      <4>1. d \in Nat /\ (d > 0 => d - 1 \in Nat)
        OBVIOUS
      <4> QED
        BY <2>2, <3>2, <4>1 DEF Tokenizing, Waiting, Filling, Skipping, Scanning
    <3> QED
      BY <3>1, <3>2
  <2>4. Tokens!IsPrefix(tokens, AllTokens)
    BY <2>1, <2>3, GivenIsPrefix
  <2>5. CASE stage = "end"
    <3>1. Ended
      BY <2>2, <2>5 DEF Tokenizing
    <3>2. CASE tokens = Given(Len(text))
      <4>1. tokens = AllTokens
        BY <2>1, <3>2, AllGiven
      <4> QED
        BY <2>4, <4>1 DEF TokensAreTheText
    <3>3. ASSUME NEW p \in Starts, Len(TokenAt(p)) > MAX_LINE_LENGTH + 1, tokens = Given(p - 1)
          PROVE  TokensAreTheText
      <4>1. Len(tokens) + 1 = Before(p)
        <5>1. p - 1 \in Nat
          BY <2>1, StartsAreFinite
        <5>2. Len(tokens) = Before(p - 1)
          BY <2>1, <3>3, <5>1, GivenFacts
        <5> QED
          BY <2>1, <5>2, OneMore
      <4>2. AllTokens[Before(p)] = TokenAt(p)
        BY <2>1, Numbered
      <4>3. Len(AllTokens[Len(tokens) + 1]) > MAX_LINE_LENGTH + 1
        BY <3>3, <4>1, <4>2
      <4> QED
        BY <2>4, <4>3 DEF TokensAreTheText
    <3> QED
      BY <3>1, <3>2, <3>3 DEF Ended
  <2>6. CASE stage # "end"
    BY <2>4, <2>6 DEF TokensAreTheText
  <2> QED
    BY <2>5, <2>6
<1> QED
  BY <1>1, <1>2, <1>3, PTL DEF TokenizerSpec
=============================================================================
