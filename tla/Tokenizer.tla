----------------------------- MODULE Tokenizer -----------------------------
(***************************************************************************)
(* tokenizer.c: the text of a stream, which is read line by line and a     *)
(* long line in pieces, is split at delimiters; some characters are tokens *)
(* of their own.  A token that reaches the end of what was read is moved   *)
(* to the start of the buffer and continued with the next piece.           *)
(***************************************************************************)
EXTENDS Integers, Sequences, FiniteSetsExt
Tokens == INSTANCE SequencesExt

CONSTANTS
  MAX_LINE_LENGTH,  \* the longest piece
  Texts,            \* the texts, sequences of characters
  Uses,             \* [delimiters, chartokens], as tokenizer_new is given them
  Newline

NoChar == "no character"

ASSUME TokenizerAssumption ==
  /\ MAX_LINE_LENGTH \in Nat \ {0}
  /\ \A u \in Uses : u.delimiters \cap u.chartokens = {} /\ NoChar \notin u.chartokens
  /\ \A t \in Texts : t \in Seq({t[p] : p \in DOMAIN t})

VARIABLES
  use, text,        \* the arguments, and the whole text
  rest,             \* what of it has not been read
  tokenbuffer, ptr, \* the buffer, and the place in it
  eol, chartok,     \* whether the buffer is used up; the character to return
  token, fillstart, \* locals of a call: where the token starts, how much to keep
  tokens,           \* what the calls have returned
  stage             \* "idle", "fill", "skip", "scan"; "end" when NULL was returned

tokenizer_vars ==
  <<use, text, rest, tokenbuffer, ptr, eol, chartok, token, fillstart, tokens, stage>>

TokenizerInit ==
  /\ use \in Uses /\ text \in Texts /\ rest = text
  /\ tokenbuffer = <<>> /\ ptr = 1 /\ eol = TRUE /\ chartok = NoChar
  /\ token = 0 /\ fillstart = 0 /\ tokens = <<>> /\ stage = "idle"

Return(string) == tokens' = Append(tokens, string) /\ stage' = "idle"

(* The call of tokenizer_next.  No token has started: it is 0. *)
Call ==
  /\ stage = "idle"
  /\ IF chartok # NoChar
     THEN Return(<<chartok>>) /\ chartok' = NoChar /\ UNCHANGED <<token, fillstart>>
     ELSE /\ token' = 0 /\ fillstart' = 0
          /\ stage' = IF eol THEN "fill" ELSE "skip"
          /\ UNCHANGED <<chartok, tokens>>
  /\ UNCHANGED <<use, text, rest, tokenbuffer, ptr, eol>>

(* fgets *)
Piece ==
  LET ends == {k \in 1 .. Len(rest) : rest[k] = Newline \/ k = MAX_LINE_LENGTH} IN
  SubSeq(rest, 1, Min(ends \cup {Len(rest)}))

(* Mutant: the piece overwrites the start of the token. *)
Filled_FromStart(piece) == piece
Filled(piece) == SubSeq(tokenbuffer, 1, fillstart) \o piece

(* The end of the stream ends the last token; a token that is too long for *)
(* the buffer ends everything.                                             *)
Fill ==
  /\ stage = "fill"
  /\ \/ /\ rest = <<>> /\ token # 0
        /\ Return(SubSeq(tokenbuffer, token, Len(tokenbuffer)))
        /\ UNCHANGED <<rest, tokenbuffer, ptr, eol>>
     \/ /\ rest = <<>> /\ token = 0
        /\ stage' = "end"
        /\ UNCHANGED <<rest, tokenbuffer, ptr, eol, tokens>>
     \/ /\ rest # <<>>
        /\ rest' = SubSeq(rest, Len(Piece) + 1, Len(rest))
        /\ IF fillstart + Len(Piece) > 2 * MAX_LINE_LENGTH + 1
           THEN stage' = "end" /\ UNCHANGED <<tokenbuffer, ptr, eol>>
           ELSE /\ tokenbuffer' = Filled(Piece)
                /\ ptr' = 1 /\ eol' = FALSE
                /\ stage' = IF token = 0 THEN "skip" ELSE "scan"
        /\ UNCHANGED tokens
  /\ UNCHANGED <<use, text, chartok, token, fillstart>>

(* Past the delimiters before a token. *)
Skip ==
  /\ stage = "skip"
  /\ LET starts == {p \in ptr .. Len(tokenbuffer) : tokenbuffer[p] \notin use.delimiters} IN
     IF starts = {}
     THEN /\ ptr' = Len(tokenbuffer) + 1 /\ eol' = TRUE /\ stage' = "fill"
          /\ UNCHANGED token
     ELSE /\ ptr' = Min(starts) /\ token' = Min(starts) /\ stage' = "scan"
          /\ UNCHANGED eol
  /\ UNCHANGED <<use, text, rest, tokenbuffer, chartok, fillstart, tokens>>

(* To the end of the token. *)
Scan ==
  /\ stage = "scan"
  /\ LET Ends(c) == c \in use.delimiters \cup use.chartokens
         ends == {p \in ptr .. Len(tokenbuffer) : Ends(tokenbuffer[p])} IN
     IF ends = {}
     THEN /\ tokenbuffer' = SubSeq(tokenbuffer, token, Len(tokenbuffer))
          /\ token' = 1 /\ ptr' = Len(tokenbuffer') + 1 /\ fillstart' = Len(tokenbuffer')
          /\ eol' = TRUE /\ stage' = "fill"
          /\ UNCHANGED <<chartok, tokens>>
     ELSE LET end == Min(ends)
              c == tokenbuffer[end] IN
          /\ Return(IF end = token THEN <<c>> ELSE SubSeq(tokenbuffer, token, end - 1))
          /\ chartok' = IF c \in use.chartokens /\ end # token THEN c ELSE chartok
          /\ ptr' = end + 1
          /\ UNCHANGED <<tokenbuffer, token, fillstart, eol>>
  /\ UNCHANGED <<use, text, rest>>

TokenizerNext == Call \/ Fill \/ Skip \/ Scan

TokenizerSpec == TokenizerInit /\ [][TokenizerNext]_tokenizer_vars
-----------------------------------------------------------------------------
(* The tokens of a text: its characters that are tokens, and the longest   *)
(* runs of the characters that are neither tokens nor delimiters.          *)
Ordinary(c) == c \notin use.delimiters \cup use.chartokens

Starts ==
  {p \in DOMAIN text :
     \/ text[p] \in use.chartokens
     \/ Ordinary(text[p]) /\ (p = 1 \/ ~ Ordinary(text[p - 1]))}

TokenAt(p) ==
  LET others == {q \in p + 1 .. Len(text) : ~ Ordinary(text[q])} IN
  IF Ordinary(text[p])
  THEN SubSeq(text, p, Min(others \cup {Len(text) + 1}) - 1)
  ELSE <<text[p]>>

(* Where token k starts. *)
StartOf(k) == CHOOSE p \in Starts : Cardinality({q \in Starts : q <= p}) = k

AllTokens == [k \in 1 .. Cardinality(Starts) |-> TokenAt(StartOf(k))]

(* Wherever the lines and pieces end, the calls return the tokens of the   *)
(* text in its order, and all of them, unless one is longer than the       *)
(* buffer: then those before it (tokenizer_next).                          *)
TokensAreTheText ==
  /\ Tokens!IsPrefix(tokens, AllTokens)
  /\ stage = "end" =>
       \/ tokens = AllTokens
       \/ Len(AllTokens[Len(tokens) + 1]) > MAX_LINE_LENGTH + 1
=============================================================================
