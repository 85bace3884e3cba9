----------------------------- MODULE MCLibrary -----------------------------
(***************************************************************************)
(* The modules that the programs are built on: a queue, a list, a hash     *)
(* table, a memory file, a file of strings or of numbers, or a tokenizer.  *)
(* A behaviour is that of one of them, and the others stay as they are at  *)
(* first.                                                                  *)
(***************************************************************************)
EXTENDS Containers, MemoryFileClient, Tokenizer, TLC

CONSTANT TBL_STRING_MAX_LEN

VARIABLES
  part,                                             \* the one that is used
  rkind, format, bytes, rfile, rpc, opened, count, i, nextptr, buf, entries
                                                    \* ResourceFiles

(* "a" and "A" are equal, "a" and "b" share a chain, and the chain between *)
(* theirs and that of "c" is empty.                                        *)
MCName == [k \in Key |-> IF k = "A" THEN "a" ELSE k]
MCHash == [n \in {"a", "b", "c"} |-> CASE n = "a" -> 0 [] n = "b" -> 3 [] OTHER -> 2]

(* One or two strings, that may overlap, lie anywhere, be as long as the   *)
(* buffer, just fit or not end.                                            *)
MCTblFiles ==
  {<<n, 0, at, 0>> \o s : n \in 0 .. 2, at \in {3, 6, 7, 8}, s \in Tokens!SeqOf({0, 5}, 4)}
    \cup Tokens!SeqOf({0, 1}, 1)

(* Two and three variables of different widths, one with an offset. *)
MCDatFiles == {[k \in 1 .. n |-> 10 * k] : n \in 0 .. 9}
MCFormats ==
  LET Var(offset, size, num) == [offset |-> offset, size |-> size, num |-> num] IN
  {<<Var(0, 2, 2), Var(1, 1, 2)>>, <<Var(0, 1, 1), Var(2, 4, 1), Var(0, 2, 2)>>}

(* What icecc reads a source with, and a configuration file. *)
MCUses ==
  {[delimiters |-> {" "}, chartokens |-> {"\n", ":"}],
   [delimiters |-> {"\n"}, chartokens |-> {}]}
MCNewline == "\n"
MCTexts == Tokens!SeqOf({"a", " ", ":", MCNewline}, 4) \cup Tokens!SeqOf({"a", MCNewline}, 7)

R == INSTANCE ResourceFiles WITH
       TblFiles <- MCTblFiles, DatFiles <- MCDatFiles, Formats <- MCFormats,
       kind <- rkind, mfile <- rfile, pc <- rpc

rvars == <<rkind, format, bytes, rfile, rpc, opened, count, i, nextptr, buf, entries>>
vars == <<part, queue_vars, file_vars, list_vars, table_vars, rvars, tokenizer_vars>>

ASSUME LibraryAssumption == R!ResourceFilesAssumption

(* The parts that are not used have their first state, the same whichever  *)
(* is used.                                                                *)
Init ==
  /\ part \in {"queue", "file", "list", "table", "resource", "tokenizer"}
  /\ QueueInit /\ FileInit /\ L!Init /\ T!Init /\ R!Init /\ TokenizerInit
  /\ part # "queue" => kind = "objects"
  /\ part # "list" => listkind = "numbers"
  /\ part # "resource" => rkind = "dat" /\ bytes = <<>> /\ Len(format) = 2
  /\ part # "tokenizer" => text = <<>> /\ use.chartokens = {}

Next ==
  \/ /\ part = "queue"
     /\ QueueNext /\ UNCHANGED <<part, file_vars, list_vars, table_vars, rvars, tokenizer_vars>>
  \/ /\ part = "file"
     /\ FileNext /\ UNCHANGED <<part, queue_vars, list_vars, table_vars, rvars, tokenizer_vars>>
  \/ part = "list" /\ L!Next /\ UNCHANGED <<part, queue_vars, file_vars, table_vars, rvars, tokenizer_vars>>
  \/ part = "table" /\ T!Next /\ UNCHANGED <<part, queue_vars, file_vars, list_vars, rvars, tokenizer_vars>>
  \/ /\ part = "resource"
     /\ R!Next /\ UNCHANGED <<part, queue_vars, file_vars, list_vars, table_vars, tokenizer_vars>>
  \/ /\ part = "tokenizer"
     /\ TokenizerNext /\ UNCHANGED <<part, queue_vars, file_vars, list_vars, table_vars, rvars>>

Spec == Init /\ [][Next]_vars

(* The files are read as they are: see ResourceFiles. *)
ResourcesLoaded == R!LoadsTheFile

MCNumbers == {0, 3, 65538}
MCOffsets == - MaxSize .. MaxSize
MCCounts == 0 .. 2
MCObjects == {<<257 * b, 255 - b>> : b \in Byte}
Addresses == Permutations(Address)
=============================================================================
