--------------------------- MODULE ResourceFiles ---------------------------
(***************************************************************************)
(* tbl_new of tbl.c and dat_new of dat.c: how a table of strings and a     *)
(* table of numbers are read from a memory mapped file, and freed when     *)
(* they cannot be.                                                         *)
(*                                                                         *)
(* A tbl file is a count, as many addresses of strings, and the strings,   *)
(* each with a 0 at its end.  A dat file is one array after the other,     *)
(* whose widths and lengths are those of a format that is not in it.       *)
(***************************************************************************)
EXTENDS MemoryFile
LOCAL INSTANCE FiniteSetsExt

CONSTANTS
  TblFiles, DatFiles,  \* the files, sequences of bytes, that are read
  Formats,             \* DatFmt: sequences of the variables of a dat file
  TBL_STRING_MAX_LEN   \* the size of the buffer for a string

ResourceFilesAssumption ==
  /\ TBL_STRING_MAX_LEN \in Nat \ {0}
  /\ \A fmt \in Formats : \A v \in DOMAIN fmt :
       fmt[v].size \in {1, 2, 4} /\ fmt[v].num \in Nat /\ fmt[v].offset \in Nat

Missing == "NULL"

VARIABLES
  kind,       \* "tbl" or "dat"
  format,     \* Dat.fmt, the format of the dat file
  bytes,      \* the file
  mfile,
  pc,         \* "open", "count", "pointer", "string", "var"; "done", "failed", "overrun"
  opened,     \* whether mopen has given a file
  count,      \* Tbl.size
  i,          \* the string, or the variable, that is read
  nextptr,    \* where the address of the next string is
  buf,        \* the string so far
  entries     \* Tbl.entries, Dat.entries

vars == <<kind, format, bytes, mfile, pc, opened, count, i, nextptr, buf, entries>>

Init ==
  /\ \/ kind = "tbl" /\ format = <<>> /\ bytes \in TblFiles
     \/ kind = "dat" /\ format \in Formats /\ bytes \in DatFiles
  /\ mfile = Missing /\ pc = "open" /\ opened = FALSE
  /\ count = 0 /\ i = 1 /\ nextptr = 0 /\ buf = <<>>
  /\ entries = <<>>

(* On an error: mclose, and tbl_free or dat_free of what is there. *)
Fail ==
  /\ pc' = "failed" /\ mfile' = Missing
  /\ entries' = <<>>
  /\ UNCHANGED <<kind, format, bytes, opened, count, i, nextptr, buf>>

Finish == pc' = "done" /\ mfile' = Missing

(* mopen; the file may not be there, or not be readable. *)
Open ==
  /\ pc = "open"
  /\ \/ /\ mfile' = File(bytes)
        /\ pc' = IF kind = "tbl" THEN "count" ELSE "var"
        /\ opened' = TRUE
        /\ UNCHANGED <<kind, format, bytes, count, i, nextptr, buf, entries>>
     \/ Fail

(* The number of strings, and an empty array for them. *)
Count ==
  /\ pc = "count"
  /\ IF Moved(mfile, 2, 1) < 1
     THEN Fail
     ELSE LET after == AfterRead(mfile, 2, 1)
              n == Read(mfile, 2, 1)[1] IN
          /\ count' = n
          /\ entries' = [s \in 1 .. n |-> Missing]
          /\ nextptr' = after.pos
          /\ IF n = 0
             THEN Finish
             ELSE pc' = "pointer" /\ mfile' = after
          /\ UNCHANGED <<kind, format, bytes, opened, i, buf>>

(* Where the address of the next string is, from the file after this one   *)
(* was read and the file at the string.  Mutant: the place is not kept.    *)
Kept_Not(after, string) == string.pos
Kept(after, string) == after.pos

(* The address of string i, and the seek to it. *)
Pointer ==
  /\ pc = "pointer"
  /\ LET at == Sought(mfile, nextptr, "SET")
         after == AfterRead(at, 2, 1) IN
     IF Outside(at) \/ Moved(at, 2, 1) < 1
     THEN Fail
     ELSE LET string == Sought(after, Read(at, 2, 1)[1], "SET") IN
          IF Outside(string)
          THEN Fail
          ELSE /\ mfile' = string
               /\ nextptr' = Kept(after, string)
               /\ buf' = <<>> /\ pc' = "string"
               /\ UNCHANGED <<kind, format, bytes, opened, count, i, entries>>

(* mgetc up to the 0 that ends the string.  Every character is written to  *)
(* the buffer, the 0 and the EOF at the end of the file as well, and       *)
(* nobody looks whether there is room: the model stops at the first that   *)
(* would lie behind it.                                                    *)
Full == Len(buf) = TBL_STRING_MAX_LEN

Overrun ==
  /\ pc = "string" /\ Full
  /\ pc' = "overrun"
  /\ UNCHANGED <<kind, format, bytes, mfile, opened, count, i, nextptr, buf, entries>>

Character ==
  /\ pc = "string" /\ ~ Full
  /\ IF Char(mfile) = 0
     THEN /\ entries' = [entries EXCEPT ![i] = buf]
          /\ i' = i + 1
          /\ IF i = count THEN Finish ELSE pc' = "pointer" /\ mfile' = AfterChar(mfile)
          /\ UNCHANGED buf
     ELSE /\ buf' = Append(buf, Char(mfile))
          /\ mfile' = AfterChar(mfile)
          /\ UNCHANGED <<pc, i, entries>>
  /\ UNCHANGED <<kind, format, bytes, opened, count, nextptr>>

(* The array of variable i. *)
Variable ==
  /\ pc = "var"
  /\ IF Moved(mfile, format[i].size, format[i].num) # format[i].num
     THEN Fail
     ELSE /\ entries' = Append(entries, Read(mfile, format[i].size, format[i].num))
          /\ i' = i + 1
          /\ IF i = Len(format)
             THEN Finish
             ELSE /\ mfile' = AfterRead(mfile, format[i].size, format[i].num)
                  /\ UNCHANGED pc
          /\ UNCHANGED <<kind, format, bytes, opened, count, nextptr, buf>>

Next == Open \/ Count \/ Pointer \/ Character \/ Overrun \/ Variable

Spec == Init /\ [][Next]_vars /\ WF_vars(Next)
-----------------------------------------------------------------------------
(* dat_isvalid_entryno, dat_numberof_entries, dat_get_value; entries are   *)
(* numbered from 0, variables from 1 here.                                 *)
IsValidEntry(entry, v) ==
  /\ v \in DOMAIN format
  /\ entry < format[v].offset + format[v].num
  /\ entry - format[v].offset >= 0

NumberOfEntries == Max({0} \cup {format[v].num + format[v].offset : v \in DOMAIN format})

Value(entry, v) == entries[v][entry - format[v].offset + 1]

(* tbl_get_string; there is no string 0. *)
String(s) == IF s > count \/ s = 0 THEN Missing ELSE entries[s]

-----------------------------------------------------------------------------
(* What the files say: two bytes and a string at an address, and the sum   *)
(* of the bytes of an object.                                              *)
Word(at) == bytes[at + 1] + 256 * bytes[at + 2]

EndOf(at) == {e \in at .. Len(bytes) - 1 : bytes[e + 1] = 0}
StringAt(at) == SubSeq(bytes, at + 1, Min(EndOf(at)))

(* It ends, and the buffer has room for it and the 0. *)
StringFits(at) == \E e \in EndOf(at) : e - at < TBL_STRING_MAX_LEN

ObjectAt(at, size) == MapThenSumSet(LAMBDA b : bytes[at + b + 1] * 256 ^ b, 0 .. size - 1)

(* Where the array of a variable starts; the whole starts after the last.  *)
Start(v) == MapThenSumSet(LAMBDA u : format[u].num * format[u].size, 1 .. v - 1)

WellFormed ==
  IF kind = "tbl"
  THEN /\ Len(bytes) >= 2 /\ 2 + 2 * Word(0) <= Len(bytes)
       /\ \A s \in 1 .. Word(0) : Word(2 * s) <= Len(bytes)
  ELSE Start(Len(format) + 1) <= Len(bytes)

(* A file that was read says what the tables say, string by string and     *)
(* value by value; only a file that is too short for what it promises      *)
(* fails once it is open; and the buffer is overrun by files with a string *)
(* that is as long as the buffer or does not end, and no others (tbl_new,  *)
(* tbl_get_string, dat_new, dat_get_value).                                *)
LoadsTheFile ==
  /\ pc = "done" /\ kind = "tbl" =>
       /\ WellFormed /\ count = Word(0)
       /\ \A s \in 1 .. count :
            StringFits(Word(2 * s)) /\ String(s) = StringAt(Word(2 * s))
  /\ pc = "done" /\ kind = "dat" =>
       /\ WellFormed
       /\ \A entry \in 0 .. NumberOfEntries - 1 : \A v \in DOMAIN format :
            IsValidEntry(entry, v) =>
              Value(entry, v) =
                ObjectAt(Start(v) + (entry - format[v].offset) * format[v].size, format[v].size)
  /\ pc = "failed" /\ opened => ~ WellFormed
  /\ pc = "overrun" => \E s \in 1 .. count : ~ StringFits(Word(2 * s))
=============================================================================
