----------------------------- MODULE MemoryFile -----------------------------
(***************************************************************************)
(* The memory mapped files of scdef.c: an array of bytes with a position.  *)
(* mread and mwrite move whole objects of one, two or four bytes, the low  *)
(* byte first, and stop before the end of the file.                        *)
(*                                                                         *)
(* mseek moves the position before it looks whether it is inside the file, *)
(* and the end is compared with an unsigned sum, so that a position before *)
(* the array would go unnoticed.  The callers give up on a file when a     *)
(* seek has failed (MemoryFileClient).                                     *)
(***************************************************************************)
EXTENDS Integers, Sequences
LOCAL INSTANCE FiniteSetsExt

Widths == {1, 2, 4}
EOF == -1

(* A file of these bytes, which are numbered from 0. *)
File(bytes) ==
  [array |-> [b \in 0 .. Len(bytes) - 1 |-> bytes[b + 1]], size |-> Len(bytes), pos |-> 0]

(* Mutant: only the end is looked at. *)
Outside_After(m) == m.pos > m.size

(* Whether mseek fails, when it has moved the position. *)
Outside(m) == m.pos > m.size \/ m.pos < 0

(* The file after mseek. *)
Sought(m, offset, whence) ==
  [m EXCEPT !.pos = CASE whence = "SET" -> offset
                      [] whence = "CUR" -> m.pos + offset
                      [] whence = "END" -> m.size + offset]

(* The end of an object, offset+sizeof(...), is unsigned: one that is less *)
(* than 0 is past every end.                                               *)
PastEnd(m, end) == end < 0 \/ end > m.size

(* How many of n objects mread or mwrite move: they stop at the first that *)
(* does not end inside.                                                    *)
Moved(m, width, n) ==
  CHOOSE k \in 0 .. n :
    /\ \A j \in 1 .. k : ~ PastEnd(m, m.pos + j * width)
    /\ k < n => PastEnd(m, m.pos + (k + 1) * width)

(* The bytes that k objects take up. *)
Extent(m, width, k) == m.pos .. m.pos + k * width - 1

(* The object of some width at an address, and its bytes. *)
ValueAt(m, at, width) ==
  MapThenSumSet(LAMBDA b : m.array[at + b] * 256 ^ b, 0 .. width - 1)

ByteOf(value, b) == (value \div 256 ^ b) % 256

Read(m, width, n) ==
  [k \in 1 .. Moved(m, width, n) |-> ValueAt(m, m.pos + (k - 1) * width, width)]

AfterRead(m, width, n) == [m EXCEPT !.pos = @ + width * Moved(m, width, n)]

AfterWrite(m, width, values) ==
  LET extent == Extent(m, width, Moved(m, width, Len(values))) IN
  [AfterRead(m, width, Len(values)) EXCEPT
     !.array = [b \in DOMAIN m.array |->
                  IF b \in extent
                  THEN ByteOf(values[1 + (b - m.pos) \div width], (b - m.pos) % width)
                  ELSE @[b]]]

(* mgetc *)
Char(m) == IF m.pos < m.size THEN m.array[m.pos] ELSE EOF
AfterChar(m) == IF m.pos < m.size THEN [m EXCEPT !.pos = @ + 1] ELSE m

(* mresize; what is new is whatever there was in memory. *)
Resized(m, size, fresh) ==
  [array |-> [b \in 0 .. size - 1 |-> IF b < m.size THEN m.array[b] ELSE fresh[b]],
   size |-> size,
   pos |-> IF m.pos > size THEN size ELSE m.pos]
=============================================================================
