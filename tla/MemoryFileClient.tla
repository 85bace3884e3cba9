-------------------------- MODULE MemoryFileClient --------------------------
(***************************************************************************)
(* Any client of a memory mapped file that closes it once a seek has       *)
(* failed, as iscript.c, tbl.c and dat.c do.                               *)
(***************************************************************************)
EXTENDS MemoryFile

CONSTANTS
  Byte,     \* the bytes that are written, and those of fresh memory
  MaxSize,  \* the largest file
  Absent,   \* the handle of no file
  Offsets,  \* what is sought
  Counts,   \* how many objects are read
  Objects   \* the objects that are written

ASSUME MemoryFileAssumption ==
  /\ Byte \subseteq 0 .. 255 /\ Byte # {} /\ MaxSize \in Nat
  /\ Offsets \subseteq Int /\ Counts \subseteq Nat /\ Objects \subseteq Seq(Nat)

VARIABLES
  mfile,    \* the handle
  gaveUp,   \* whether a seek has failed
  touched   \* the bytes that the last call has read or written

file_vars == <<mfile, gaveUp, touched>>

FileInit == mfile = Absent /\ gaveUp = FALSE /\ touched = {}

(* mopen, which gives no file if any of its calls fails; mcreat. *)
Open ==
  /\ mfile = Absent
  /\ \E size \in 0 .. MaxSize : \E bytes \in [1 .. size -> Byte] :
       mfile' \in {Absent, File(bytes)}
  /\ touched' = {} /\ UNCHANGED gaveUp

Create ==
  /\ mfile = Absent
  /\ \E size \in 1 .. MaxSize : \E bytes \in [1 .. size -> Byte] : mfile' = File(bytes)
  /\ touched' = {} /\ UNCHANGED gaveUp

InUse == mfile # Absent /\ ~ gaveUp

Seek(offset, whence) ==
  /\ InUse
  /\ mfile' = Sought(mfile, offset, whence)
  /\ gaveUp' = Outside(mfile')
  /\ touched' = {}

ReadObjects(width, n) ==
  /\ InUse
  /\ mfile' = AfterRead(mfile, width, n)
  /\ touched' = Extent(mfile, width, Moved(mfile, width, n))
  /\ UNCHANGED gaveUp

WriteObjects(width, values) ==
  /\ InUse
  /\ mfile' = AfterWrite(mfile, width, values)
  /\ touched' = Extent(mfile, width, Moved(mfile, width, Len(values)))
  /\ UNCHANGED gaveUp

GetChar ==
  /\ InUse
  /\ mfile' = AfterChar(mfile)
  /\ touched' = mfile.pos .. AfterChar(mfile).pos - 1
  /\ UNCHANGED gaveUp

Resize(size) ==
  /\ InUse
  /\ \E fresh \in [mfile.size .. size - 1 -> Byte] : mfile' = Resized(mfile, size, fresh)
  /\ touched' = {}
  /\ UNCHANGED gaveUp

Close ==
  /\ mfile # Absent
  /\ mfile' = Absent /\ gaveUp' = FALSE /\ touched' = {}

FileNext ==
  \/ Open \/ Create \/ GetChar \/ Close
  \/ \E offset \in Offsets : \E whence \in {"SET", "CUR", "END"} : Seek(offset, whence)
  \/ \E width \in Widths : \E n \in Counts : ReadObjects(width, n)
  \/ \E width \in Widths : \E values \in Objects : WriteObjects(width, values)
  \/ \E size \in 1 .. MaxSize : Resize(size)

FileSpec == FileInit /\ [][FileNext]_file_vars

(* Whatever is sought, read, written and cut off in any order, no call     *)
(* touches a byte that is not of the file (mseek, mread, mwrite, mgetc,    *)
(* mresize).                                                               *)
AccessesInside == mfile # Absent => touched \subseteq 0 .. mfile.size - 1
=============================================================================
