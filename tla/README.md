# Verification of IceCC

IceCC compiles and decompiles StarCraft's `iscript.bin`, the byte code that animates its images.
`icecc` reads source files and `iscript.bin` files, merges them and saves one `iscript.bin`;
`icedc` loads an `iscript.bin`, extracts or separates headers and prints source; a Swing GUI runs
the two programs. The C code is sequential. What is hard about it is one data structure: a graph
of headers, labels and instructions with pointers in both directions, full of sharing and loops,
which is built from offsets or from text, merged, taken apart, copied, printed, and turned back
into offsets. Around it are containers and files with pointers and positions of their own, and two
commands that read and replace files and can fail at any step. Only the GUI is concurrent.

This directory models the operations on that graph, the library they are built on, and the two
programs as a whole in TLA+, model-checks them with TLC and proves most of what the runs check of
them, for programs and files of every size, with the TLA+ proof system.

    tlc -workers 2 -config IscriptLoad.cfg MCIscriptLoad     # one run
    tlapm IscriptLoadProofs.tla                              # the proofs of one module

## The system

| part | source | state | operations |
|---|---|---|---|
| loader | `iscript.c` 112-190, 1226-1800 | file position, queue of jump targets, `code`, `symtbl`, `headers` (globals) | `iscript_new`: `load_headers`, `init_bytecode_and_symtbl`, `read_code`, `new_symtbl_entry`, error paths |
| graph | `iscript.h`, `iscript.c` 552-780 | `IsHeader`, `IsSymTblEnt`, `IsInstr`, `IsAnim` | enumerations along `next`, `isinstr_reached_by`, accessors |
| merge | `iscript.c` 466-520, 984-1200 | two Iscripts; queues of instructions to free and to disconnect | `iscript_merge`, `iscript_remove_header`, `iscript_free` |
| separate | `iscript.c` 785-975, 1204-1222 | maps from old to new labels and instructions | `iscript_extract_header`, `iscript_separate_headers` |
| saver | `iscript.c` 191-460, `scdef.c` 123-412 | an in-memory file of 64K, relocation queue, offsets by label id | `iscript_save`, `msave` |
| compiler | `icecc.c` | tables of headers, names and labels, relocation queue, `bad_labels` | `iscript_compile`: parser, verification, relocation, removal of labels; `main`: the loop over inputs |
| decompiler | `icedc.c` | names by label id, queues `todo` and `longjmps`, set `done` | `iscript_printer`; `main`: options, separation |
| containers | `hashtable.c`, `list.c`, `queue.c` | buckets, links, a dangling `end` | insert, find, enumerate, put back, remove |
| memory file | `scdef.c` 123-413 | bytes, size, position | open, create, seek, read, write, resize, save |
| tokenizer | `tokenizer.c` | a buffer of two lines, a saved character | next token |
| opcodes | `iscript-instr.c` | a constant table | reading and writing arguments |
| resources | `dat.c`, `tbl.c`, `icedc.c` 332-634 | arrays and strings of a file; eleven tables made of them | load, free, look up |
| options, configuration | `icecc.c` 1236-1326, `icedc.c` 1084-1245, `icecc-share.c` | input and output names, lists of entries, the directory of resources | `get_args`, `load_config_file` |
| debug allocator | `scdef.c` 441-560 | list of allocations | allocate, free, assert |
| GUI | `com/campaigncreations/IceCCUI/` | preferences, file lists; a thread and a child process for each click | run a program, show its errors; layout |

How they interact: everything is a call, except that the GUI runs the two programs as processes and
reads their output through pipes. The parts share the object graph. The loader and the compiler
make one; merging and separating change it and rely on the back pointers that its makers (and the
operations before) left; the printer and the saver read it. So a back pointer that is missing or
one too many in one part shows as lost code or a freed object in another.

What makes each part right, and what is hard about it:

* **Loader**: it reads the code that the animations reach, all of it and no more, through jump
  cycles and code shared by animations; links it in the order of execution; refuses malformed
  files and no others; ends. Hard: one loop, three places that take up the queue, error paths that
  free what was built so far.
* **Merge**: the last definition of a header wins, whatever it shares with others; nothing dead
  stays, nothing is freed twice, pointers agree afterwards. Hard: it decides what to free by
  going backwards through a graph that it is taking apart.
* **Separate**: each header gets a faithful copy of its own. Hard: recursion through jumps that
  lead back into the chain being copied.
* **Saver**: the file says what the graph says; no piece overwrites another; what fits is saved.
  Hard: chains entered in the middle, relocation of three kinds of address, the size limit.
* **Compiler**: it refuses exactly the sources in error, and keeps the meaning of the others. Hard:
  labels used before they are defined, doubled, or removed with code that falls into live code.
* **Decompiler**: the text is a source that says the same. Hard: two queues decide where a routine
  is printed; names must be unique.
* **Library**: containers do what their names say, however often addresses are handed out again; a
  file is only accessed inside; a resource is loaded as it stands in its file; tokens do not depend
  on where lines are cut. Hard: cells that move under pointers, a position that is moved before it
  is checked, a token that is longer than a line.
* **Commands**: a command that succeeds wrote what its command line asks for; one that fails, or is
  killed, changed nothing but its output. Hard: four ways to set one directory, two of them in any
  order; partial failure of a dozen files; output that is opened before it can be known to succeed.
* **GUI**: a command that ends lets its thread end; the user sees the errors. Hard: two pipes read
  one after the other, an exit status that is not there yet.

`PROJECT.json` lists the hazards line by line, with the properties that cover each.

## The modules

`MC*` modules only give constants their values. An action is one step of the C function: one turn
of a loop, one branch of it. Recursive functions are a stack of frames. An object is named by where
it came from (the offset or line of its instruction or label, and the Iscript that allocated it), so
that "freed" is "not in the domain of the heap" and a dangling pointer is visible.

**IscriptLoad** is `iscript_new`. A file is its size, its header table and, for each offset, the
instruction that decoding there gives: overlapping and undecodable code included. `ReadTableEntry`,
`TableEnd`, `ReadHeader` are `load_headers`; `EnterHeader`, `SkipAnim`, `EnterAnim`, `LeaveHeader`
are the loops of `init_bytecode_and_symtbl`; `SeenBefore`, `ReadFails`, `ReadNormal`, `ReadJmp`,
`ReadCondJmp`, `ReadTerm` are the branches of `read_code`, with `Return` and `Pluck` for what it
does with its queue; `LinkSkip`, `LinkInstr`, `Rehash` are the passes after the walk; `Fail` is
every error path. The loops over hash tables leave the order open.

**Archive** is what the operations on graphs promise: an archive of scripts, one for each header id.
The scripts of an input are put in one by one (`Discard` what is there, `Define` it anew), and no
step changes the script of another header. Two modules implement it, with the scripts that their
graph spells as refinement mapping (`Script`: where the animations start and, for every
instruction that execution reaches, what follows it and where it jumps): IscriptMerge, for which
the inputs are the loaded files, and IscriptSeparate, for which the archive stays as it is.

**IscriptGraph** holds the object graph, the graph that the loader builds for a program
(`LoadedGraph`; what the run `load` establishes of the loader's result is what it states of next,
prev, labels and back pointers), `isinstr_reached_by` (`ReachedBy`), and the agreements between
pointers that the properties of the other modules are made of (`InstrsAgree`, `LabelsAgree`,
`HeadersAgree`, `SymTblAgrees`).

**IscriptMerge** is `main` of icecc over its inputs: `ReadInput`, `MergeHeader`, `MergeLabel`; the
removal of a header that is replaced (`RemoveEntry`, `Leave`, `NextInstr`, `AfterLabel`,
`AfterJump` are the recursion; `FreeInstr`, `Disconnect`, `RemoveLabels` work off its queues);
`FreeIscript`. A step of Archive takes many here; the header being removed counts as gone from the
start of its removal, and every other header must keep its script through all of it.

**IscriptSeparate** is `iscript_separate_headers`: `ExtractHeader`, `CopyEntry`, `CopyInstr`,
`ChainEnds`, `ChainJoins`, `CopyJump`, `MergeSingle`.

**IscriptSave** is `iscript_save` and `msave`, one step for each piece that is written: `Start`;
`WriteHeader`, `WriteSlot`, `SlotsWritten`; `NextAnim`, `NextLabel`, `Loop`, `WriteInstr`,
`HeaderWritten` for the code of a header; `SeekTable`, `WriteEntry`, `EndTable`; `Relocate`,
`PointToTable`, `MSave`. The file maps offsets to what was written there. Each step that does not fit
fails by itself, so what was written before it stays to be seen.

**IscriptSource** is the language of the two programs: what a line is, which sources have no error
(`WellFormed`), and what they mean, read off the lines without a parser (`Blocks`, `Target`, `Flows`,
`Executed`).

**IscriptCompile** is `iscript_compile` over lines: `HeaderStart`, `HeaderVar`, `HeaderEnd`,
`ReadNames`, `ReadInstr` parse and verify; `Relocate` works off the uses of names;
`CheckLabel`, `RemoveLabel`, `FreeInstrs` remove what nothing leads to. Its properties compare the
result with what the source means. Where the code reads the id of a label that it has freed, the model
chooses what is read (`IdRead`), and `misread` records that the word was the id of another label.
What the properties say of the result they say of executions without that.

**IscriptCompileSteps** extends it with the searches that IscriptCompile takes in one step. It is
`isinstr_reached_by` (`Back` and `Visit` are a turn of the loop backwards, `FollowJump` and `Visited`
the loop over the jumps to a label and the return from it; the two functions call each other, so there
is a stack) at the two places that call it in the compiler: the check of a label (`CheckStarts`,
`CheckEnds`) and the loop of `err_remove_label` (`RemovalStarts`, `LoopStarts`, `LoopEnds`). All else it
leaves to IscriptCompile, which it implements (the run `compile` is of IscriptCompileSteps, the theorems
are about IscriptCompile): a label that is being checked counts as queued, if
it will be, and a chain that is being removed as freed, as far as it will be (`BadLabels`, `Freed`).

**IscriptPrint** is `iscript_printer`: `NameLabel`, then headers, chains and long routines. What it
prints is a source in the sense of IscriptSource, which it instantiates (`Source`) to say what its
lines mean: the decompiler is checked against the language that the compiler is checked against.

**GuiExec** is the Swing GUI as far as it runs programs: `HandleCompile`, `HandleDecompile`,
`HandleOpenWithEditor`, `OpenInEditor` are the clicks, `Exec` ... `WaitFor` are
`ExecuteThread.run`, and `ChildWrites`, `ChildCloses`, `ChildExits` the process, as the
operating system runs it, with two pipes of bounded size. `ReadFails` is an exception while reading,
after which the thread is over.

**Pointers** declares the null pointer of all of them. **Queues**, **Lists** and **HashTables** are
the containers with their pointers, over the heap of **Cells**: `malloc` returns any free address,
also one freed before, so a pointer left behind may point to a new cell. The numeric and the object
variants share a module where their code is the same. They implement **Fifo**, **Listing** and
**Dictionary**: a sequence, a sequence with an enumeration, and a stack of pairs for each name;
**Containers** instantiates one of each and says so. What
the clients never do is not done: insert after something was put back (`icecc.c:543`, 635, 1318),
use an enumeration after the table or list has changed.

**MemoryFile** has the operations of `scdef.c` on bytes, little end first, as operators that other
modules use; **MemoryFileClient** calls them in any order, on files of up to `MaxSize` bytes, and gives
up on a file when a seek fails, as every caller in the code does. `Offsets`, `Counts` and `Objects` are
what it seeks, reads and writes.

**ResourceFiles** is `tbl_new` and `dat_new` over a MemoryFile: `Open`, `Count`, then `Pointer` and
`Character` for each string, or `Variable` for each array; and the getters. The buffer for a string
has `TBL_STRING_MAX_LEN` characters and is written to without a look at its end: `Overrun` is where the
code writes behind it, and the model stops.

**Tokenizer** is `tokenizer_next` over characters: `Call`, `Fill` (a line, or a piece of a long one),
`Skip`, `Scan`.

**CommandLine** is `get_args` of both programs and `load_config_file`: `Argument` is a round of the
loop over the arguments, `OpenConfig` and `ConfigLine` read the configuration, `Settled` is what comes
after it.

**ResourceTables** is `init_resource_tables` and `free_resource_tables` of icedc, one action for each
group of files. Every string has an owner, the file it points into or the table itself.

**Programs** composes them (it extends CommandLine and instantiates ResourceTables) to the `main` of
icecc (`Input`, `Save`, `Write`) and of icedc (`LookUp`, `Load`, `Extract`, `OpenOutput`,
`PrintOutput`) over a disk that outlives them: `Run` starts a command, `Kill` ends it at any step,
`Reap` returns to the shell. Loading, compiling, merging, printing are one step each, on archives of
scripts: that is what the other modules show of them. `unnoticed` records a write that failed
without the program looking.

Theorems and their proofs are in modules of their own: **IscriptLoadProofs**,
**IscriptMergeProofs**, **IscriptSeparateProofs**, **IscriptSaveProofs**, **IscriptCompileProofs**
and **IscriptPrintProofs**, each about the module of its name, IscriptLoadProofs about
MemoryFileClient, Queues, Lists and HashTables as well, **ProgramsProofs** about Programs, GuiExec
and Tokenizer, and **IscriptGraphProofs** with the facts about IscriptGraph that those about the graph rest on. MC
modules do not reach them.

## The runs

| run | what it shows | distinct states |
|---|---|---|
| `load` | the loader reads exactly what can be executed (`NothingUnreachable`, `NothingMissed`), builds pointers that agree and labels that are found by their id (`PointersAgree`), links in the order of execution (`LinkedAsExecuted`), refuses only malformed files (`LoadsWellFormed`) and ends (`LoadEnds`) | 150 793 |
| `merge` | it is an archive in which the last definition of each header wins and the others stay, at every step (`ImplementsArchive`); after every merge there is no dead code (`NoDeadCode`), pointers agree (`MergedAgree`); the backward search is exact, also in the middle of a removal (`ReachedByIsExact`); nothing is freed twice (`FreedOnce`); it ends (`MergeEnds`) | 105 903 |
| `separate` | the archive stays as it was (`ImplementsArchive`): each header has a faithful copy, of its own (`NothingShared`), in a consistent graph (`SeparatedAgree`); it ends (`SeparationEnds`) | 103 428 |
| `save` | in both layouts the file says what the graph says (`SavedIsTheProgram`), pieces are disjoint and inside the file (`PiecesDisjoint`), only what is too big is refused (`SavesWhatFits`); it ends (`SaveEnds`) | 286 326 |
| `compile` | sources with an error are refused, and only those (`RefusesErrors`); of the others the result is the program they say (`CompiledIsTheSource`), without dead code (`NoDeadCode`), with pointers that agree (`CompiledAgree`); the last three unless the id read in a freed label is another's; its searches, taken step by step, find what IscriptCompile finds in one (`ImplementsCompiler`), and end on code that jumps and falls in circles (`CompileEnds`) | 784 489 |
| `print` | the text means the program, has a name of its own for each label and every instruction once (`PrintedIsTheProgram`) unless something is lost (see `print_long`); it ends (`PrintEnds`) | 245 634 |
| `gui` | errors are shown complete and in order, by a thread that asks for the exit status when there is one (`ErrorsAreShown`); commands and their threads end (`CommandsEnd`) | 22 201 |
| `library` | queues, lists and hash tables do what they promise (`ImplementsFifo`, `ListsImplementListing`, `TablesImplementDictionary`); memory files are accessed inside (`AccessesInside`); tbl and dat files are loaded as they say, or refused because they are too short, and exactly those with a string that does not fit overrun the buffer (`ResourcesLoaded`); the tokens are those of the text (`TokensAreTheText`) | 26 914 |
| `programs` | a command that succeeds has written what it was asked for (`OutputIsWhatWasAsked`); no command touches another file, and one that fails leaves or removes its output (`FailureKeepsFiles`); the resource tables are there all or none, with strings of their own (`TablesWhole`) | 345 848 |

Three runs show where the code and its own comments or documentation disagree; TLC finds the
property violated:

| run | what a comment or the documentation says | what the code does |
|---|---|---|
| `load_free` | `scdef.c:496`: memory must not be freed twice | `iscript.c:1631` frees the offsets of a header and keeps the pointer; a later failure frees them again |
| `merge_stale` | `iscript.c:1018`: "safe to free me" | the freed instruction is written to when its label is disconnected (`iscript.c:1032`) |
| `print_long` | `NOTES.txt:110`: decompiled text compiles back | code that only a long routine jumps to is not printed (`icedc.c:971`) |

Other deviations, found while modelling, which the models have and no run is about:

* `IceCCUtil.java:395` reads stdout "so it doesn't block", but only after stderr has ended (391): a child
  that fills the pipe of stdout first (`icedc -o "-"`) stops for ever, and its thread with it. GuiExec has
  such a child, and `CommandsEnd` leaves it out.
* `iscript.c:1495` passes `i`, left over from the loop over the arguments, where the number of the
  animation is meant (`iscript.h:37`). Only a sanity check reads it.
* `icecc.c:989-996` frees jumps and leaves them in the list of the label they jump to (`iscript.h:51`).
* A token that fills the buffer of the tokenizer makes it return NULL (`tokenizer.c:91`), which its
  callers take for the end of the file: the rest of the source is not compiled, without a message.
* A string of a tbl file is copied to a buffer of 256 characters whatever its length, and one that
  does not end is read for ever (`tbl.c:102`). `datentlst_new` does the same with lines (`dat.c:506`).
* Entry numbers of icedc (`-m`, `-p`, `-f`, `-u`) index the tables unchecked (`icedc.c:1231`).
* `icedc` looks at none of its writes, `msave` not at `fclose` (`scdef.c:191`): an output can be cut
  short by a command that exits with 0. A save that fails removes an older output.
* The default path of sfxdata.dat is that of sfxdata.tbl (`icecc-share.c:46`); it counts only when no
  configuration sets a directory.
* A list in an option may use `,`, `;`, space or tab up to its second entry, then only `,`
  (`icecc-share.c:216`, 226). The limit of ten messages lets eleven through (`icecc.c:329`).
* `imagesent_to_isturning` is read at -1 for a script that no image uses (`icedc.c:243`), `images.lst`
  beyond its end if it is shorter than `images.dat` (`icedc.c:393`), and `dat.c:275` allocates the size
  of a pointer for a Dat.

### Bounds

Every run enumerates all programs (or files, or sources) of a few instructions under a handful of
header tables, instead of choosing examples.

* `load`: files of 5 bytes, offsets 1 to 4 filled in every way with instructions of length 1 and 2,
  jumps and conditional jumps forwards and backwards, and terminal instructions; two tables (shared
  code; two headers and an empty animation). A second family has everything that can be
  wrong: unreadable headers, a table without its mark, jumps and animations beyond the end, bytes
  that are no opcode. Four places are enough for two cycles, for code that is entered in the middle,
  for instructions that overlap, and for a queue that outlives a jump. `LOCAL_JMP_DISTANCE` is 1
  instead of 0x200, so that both kinds of jump occur.
* `merge`: programs of three instructions with two headers, followed by inputs that replace one
  header (by a loop), both (by code they share), or both and then one again.
* `separate`, `save`, `print`: programs of four instructions, headers that start in the middle of
  each other's code. In `save` lengths are odd and even (headers are aligned) and `MaxSize` is 60
  (0xFFFF in the source), so that some programs do not fit, at every stage of the saving. In
  `print` headers have one name, and the program has a gap that makes jumps long or none.
* `compile`: four lines of code out of nine, with labels that are doubled, unused, defined after
  their use or not at all, in chains that jump and fall into each other in circles, also where no header
  leads; after one header, after two, or around one; and one source for each error.
* `gui`: two clicks, five commands, pipes of two lines: one command fills its error pipe,
  one its output pipe, one writes to both in turn, one never ends.

* `library`: one part at a time. Containers have four addresses, so that they are handed out again
  while pointers to them are still around; two objects, or numbers beyond 2^16; four keys of three
  names in three chains, with two names that collide and an empty chain between. Memory files have up
  to four bytes, seeks go from four before to four after the place they start from, and up to two objects
  are read or written, so that objects of every width fit, just fit and do not. tbl files have up to two
  strings that overlap, end or do not, and are shorter than the buffer (three characters with the 0), just
  fit or do not; dat files up to nine bytes for two formats. Streams have up to
  seven characters and lines two, so that tokens span two pieces and are too long for the buffer.
* `programs`: two commands, of which the second reads what the first left, out of about 70 command lines
  with every option of both programs, in conflicting orders; four disks; a kill after any step, and a
  failure of every file at every step.

Distances, lengths and sizes are CONSTANTS. Ids are given in the order of counters and no run gets
near 2^16 of them, where the saver truncates them (`iscript.c:352-358`). The theorem about saved files
covers it: the truncation is in the model (`Key`), and the proof has to show that a program with so
many labels cannot fit a file of 64K.

### Fairness

The C programs are sequential and nothing blocks them: `FairSpec` (`StepsSpec` in
IscriptCompileSteps) is weak fairness of the next-state relation, and
deadlock is checked, with an explicit `Stopped` or `Exited` step where a program returns. What the
liveness properties then show is that loops and recursions end on code with cycles. In GuiExec the
Java scheduler runs every thread and the operating system every process: weak fairness for each
`Thread(t)`, and for each child whose command ends by itself. A click is never fair, an editor may
stay for ever, no read has to fail (`ReadFails` is outside of `Thread`), and a child that fills its
output pipe does block: therefore deadlock is not checked there, and `CommandsEnd` is stated for commands whose output fits the pipe. The C programs
write little to stdout except for `icedc -o "-"`. Library and Programs have no liveness: their loops
run over sequences that only get shorter, and a tbl file that does not end is read for ever. They
stop where a part has nothing more to do, so deadlock is not checked.

## The proofs

| theorem | states | for every |
|---|---|---|
| `LoadTypeCorrect` | `TypeOK` of IscriptLoad: the reader, the instructions and their links stay inside the file | set of files |
| `ReadsOnlyReachable`, `ReadsEverything` | `NothingUnreachable`, `NothingMissed` | set of files |
| `WellFormedIsLoaded` | `LoadsWellFormed` | set of files |
| `PointersDoAgree` | `PointersAgree`: jumps, animations and their labels, and the table of labels by id | set of files |
| `LinkedInOrder` | `LinkedAsExecuted`: next and prev of files whose instructions do not overlap | set of files |
| `MergedGraphIsSound`, `ExactlyTheDeadIsFreed`, `NothingIsFreedTwice`, `ReachedByFindsTheHeaders` | `MergedAgree`, `NoDeadCode`, `FreedOnce`, `ReachedByIsExact` of IscriptMerge | sequence of programs |
| `IceccImplementsTheArchive` | `ImplementsArchive` of IscriptMerge | sequence of programs |
| `SeparatedGraphIsSound`, `SeparatedHeadersShareNothing` | `SeparatedAgree`, `NothingShared` of IscriptSeparate | program, ids to separate |
| `SeparationImplementsTheArchive` | `ImplementsArchive` of IscriptSeparate | program, ids to separate |
| `NothingOverwritten`, `SavedFileIsTheProgram` | `PiecesDisjoint`, `SavedIsTheProgram` | program, lengths of instructions, size limit |
| `CompilerRefusesErrors` | `RefusesErrors` of IscriptCompile | source, header types |
| `CompiledTextIsTheSource`, `CompiledHasNoDeadCode`, `CompiledGraphAgrees` | `CompiledIsTheSource`, `NoDeadCode`, `CompiledAgree` of IscriptCompile: what they say of compilations in which no id read in a freed label is another's | source, header types |
| `NamesAreUnique`, `PrintedSaysTheProgram` | `NamesUnique`, `PrintedIsTheProgram` of IscriptPrint (the first is a part of the second, but holds when something is lost too, and before the end) | program, gaps, names of headers |
| `FilesAccessedInside` | `AccessesInside` of MemoryFileClient | size of files, offsets, numbers of objects |
| `QueuesAreFifo` | `ImplementsFifo` of Queues | items, finite set of addresses |
| `ListsAreListings` | `ListsImplementListing` of Lists | objects, finite set of addresses |
| `TablesAreDictionaries` | `TablesImplementDictionary` of HashTables | keys, names, hash function, number of chains, finite set of addresses |
| `NoErrorLost`, `GuiTypeCorrect` | `ErrorsAreShown` and `TypeOK` of GuiExec | number of clicks, commands, size of the pipes |
| `TokensAreThoseOfTheText` | `TokensAreTheText` of Tokenizer | text, length of lines, delimiters |
| `TablesAreWhole`, `FilesAreKept`, `OutputIsAsAsked` | `TablesWhole`, `FailureKeepsFiles`, `OutputIsWhatWasAsked` | sequence of commands, configuration, directory |

They hold for programs, files, command lines of every size. What they assume of the constants is
named in the modules, and TLC evaluates it in the runs:

* `LoadAssumption`: files are of the form `IsFile`, `NULL` is no integer, the jump distance is a
  natural number.
* `NullAssumption` (`NULL` is no pair of numbers, the name of an object) and, for the inputs of
  merging, separating, saving and printing, that they are programs (`IsProgram`: a finite sequence
  of instructions, finitely many headers, and code that stays inside when it is executed from a
  header's animations). The loader and the compiler refuse anything else (`LoadsWellFormed`,
  `RefusesErrors`). For saving also that a jump is longer than the address in it and that `MaxSize`
  is below 2^16. For printing (`PrintAssumption`) also that a header has at least one animation and
  at most `MaxAnims`, the most a header type has in the table of `scdef.c`; that gaps are between
  instructions; and that `NULL` is neither a number nor a name.
* `NumAnimsAssumption`: there are finitely many header types, each with at least one animation (the
  table in `scdef.c` that the compiler verifies headers with); `CompileAssumption`: a source is a
  finite sequence of lines of the form `IsLine`, with or without errors, and `NULL` is no line
  number.
* `TokenizerAssumption`: a text is a finite sequence, a line has at least one character, and no
  delimiter is a token of its own.
* `MemoryFileAssumption`: bytes are numbers up to 255, offsets are integers, objects are natural
  numbers.
* `CellsAssumption`, `QueuesAssumption`: there are finitely many addresses, `NULL` is none of them,
  and items of queues are natural numbers. `ContainersAssumption`: `NULL` is no item of a list
  (`ListsAssumption`), a hash table has at least one chain, and hashes are natural numbers
  (`HashTablesAssumption`).
* `GuiAssumption`: pipes hold at least one line; a command writes a finite number of lines.
* `ProgramsAssumption`: the files of the disk are archives; the entries of dat files are 16-bit
  numbers that refer by integers; every value of an option names what the option needs, a directory
  or a list that there is, and so do the lines of configuration files. The last is the abstraction
  of the model, which has no paths that lead nowhere; that files cannot be read is a step of its
  own.

None of the properties is inductive, except for the types and `NamesUnique`. What each needs in
addition was written down as an invariant, checked by TLC in the run of its module, and then proved
step by step:

**Loader.** `NothingMissed` says nothing of what the queue will bring. `WalkInv` adds that.
*WithinReach*: what is read, and what is ahead (the position and the queue), is in every set that
holds the animations and is closed under control flow. *Frontier*: a successor of what was read is
read or ahead. *HeadersWalked*: the animations of headers and numbers already passed have been read,
and which state the offsets arrays are in. Reachability is stated with closed sets. The steps are
first summarised (`NextAdvances`: every step `Advances` the walk or `Fails`), and the invariants of
the walk follow from the summary alone; at the end nothing is ahead, so *Frontier* closes the code.
`WellFormedIsLoaded` follows from the same invariant: where the loader fails, what it was going to
read is within reach. `PointersInv` says who knows whom while labels are being made. `LinkInv` is
about the pass that sets next and prev from the order of offsets: what is behind it is linked as
executed, and its pointer to the last placeholder is the one instruction that waits for its
successor.

**Merging.** `MergeInv` says that the graph is at any time the loaded graphs cut down to what the
headers alive execute, instruction by instruction (`HeapInv`), that each header is the one of the
last input that had it (`HeadersInv`) and that the symbol tables are those of the inputs
(`SymtblInv`). In the middle of a removal that is not so, and `WalkInv` takes its place: every label
that `iscript_remove_header` has visited, and every instruction after one that it has queued, is
kept by another header, queued as well, or awaited by an activation on the stack. When the stack is
empty this makes the set of queued instructions closed, so it is all that only the removed header
executes. Loops are why it must be said of all activations together: one activation may leave to
another, further down, what it has found visited. `FreeInv` carries the two queues through the
freeing. `isinstr_reached_by`, going backwards by prev and by back pointers, is exact because those
are exact in a graph of this form; half freed graphs included. The refinement of Archive maps each
step to one of its steps or a stutter: as every header alive keeps the code that it executes,
`ArchiveHolds` gives its script in the graph, and the removed header has gone from the archive at
the start of its removal.

**Separating.** `SeparateInv` says what a partial copy is. What has been copied for a header is a
set of its instructions and one of its labels (`CopiedCode`, `CopiedLabels`), found by the queues of
those visited (*VisitedInv*); ids are given once (*IdsInv*). Each copy is, field by field, what it
will be in the end, except for the links that activations on the stack owe: the `next` of an
instruction whose successor is still to be copied, and the `jump` of one whose label is being copied
(*CopyInv*, `NextOpen`, `JumpOpen`). What the activations owe, each waiting for the one it has
called, is *StackInv*. With an empty stack nothing is owed, so what is copied is closed under
control flow and therefore all that the header executes (`AllIsCopied`), and nothing else: the
copies of extracted headers are complete (*ExtractedInv*), and nothing but them and the one being
made is there (*DomainInv*, *SymtblInv*). In the refinement Archive reads its input when the first
header is taken, defines a header where its copy is merged, and the copying between them stutters.

**Saving.** *Laid* is the layout: pieces are apart, below the position (or below `end_of_file` while
the table is written into the room in front), and what the relocation queue holds are addresses.
*CodeInv* says what is owed: an instruction is written after the one that falls into it, at most
once, and the target of what is written is written, in the queue, or ahead in the chain being
written. *FileInv* ties headers, slots, table entries and relocations to the places where they were
written. When the queue of relocations is empty no address is open. Ids are looked up modulo 2^16:
that two labels are not confused is proved from the size of the file.

**Compiling.** `CompileInv` relates what the compiler holds to the lines read so far. `GraphInv` is
the centre: after n lines each header, instruction and label of those lines is there, field by field
(`HeadersTo`, `CodeTo`, `LabelsTo`), the table of names holds the names whose label has been read
(`TableTo`), and a use of a name is either connected, in both directions, or waits in the relocation
queue (`EntryIs`, `JumpIs`, `UsesTo`). Labels that are read before their instruction are *Pending*.
Every line either keeps this for n + 1 lines or shows an error of the source (`error =>
~WellFormed`), so that at the end, with nothing waiting, what is there is complete, and a complete
graph shows that the source has no error (`Complete`, `CompleteIsRight`). For the removal,
`ReachedExact` says that `isinstr_reached_by` finds a header for exactly the instructions that are
executed, in any graph that has lost only labels that may go (`MayGo`: no header enters them, and
nothing jumps to them or they are not executed). A label may be queued for one reason and removed
while others that jump to it are still there. `RemoveInv` carries what has been freed: only what is
not executed, and with an instruction what it runs into, unless that is executed. When the queue is
empty every label that is not executed has gone with its code, and the rest is reached from these by
falling through (`AllIsFreed`).

**Printing.** `FreeName`: a free number is found among as many as there are names plus one, by
counting. For the text, `PrintInv` puts together what it relies on. *HeadInv*: every header printed
has its block of lines, and all other lines are code. *CodeInv*: a line of code names the
instruction in the next line, or is an instruction that comes after its name or after the one that
falls through to it; none is printed twice; what an instruction falls through to is in the next line
of code or is where the printer stands; a label is in `done` if and only if its instruction is in
the text; and an instruction is there only if the one before it in its chain is. The last is what
makes the end of a chain right: the printer stops at a label it has done, and what that label's
chain goes on to has been printed with it (`OwedSkips`). It rests on `isinstrenum_rewind` going back
to the start of a chain, in as many steps as there are instructions at most (`RewindFacts`).
*OwedInv*: what a line of the text leads to is done, queued in `todo` or in `longjmps`, ahead in the
chain being printed, or an animation of the header at hand that is still to come. At the end
`longjmps` is empty and, unless something is lost, what is left in `todo` is done; so the lines are
closed under control flow and hold all the code (`AllIsPrinted`). From there on the proof reads the
text with the definitions of IscriptSource, as icecc does: the blocks are those of the headers
(`BlocksAre`), a name marks the line of its instruction (`TargetIs`), a line leads to the lines of
what its instruction leads to (`FlowsAre`).

**Memory files.** `FileInv`: as long as no seek has failed the position is inside the file or at its
end, and the array is as long as the size says. Every read and write moves as many bytes as are left at
most (`Moved`), so it touches no other and keeps the position inside.

**Queues.** `QueueInv`: there is a sequence of different addresses, all that are in use, whose cells
are linked from `front` to `NULL` (`Linked`), and as long as nothing was put back `end` is the last
of them. The walk by which Cells finds the chain ends there because there are as many cells as steps
(`ChainFindsThem`). Insert, PutBack and Remove then are Append, cons and Tail on the sequence
(`LinkAtEnd`, `LinkAtFront`, `CutAtFront`), and on the items in the cells. An `end` that dangles
after the queue has run empty is no part of the invariant: Insert does not look at it in an empty
queue, and after a PutBack nothing is inserted.

**Lists.** `ListInv`: the cells are linked from the caller's pointer, as those of a queue are, and an
enumeration is at one of them or over; or it is an ObjList of one cell without a head
(`IsUnfilled`), which is how an empty one is kept. The pointer of the caller stays where it is when
the first item changes: inserting moves the content of the first cell to a new one (`Shifted`),
removing moves the second's into the first (`Beheaded`). So not the sequence of cells but that of
their contents is what Listing has, and the lemmas about both are stated on the contents
(`FromLinked`). Removing a later item only goes around its cell.

**Hash tables.** `TableInv`: at every place of the array there is a chain of buckets whose keys belong
there, and no bucket is in two (`Chained`). Dictionary knows names and no chains, and a chain may
hold several names: `NamesOrdered` gives, for each name, the places of its buckets in its chain, in
order. Inserting in front moves all places of that chain one on (`TableInserted`), removing the
newest bucket of a name moves those behind it one back (`TableRemoved`) and leaves those of other
names where they are. `Walking`: an enumeration is at a bucket, or over. What it has still to give
is the rest of that chain and the chains of the places to come, and a step takes one pair from that
(`AdvanceIs`, `OnePlace`), also when the next chains are empty. That picking the buckets of a name
out of a chain, which `BucketsOf` does bucket by bucket, finds those at these places is `OwnFound`.

**GUI.** `GuiInv`, for each thread: what was read and what is in the pipe are together the lines
written to stderr, in order; a thread past stderr has a child that closed it.

**Tokenizer.** `TokenizerInv`: there are a number of characters read and a number done, and the tokens
returned are those that start in the part of the text that is done. What the buffer holds ends where
the text read ends, and the place in it is the one after what is done, whatever was moved to its
front. A token that has started is the next one of the text, all of it ordinary characters so far, so
that where it ends does not depend on the pieces it came in.

**Commands.** `Inv` says, phase by phase: the options that the arguments passed so far have set are
those that these arguments mean, read as a whole (`Parsed`), and the same of the lines of the
configuration (`Configured`); the inputs read so far are merged, the last one that has a header
winning (`Merges`); the ids extracted and those still to do are those asked for (`ReadInv`); only
the output may differ from the files before (`FilesInv`); the tables that there are hold what the
files say, with strings of their own, and the others are those of the steps to come (`TablesInv`,
`TablesSay`). `OutputIsAsAsked` is the end of it. That the meaning of a command line can be defined
as a whole, by a recursive function of its arguments, is proved first (`ValuesExist`).

### Only model-checked

* `ImplementsCompiler`: the proofs about the compiler take `isinstr_reached_by` and the loop of
  `err_remove_label` in one step, as IscriptCompile does; that these searches compute this is checked.
* Termination (`LoadEnds`, `MergeEnds`, `SeparationEnds`, `SaveEnds`, `CompileEnds`, `PrintEnds`,
  `CommandsEnd`) rests on fairness, which the provers do not reason about.
* `SavesWhatFits` is about a sum over a set of instructions, which the library defines by a fold
  with an operator as parameter; its laws are induction theorems that cannot be instantiated.
* `ResourcesLoaded`: not proved, although nothing stands in the way but its length.

Induction is used as the least number of a set (`LeastNumber`, `SmallestNumber`), as theorems with
an operator as parameter cannot be cited. So facts about recursive functions, such as `Closure` of
IscriptGraph, are proved (IscriptGraphProofs: `Closure` is the least closed set above its start),
and facts about the folds of the library are not.

## What is not modelled

* Formatting and scanning above the tokenizer: comments and numbers in sources, opcode names and
  argument values. A line is right or in error, an instruction has a kind, a length and a target.
* The header type table: a header has as many animations as its file or source gives it (the
  compiler has `NumAnims`).
* The comments that icedc prints from its tables; the format tables of `dat.c`; `tbl_save`,
  `dat_save` and the setters, `list_remove` and `objlist_swap`, which have no caller;
  `icecc-utils.c`, which only a debugging routine calls.
* Lengths of names: paths and options are cut at 199 to 299 characters, and lists of names are read
  to buffers of fixed size.
* `isinstr_reached_by` step by step in merging: IscriptMerge takes it in one, `ReachedBy`; its steps are
  those of IscriptCompileSteps.
* A 32-bit width that is not: `uint32` is `unsigned long` (`scdef.h:8`, "must be 32 bits wide"). Where
  that has 64 bits, `mread` of four bytes is no case of its switch and reads nothing.
* In printing, a jump that is long because of the instructions in between: distances come from gaps. And
  the names `jump00`, `jump01` of labels without back pointers (`icedc.c:722-728`): the loader gives
  each label one when it makes it (`iscript.c:887`), for a header's animation or for a jump.
* Merging what the compiler made: its labels may list freed jumps (see above), and the inputs of
  IscriptMerge are loaded files.
* The debug allocator's bookkeeping. What matters of it (nothing freed twice, nothing used after it
  is freed) is stated directly.
* What `iscript_free` leaves allocated because of an inverted test (`iscript.c:484`).
* Two commands at the same time: the GUI starts one for each click (`CompilerPane.java:133`), and
  nothing keeps them from writing the same file.
* Failing allocations, which end the programs.
* Layout, dialogs and preferences of the GUI, and how it puts command lines together.

## Plan

Done: the modules on the graph and their refinements of Archive, the library with Fifo, Listing and
Dictionary, the commands; the theorems above. The rest, in this order:

1. Archive itself: a header that no later input has keeps the script of the last input that had it.
2. `ImplementsCompiler` as a theorem: what a search has not yet visited is ahead, on its stack.
3. Round trip: the file that IscriptSave writes, read by IscriptLoad, gives the graph again; today
   the two meet only in `LoadedGraph` and `SavedIsTheProgram`.
