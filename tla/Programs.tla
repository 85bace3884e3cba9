------------------------------ MODULE Programs ------------------------------
(***************************************************************************)
(* icecc and icedc as commands (the main functions of icecc.c and          *)
(* icedc.c): one after the other they read and write the files of a        *)
(* directory.  What the loader, the compiler, the merging, the separation, *)
(* the printer and the saver do is what their modules show of them: an     *)
(* Iscript is here the archive of its scripts (Archive).  A command may be *)
(* killed at any time.                                                     *)
(***************************************************************************)
EXTENDS CommandLine, Functions

CONSTANTS
  MaxCommands,  \* how many commands are run
  Name,         \* the names of files
  Disks,        \* the files there may be at first: name -> File
  Stdin,        \* what icecc reads from "-"
  Compiled,     \* the names that end in .bin
  Bin,          \* of each directory, the name of its iscript.bin
  Resources,    \* of each directory, what its dat, tbl and lst files say
  Anything      \* what may be read outside a table

(* A file: a program in either form, what was written of one, or none. *)
File(form, scripts) == [form |-> form, scripts |-> scripts]
NoFile == File("none", <<>>)
On(a_disk, name) == IF name \in Name THEN a_disk[name] ELSE NoFile

IsFile(f) == f = File(f.form, f.scripts) /\ f.scripts = Restrict(f.scripts, DOMAIN f.scripts)

(* Entries have numbers of 16 bits and refer by numbers. *)
Entry == 0 .. 2^16 - 1
References == {"sprites.dat", "flingy.dat", "units.dat"}
IsResources(says) ==
  /\ \A f \in References : DOMAIN says[f] \subseteq Entry /\ \A e \in DOMAIN says[f] : says[f][e] \in Int
  /\ DOMAIN says["images.dat"] \subseteq Entry
  /\ \A e \in DOMAIN says["images.dat"] : says["images.dat"][e].iscript \in Int

(* What follows an option is what the option needs, wherever it stands. *)
IsCommand(c) ==
  /\ c.program \in {"icecc", "icedc"}
  /\ c.args \in Seq(STRING)
  /\ \A n \in 2 .. Len(c.args) :
       /\ c.args[n - 1] = "-o" => c.args[n] \in Name
       /\ c.args[n - 1] = "-r" => c.args[n] \in DOMAIN Resources
       /\ c.program = "icedc" /\ c.args[n - 1] \in Lists => c.args[n] \in DOMAIN Numbers

IsConfig(lines) ==
  /\ lines \in Seq([var : STRING, val : STRING])
  /\ \A n \in DOMAIN lines :
       /\ lines[n].var = "CONFIGDIR" => lines[n].val \in DOMAIN Resources
       /\ lines[n].var = "INSTALLDIR" => DataDir[lines[n].val] \in DOMAIN Resources

ASSUME ProgramsAssumption ==
  /\ NULL \notin Int /\ NULL \notin STRING
  /\ {"-o", "-c", "-r"} \cup Lists \subseteq Dashed
  /\ \A p \in {"icecc", "icedc"} : DefaultOutfile[p] \in Name
  /\ DefaultConfig \in STRING /\ DefaultDir \in DOMAIN Resources
  /\ IsFile(Stdin)
  /\ \A d \in Disks : DOMAIN d = Name /\ \A name \in Name : IsFile(d[name])
  /\ \A d \in DOMAIN Resources : IsResources(Resources[d]) /\ Bin[d] \in STRING
  /\ \A w \in DOMAIN Numbers : Numbers[w] \in Seq(Nat)
  /\ \A name \in DOMAIN Configs : IsConfig(Configs[name])
  /\ \A c \in Commands : IsCommand(c)

VARIABLES
  disk,          \* the files
  stdout,        \* what icedc has written to "-"
  commands,      \* how many commands have been started
  iscript, new,  \* header id -> script
  todo,          \* the files, or the ids, that are still to be read
  data, tables, loaded, step,  \* ResourceTables
  before,        \* the files when the command was started
  unnoticed      \* whether a write failed that the program did not look at

T == INSTANCE ResourceTables

tvars == <<data, tables, loaded, step>>
memory == <<iscript, new, todo>>
shell == <<commands, before>>
output == <<disk, stdout, unnoticed>>
vars == <<clvars, tvars, memory, shell, output>>

(* A new process has nothing in memory. *)
Fresh ==
  /\ iscript' = <<>> /\ new' = <<>> /\ todo' = <<>>
  /\ data' = <<>> /\ tables' = T!NoTables /\ loaded' = {} /\ step' = "none"
  /\ stdout' = NoFile /\ unnoticed' = FALSE

Init ==
  /\ Idle /\ disk \in Disks /\ commands = 0 /\ before = disk
  /\ iscript = <<>> /\ new = <<>> /\ todo = <<>>
  /\ data = <<>> /\ tables = T!NoTables /\ loaded = {} /\ step = "none"
  /\ stdout = NoFile /\ unnoticed = FALSE

Run(c) ==
  /\ commands < MaxCommands
  /\ Start(c) /\ commands' = commands + 1
  /\ before' = disk
  /\ Fresh /\ UNCHANGED disk

(* The shell has its prompt back. *)
Reap ==
  /\ pc = "exit" /\ pc' = "shell"
  /\ command' = NULL /\ i' = 1 /\ nomoreswitches' = FALSE /\ opt' = NoOptions
  /\ dir' = DefaultDir /\ loadconfigdir' = TRUE /\ status' = NULL
  /\ before' = disk
  /\ Fresh /\ UNCHANGED <<disk, commands>>

Killed == 137

Kill ==
  /\ pc \notin {"shell", "exit"}
  /\ Exit(Killed)
  /\ UNCHANGED <<tvars, memory, shell, output>>

Go(phase) ==
  pc' = phase /\ UNCHANGED <<command, i, nomoreswitches, opt, dir, loadconfigdir, status>>

GetArgs ==
  /\ Argument \/ OpenConfig \/ ConfigLine
  /\ UNCHANGED <<tvars, memory, shell, output>>

Settle ==
  /\ Settled(Bin)
  /\ IF pc' = "lookup" THEN T!StartTables(Resources[dir']) ELSE UNCHANGED tvars
  /\ todo' = IF pc' = "input" THEN opt'.infiles ELSE <<>>
  /\ UNCHANGED <<iscript, new, shell, output>>

-----------------------------------------------------------------------------
(* What a file of some form may be read as: its scripts; if it was cut     *)
(* short some of them, or nothing; nothing if it has another form.         *)
Readings(file, form) ==
  CASE file.form = form -> {file.scripts}
    [] file.form = "part" -> {Restrict(file.scripts, S) : S \in SUBSET DOMAIN file.scripts}
    [] OTHER -> {}

Refuses(file, form) == file.form # form

Over(old, added) ==
  [h \in DOMAIN old \cup DOMAIN added |-> IF h \in DOMAIN added THEN added[h] ELSE old[h]]

(* Mutant: a header that is there already stays. *)
Merged_Old(old, added) == Over(added, old)
Merged(old, added) == Over(old, added)

Source(name) == IF name = "-" /\ name \notin Compiled THEN Stdin ELSE On(disk, name)
Form(name) == IF name \in Compiled THEN "bin" ELSE "txt"

(* The loop of icecc over its files. *)
Input ==
  /\ pc = "input"
  /\ LET name == Head(todo) IN
     \/ /\ \E scripts \in Readings(Source(name), Form(name)) : iscript' = Merged(iscript, scripts)
        /\ todo' = Tail(todo)
        /\ Go(IF Tail(todo) = <<>> THEN "save" ELSE "input")
     \/ Refuses(Source(name), Form(name)) /\ Exit(1) /\ UNCHANGED <<iscript, todo>>
  /\ UNCHANGED <<new, tvars, shell, output>>

(* What happens to the output when it could not be made. *)
Removed_Not(out) == disk
Removed(out) == [disk EXCEPT ![out] = NoFile]

(* iscript_save: the program is too big or the file cannot be opened, or   *)
(* msave opens it; then it is written, cut short, or cut short without     *)
(* notice when it is closed.                                               *)
Save ==
  /\ pc = "save"
  /\ \/ disk' = Removed(opt.outfile) /\ Exit(1)
     \/ disk' = [disk EXCEPT ![opt.outfile] = File("part", iscript)] /\ Go("write")
  /\ UNCHANGED <<stdout, unnoticed, tvars, memory, shell>>

Write ==
  /\ pc = "write"
  /\ \/ /\ disk' = [disk EXCEPT ![opt.outfile] = File("bin", iscript)]
        /\ Exit(0) /\ UNCHANGED unnoticed
     \/ disk' = Removed(opt.outfile) /\ Exit(1) /\ UNCHANGED unnoticed
     \/ UNCHANGED disk /\ unnoticed' = TRUE /\ Exit(0)
  /\ UNCHANGED <<stdout, tvars, memory, shell>>

-----------------------------------------------------------------------------
(* The tables of icedc, for the lists of entries and for the comments. *)
LoadTables ==
  /\ pc \in {"lookup", "print"}
  /\ T!InitTables
  /\ UNCHANGED <<clvars, memory, shell, output>>

(* The ids of the entries of a list. *)
Ids(list, outside) ==
  Narrowed([n \in DOMAIN opt.list[list] |->
    LET e == opt.list[list][n] IN IF T!IsEntry(list, e) THEN T!Isid(list, e) ELSE outside])

LookUp ==
  /\ pc = "lookup"
  /\ \/ /\ step = "ready"
        /\ \E outside \in Anything :
             todo' = opt.list["-i"] \o Ids("-m", outside) \o Ids("-p", outside)
                       \o Ids("-f", outside) \o Ids("-u", outside)
        /\ T!FreeTables /\ Go("load")
     \/ step = "failed" /\ Exit(1) /\ UNCHANGED <<todo, tvars>>
  /\ UNCHANGED <<iscript, new, shell, output>>

Load ==
  /\ pc = "load"
  /\ LET infile == On(disk, opt.infiles[1]) IN
     \/ /\ iscript' \in Readings(infile, "bin")
        /\ Go(IF todo = <<>> THEN "open" ELSE "extract")
     \/ Refuses(infile, "bin") /\ Exit(1) /\ UNCHANGED iscript
  /\ UNCHANGED <<new, todo, tvars, shell, output>>

(* The loop over the ids; the Iscript is replaced by the new one after it. *)
Extract ==
  /\ pc = "extract"
  /\ IF todo # <<>>
     THEN LET id == Head(todo) IN
          IF id \in DOMAIN iscript
          THEN /\ new' = Merged(new, [h \in {id} |-> iscript[h]])
               /\ todo' = Tail(todo)
               /\ UNCHANGED <<clvars, iscript>>
          ELSE Exit(1) /\ UNCHANGED <<iscript, new, todo>>
     ELSE iscript' = new /\ Go("open") /\ UNCHANGED <<new, todo>>
  /\ UNCHANGED <<tvars, shell, output>>

ToStdout == opt.outfile = "-"

(* The separation of headers changes no script; then the output is opened  *)
(* and the header of the decompile is written to it.                       *)
OpenOutput ==
  /\ pc = "open"
  /\ \/ /\ IF ToStdout
           THEN stdout' = File("part", iscript) /\ UNCHANGED disk
           ELSE disk' = [disk EXCEPT ![opt.outfile] = File("part", iscript)] /\ UNCHANGED stdout
        /\ T!StartTables(Resources[dir]) /\ Go("print")
     \/ ~ ToStdout /\ Exit(1) /\ UNCHANGED <<disk, stdout, tvars>>
  /\ UNCHANGED <<unnoticed, memory, shell>>

(* print_iscript; nothing that it writes is looked at. *)
PrintOutput ==
  /\ pc = "print"
  /\ \/ /\ step = "ready"
        /\ IF ToStdout
           THEN stdout' = File("txt", iscript) /\ UNCHANGED disk
           ELSE disk' = [disk EXCEPT ![opt.outfile] = File("txt", iscript)] /\ UNCHANGED stdout
        /\ UNCHANGED unnoticed
        /\ T!FreeTables /\ Exit(0)
     \/ /\ step = "ready"
        /\ unnoticed' = TRUE /\ UNCHANGED <<disk, stdout>>
        /\ T!FreeTables /\ Exit(0)
     \/ /\ step = "failed"
        /\ disk' = Removed(opt.outfile)
        /\ Exit(1) /\ UNCHANGED <<stdout, unnoticed, tvars>>
  /\ UNCHANGED <<memory, shell>>

Next ==
  \/ \E c \in Commands : Run(c)
  \/ Reap \/ Kill \/ GetArgs \/ Settle
  \/ Input \/ Save \/ Write
  \/ LoadTables \/ LookUp \/ Load \/ Extract \/ OpenOutput \/ PrintOutput

Spec == Init /\ [][Next]_vars

-----------------------------------------------------------------------------
(* What a command line asks for, read as a whole.  The part that an        *)
(* argument plays depends on those before it: it is the value of an option *)
(* after one that has a value, unless "--" has ended the options.          *)
Value(c) ==
  LET word == c.args
      value[n \in 0 .. Len(word)] ==
        /\ n > 1 /\ ~ value[n - 1]
        /\ word[n - 1] \in WithValue(c.program)
        /\ \A k \in 1 .. n - 1 : word[k] = "--" => value[k]
  IN value

Plain(c, n) == \E k \in 1 .. n - 1 : c.args[k] = "--" /\ ~ Value(c)[k]

Values(c, option) ==
  {n \in 2 .. Len(c.args) : Value(c)[n] /\ c.args[n - 1] = option}
Switches(c) ==
  {n \in DOMAIN c.args :
     ~ Value(c)[n] /\ c.args[n] # "--" /\ c.args[n] \in Dashed /\ ~ Plain(c, n)}
Named(c) ==
  {n \in DOMAIN c.args : ~ Value(c)[n] /\ c.args[n] # "--"} \ Switches(c)

Has(c, option) == \E n \in Switches(c) : c.args[n] = option

Words(c, N) == {[at |-> n, is |-> c.args[n]] : n \in N}
Latest(S) == CHOOSE x \in S : \A y \in S : y.at <= x.at
LastValue(c, option, default) ==
  IF Values(c, option) = {} THEN default ELSE Latest(Words(c, Values(c, option))).is

(* -r goes before the configuration file, and there CONFIGDIR before       *)
(* INSTALLDIR.                                                             *)
ConfigLines(name) ==
  IF name \in DOMAIN Configs THEN Configs[name]
  ELSE IF LocalName[name] \in DOMAIN Configs THEN Configs[LocalName[name]]
  ELSE <<>>

ConfiguredDir(lines) ==
  LET set(var) ==
        {[at |-> n, is |-> lines[n].val] : n \in {k \in DOMAIN lines : lines[k].var = var}} IN
  CASE set("CONFIGDIR") # {} -> Latest(set("CONFIGDIR")).is
    [] set("CONFIGDIR") = {} /\ set("INSTALLDIR") # {} -> DataDir[Latest(set("INSTALLDIR")).is]
    [] OTHER -> DefaultDir

DirOf(c) == LastValue(c, "-r", ConfiguredDir(ConfigLines(LastValue(c, "-c", DefaultConfig))))

(* The scripts of the entries that are asked for by lists, by way of the   *)
(* files that refer to the next.                                           *)
Listed(c, list) == UNION {Range(Numbers[c.args[n]]) : n \in Values(c, list)}

ScriptsOf(c) ==
  LET says == Resources[DirOf(c)]
      refer(entries, file) ==
        {IF e \in DOMAIN says[file] THEN says[file][e] ELSE NULL : e \in entries}
      flingies == Listed(c, "-f") \cup refer(Listed(c, "-u"), "units.dat")
      sprites == Listed(c, "-p") \cup refer(flingies, "flingy.dat")
      images == Listed(c, "-m") \cup refer(sprites, "sprites.dat") IN
  {IF e \in DOMAIN says["images.dat"] THEN says["images.dat"][e].iscript ELSE NULL : e \in images}

(* The inputs are those that the headers are from; the default one is the  *)
(* first of icecc and the only one of icedc.                               *)
InputsOf(c) ==
  LET default == IF Has(c, UsesDefault[c.program])
                 THEN {[at |-> 0, is |-> Bin[DirOf(c)]]} ELSE {}
      named == Words(c, Named(c)) IN
  CASE c.program = "icecc" -> default \cup named
    [] c.program = "icedc" /\ default = {} /\ named # {} -> {Latest(named)}
    [] OTHER -> default

(* The ids are those listed and those of the entries; icecc reads no list. *)
Reading ==
  [c \in Commands |->
     LET via == IF c.program = "icedc" THEN ScriptsOf(c) ELSE {} IN
     [version |-> Has(c, "-v"),
      output |-> LastValue(c, "-o", DefaultOutfile[c.program]),
      inputs |-> InputsOf(c),
      inbounds |-> NULL \notin via,
      ids |-> {id % 2^16 : id \in (IF c.program = "icedc" THEN Listed(c, "-i") ELSE {})
                                     \cup (via \ {NULL})}]]

asked == Reading[command]
icecc == command.program = "icecc"

Was(input) ==
  IF icecc /\ input.is = "-" /\ input.is \notin Compiled THEN Stdin ELSE On(before, input.is)
FormOf(input) == IF icecc THEN Form(input.is) ELSE "bin"

(* The scripts of the last input that has each header; of these, those     *)
(* that are asked for, or all.                                             *)
Available ==
  LET files == {[at |-> input.at, is |-> Was(input)] : input \in asked.inputs} IN
  [h \in UNION {DOMAIN f.is.scripts : f \in files} |->
     Latest({f \in files : h \in DOMAIN f.is.scripts}).is.scripts[h]]

Whole == \A input \in asked.inputs : Was(input).form = FormOf(input)

Result(available, ids) ==
  IF icecc \/ ids = {} THEN available ELSE Restrict(available, ids)

(* A command that succeeds has made the output that its arguments and its  *)
(* configuration ask for, whatever their order, if it had no way to know   *)
(* better: with files that are whole, entries that the tables have, and    *)
(* writes that do not fail unnoticed (main, get_args, load_config_file).   *)
OutputIsWhatWasAsked ==
  pc = "exit" /\ status = 0 =>
    (~ asked.version /\ Whole /\ asked.inbounds /\ ~ unnoticed =>
       (IF ~ icecc /\ asked.output = "-" THEN stdout ELSE disk[asked.output])
         = File(IF icecc THEN "bin" ELSE "txt", Result(Available, asked.ids)))

(* No command changes a file other than its output.  One that fails leaves *)
(* that as it was or removes it, and one whose inputs or ids are not there *)
(* has not touched it (main of icecc.c and icedc.c).                       *)
FailureKeepsFiles ==
  pc = "exit" =>
    /\ \A name \in Name \ {asked.output} : disk[name] = before[name]
    /\ status = 1 => disk[asked.output] \in {before[asked.output], NoFile}
    /\ (\E input \in asked.inputs : Was(input).form \notin {FormOf(input), "part"}) => disk = before
    /\ (~ icecc /\ Whole /\ asked.inbounds /\ ~ asked.ids \subseteq DOMAIN Available) =>
         disk = before

(* See ResourceTables. *)
TablesWhole == T!TablesWhole
=============================================================================
