---------------------------- MODULE CommandLine ----------------------------
(***************************************************************************)
(* The command lines of icecc and icedc (get_args of icecc.c and icedc.c)  *)
(* and their configuration file (icecc-share.c).                           *)
(*                                                                         *)
(* An argument is a string.  A switch of several letters is the same as    *)
(* one for each, and a value in the argument of its option the same as the *)
(* next argument: an argument is one letter here, and its value the next.  *)
(* -w and -n say what is displayed, and set nothing here.                  *)
(***************************************************************************)
EXTENDS Integers, Sequences

CONSTANTS
  NULL,
  Commands,      \* the command lines: [program, args]
  Dashed,        \* the arguments, other than "--", that start with a dash
  Numbers,       \* of each list of numbers, the numbers
  Configs,       \* the configuration files: their lines, [var, val]
  LocalName,     \* strip_path, of each name of a configuration file
  DataDir,       \* of each INSTALLDIR, its directory of data
  DefaultConfig, DefaultDir

(* The options that have a value, and those that only set something. *)
Lists == {"-i", "-m", "-p", "-f", "-u"}
WithValue(program) ==
  {"-o", "-c", "-r"} \cup (IF program = "icedc" THEN Lists ELSE {})
UsesDefault == [icecc |-> "-m", icedc |-> "-d"]
DefaultOutfile == [icecc |-> "iscript.bin", icedc |-> "iscript.txt"]

VARIABLES
  command,        \* the command that runs
  i,              \* the next argument, or the next line of the configuration
  nomoreswitches,
  opt,            \* what the arguments have set
  dir, loadconfigdir,  \* set_config_dir, and whether INSTALLDIR may set it
  pc, status      \* the phase of the program, and its exit status

clvars == <<command, i, nomoreswitches, opt, dir, loadconfigdir, pc, status>>

args == command.args

NoOptions ==
  [default |-> FALSE, infiles |-> <<>>, outfile |-> NULL, config |-> DefaultConfig,
   configdir |-> NULL, list |-> [l \in Lists |-> <<>>], separate |-> FALSE]

Idle ==
  /\ command = NULL /\ i = 1 /\ nomoreswitches = FALSE /\ opt = NoOptions
  /\ dir = DefaultDir /\ loadconfigdir = TRUE
  /\ pc = "shell" /\ status = NULL

Start(c) ==
  /\ pc = "shell"
  /\ command' = c /\ i' = 1 /\ nomoreswitches' = FALSE /\ opt' = NoOptions
  /\ dir' = DefaultDir /\ loadconfigdir' = TRUE
  /\ pc' = "args" /\ status' = NULL

Exit(s) ==
  /\ pc' = "exit" /\ status' = s
  /\ UNCHANGED <<command, i, nomoreswitches, opt, dir, loadconfigdir>>

(* icecc reads its files in order, icedc the last one. *)
WithFile(name) ==
  [opt EXCEPT !.infiles = IF command.program = "icecc" THEN Append(@, name) ELSE <<name>>]

(* A number that is taken from a list is kept in 16 bits. *)
Narrowed(numbers) == [n \in DOMAIN numbers |-> numbers[n] % 2^16]

WithOption(o, value) ==
  CASE o = "-o" -> [opt EXCEPT !.outfile = value]
    [] o = "-c" -> [opt EXCEPT !.config = value]
    [] o = "-r" -> [opt EXCEPT !.configdir = value]
    [] o \in Lists -> [opt EXCEPT !.list[o] = @ \o Narrowed(Numbers[value])]

(* The options end at the first "--". *)
Switched(word) == word \in Dashed /\ ~ nomoreswitches

(* One round of the loop over the arguments. *)
Argument ==
  /\ pc = "args" /\ i <= Len(args)
  /\ LET word == args[i]
         Go(n, o) == i' = i + n /\ opt' = o /\ UNCHANGED <<pc, status, nomoreswitches>> IN
     CASE word = "--" ->
            nomoreswitches' = TRUE /\ i' = i + 1 /\ UNCHANGED <<opt, pc, status>>
       [] word # "--" /\ ~ Switched(word) -> Go(1, WithFile(word))
       [] Switched(word) /\ word \in {"-h", "-v"} ->
            Exit(IF word = "-h" THEN 1 ELSE 0)
       [] Switched(word) /\ word \in WithValue(command.program) ->
            IF i = Len(args) THEN Exit(1) ELSE Go(2, WithOption(word, args[i + 1]))
       [] Switched(word) /\ word = UsesDefault[command.program] ->
            Go(1, [opt EXCEPT !.default = TRUE])
       [] Switched(word) /\ word = "-s" /\ command.program = "icedc" ->
            Go(1, [opt EXCEPT !.separate = TRUE])
       [] OTHER -> Go(1, opt)
  /\ UNCHANGED <<command, dir, loadconfigdir>>

(* The file that load_config_file reads: the one of that name, or the one  *)
(* of its last part in the working directory, or none.                     *)
ConfigFile ==
  IF opt.config \in DOMAIN Configs THEN Configs[opt.config]
  ELSE IF LocalName[opt.config] \in DOMAIN Configs THEN Configs[LocalName[opt.config]]
  ELSE <<>>

OpenConfig ==
  /\ pc = "args" /\ i > Len(args)
  /\ pc' = "config" /\ i' = 1
  /\ UNCHANGED <<command, nomoreswitches, opt, dir, loadconfigdir, status>>

(* A line of it. *)
ConfigLine ==
  /\ pc = "config" /\ i <= Len(ConfigFile)
  /\ LET line == ConfigFile[i] IN
     \/ /\ line.var = "INSTALLDIR"
        /\ dir' = IF loadconfigdir THEN DataDir[line.val] ELSE dir
        /\ UNCHANGED loadconfigdir
     \/ /\ line.var = "CONFIGDIR"
        /\ dir' = line.val /\ loadconfigdir' = FALSE
     \/ /\ line.var \notin {"INSTALLDIR", "CONFIGDIR"}
        /\ UNCHANGED <<dir, loadconfigdir>>
  /\ i' = i + 1
  /\ UNCHANGED <<command, nomoreswitches, opt, pc, status>>

(* The end of get_args of icecc, and of icedc before its tables: the name  *)
(* of the default iscript.bin is Bin[dir].  There must be a file to read.  *)
Settled(Bin) ==
  LET where == IF opt.configdir = NULL THEN dir ELSE opt.configdir
      infiles == CASE ~ opt.default -> opt.infiles
                   [] opt.default /\ command.program = "icecc" -> <<Bin[where]>> \o opt.infiles
                   [] opt.default /\ command.program = "icedc" -> <<Bin[where]>> IN
  /\ pc = "config" /\ i > Len(ConfigFile)
  /\ IF infiles = <<>>
     THEN Exit(1)
     ELSE /\ dir' = where
          /\ opt' = [opt EXCEPT
               !.infiles = infiles,
               !.outfile = IF @ = NULL THEN DefaultOutfile[command.program] ELSE @]
          /\ pc' = IF command.program = "icecc" THEN "input" ELSE "lookup"
          /\ UNCHANGED <<command, i, nomoreswitches, loadconfigdir, status>>
=============================================================================
