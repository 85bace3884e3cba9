------------------------------ MODULE GuiExec ------------------------------
(***************************************************************************)
(* How the Swing GUI runs icecc, icedc and the text editor: every click    *)
(* starts an ExecuteThread (IceCCUtil.execute), the thread starts a child  *)
(* process, reads its error stream to the end, then its output stream to   *)
(* the end, waits for it and shows what was read if the child has failed.  *)
(*                                                                         *)
(* A command says what it runs and what the child does: the streams it     *)
(* writes a line to, in order, its exit status and whether it ends by      *)
(* itself (an editor does not).  A pipe holds PipeSize lines; who writes   *)
(* to a full one waits.                                                    *)
(***************************************************************************)
EXTENDS Naturals, Sequences, FiniteSets

CONSTANTS
  Threads,    \* one for each click
  Jobs,       \* what the clicks can run
  PipeSize

ASSUME GuiAssumption ==
  /\ PipeSize \in Nat \ {0}
  /\ \A c \in Jobs :
       /\ c.writes \in Seq({"stderr", "stdout"})
       /\ c.status \in Nat
       /\ c.ends \in BOOLEAN
       /\ c.program \in {"icecc", "icedc", "editor"}

None == [program |-> "none", writes |-> <<>>, status |-> 0, ends |-> FALSE]

VARIABLES
  cmd,       \* the command of each thread
  phase,     \* what each ExecuteThread does
  messages,  \* the lines of stderr it has read
  shown,     \* it has shown an ErrorDialog
  child,     \* its child: "none", "running", "closed" (its streams), "exited"
  written,   \* how many of its lines the child has written
  pipe       \* the lines in the two pipes: which of the writes each one is

reader == <<phase, messages, shown>>
gui_vars == <<cmd, reader, child, written, pipe>>

Streams == {"stderr", "stdout"}

GuiInit ==
  /\ cmd = [t \in Threads |-> None]
  /\ phase = [t \in Threads |-> "new"]
  /\ messages = [t \in Threads |-> <<>>]
  /\ shown = [t \in Threads |-> FALSE]
  /\ child = [t \in Threads |-> "none"]
  /\ written = [t \in Threads |-> 0]
  /\ pipe = [t \in Threads |-> [s \in Streams |-> <<>>]]

-----------------------------------------------------------------------------
(* The GUI.  Nothing keeps the user from clicking while commands run.      *)

Execute(t, c) ==
  /\ phase[t] = "new"
  /\ cmd' = [cmd EXCEPT ![t] = c]
  /\ phase' = [phase EXCEPT ![t] = "exec"]
  /\ UNCHANGED <<messages, shown, child, written, pipe>>

HandleCompile(t, c) == c.program = "icecc" /\ Execute(t, c)

HandleDecompile(t, c) == c.program = "icedc" /\ Execute(t, c)

HandleOpenWithEditor(t, c) == c.program = "editor" /\ Execute(t, c)

(* The ErrorDialog of thread u: the user selects a message, and it names a *)
(* file (parseErrorMsgForFile).                                            *)
OpenInEditor(t, u, c) ==
  /\ shown[u] /\ messages[u] # <<>>
  /\ c.program = "editor" /\ Execute(t, c)

Clicks(t) ==
  \E c \in Jobs :
    \/ HandleCompile(t, c) \/ HandleDecompile(t, c) \/ HandleOpenWithEditor(t, c)
    \/ \E u \in Threads : OpenInEditor(t, u, c)

-----------------------------------------------------------------------------
(* ExecuteThread.run *)

FirstPhase_Wait == "wait"
FirstPhase == "stderr"

Exec(t) ==
  /\ phase[t] = "exec"
  /\ child' = [child EXCEPT ![t] = "running"]
  /\ phase' = [phase EXCEPT ![t] = FirstPhase]
  /\ UNCHANGED <<cmd, messages, shown, written, pipe>>

ExecFails(t) ==
  /\ phase[t] = "exec"
  /\ phase' = [phase EXCEPT ![t] = "no such program"]
  /\ UNCHANGED <<cmd, messages, shown, child, written, pipe>>

(* readLine: a line, or the end of the stream, which comes when the pipe   *)
(* is empty and the child has closed it.                                   *)
Reads(t, stream) ==
  /\ phase[t] = stream
  /\ pipe[t][stream] # <<>>
  /\ pipe' = [pipe EXCEPT ![t][stream] = Tail(@)]

AtEnd_NoLine(t, stream) == pipe[t][stream] = <<>>
AtEnd(t, stream) == pipe[t][stream] = <<>> /\ child[t] # "running"

ReadMessage(t) ==
  /\ Reads(t, "stderr")
  /\ messages' = [messages EXCEPT ![t] = Append(@, Head(pipe[t]["stderr"]))]
  /\ UNCHANGED <<cmd, phase, shown, child, written>>

EndOfErrors(t) ==
  /\ phase[t] = "stderr" /\ AtEnd(t, "stderr")
  /\ phase' = [phase EXCEPT ![t] = "stdout"]
  /\ UNCHANGED <<cmd, messages, shown, child, written, pipe>>

FlushOutput(t) ==
  /\ Reads(t, "stdout")
  /\ UNCHANGED <<cmd, reader, child, written>>

EndOfOutput(t) ==
  /\ phase[t] = "stdout" /\ AtEnd(t, "stdout")
  /\ phase' = [phase EXCEPT ![t] = "wait"]
  /\ UNCHANGED <<cmd, messages, shown, child, written, pipe>>

HasExited(t) == child[t] = "exited"

(* The argument of execute. *)
WatchExit(c) == c.program # "editor"

WaitFor(t) ==
  /\ phase[t] = "wait" /\ HasExited(t)
  /\ phase' = [phase EXCEPT ![t] = "done"]
  /\ shown' = [shown EXCEPT ![t] = WatchExit(cmd[t]) /\ cmd[t].status # 0]
  /\ UNCHANGED <<cmd, messages, child, written, pipe>>

(* readLine throws an IOException: the thread prints it, and neither waits *)
(* for the child nor shows what it has read.                               *)
ReadFails(t) ==
  /\ phase[t] \in Streams
  /\ phase' = [phase EXCEPT ![t] = "read failed"]
  /\ UNCHANGED <<cmd, messages, shown, child, written, pipe>>

-----------------------------------------------------------------------------
(* The child process. *)

ChildWrites(t) ==
  LET next == written[t] + 1 IN
  /\ child[t] = "running" /\ next <= Len(cmd[t].writes)
  /\ Len(pipe[t][cmd[t].writes[next]]) < PipeSize
  /\ written' = [written EXCEPT ![t] = next]
  /\ pipe' = [pipe EXCEPT ![t][cmd[t].writes[next]] = Append(@, next)]
  /\ UNCHANGED <<cmd, reader, child>>

(* Its streams are closed, and a little later it is gone. *)
ChildCloses(t) ==
  /\ child[t] = "running" /\ written[t] = Len(cmd[t].writes)
  /\ child' = [child EXCEPT ![t] = "closed"]
  /\ UNCHANGED <<cmd, reader, written, pipe>>

ChildExits(t) ==
  /\ child[t] = "closed"
  /\ child' = [child EXCEPT ![t] = "exited"]
  /\ UNCHANGED <<cmd, reader, written, pipe>>

Thread(t) ==
  \/ Exec(t) \/ ExecFails(t)
  \/ ReadMessage(t) \/ EndOfErrors(t) \/ FlushOutput(t) \/ EndOfOutput(t)
  \/ WaitFor(t)

Child(t) == ChildWrites(t) \/ ChildCloses(t) \/ ChildExits(t)

GuiNext ==
  \E t \in Threads : Clicks(t) \/ Thread(t) \/ ReadFails(t) \/ Child(t)

GuiSpec == GuiInit /\ [][GuiNext]_gui_vars

(* The virtual machine schedules every thread and the operating system     *)
(* every process; a command that ends by itself gets to its end.  Nobody   *)
(* has to click, and no read has to fail.                                  *)
FairGuiSpec ==
  /\ GuiSpec
  /\ \A t \in Threads :
       /\ WF_gui_vars(Thread(t))
       /\ WF_gui_vars(cmd[t].ends /\ Child(t))

-----------------------------------------------------------------------------
TypeOK ==
  /\ cmd \in [Threads -> Jobs \cup {None}]
  /\ phase \in [Threads -> {"new", "exec", "no such program", "stderr", "stdout", "wait", "done",
                        "read failed"}]
  /\ shown \in [Threads -> BOOLEAN]
  /\ child \in [Threads -> {"none", "running", "closed", "exited"}]
  /\ written \in [Threads -> Nat]
  /\ messages \in [Threads -> Seq(Nat)]
  /\ pipe \in [Threads -> [Streams -> Seq(Nat)]]

(* The lines that a command writes to a stream. *)
Lines(c, stream) == {k \in DOMAIN c.writes : c.writes[k] = stream}

Increasing(lines) == \A j, k \in DOMAIN lines : j < k => lines[j] < lines[k]

(* A user who is told of an error sees all its messages, each once and in  *)
(* order; one who watches a command that fails is told, unless the thread  *)
(* could not read on; and the exit status is only asked for when there is  *)
(* one (ExecuteThread.run).                                                *)
ErrorsAreShown ==
  \A t \in Threads :
    phase[t] = "done" =>
      /\ shown[t] = (WatchExit(cmd[t]) /\ cmd[t].status # 0)
      /\ {messages[t][k] : k \in DOMAIN messages[t]} = Lines(cmd[t], "stderr")
      /\ Increasing(messages[t])
      /\ child[t] = "exited"

(* A command that ends by itself, and writes no more to its output stream  *)
(* than the pipe holds, ends, and so does its thread, however much it has  *)
(* to say on its error stream.                                             *)
OutputFits(c) == c.ends /\ Cardinality(Lines(c, "stdout")) <= PipeSize

CommandsEnd ==
  \A t \in Threads :
    (phase[t] = "exec" /\ OutputFits(cmd[t])) ~>
      phase[t] \in {"done", "no such program", "read failed"}
=============================================================================
