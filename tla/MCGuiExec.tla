----------------------------- MODULE MCGuiExec -----------------------------
(***************************************************************************)
(* Two clicks.  A compilation with errors has more messages than the pipe  *)
(* holds; a decompilation to "-" fills the output pipe; an editor stays.   *)
(***************************************************************************)
EXTENDS GuiExec

C(program, writes, status, ends) ==
  [program |-> program, writes |-> writes, status |-> status, ends |-> ends]

Compile == C("icecc", <<"stderr", "stderr", "stderr">>, 1, TRUE)
Warnings == C("icecc", <<"stdout", "stderr", "stdout", "stderr">>, 0, TRUE)
ToStdout == C("icedc", <<"stdout", "stdout", "stdout", "stderr">>, 0, TRUE)
Fails == C("icedc", <<"stdout", "stderr", "stderr">>, 1, TRUE)
Editor == C("editor", <<"stderr">>, 0, FALSE)

MCJobs == {Compile, Warnings, ToStdout, Fails, Editor}
=============================================================================
