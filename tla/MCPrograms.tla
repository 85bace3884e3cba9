----------------------------- MODULE MCPrograms -----------------------------
(***************************************************************************)
(* Two directories of resources, a file of each kind, and two commands.    *)
(***************************************************************************)
EXTENDS Programs, TLC

MCName == {"iscript.bin", "iscript.txt", "a.txt", "b.bin", "d/iscript.bin", "e/iscript.bin", "-"}
MCCompiled == {"iscript.bin", "b.bin", "d/iscript.bin", "e/iscript.bin"}
MCBin == "d" :> "d/iscript.bin" @@ "e" :> "e/iscript.bin"
MCDashed == {"-o", "-c", "-r", "-i", "-m", "-p", "-f", "-u", "-h", "-v", "-w", "-d", "-s", "-x", "-"}

(* Every file has header 1 or 2 or both, with a script of its own, but the *)
(* last.  The text and the old output may be missing.                      *)
MCStdin == File("txt", 2 :> "stdin")
MCDisks ==
  {"iscript.bin" :> old @@ "iscript.txt" :> NoFile @@ "-" :> NoFile
     @@ "a.txt" :> a @@ "b.bin" :> File("bin", 1 :> "b")
     @@ "d/iscript.bin" :> File("bin", 1 :> "d1" @@ 2 :> "d2")
     @@ "e/iscript.bin" :> File("bin", 65535 :> "e")
   : old \in {NoFile, File("bin", 1 :> "old")},
     a \in {NoFile, File("txt", 1 :> "a1" @@ 2 :> "a2")}}

(* CONFIGDIR before and after INSTALLDIR; the configuration of the default *)
(* name says nothing.                                                      *)
Line(var, val) == [var |-> var, val |-> val]
MCConfigs ==
  "ini" :> <<Line("INSTALLDIR", "/d"), Line("COLOR", "red")>>
    @@ "e.ini" :> <<Line("CONFIGDIR", "e"), Line("INSTALLDIR", "/d")>>
MCLocalName == "/etc/ini" :> "ini" @@ "/x" :> "x" @@ "ini" :> "ini" @@ "e.ini" :> "e.ini"
MCDataDir == "/d" :> "d"

(* Units lead to sprites by way of flingies; the last image has no script, *)
(* and the last unit no flingy.                                            *)
Image(id, grp) == [iscript |-> id, grp |-> grp, turns |-> 0]
MCResources ==
  LET says == "images.dat" :> (0 :> Image(1, 1) @@ 1 :> Image(2, -1) @@ 2 :> Image(-1, 9))
        @@ "images.tbl" :> <<"grp">> @@ "images.lst" :> (0 :> "m" @@ 1 :> "n" @@ 2 :> "o")
        @@ "iscript.lst" :> (0 :> "i")
        @@ "sprites.dat" :> (0 :> 1 @@ 1 :> 0) @@ "flingy.dat" :> (0 :> 0 @@ 1 :> 1)
        @@ "units.dat" :> (0 :> 1 @@ 1 :> 0 @@ 2 :> -1)
        @@ "sfxdata.dat" :> (0 :> 1 @@ 1 :> -1) @@ "sfxdata.tbl" :> <<"wav">>
        @@ "weapons.dat" :> (0 :> 1) @@ "stat_txt.tbl" :> <<"gun">> IN
  "d" :> says @@ "e" :> [says EXCEPT !["units.dat"] = 0 :> 0]

MCNumbers == "0" :> <<0>> @@ "1" :> <<1>> @@ "1,2" :> <<1, 2>> @@ "65537" :> <<65537>> @@ "2" :> <<2>>
MCAnything == {2, 7}

Command(program, words) == [program |-> program, args |-> words]
MCCommands ==
  {Command("icecc", w \o x \o y) :
     w \in {<<>>, <<"-m">>, <<"-c", "e.ini">>},
     x \in {<<"a.txt", "b.bin">>, <<"b.bin", "-o", "iscript.txt", "a.txt">>, <<"--", "-">>, <<"-", "-x">>},
     y \in {<<>>, <<"-o", "b.bin">>, <<"-m", "-r", "e">>}}
  \cup {Command("icecc", <<"iscript.txt">>), Command("icecc", <<"-o">>), Command("icecc", <<"-h">>)}
  \cup {Command("icedc", w \o x) :
     w \in {<<"-d">>, <<"-c", "/etc/ini", "-s", "-d">>, <<"-r", "e", "-d">>, <<"a.txt", "iscript.bin">>},
     x \in {<<>>, <<"-i", "65537">>, <<"-u", "1", "-i", "1,2">>, <<"-o", "-">>,
            <<"-f", "0", "-o", "b.bin">>, <<"-m", "2">>, <<"-u", "2">>, <<"-p", "1">>}}
  \cup {Command("icedc", <<"-v">>), Command("icedc", <<"-c", "/x", "b.bin", "--", "-">>)}
=============================================================================
