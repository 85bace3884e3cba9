--------------------------- MODULE ResourceTables ---------------------------
(***************************************************************************)
(* The resource tables of icedc.c: images, sprites, flingies, units, sounds *)
(* and weapons, each with what it refers to.  init_resource_tables builds  *)
(* them one after the other from the files of a directory, and frees them  *)
(* all if one of the files cannot be loaded.                               *)
(*                                                                         *)
(* A dat file is the function of its entries to the one variable that is   *)
(* used, -1 where an entry has none.  A string that is kept has an owner,  *)
(* with which it is freed: the file it came from, or the table itself.     *)
(***************************************************************************)
EXTENDS Integers

CONSTANT NULL

VARIABLES
  data,     \* the directory: what each file says
  tables,   \* the tables there are
  loaded,   \* the Dat, Tbl and DatEntLst that are not freed
  step      \* the next file of init_resource_tables; "none", "ready", "failed"

Vars == <<data, tables, loaded, step>>

Own == "the table"

TableName ==
  {"isid_to_imagesent_list", "imagesent_to_isid", "imagesent_to_name",
   "imagesent_to_grpstring", "imagesent_to_isturning", "spritesent_to_imagesent",
   "flingyent_to_spritesent", "unitsent_to_flingyent", "sfxdataent_to_wavstring",
   "weaponsent_to_name", "iscriptent_to_name"}

NoTables == [t \in {} |-> NULL]
With(new) ==
  [t \in DOMAIN tables \cup DOMAIN new |-> IF t \in DOMAIN new THEN new[t] ELSE tables[t]]

StringTables ==
  {"imagesent_to_name", "imagesent_to_grpstring", "sfxdataent_to_wavstring",
   "weaponsent_to_name", "iscriptent_to_name"}

NoString == [owner |-> Own, text |-> NULL]
String(file, s) == [owner |-> file, text |-> s]

(* tbl_get_string of a number that a dat file says; -1 stands for none. *)
TblString(tbl, n) ==
  IF n \in DOMAIN data[tbl] THEN String(tbl, data[tbl][n]) ELSE NoString

(* What was got from a file is copied before the file is freed.  Mutant:   *)
(* the pointers are kept.                                                  *)
Copied_Not(strings) == strings
Copied(strings) == [e \in DOMAIN strings |-> [strings[e] EXCEPT !.owner = Own]]

(* free_resource_tables, when the files of the step that failed are left   *)
(* allocated, and that of iscript.lst is.                                  *)
Failed(left) ==
  /\ tables' = NoTables /\ step' = "failed"
  /\ loaded' = loaded \cup left
  /\ UNCHANGED data

(* The tables of images.dat.  The list of names must be as long as the     *)
(* file: it is read up to there (and what is behind it otherwise).         *)
InitImages(there) ==
  /\ step = "images"
  /\ IF {"images.dat", "images.tbl", "images.lst", "iscript.lst"} \subseteq there
     THEN LET images == DOMAIN data["images.dat"]
              isid == [i \in images |-> data["images.dat"][i].iscript]
              names == [i \in images |-> String("images.lst", data["images.lst"][i])]
              grps == [i \in images |-> TblString("images.tbl", data["images.dat"][i].grp)] IN
          /\ tables' = With([
               isid_to_imagesent_list |->
                  [id \in {isid[i] : i \in images} \ {-1} |-> {i \in images : isid[i] = id}],
               imagesent_to_isid |-> isid,
               imagesent_to_name |-> Copied(names),
               imagesent_to_grpstring |-> Copied(grps),
               imagesent_to_isturning |-> [i \in images |-> data["images.dat"][i].turns]])
          /\ loaded' = loaded \cup {"iscript.lst"}
          /\ step' = "sprites"
          /\ UNCHANGED data
     ELSE Failed({})

(* The tables of sprites.dat, flingy.dat and units.dat, of one variable. *)
InitReferences(file, table, next, there) ==
  IF file \in there
  THEN /\ tables' = With([t \in {table} |-> data[file]])
       /\ step' = next
       /\ UNCHANGED <<data, loaded>>
  ELSE Failed({})

InitSprites(there) ==
  step = "sprites" /\ InitReferences("sprites.dat", "spritesent_to_imagesent", "flingy", there)
InitFlingy(there) ==
  step = "flingy" /\ InitReferences("flingy.dat", "flingyent_to_spritesent", "units", there)
InitUnits(there) ==
  step = "units" /\ InitReferences("units.dat", "unitsent_to_flingyent", "sfxdata", there)

(* The tables of sfxdata.dat and weapons.dat, whose variable is a string. *)
InitStrings(file, tbl, table, next, there) ==
  IF {file, tbl} \subseteq there
  THEN LET strings == [e \in DOMAIN data[file] |-> TblString(tbl, data[file][e])] IN
       /\ tables' = With([t \in {table} |-> Copied(strings)])
       /\ step' = next
       /\ UNCHANGED <<data, loaded>>
  ELSE Failed({file, tbl} \cap there)

InitSfxdata(there) ==
  /\ step = "sfxdata"
  /\ InitStrings("sfxdata.dat", "sfxdata.tbl", "sfxdataent_to_wavstring", "weapons", there)
InitWeapons(there) ==
  /\ step = "weapons"
  /\ InitStrings("weapons.dat", "stat_txt.tbl", "weaponsent_to_name", "iscript", there)

(* The table of iscript.lst, which was loaded with the first files. *)
InitIscripts ==
  /\ step = "iscript"
  /\ LET names == [i \in DOMAIN data["iscript.lst"] |->
                     String("iscript.lst", data["iscript.lst"][i])] IN
     tables' = With([iscriptent_to_name |-> Copied(names)])
  /\ loaded' = loaded \ {"iscript.lst"}
  /\ step' = "ready"
  /\ UNCHANGED data

StepFiles ==
  CASE step = "images" -> {"images.dat", "images.tbl", "images.lst", "iscript.lst"}
    [] step = "sprites" -> {"sprites.dat"}
    [] step = "flingy" -> {"flingy.dat"}
    [] step = "units" -> {"units.dat"}
    [] step = "sfxdata" -> {"sfxdata.dat", "sfxdata.tbl"}
    [] step = "weapons" -> {"weapons.dat", "stat_txt.tbl"}
    [] OTHER -> {}

(* Any file can be missing, or fail to load. *)
InitTables ==
  \/ \E there \in SUBSET StepFiles :
       \/ InitImages(there) \/ InitSprites(there) \/ InitFlingy(there)
       \/ InitUnits(there) \/ InitSfxdata(there) \/ InitWeapons(there)
  \/ InitIscripts

(* The call of init_resource_tables, with the files of some directory, and *)
(* free_resource_tables.                                                   *)
StartTables(files) == step' = "images" /\ data' = files /\ UNCHANGED <<tables, loaded>>
FreeTables == tables' = NoTables /\ step' = "none" /\ UNCHANGED <<data, loaded>>

-----------------------------------------------------------------------------
(* The accessors, which look at no bounds, and the entries for which they  *)
(* stay inside the tables.                                                 *)
ImageIsid(i) == tables["imagesent_to_isid"][i]
SpriteIsid(s) == ImageIsid(tables["spritesent_to_imagesent"][s])
FlingyIsid(f) == SpriteIsid(tables["flingyent_to_spritesent"][f])
UnitIsid(u) == FlingyIsid(tables["unitsent_to_flingyent"][u])

Isid(list, e) ==
  CASE list = "-m" -> ImageIsid(e)
    [] list = "-p" -> SpriteIsid(e)
    [] list = "-f" -> FlingyIsid(e)
    [] list = "-u" -> UnitIsid(e)

IsImage(i) == i \in DOMAIN tables["imagesent_to_isid"]
IsSprite(s) ==
  s \in DOMAIN tables["spritesent_to_imagesent"] /\ IsImage(tables["spritesent_to_imagesent"][s])
IsFlingy(f) ==
  f \in DOMAIN tables["flingyent_to_spritesent"] /\ IsSprite(tables["flingyent_to_spritesent"][f])
IsUnit(u) ==
  u \in DOMAIN tables["unitsent_to_flingyent"] /\ IsFlingy(tables["unitsent_to_flingyent"][u])

IsEntry(list, e) ==
  CASE list = "-m" -> IsImage(e)
    [] list = "-p" -> IsSprite(e)
    [] list = "-f" -> IsFlingy(e)
    [] list = "-u" -> IsUnit(e)

(* The tables are there all or none when init_resource_tables has come to  *)
(* an end, and no string in them has gone with the file it was read from,  *)
(* whichever file fails (init_resource_tables, free_resource_tables).      *)
TablesWhole ==
  /\ step = "ready" => DOMAIN tables = TableName
  /\ step \in {"none", "failed"} => tables = NoTables
  /\ \A t \in StringTables \cap DOMAIN tables : \A e \in DOMAIN tables[t] :
       tables[t][e].owner \in {Own} \cup loaded
=============================================================================
