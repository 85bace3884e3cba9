SPECIFICATION FairSpec
CONSTANTS
  NULL = NULL
  Programs <- MCPrograms
  Versions = {"BROODWAR", "STARCRAFT"}
  Length <- MCLength
  TableRoom = 8
  MaxSize = 60
  Size = 4
  Instrs <- MCInstrs
  Tables <- MCTables
INVARIANTS
  SavedIsTheProgram
  PiecesDisjoint
  SavesWhatFits
PROPERTY SaveEnds
