SPECIFICATION ProgramsSpec
CONSTANTS
  CommandLines <- MCCommandLines
  GenConfigFiles <- MCGenConfigFiles
  TsConfigFiles <- MCTsConfigFiles
  EconfFiles <- MCEconfFiles
  IntBits = 8
INVARIANTS
  NothingWildUsed
  ResultFilesWhole
  ZeroMeansDone
CHECK_DEADLOCK FALSE
