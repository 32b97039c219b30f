SPECIFICATION TmsSimSpec
CONSTANTS
  Files <- MCFiles
  Tasksets <- MCTasksets
  Configs <- ConfigRecord
  RunSteps = {4, 8}
  Horizon = 12
  MinPriority = 9
INVARIANT ClonesAreCopies
