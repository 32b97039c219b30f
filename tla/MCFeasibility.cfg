SPECIFICATION FeasibilitySpec
CONSTANTS
  Tasksets <- MCTasksets
  Generated <- MCGenerated
  Configs <- MCConfigs
  RunSteps = {8}
  Horizon = 60
  MinPriority = 9
INVARIANTS
  RecurrenceIsFinal
  MkpSuccessIsFinal
  RecursInTime
