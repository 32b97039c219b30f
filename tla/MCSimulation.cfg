SPECIFICATION MCSpec
CONSTANTS
  Tasksets <- MCTasksets
  Configs <- ConfigRecord
  RunSteps = {4, 8}
  Horizon = 12
  MinPriority = 9
INVARIANTS
  TypeOK
  JobsHeld
  MonitorCoversSchedule
  MonitorSorted
  NoHopelessJob
  EDFOptimal
  ScheduleInPolicyOrder
  CurrentJobScheduled
  TimeAccounted
  ResultMatchesConstraints
PROPERTIES
  CallsReturn
  EveryJobReturnedOnce
