SPECIFICATION MCSpec
CONSTANTS
  Tasksets <- MCTasksets
  Configs <- MCConfigs
  RunSteps = {4, 8}
  Horizon = 12
  MinPriority = 9
INVARIANTS
  JobsHeldOnce
  EDFOptimal
  StartedJobsSpared
  MKUKeepsConstraints
  GDPAReturnsJobs
  ReportsAreTrue
PROPERTIES
  CallsReturn
  WorkConserving

