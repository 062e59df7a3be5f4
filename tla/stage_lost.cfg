SPECIFICATION FairSpec
CONSTANTS
  maxWorkers = 2
  PlanOutputs <- mcOnePlan
  ImplementOutputs <- mcCommitted
  VerifyOutputs <- mcPass
  Demos = {FALSE}
  MaxTasks = 2
  MaxResumes = 0
  MaxEarly = 0
  MaxCrashes = 0
  MaxSaveFails = 0
  Stalled = {"worker"}
  NoVal = NoVal
PROPERTIES StagesKept
CHECK_DEADLOCK FALSE
