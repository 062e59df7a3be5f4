SPECIFICATION FairSpec
CONSTANTS
  maxWorkers = 2
  PlanOutputs <- mcOnePlan
  ImplementOutputs <- mcCommitted
  VerifyOutputs <- mcPass
  Demos = {FALSE}
  MaxTasks = 2
  MaxResumes = 1
  MaxEarly = 1
  MaxCrashes = 0
  MaxSaveFails = 0
  Stalled = {}
  NoVal = NoVal
INVARIANTS PromptsAreGenerated
CHECK_DEADLOCK FALSE
