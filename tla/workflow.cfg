SPECIFICATION FairSpec
CONSTANTS
  maxWorkers = 2
  PlanOutputs <- mcPlans
  ImplementOutputs <- mcImplements
  VerifyOutputs <- mcVerdicts
  Demos = {TRUE, FALSE}
  MaxTasks = 3
  MaxResumes = 1
  MaxEarly = 0
  MaxCrashes = 1
  MaxSaveFails = 1
  Stalled = {"driver", "resume", "resumed", "demo", "demoworker"}
  NoVal = NoVal
INVARIANTS TypeOK DoneIsVerified MergedWasVerified OneDriver NoStageLeftRunning StartedIsPersisted PromptsOnceEnded
PROPERTIES StagesKept WorkflowSettles
CHECK_DEADLOCK FALSE
