SPECIFICATION Spec
CONSTANTS
  MaxSessions = 2
  MaxSlots = 1
  MaxRestarts = 0
  MaxCrashes = 0
  Roles = {"interactive", "agent"}
  Repos = {TRUE}
  Faults = {}
  Outcomes = {"usage"}
  StopMidRun = FALSE
  Stall = FALSE
INVARIANT UsageLimitReported
CHECK_DEADLOCK FALSE
