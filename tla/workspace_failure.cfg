SPECIFICATION Spec
CONSTANTS
  MaxSessions = 2
  MaxSlots = 1
  MaxRestarts = 0
  MaxCrashes = 0
  Roles = {"interactive", "agent"}
  Repos = {TRUE}
  Faults = {"mount"}
  Outcomes = {"done"}
  StopMidRun = FALSE
  Stall = FALSE
INVARIANT NothingLeaks
CHECK_DEADLOCK FALSE
