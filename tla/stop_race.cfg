SPECIFICATION Spec
CONSTANTS
  MaxSessions = 2
  MaxSlots = 1
  MaxRestarts = 0
  MaxCrashes = 0
  Roles = {"interactive", "agent"}
  Repos = {TRUE}
  Faults = {}
  Outcomes = {"done"}
  StopMidRun = TRUE
  Stall = FALSE
INVARIANT ReadyIsUsable
CHECK_DEADLOCK FALSE
