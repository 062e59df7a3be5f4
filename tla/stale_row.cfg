SPECIFICATION Spec
CONSTANTS
  MaxSessions = 2
  MaxSlots = 1
  MaxRestarts = 0
  MaxCrashes = 1
  Roles = {"interactive"}
  Repos = {FALSE}
  Faults = {"launch", "store"}
  Outcomes = {}
  StopMidRun = FALSE
  Stall = FALSE
PROPERTIES RecoveryReconnects
CHECK_DEADLOCK FALSE
