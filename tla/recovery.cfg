SPECIFICATION Spec
CONSTANTS
  MaxSessions = 2
  MaxSlots = 2
  MaxRestarts = 1
  MaxCrashes = 2
  Roles = {"interactive", "agent"}
  Repos = {FALSE}
  Faults = {"snapshot", "inject", "launch", "ssh"}
  Outcomes = {"done", "error"}
  StopMidRun = FALSE
  Stall = FALSE
INVARIANTS SlotsAccounted ReadyIsUsable VMsStoppable RowsMatch
PROPERTIES RecoveryKeepsReady ResultKept LeasePromise
CHECK_DEADLOCK FALSE
