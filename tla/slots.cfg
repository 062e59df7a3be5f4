SPECIFICATION FairSpec
CONSTANTS
  MaxSessions = 2
  MaxSlots = 2
  MaxRestarts = 0
  MaxCrashes = 0
  Roles = {"interactive", "agent"}
  Repos = {TRUE}
  Faults = {"snapshot", "inject", "launch", "ssh", "delete"}
  Outcomes = {"done", "error", "usage"}
  StopMidRun = FALSE
  Stall = TRUE
INVARIANTS TypeOK OneVMPerSlot SlotsAccounted ReadyIsUsable NothingLeaks BootOwnsState ResultDelivered
PROPERTIES BootSettles StopCompletes
CHECK_DEADLOCK FALSE
