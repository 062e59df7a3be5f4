SPECIFICATION Spec
CONSTANTS
  s1 = s1
  s2 = s2
  c1 = c1
  Sessions = {s1, s2}
  Slots = {1}
  Conns = {c1, c2}
  Page <- OwnPages
  NoVM = NoVM
  MaxStops = 1
  MaxStoreFaults = 1
INVARIANTS TypeOK TerminalsTold
PROPERTIES OwnVM ShutdownCompletes RelayEnds
CHECK_DEADLOCK FALSE
