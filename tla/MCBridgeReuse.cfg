CONSTANTS
  Procs = {p1, p2}
  Ids = {a, b, c}
  Prefix = {b}
  MaxParties = 2
  MaxFaults = 1
  None = None
  Modes = {"LOCAL", "LOCAL_VIRTUAL"}
  MaxHandlers = 2
  MaxTasks = 2
SPECIFICATION Spec
INVARIANT SetupNeverCollides
CHECK_DEADLOCK FALSE
