CONSTANTS
  reads = reads
  saves = saves
  runs = runs
  Callers = {runs, saves}
  Call <- MCCall
  MaxConns = 1
  MaxPending = 2
  MaxFaults = 0
  Closes = FALSE
  Shutdowns = TRUE
SPECIFICATION FairSpec
PROPERTIES
  RegisteredCallsResolve
CHECK_DEADLOCK FALSE
