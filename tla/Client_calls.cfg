CONSTANTS
  reads = reads
  saves = saves
  runs = runs
  Callers = {reads}
  Call <- MCCall
  MaxConns = 1
  MaxPending = 1
  MaxFaults = 1
  Closes = FALSE
  Shutdowns = FALSE
SPECIFICATION FairSpec
PROPERTIES
  CallsResolve
CHECK_DEADLOCK FALSE
