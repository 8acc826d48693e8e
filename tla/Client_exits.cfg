CONSTANTS
  reads = reads
  saves = saves
  runs = runs
  Callers = {runs}
  Call <- MCCall
  MaxConns = 1
  MaxPending = 1
  MaxFaults = 1
  Closes = FALSE
  Shutdowns = FALSE
SPECIFICATION FairSpec
PROPERTIES
  ExitsResolve
CHECK_DEADLOCK FALSE
