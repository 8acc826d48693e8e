CONSTANTS
  reads = reads
  saves = saves
  runs = runs
  Callers = {reads}
  Call <- MCCall
  MaxConns = 2
  MaxPending = 1
  MaxFaults = 1
  Closes = TRUE
  Shutdowns = FALSE
SPECIFICATION FairSpec
PROPERTIES
  LostOnesEnd
CHECK_DEADLOCK FALSE
