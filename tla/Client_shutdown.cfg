CONSTANTS
  reads = reads
  saves = saves
  runs = runs
  Callers = {reads, saves}
  Call <- MCCall
  MaxConns = 2
  MaxPending = 2
  MaxFaults = 0
  Closes = TRUE
  Shutdowns = TRUE
SPECIFICATION Spec
INVARIANTS
  CloseRetiresAll
CHECK_DEADLOCK FALSE
