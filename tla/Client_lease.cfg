CONSTANTS
  reads = reads
  saves = saves
  runs = runs
  Callers = {reads, saves}
  Call <- MCCall
  MaxConns = 2
  MaxPending = 1
  MaxFaults = 1
  Closes = TRUE
  Shutdowns = FALSE
SPECIFICATION Spec
INVARIANTS
  OneLiveWorker
  ClosedLeavesNone
  MutationsNotReplayed
PROPERTIES
  RepliedOnce
CHECK_DEADLOCK FALSE
