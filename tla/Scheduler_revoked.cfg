CONSTANTS
  health = health
  exec = exec
  pty = pty
  tool = tool
  resize = resize
  read1 = read1
  read2 = read2
  late = late
  Requests = {exec}
  Class <- MCClass
  Execs <- MCExecs
  Ptys <- MCPtys
  Resizes <- MCResizes
  Mutations <- MCExecs
  Sessions <- Few
  Stale <- MCStale
  MaxPending = 2
  ControlReserve = 1
  MaxReads = 1
  MaxExecs = 1
  DataChunks = 1
  ControlFrames = 1
  Window = 2
  MaxChunks <- Two
  MaxEvents = 0
  MayFail = TRUE
  Dropped <- MCDropped
SPECIFICATION FairSpec
PROPERTIES
  RevokedPumpEnds
CHECK_DEADLOCK FALSE
