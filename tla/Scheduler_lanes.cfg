CONSTANTS
  health = health
  exec = exec
  pty = pty
  tool = tool
  resize = resize
  read1 = read1
  read2 = read2
  late = late
  Requests = {health, pty, tool, resize, read1, read2}
  Class <- MCClass
  Execs <- MCExecs
  Ptys <- MCPtys
  Resizes <- MCResizes
  Mutations <- MCExecs
  Sessions <- Pairs
  Stale <- MCStale
  MaxPending = 2
  ControlReserve = 1
  MaxReads = 1
  MaxExecs = 1
  DataChunks = 1
  ControlFrames = 1
  Window = 1
  MaxChunks <- Short
  MaxEvents = 1
  MayFail = FALSE
  Dropped <- MCDropped
SPECIFICATION Spec
INVARIANTS
  CountersAgree
  ReserveKept
  OpeningPrecedesChunks
  ExitFollowsOutput
PROPERTIES
  KeepsLedger
CHECK_DEADLOCK FALSE
