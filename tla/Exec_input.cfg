CONSTANTS
  e1 = e1
  close = close
  cancel = cancel
  resize = resize
  Execs = {e1}
  Modes = {"plain", "service", "pty"}
  Requests = {close, cancel, resize}
  Op <- MCOp
  Of <- MCOf
  StdinQueue = 1
  MaxExecs = 1
  MaxChunks = 3
SPECIFICATION Spec
INVARIANTS
  InputWhole
  PoisonIsLate
  ExitWins
  NothingLeftBehind
PROPERTIES
  TeardownRevokes
CHECK_DEADLOCK FALSE
