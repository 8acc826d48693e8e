CONSTANTS
  e1 = e1
  close = close
  cancel = cancel
  resize = resize
  Execs = {e1}
  Modes = {"pty"}
  Requests = {resize}
  Op <- MCOp
  Of <- MCOf
  StdinQueue = 1
  MaxExecs = 1
  MaxChunks = 2
SPECIFICATION Spec
INVARIANTS
  WireOrder
CHECK_DEADLOCK FALSE
