CONSTANTS
  e1 = e1
  close = close
  cancel = cancel
  resize = resize
  Execs = {e1}
  Modes = {"pty"}
  Requests = {resize}
  Op <- MCOp
  Of <- MCOf
  StdinQueue = 1
  MaxExecs = 1
  MaxChunks = 1
SPECIFICATION FairSpec
PROPERTIES
  RequestsAnswered
CHECK_DEADLOCK FALSE
