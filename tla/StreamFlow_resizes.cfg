CONSTANTS
  s1 = s1
  s2 = s2
  Streams = {s1, s2}
  Readers = {s1}
  Window = 2
  Inbound = 4
  DataLane = 1
  MaxChunks = 3
  MaxResizes = 2
SPECIFICATION ScenarioSpec
INVARIANT
  StalledTerminalKept
CHECK_DEADLOCK FALSE
