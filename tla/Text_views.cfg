CONSTANTS
  Payloads <- MCPayloads
  Files <- MCFiles
  Spans <- MCSpans
  MaxEpoch = 5
  MaxLen = 6
  MaxRestarts = 1
  UndoCap = 2
  UndoBytes = 6
  Retained = 2
SPECIFICATION ScenarioSpec
INVARIANTS
  JournalComposes
  SnapshotRestores
PROPERTIES
  KeepsTree
  ProjectionExact
  PlansOwnTheirChange
CHECK_DEADLOCK FALSE
