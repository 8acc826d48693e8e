CONSTANTS
  e1 = e1
  e2 = e2
  Editors = {e1, e2}
  Kinds <- Mixed
  MaxTexts = 2
  MaxSaves = 2
  MaxForeign = 1
SPECIFICATION Spec
INVARIANTS
  ReportsAreTrue
  CheckedStays
PROPERTIES
  ReplacesOnlyTheSeen
CHECK_DEADLOCK FALSE
