CONSTANTS
  e1 = e1
  e2 = e2
  Editors = {e1}
  Kinds <- Permits
  MaxTexts = 2
  MaxSaves = 1
  MaxForeign = 0
SPECIFICATION Spec
INVARIANTS
  FailuresNeverLanded
CHECK_DEADLOCK FALSE
