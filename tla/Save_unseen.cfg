CONSTANTS
  e1 = e1
  e2 = e2
  Editors = {e1, e2}
  Kinds <- Locals
  MaxTexts = 3
  MaxSaves = 2
  MaxForeign = 0
SPECIFICATION Spec
PROPERTIES
  LocalsReplaceTheirBase
CHECK_DEADLOCK FALSE
