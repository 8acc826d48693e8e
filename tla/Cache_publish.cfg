CONSTANTS
  old = old
  new = new
  here = here
  there = there
  a = a
  b = b
  Objects = {old}
  Contexts = {here}
  Editors = {a, b}
  Artifact <- MCRelease
  Home <- MCHome
  Consents = {TRUE}
  Tenant = tenant
  NoOne = NoOne
  MaxInodes = 3
SPECIFICATION Spec
INVARIANTS
  ServingBound
CHECK_DEADLOCK FALSE
