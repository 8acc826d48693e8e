CONSTANTS
  old = old
  new = new
  here = here
  there = there
  a = a
  b = b
  Objects = {old, new}
  Contexts = {here, there}
  Editors = {a, b}
  Artifact <- MCReleases
  Home <- MCHome
  Consents = {TRUE}
  Tenant = tenant
  NoOne = NoOne
  MaxInodes = 3
SPECIFICATION Spec
INVARIANTS
  ServingBound
  ProbeDoesNotPin
PROPERTIES
  UnreadableRetiresNothing
CHECK_DEADLOCK FALSE
