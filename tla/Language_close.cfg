CONSTANTS
  r1 = r1
  Paths = {1}
  Requests = {r1}
  About <- MCAbout
  MaxJobs = 2
  MaxSnapshots = 2
  MaxRetired = 1
  MaxVersion = 3
  Texts = 2
  MaxEdits <- MCEdits
  Documents = 2
  MaxOpens <- MCOpens
  MaxRenames = 1
SPECIFICATION Spec
INVARIANTS
  OpensAlternate
CHECK_DEADLOCK FALSE
