CONSTANTS
  r1 = r1
  Paths = {1}
  Requests = {r1}
  About <- MCAbout
  MaxJobs = 2
  MaxSnapshots = 2
  MaxRetired = 1
  MaxVersion = 2
  Texts = 1
  MaxEdits <- MCEdits
  Documents = 1
  MaxOpens <- MCOpens
  MaxRenames = 1
SPECIFICATION FairSpec
PROPERTIES
  RequestsLeave
CHECK_DEADLOCK FALSE
