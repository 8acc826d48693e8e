CONSTANTS
  r1 = r1
  Paths = {1, 2}
  Requests = {r1}
  About <- MCAbout
  MaxJobs = 2
  MaxSnapshots = 2
  MaxRetired = 1
  MaxVersion = 4
  Texts = 3
  MaxEdits <- MCEdits
  Documents = 2
  MaxOpens <- MCOpens
  MaxRenames = 1
SPECIFICATION FairSpec
INVARIANTS
  ServerMirrors
  AnswersAreCurrent
  DiagnosticsAttributed
PROPERTIES
  BarrierHolds
  RequestsLeaveUnrenamed
CHECK_DEADLOCK FALSE
