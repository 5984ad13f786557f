SPECIFICATION FairSpec
CONSTANTS
  t1 = t1
  a1 = a1
  a2 = a2
  r1 = r1
  r2 = r2
  d1 = d1
  d2 = d2
  j1 = j1
  j2 = j2
  Threads <- OneThread
  ApprovalIds <- OneApproval
  Runs <- OneRun
  Deciders <- OneDecider
  Jobs <- TwoJobs
  User = User
  None = None
  MaxActivePerUser = 2
  MaxActiveProcess = 2
  MaxLate = 0
  MaxStops = 1
PROPERTIES SlotsReturn RequestsEnd
