SPECIFICATION FairSpec
CONSTANTS
  p1 = p1  p2 = p2  c1 = c1  c2 = c2  i1 = i1  i2 = i2
  Clients <- MCClients
  Worker = Worker
  Nobody = Nobody
  Candidates <- MCCandidates
  Images <- MCImages
  NoImage = NoImage
  MaxRuns = 2
  Scenarios <- MCScenarios
INVARIANTS RunsAreInOrder ReviewedScanIsGone ImagesKeepFiles
PROPERTIES ReviewIsFinal JobsEnd
CHECK_DEADLOCK FALSE
