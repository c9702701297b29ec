CONSTANTS
  i1 = i1
  i2 = i2
  x1 = x1
  NoImage = NoImage
  Uploads <- MCUploads
  Extras <- MCExtras
  Scenarios <- MCScenarios
SPECIFICATION FairSpec
INVARIANTS TypeOK RowsLeadToFiles FinishedIsFinal
PROPERTIES ApprovedIsFrozen EveryImageSettles SessionSettles
CHECK_DEADLOCK FALSE
