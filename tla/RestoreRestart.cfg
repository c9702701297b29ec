CONSTANTS
  http = http
  scan = scan
  Writers <- MCWriters
  MaxChannels = 1
  MaxJobs = 2
  Scenarios <- MCTwoDeaths
SPECIFICATION Spec
INVARIANTS ServesOnlyValidated
CHECK_DEADLOCK FALSE
