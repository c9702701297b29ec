CONSTANTS
  http = http
  scan = scan
  Writers <- MCWriters
  MaxChannels = 1
  MaxJobs = 2
  Scenarios <- MCOneDeath
SPECIFICATION Spec
PROPERTIES StartupRemovesPartials
CHECK_DEADLOCK FALSE
