CONSTANTS
  http = http
  scan = scan
  Writers <- MCWriters
  MaxChannels = 2
  MaxJobs = 4
  Scenarios <- MCScenarios
SPECIFICATION FairSpec
INVARIANTS TypeOK GateInv RestoreRunsAlone ServesOnlyValidated LastGoodIsKept PreRestoreBackupKept FailureLeavesOriginal LockoutIsAnnounced
PROPERTIES SuccessIsValidated ShutGateStartsNoRestore OperationEnds
CHECK_DEADLOCK FALSE
