CONSTANTS
  MaxSecond = 2
  MaxSuffix = 0
  MaxGen = 3
  MaxCrashes = 1
  Keep = 1
  Faults = {"rename", "remove"}
SPECIFICATION Spec
INVARIANTS TypeOK ListedIsSound SuccessIsDurable
PROPERTIES RetentionSparesNewest DeleteIsOneSet
CHECK_DEADLOCK FALSE
