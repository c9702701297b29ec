CONSTANTS
  i1 = i1
  i2 = i2
  x1 = x1
  NoImage = NoImage
  Uploads <- MCUploads
  Extras <- MCExtras
  Scenarios <- MCOneStop
SPECIFICATION FairSpec
PROPERTIES EveryImageSettles
CHECK_DEADLOCK FALSE
