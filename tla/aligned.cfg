SPECIFICATION CrateSpec
CONSTANTS
  Scripted = TRUE
  Ids = 3
  MaxQueue = 2
  MaxTries = 1
  LeftOut <- MCLeftOut
INVARIANTS
  CrateTypeOK
  Aligned
  NoMultiEvent
  Configured
