SPECIFICATION FairSpec
CONSTANTS
  SMP = FALSE
  Shared = FALSE
  MaxBuff = 8
  Half = 16
  EventSizes <- MCEventSizes
  WindowWords = 0
  Ids = 7
INVARIANTS
  CountAccurate
  MaskedIffFull
PROPERTIES
  IsLiveChannel
  VetoReleased
