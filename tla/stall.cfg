SPECIFICATION FairSpec
CONSTANTS
  SMP = FALSE
  Shared = FALSE
  MaxBuff = 8
  Half = 16
  EventSizes <- MCEventSizes
  WindowWords = 4
  Ids = 7
PROPERTIES
  VetoReleased
