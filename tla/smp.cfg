SPECIFICATION Spec
CONSTANTS
  SMP = TRUE
  Shared = TRUE
  MaxBuff = 8
  Half = 16
  EventSizes <- MCEventSizes
  WindowWords = 3
  Ids = 1
CONSTRAINT
  MCBound
INVARIANTS
  NoMissedWakeup
