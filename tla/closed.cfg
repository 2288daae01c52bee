SPECIFICATION Spec
CONSTANTS
  SMP = FALSE
  Shared = TRUE
  MaxBuff = 8
  Half = 16
  EventSizes <- MCEventSizes
  WindowWords = 0
  Ids = 1
INVARIANTS
  RefusedWhenClosed
