SPECIFICATION LifeSpec
CONSTANTS
  SMP = FALSE
  Shared = FALSE
  MaxBuff = 8
  Half = 16
  EventSizes <- MCEventSizes
  WindowWords = 3
  Ids = 1
  MaxUsers = 2
PROPERTIES
  BusyRefused
