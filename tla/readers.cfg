SPECIFICATION ReadersSpec
CONSTANTS
  Ids = 3
  Most = 2
  V7XXWords = 4
  V767Words = 5
  V1X90Words = 6
  Rsize = 4
  MaxEvents = 2
  Ring = 6
  Limit = 4
  Requests <- MCRequests
  Window = 3
  Depths <- MCDepths
  Page = 4
  Areas <- MCAreas
INVARIANTS
  ReadersTypeOK
  InStep
  OneEvent
  SizesRight
  DmaOneEvent
  DmaSizesRight
  LatestSamples
  WindowsCover
  PagesCover
