SPECIFICATION Spec
CONSTANTS
  MaxBuff = 13
  Half = 32
  Flag = 32768
  Scaler = 2
  MaxBlocks = 3
  MaxLen = 2
  Lens <- MCLens
  Payload <- MCPayload
INVARIANTS
  TypeOK
  Fits
  SizesRight
  RoundTrip
PROPERTIES
  NeighbourIntact
