SPECIFICATION Spec
CONSTANTS
  MaxBuff = 7680
  Half = 8192
  Flag = 32768
  Scaler = 32
  MaxBlocks = 1
  MaxLen = 20002
  Lens <- MCLimitLens
  Payload = {65535}
PROPERTIES
  NeighbourIntact
