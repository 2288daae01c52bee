SPECIFICATION Spec
CONSTANTS
  MaxLen = 2
  Nch = 1
  Top = 16
  MaxBlocks = 2
  Cmdlen = 3
  MaxCalls = 5
  Events = 2
INVARIANTS
  TypeOK
  SegmentsLead
  LengthsLead
  SameAsDirect
  ShapeKept
  AllTaken
