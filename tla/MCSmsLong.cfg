SPECIFICATION Spec
CONSTANTS
  SingleMax = 3
  ConcatMax = 2
  PartWidth = 8
  MaxParts = 4
  Depth = 2
  MaxUsed = 2
  Messages <- MCMessages
INVARIANTS
  TypeOK
  OkMeansAll
  BusyMeansPart
PROPERTIES
  ImplementsOutbox
