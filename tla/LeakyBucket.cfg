\* A rate that does not divide the second, so that fractions of tokens occur.
CONSTANTS
  Rate = 2
  Size = 2
  Second = 5
  Horizon = 13
SPECIFICATION Spec
INVARIANTS
  TypeOK
  WindowBound
  RefusalsAreShort
PROPERTIES
  IsTokenPool
