SPECIFICATION FairSpec

CONSTANTS
  Clocks <- House
  Readings <- Night
  Unset = Unset

INVARIANTS
  TypeOK
  OneReading

PROPERTIES
  CatchesUp

CHECK_DEADLOCK FALSE
