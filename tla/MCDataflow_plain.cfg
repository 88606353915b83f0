SPECIFICATION Spec
CONSTANTS
  Nothing = Nothing
  Trees <- HouseTrees
  Heights <- TreeHeights
  Depth = 24
  IntLimit = 8
  FloatBits = 2
  FloatShifts = 4
  One = 4
  Builds = {TRUE, FALSE}
  MaxEvents = 3
CHECK_DEADLOCK FALSE
INVARIANTS TypeOK ShownIsCurrent LatchLatest EveryCaseComputes NumbersTrue
