SPECIFICATION Spec
CONSTANTS
  Nothing = Nothing
  Trees <- BranchTrees
  Heights <- TreeHeights
  Depth = 24
  IntLimit = 8
  FloatBits = 2
  FloatShifts = 4
  One = 4
  Builds = {TRUE}
  MaxEvents = 2
CHECK_DEADLOCK FALSE
INVARIANTS FirstTrueBranch
