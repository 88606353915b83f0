SPECIFICATION Spec

CONSTANTS
  hall = hall
  porch = porch
  ghost = ghost
  Light <- Lights
  Known = {hall, porch}
  Value <- Values
  Samples <- Colors
  GroupId = {1, 2}
  UseCached = {TRUE, FALSE}
  MaxBatches = 2
  MaxEdits = 1

INVARIANTS
  TypeOK
  GroupsTrue
  BatchShown
  RgbTrue
  MadeOnce

PROPERTY
  OnlyAsked

SYMMETRY Symmetry

CHECK_DEADLOCK FALSE
