SPECIFICATION FairSpec

CONSTANTS
  Capacity <- Rooms
  Faults = {"none", "tree", "hue", "bridge"}
  MaxEvents <- Events

INVARIANTS
  TypeOK
  AcceptedIsApplied
  CleanMeansEnded

PROPERTY
  ShutdownEnds
  RedstoneServed

CHECK_DEADLOCK FALSE
