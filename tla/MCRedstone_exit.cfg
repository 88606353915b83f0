SPECIFICATION Spec
CONSTANTS
  NoDevice = NoDevice
  Device <- Lamp
  Houses <- OneLamp
  Capacity = 1
  PingPeriod = 3
  SeenLimit = 9
  RetryDelay = 1
  MaxSets = 1
  LinksFail = {TRUE}
  PeersVanish = FALSE
  CloseMayFail = FALSE
  AnswersStop = FALSE
  Overflows = FALSE
CHECK_DEADLOCK FALSE
INVARIANTS ExitOnlyWhenAsked
