SPECIFICATION FairSpec
CONSTANTS
  NoDevice = NoDevice
  Device <- Lamp
  Houses <- OneLamp
  Capacity = 1
  PingPeriod = 2
  SeenLimit = 6
  RetryDelay = 1
  MaxSets = 2
  LinksFail = {TRUE}
  PeersVanish = TRUE
  CloseMayFail = TRUE
  AnswersStop = TRUE
  Overflows = FALSE
CHECK_DEADLOCK FALSE
PROPERTIES SendsEnd SilenceNoticed RetryEnds ShutdownEnds FirstConnectionHolds
