SPECIFICATION FairSpec
CONSTANTS
  NoDevice = NoDevice
  Device <- TwoLamps
  Houses <- TwoLampHouses
  Capacity = 1
  PingPeriod = 1
  SeenLimit = 1
  RetryDelay = 1
  MaxSets = 1
  LinksFail = {TRUE, FALSE}
  PeersVanish = FALSE
  CloseMayFail = TRUE
  AnswersStop = TRUE
  Overflows = TRUE
CHECK_DEADLOCK FALSE
INVARIANTS TypeOK ShutdownInTurn  Addressed
PROPERTIES OrphansExit
