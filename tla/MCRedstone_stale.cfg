SPECIFICATION Spec
CONSTANTS
  NoDevice = NoDevice
  Device <- Lamp
  Houses <- PlainLamp
  Capacity = 1
  PingPeriod = 3
  SeenLimit = 9
  RetryDelay = 1
  MaxSets = 0
  LinksFail = {TRUE}
  PeersVanish = FALSE
  CloseMayFail = FALSE
  AnswersStop = FALSE
  Overflows = FALSE
CHECK_DEADLOCK FALSE
PROPERTIES NoFalseAlarm
