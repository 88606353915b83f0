SPECIFICATION Spec
CONSTANTS
  button = button  lamp = lamp  clock = clock  conn1 = conn1  conn2 = conn2
  press = press  time = time  command = command
  bulb = bulb  strip = strip  glow = glow  ghost = ghost
  NoTask = NoTask
  Task = {button, lamp, clock}
  Device = {button, lamp}
  Source = {press, time}
  SourcesOf <- PorchSourcesOf
  Light = {bulb, strip}
  Property = {glow}
  DeviceOf <- PorchDeviceOf
  PingOrder <- PorchPingOrder
  Observers <- PorchObservers
  Capacity = 1
  Faulty = TRUE
  MaxEvents = 3
INVARIANTS TypeOK NotOvertaken WiredBeforeUse
PROPERTIES ImplementsSinkFeed
