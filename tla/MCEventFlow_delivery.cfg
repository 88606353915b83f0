SPECIFICATION FairSpec
CONSTANTS
  button = button  lamp = lamp  clock = clock  conn1 = conn1  conn2 = conn2
  press = press  time = time  command = command
  bulb = bulb  strip = strip  glow = glow  ghost = ghost
  NoTask = NoTask
  Task = {button, lamp, clock}
  Device = {button, lamp}
  Source = {press, time}
  SourcesOf <- PorchSourcesOf
  Light = {bulb}
  Property = {glow, ghost}
  DeviceOf <- PorchDeviceOf
  PingOrder <- PorchPingOrder
  Observers <- HallObservers
  Capacity = 1
  Faulty = FALSE
  MaxEvents = 3
INVARIANTS Delivered
PROPERTIES EventsComplete EventuallyShown
