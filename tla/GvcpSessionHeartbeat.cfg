SPECIFICATION Spec
CONSTANTS
  d1 = d1
  d2 = d2
  Devices <- MCDevices
  NoDevice = NoDevice
  MaxCalls = 3
  MaxHandles = 1
INVARIANTS
  HeartbeatRuns
