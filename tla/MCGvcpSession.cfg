SPECIFICATION FairSpec
CONSTANTS
  d1 = d1
  d2 = d2
  Devices <- MCDevices
  NoDevice = NoDevice
  MaxCalls = 5
  MaxHandles = 2
INVARIANTS
  TypeOK
  ThreadEndsFirst
  ControllerIsWhole
  FailureReleases
  OneLateBeat
PROPERTIES
  EveryCallReturns
