SPECIFICATION Spec
CONSTANTS
  app = app
  heartbeat = heartbeat
  client = client
  None = None
  Threads <- MCThreads
  Clients <- MCClients
  ClientOf <- MCClientOf
  Kinds <- MCKinds
  CmdRetry = 2
  IdMax = 2
  RxCapacity = 1
  Lifetime = 1
  MaxCommands = 2
  MaxStrays = 0
INVARIANTS
  OwnAnswer
CHECK_DEADLOCK FALSE
