SPECIFICATION FairSpec
CONSTANTS
  app = app
  heartbeat = heartbeat
  client = client
  None = None
  Threads <- MCThreads
  Clients <- MCClients
  ClientOf <- MCClientOf
  Kinds <- MCKinds
  CmdRetry = 2
  IdMax = 2
  RxCapacity = 1
  Lifetime = 1
  MaxCommands = 3
  MaxStrays = 1
INVARIANTS
  TypeOK
  SuccessMeansExecuted
PROPERTIES
  ImplementsRpc
  EveryCallReturns
CHECK_DEADLOCK FALSE
