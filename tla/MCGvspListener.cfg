SPECIFICATION FairSpec
CONSTANTS
  Senders <- MCSenders
  RingBlocks = 2
  BlockPackets = 2
  QueueMax = 2
  MaxDatagrams = 3
  MaxWakes = 1
INVARIANTS
  TypeOK
  NotifiedKnowsPort
  OnlyTransmitter
PROPERTIES
  ImplementsQueue
  EveryCallReturns
CHECK_DEADLOCK FALSE
