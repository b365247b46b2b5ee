SPECIFICATION Spec
CONSTANTS
  t1 = t1
  t2 = t2
  control = control
  Threads <- MCThreads
  Registers <- MCRegisters
  Width = 3
  Nodes <- MCNodes
  Strays <- MCStrays
  WriteAck <- MCWriteAck
  Initial <- MCInitial
  MaxLate = 1
  MaxCalls = 3
INVARIANTS
  TypeOK
  FieldsKept
PROPERTY
  ReadsWhatWasSet
CHECK_DEADLOCK FALSE
