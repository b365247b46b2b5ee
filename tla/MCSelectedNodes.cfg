SPECIFICATION Spec
CONSTANTS
  t1 = t1
  t2 = t2
  selector = selector
  analog = analog
  digital = digital
  other = other
  Threads <- MCThreads
  Registers <- MCRegisters
  Size = 4
  Nodes <- MCNodes
  Strays <- MCStrays
  WriteAck = 1
  Initial <- MCInitial
  MaxLate = 1
  MaxCalls = 3
SYMMETRY Symmetry
INVARIANTS
  TypeOK
  SelectionKept
PROPERTY
  SelectionRead
CHECK_DEADLOCK FALSE
