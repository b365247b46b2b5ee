SPECIFICATION FairClockSpec
CONSTANTS
  Timeouts <- MCTimeouts
  Garbage <- MCGarbage
  Poll = 2
  Margin = 4
  Default = 5
  Wrap = 16
  CmdRetry = 3
  MaxLost = 1
  MaxLate = 1
  MaxRequests = 3
INVARIANT ClockTypeOK
PROPERTIES
  PrivilegeKept
  Adapts
