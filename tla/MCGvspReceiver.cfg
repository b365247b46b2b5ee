SPECIFICATION Spec
CONSTANTS
  IdMax = 6
  Geometries = {1, 5}
  Payload = 2
  Resend = TRUE
  MaxBlocks = 3
  Delays = 1
INVARIANTS TypeOK CountsTrue HolesAsked EndAsked MemoryOwned InRange InOrder IntactIsWhole
CHECK_DEADLOCK FALSE
