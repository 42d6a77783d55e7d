\* Does every worker take its socket?
CONSTANTS
  Clients = {c1, c2}
  Handles = {h1, h2}
  Free = Free
  Elsewhere = Elsewhere
  NoSocket = NoSocket
  MaxThreadFails = 0
SPECIFICATION Spec
INVARIANT TakeInTime
CHECK_DEADLOCK FALSE
