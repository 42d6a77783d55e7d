\* Two clients and three values of SOCKET: safety and progress.
CONSTANTS
  Clients = {c1, c2}
  Handles = {h1, h2, h3}
  Free = Free
  Elsewhere = Elsewhere
  NoSocket = NoSocket
  MaxThreadFails = 1
SPECIFICATION FairSpec
INVARIANTS
  ServesItsOwn
  EntriesAreConnected
  ManagerKnowsWorkers
  StopIsComplete
PROPERTIES
  ShutdownFinishes
  HangUpFreesSocket
CHECK_DEADLOCK FALSE
