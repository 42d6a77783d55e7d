\* One client and a server that stops: does the client keep trying?
CONSTANTS
  Clients = {p}
  MaxConns <- MCTwoEach
  Runmodes <- MCEnable
  NoOne = NoOne
  Uses = {"ACQUIRE_LOGDATA", "SET_LOGGING", "SET_LOGCAPCHANGES", "LOGTHIS"}
  MaxUses = 0
  MaxQuits = 0
  MaxAccidents = 0
  MaxStops = 1
SPECIFICATION Spec
INVARIANTS
  RetriesUntilShutdown
CHECK_DEADLOCK FALSE
