\* One client with two connections: shutdown, accidents, reconnection.
CONSTANTS
  Clients = {p}
  MaxConns <- MCTwoEach
  Runmodes <- MCEnable
  NoOne = NoOne
  Uses = {"ACQUIRE_LOGDATA", "SET_LOGGING", "SET_LOGCAPCHANGES", "LOGTHIS"}
  MaxUses = 1
  MaxQuits = 1
  MaxAccidents = 1
  MaxStops = 1
SPECIFICATION FairSpec
INVARIANTS
  TypeOK
  LogoffIsHeard
PROPERTIES
  InvalidOnlyIfEarly
  WindowEntriesAreNamed
  BothSidesStop
  ClientsGetConnected
CHECK_DEADLOCK FALSE
