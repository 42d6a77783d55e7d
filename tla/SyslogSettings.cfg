\* Two clients with one connection each change the settings: safety.
CONSTANTS
  Clients = {p, q}
  MaxConns <- MCOneEach
  Runmodes <- MCOff
  NoOne = NoOne
  Uses = {"SET_LOGGING", "SET_LOGCAPCHANGES"}
  MaxUses = 3
  MaxQuits = 0
  MaxAccidents = 0
  MaxStops = 0
SPECIFICATION Spec
INVARIANTS
  CopiesConverge
  MarkTellsState
SYMMETRY MCSymmetry
CHECK_DEADLOCK FALSE
