\* An administrator and two machines, with two SOCKET values; one connection each.
CONSTANTS
  a = a
  t = t
  u = u
  Clients = {a, t, u}
  Admins = {a}
  MaxConns <- MCConns
  Sockets = {s1, s2}
  Unnamed = Unnamed
  NoEntry = NoEntry
  Plays <- MCPlays
SPECIFICATION Spec
INVARIANTS
  TypeOK
  ListsConverge
  SessionEndsWithDialog
PROPERTIES
  UnlockMeansPassword
  CommandsReachWhomTheyName
SYMMETRY MCSymmetry
CHECK_DEADLOCK FALSE
