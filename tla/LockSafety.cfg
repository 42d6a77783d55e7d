\* Two users, two locks, one restart of the service, ticks that wrap around.
CONSTANTS
  Sessions = {s1, s2}
  HKLM = HKLM
  NoLock = NoLock
  TickWidth = 4
  Magic = 2
  StartTick = 3
  MaxLocks = 2
  MaxLogons = 1
  MaxRestarts = 1
SPECIFICATION Spec
INVARIANTS
  CachedLockIsEnforced
  EnforcementNeedsCache
  CachedLockHasAnEnd
PROPERTIES
  OwnLockHolds
CHECK_DEADLOCK FALSE
