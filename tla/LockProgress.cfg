\* Two users, two locks, no restart of the service: what the threads bring about.
CONSTANTS
  Sessions = {s1, s2}
  HKLM = HKLM
  NoLock = NoLock
  TickWidth = 3
  Magic = 1
  StartTick = 1
  MaxLocks = 2
  MaxLogons = 0
  MaxRestarts = 0
SPECIFICATION FairSpec
PROPERTIES
  UnlockReleases
  TerminateFinishes
CHECK_DEADLOCK FALSE
