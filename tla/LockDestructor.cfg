\* One user: does the locker thread outlive its object?
CONSTANTS
  Sessions = {s1}
  HKLM = HKLM
  NoLock = NoLock
  TickWidth = 3
  Magic = 1
  StartTick = 1
  MaxLocks = 1
  MaxLogons = 0
  MaxRestarts = 0
SPECIFICATION Spec
INVARIANT LockerGoneBeforeDestroyed
CHECK_DEADLOCK FALSE
