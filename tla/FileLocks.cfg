SPECIFICATION LocksSpec
CONSTANTS
  p1 = p1
  p2 = p2
  p3 = p3
  Procs <- MCProcs
  UnlockLevels <- MCDowngrades
INVARIANTS
  ExclusiveIsAlone
  OneReserved
  DowngradeSucceeds
PROPERTIES
  ImplementsRWLock
  ImplementsRWLockOnWindows
