SPECIFICATION Spec
CONSTANTS
  Workers = {w1}
  Keys = {k1, k2, k3, k4}
  Sizes = {0, 1, 3, 7}
  BuffersEnd = 16
  EntrySize = 2
  AllocMargin = 1
  Alignment = 2
  Expiration = 0
  EntryLockExp = 2
  CacheLockExp = 2
  MaxEvictions = 1
  MaxLag = 0
  MaxTime = 0
  MaxKills = 0
  MaxRef = 1
  None = None
SYMMETRY Symmetric
VIEW LiveView
CHECK_DEADLOCK FALSE
INVARIANTS CrashConsistent NoOverlap StoreEntryFirst
