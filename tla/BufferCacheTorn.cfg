SPECIFICATION Spec
CONSTANTS
  Workers = {w1, w2}
  Keys = {k1, k2}
  Sizes = {0}
  BuffersEnd = 6
  EntrySize = 1
  AllocMargin = 1
  Alignment = 1
  Expiration = 1
  EntryLockExp = 2
  CacheLockExp = 2
  MaxEvictions = 1
  MaxLag = 0
  MaxTime = 4
  MaxKills = 1
  MaxRef = 2
  None = None
SYMMETRY Symmetric
VIEW LiveView
CHECK_DEADLOCK FALSE
INVARIANTS CrashConsistent
