SPECIFICATION Spec
CONSTANTS
  Workers = {w1, w2}
  Keys = {k1, k2}
  Sizes = {0, 1}
  BuffersEnd = 6
  EntrySize = 1
  AllocMargin = 1
  Alignment = 1
  Expiration = 3
  EntryLockExp = 3
  CacheLockExp = 3
  MaxEvictions = 1
  MaxLag = 1
  MaxTime = 4
  MaxKills = 0
  MaxRef = 2
  None = None
SYMMETRY Symmetric
VIEW LiveView
CHECK_DEADLOCK FALSE
INVARIANTS TypeOK NoDataRace HeldEntryStable RefCoversHolders
