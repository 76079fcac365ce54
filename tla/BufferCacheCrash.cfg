SPECIFICATION FairSpec
CONSTANTS
  Workers = {w1, w2}
  Keys = {k1, k2}
  Sizes = {0, 3}
  BuffersEnd = 5
  EntrySize = 1
  AllocMargin = 1
  Alignment = 1
  Expiration = 0
  EntryLockExp = 1
  CacheLockExp = 1
  MaxEvictions = 1
  MaxLag = 0
  MaxTime = 2
  MaxKills = 1
  MaxRef = 2
  None = None
CHECK_DEADLOCK FALSE
INVARIANTS CrashConsistent NoDataRace
PROPERTY MutexReleased
