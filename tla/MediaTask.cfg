SPECIFICATION Spec
CONSTANTS
  N = 3
  Plans <- SomePlans
  Restart = TRUE
INVARIANT TypeOK
INVARIANT LockOrder
INVARIANT StartsOnce
INVARIANT DestroyedQuietly
INVARIANT EndIsTrue
INVARIANT NobodyForgotten
PROPERTY EndIsFinal
