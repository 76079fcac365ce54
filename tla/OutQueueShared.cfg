SPECIFICATION Spec
CONSTANTS
  Sessions = {s1, s2}
  Chains = {c1, c2, c3, c4}
  Values = {a, b}
  OutSize = 3
  OutCork = 2
  OutBuffer = FALSE
  Kinds = {"av", "header", "status"}
  Priorities = {0}
  MaxLinks = 1
  RefLimit = 8
  None = None
SYMMETRY Symmetric
VIEW LiveView
INVARIANT TypeOK
INVARIANT ChainsAccounted
INVARIANT ClosePostedOnce
