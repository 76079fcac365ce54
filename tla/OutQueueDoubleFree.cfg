SPECIFICATION Spec
CONSTANTS
  Sessions = {s1, s2}
  Chains = {c1, c2, c3}
  Values = {a}
  OutSize = 3
  OutCork = 2
  OutBuffer = FALSE
  Kinds = {"data"}
  Priorities = {0}
  MaxLinks = 1
  RefLimit = 8
  None = None
SYMMETRY Symmetric
INVARIANT QueuedNotFree
