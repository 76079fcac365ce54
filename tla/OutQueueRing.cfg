SPECIFICATION Spec
CONSTANTS
  Sessions = {s1}
  Chains = {c1, c2, c3, c4}
  Values = {a, b}
  OutSize = 4
  OutCork = 3
  OutBuffer = TRUE
  Kinds = {"av", "status"}
  Priorities = {0, 1, 2}
  MaxLinks = 2
  RefLimit = 8
  None = None
SYMMETRY Symmetric
VIEW LiveView
INVARIANT NoLostWakeup
PROPERTY RingIsFifo
