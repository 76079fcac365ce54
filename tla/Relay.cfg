SPECIFICATION Spec
CONSTANTS
  Sessions = {s1, s2, s3, s4}
  n1 = n1
  n2 = n2
  a = a
  b = b
  Client = Client
  None = None
  Names <- SomeNames
  Targets <- SomeTargets
  Configs <- SomeConfigs
SYMMETRY Symmetry
CHECK_DEADLOCK FALSE
INVARIANT TypeOK
INVARIANT PointersSound
INVARIANT OnePublisher
INVARIANT TimersSound
INVARIANT NoIdleRelay
INVARIANT PushesComplete
INVARIANT SlotsExact
INVARIANT StaticFollowed
PROPERTY PublisherUndisturbed
