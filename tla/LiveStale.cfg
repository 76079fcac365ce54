SPECIFICATION Spec
CONSTANTS
  Rtmp = {r1, r2, r3}
  Http = {h1}
  Names = {x, y}
  Streams = {A, B}
  IdleStreams = {TRUE}
  RelayPulls = {TRUE}
  DropIdle = {TRUE}
  None = None
SYMMETRY Symmetric
PROPERTY DeletedIsEmpty
