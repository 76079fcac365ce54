SPECIFICATION Spec
CONSTANTS
  Rtmp = {r1, r2, r3}
  Http = {}
  Names = {x, y}
  Streams = {A, B}
  IdleStreams = {FALSE, TRUE}
  RelayPulls = {FALSE}
  DropIdle = {TRUE}
  None = None
SYMMETRY Symmetric
INVARIANT TypeOK
INVARIANT StreamsAccounted
INVARIANT MembersOpen
INVARIANT OrphansFinalized
PROPERTY ChannelsKept
