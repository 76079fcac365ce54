SPECIFICATION FairSpec
CONSTANTS
  Rtmp = {r1, r2}
  Http = {h1}
  Names = {x}
  Streams = {A}
  IdleStreams = {FALSE, TRUE}
  RelayPulls = {FALSE, TRUE}
  DropIdle = {TRUE}
  None = None
INVARIANT HttpFollows
INVARIANT IdleTimerSound
PROPERTY StreamReclaimed
PROPERTY FinalizedIsClosed
