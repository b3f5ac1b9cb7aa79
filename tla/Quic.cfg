SPECIFICATION FairSpec
CONSTANT
  Plans <- All
  Chosen = "all"
  Room = 2
  StreamWindow = 4
  ConnWindow = 6
  MaxStreams = 2
  MinCwnd = 2
  InitialCwnd = 3
  MaxAckRanges = 2
  PnBase = 4
  PnLimit = 1024
INVARIANT StreamsIntact
INVARIANT QuicNeitherAtFault
INVARIANT QuicCounts
PROPERTY QuicDelivers
CHECK_DEADLOCK FALSE
