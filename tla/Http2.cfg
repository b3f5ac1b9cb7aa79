SPECIFICATION FairSpec
CONSTANTS
  Chosen = "all"
  Plans <- All
  DefaultWindow = 1
  StreamWindow = 2
  ConnWindow = 4
  MaxFrame = 2
  InitialMaxStreams = 3
  MaxStreams = 2
  MaxBody = 3
  MaxResponseBody = 3
  MaxWindow = 4
INVARIANT NeitherAtFault
INVARIANT CountsAgree
INVARIANT ServedWhole
PROPERTY StreamsEnd
CHECK_DEADLOCK FALSE
