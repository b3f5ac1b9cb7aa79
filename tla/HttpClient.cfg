SPECIFICATION FairSpec
CONSTANTS
  r1 = r1
  r2 = r2
  r3 = r3
  Requests = {r1, r2, r3}
  Conns = {c1, c2, c3}
  None = None
  Idempotent = {r1, r3}
  MaxConnsPerHost = 2
  MaxIdleConnsPerHost = 1
  InitialMaxStreams = 2
  Chosen = "all"
  Modes <- AllModes
CHECK_DEADLOCK FALSE
INVARIANT PlacesCounted
INVARIANT OnePlace
INVARIANT RightResponse
INVARIANT ActedOnce
PROPERTY CalledBack
