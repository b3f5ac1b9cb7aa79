CONSTANTS
  Plans <- All
  ShortLen = 3
  MaxMessage = 4
  MaxHeader = 3
  MaxWindowBits = 15
SPECIFICATION FairSpec
INVARIANT MessagesArrive
INVARIANT EndsAgree
PROPERTY ConnectionEnds
CHECK_DEADLOCK FALSE
