CONSTANTS
  Lengths <- SomeLengths
  Budget = 10
  HeadLength = 2
  MemoryLength = 1
  Verbatim = 4
  Cut = 3
  Recent = 2
  MaxMessages = 4
SPECIFICATION ContextSpec
CHECK_DEADLOCK FALSE
INVARIANT LatestIsVerbatim
