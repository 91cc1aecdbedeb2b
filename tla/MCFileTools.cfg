CONSTANTS
  Hands = {h1}
  MaxTexts = 3
  MaxClock = 3
SPECIFICATION FileSpec
CHECK_DEADLOCK FALSE
INVARIANT ImportsAreFresh
