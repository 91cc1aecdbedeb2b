CONSTANTS
  c1 = c1
  c2 = c2
  Clicks <- TwoClicks
  Tools <- AllWays
  MaxRequests = 2
SPECIFICATION FairSpec
CHECK_DEADLOCK FALSE
INVARIANTS TypeOK RunsOnlyIfApproved
PROPERTIES AnswersReachOpenRequests StopEndsWork EveryCallReturns
