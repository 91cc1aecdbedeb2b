CONSTANTS
  c1 = c1
  c2 = c2
  Clicks <- OneClick
  Tools <- Asked
  MaxRequests = 2
SPECIFICATION Spec
CHECK_DEADLOCK FALSE
INVARIANT ApprovedBySight
