CONSTANTS
  w1 = w1
  w2 = w2
  w3 = w3
  s1 = s1
  s2 = s2
  NoOne = NoOne
  Writers <- ThreeWriters
  Signatures <- OneSignature
  MaxCalls = 1
  Windows = FALSE
  Crashes = TRUE
  Stalls = FALSE
SPECIFICATION Spec
CHECK_DEADLOCK FALSE
INVARIANT NoRecordLost
