CONSTANTS
  w1 = w1
  w2 = w2
  w3 = w3
  s1 = s1
  s2 = s2
  NoOne = NoOne
  Writers <- ThreeWriters
  Signatures <- TwoSignatures
  MaxCalls = 1
  Windows = TRUE
  Crashes = TRUE
  Stalls = TRUE
SPECIFICATION FairSpec
CHECK_DEADLOCK FALSE
INVARIANTS TypeOK NoRecordLost MutualExclusion
PROPERTIES Serialized PatienceIsBounded
