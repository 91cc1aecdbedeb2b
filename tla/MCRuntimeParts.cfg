CONSTANTS
  c1 = c1
  c2 = c2
  e1 = e1
  t1 = t1
  f1 = f1
  f2 = f2
  n1 = n1
  n2 = n2
  o1 = o1
  Callers <- TwoCallers
  MaxHandles = 2
  Texts <- TwoTexts
  EnvTexts <- OneText
  MaxSame = 3
  MaxAlternates = 2
  Window = 5
  MaxHistory = 7
  CanEscalate = TRUE
  Feeds <- TwoFeeds
  MaxEmits = 3
  HistoryMax = 2
  Notes <- TwoNotes
  Others <- OneOther
  MaxVersion = 3
  Garbled = 2
  MaxWrites = 3
SPECIFICATION PartsSpec
CHECK_DEADLOCK FALSE
INVARIANTS TypesOK HonestStatus RestartReplaces SignalsAreEarned FeedIsFaithful LedgerNeverAhead
PROPERTIES PartsComplete
