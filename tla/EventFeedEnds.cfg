CONSTANTS
  Feeds = {f1}
  MaxEmits = 3
  HistoryMax = 2
SPECIFICATION FeedSpec
CHECK_DEADLOCK FALSE
INVARIANT FeedsAreDrained
