SPECIFICATION FeedSpec
CONSTANTS
  Thread = {t, u}
  MaxChanges = 2
  MaxDepth = 0
  Calls = {"transaction"}
CHECK_DEADLOCK FALSE
INVARIANT OnlyCommitted
