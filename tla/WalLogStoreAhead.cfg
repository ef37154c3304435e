SPECIFICATION MCSpec
CONSTANTS
  Index <- Indexes
  Val = {1}
  MaxGroup = 2
  MaxChan = 2
  Budgets <- AheadBudget
  LrSizes = {1}
  CacheLimit = 2
  SegmentBytes = 3
  MessageBytes = 2
  LrLast = 1
  LrIds = 1
  LrQueue = 1
INVARIANT PurgeCovered
CHECK_DEADLOCK FALSE
