SPECIFICATION MCSpec
CONSTANTS
  Index <- Indexes
  Val = {1, 2}
  MaxGroup = 2
  MaxChan = 2
  Budgets <- MCBudgets
  LrSizes = {1, 3}
  CacheLimit = 2
  SegmentBytes = 3
  MessageBytes = 2
  LrLast = 3
  LrIds = 3
  LrQueue = 2
INVARIANTS
  LogKept LogWhole CacheRight
CHECK_DEADLOCK FALSE
