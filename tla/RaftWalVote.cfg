SPECIFICATION RwSpec
CONSTANTS
  Index = {1, 2}
  Val = {1}
  Records <- AllRecords
  Zero = Zero
  Torn = Torn
  SegRecords = 2
  Reordered = FALSE
  MaxWrites = 4
  MaxRwCrashes = 1
INVARIANT StickyIsHeld
CHECK_DEADLOCK FALSE
