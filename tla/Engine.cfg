SPECIFICATION MCSpec
CONSTANTS
  Members = {a, b}
  Log <- MCLog
  MaxRun = 2
  Retain = 1
  Budget <- MCBudget
  MidBatch = FALSE
  Overlap = FALSE
  RKeys = {k}
  RVals = {v}
  RAbsent = RAbsent
  RBatches <- MCRBatches
  Clients = {c1, c2}
  Defrag = Defrag
  NoCapture = NoCapture
  MaxCapture = 2
  MaxRHist = 3
  MaxRewrites = 1
  DirSyncFails = FALSE
INVARIANTS
    RewriteRight
PROPERTIES
  RedbContract
CHECK_DEADLOCK FALSE
SYMMETRY MCSymmetry
