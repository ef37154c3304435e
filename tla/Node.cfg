SPECIFICATION MCSpec
CONSTANTS
  put1 = put1
  put2 = put2
  revoke = revoke
  Callers = {put1, put2, revoke}
  Revokes = {revoke}
  Sizes <- MCSizes
  MaxBatch = 3
  MaxBatchBytes = 2
  Peers = {b}
  Joiners = {m}
  Old = {m}
  MaxTransfers = 1
  PropScenes = {{"join"}, {"move"}, {"fault", "revoke"}}
  n1 = n1
  Seeds = {n1, n2}
  MbJoiners = {j}
  Older = {j}
  MaxMbCalls = 2
  MaxMbFaults = 1
  SpKeys = {k}
  SpBase = 1
  HighMark = 6
  AlarmMark = 7
  ClearMark = 3
  Retention = 1
  MinReclaim = 1
  MinFile = 2
  AutoTicks = TRUE
  MaxSpRev = 3
  MaxInFlight = 1
  MaxTrouble = 1
  PolBatches = {0, 1, 2}
  SnapCount = 2
  KeepCounts = {0, 2}
  SpLast = 3
  Installs = 1
  Restarts = 1
  Redundant = FALSE
  Index = {1, 2}
  Val = {1}
  Records <- AllRecords
  Zero = Zero
  Torn = Torn
  SegRecords = 2
  Reordered = FALSE
  MaxWrites = 4
  MaxRwCrashes = 1
  MgKeys = {k1, k2}
  MgLeases <- MCMgLeases
  MgRevs = 4
  MgRuns = 2
  TombsDated = TRUE
  MgNone = MgNone

   
PROPERTIES
     WalRight
CHECK_DEADLOCK FALSE
