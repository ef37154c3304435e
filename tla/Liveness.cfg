SPECIFICATION MCSpec
CONSTANTS
  Keys = {k1}
  Clients = {c1}
  ClientIds = {}
  Capacity = 1
  None = None
  Resync = Resync
  Asked = Asked
  MaxRev = 2
  MaxCompactions = 1
  MaxInstalls = 0
  MaxProgress = 0
  a = a
  b = b
  Scenes <- MCScenes
  Sessions = {a, b}
  NoSession = NoSession
  KindOf <- MCKindOf
  EventCap = 2
  MaxEvents = 3
  MaxDrops = 0
  s1 = s1
  Servers = {s1, s2}
  Nobody = Nobody
  Ttls = {0}
  MinTtl = 1
  AllAtLeast = FALSE
  MaxTerm = 1
  MaxEntries = 2
  Regrants = FALSE
  CallsSpanTerms = FALSE
  put1 = put1
  put2 = put2
  revoke = revoke
  Callers = {put1, put2, revoke}
  Revokes = {revoke}
  Sizes <- MCSizes
  MaxBatch = 3
  MaxBatchBytes = 2
  Peers = {p}
  Joiners = {m}
  Old = {m}
  MaxTransfers = 1
  PropScenes = {{"move"}, {"fault", "revoke"}}
  SpKeys = {k}
  SpBase = 1
  HighMark = 6
  AlarmMark = 7
  ClearMark = 3
  Retention = 1
  MinReclaim = 1
  MinFile = 2
  AutoTicks = FALSE
  MaxSpRev = 3
  MaxInFlight = 1
  MaxTrouble = 0
  PolBatches = {0, 1, 2}
  SnapCount = 2
  KeepCounts = {0}
  SpLast = 3
  Installs = 0
  Restarts = 1
  Redundant = FALSE
  LsTerms = {1, 2}
  LsMax = 2
  MaxCrashes = 1
  StTerms = 1
  StLen = 3
  StBuilt = 3
  ChunkRetries = 2
  StFaults = 2
  ReadBackFails = FALSE
  n1 = n1
  CiNodes = {n1, n2}
  CiIds = {1, 2}
  CiLogMax = 2
  CiFaults = 2
INVARIANTS
  KlRight
PROPERTIES
  KlContract IdSettles
     EveryCallAnswered AlarmClears 
  DurableIsApplied SnapshotArrives
CHECK_DEADLOCK FALSE
