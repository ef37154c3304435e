SPECIFICATION MCSpec
CONSTANTS
  Keys = {k1}
  Clients = {c1, c2}
  ClientIds = {}
  Capacity = 1
  None = None
  Resync = Resync
  Asked = Asked
  MaxRev = 2
  MaxCompactions = 1
  MaxInstalls = 1
  MaxProgress = 1
  a = a
  b = b
  c = c
  Scenes <- MCScenes
  Sessions = {a, b, c}
  NoSession = NoSession
  KindOf <- MCKindOf
  EventCap = 2
  MaxEvents = 3
  MaxDrops = 1
  s1 = s1
  s2 = s2
  Servers = {s1, s2}
  Nobody = Nobody
  Ttls = {0}
  MinTtl = 1
  AllAtLeast = TRUE
  MaxTerm = 2
  MaxEntries = 2
  Regrants = FALSE
  CallsSpanTerms = FALSE
INVARIANTS
  StreamRight LocksRight

  
CHECK_DEADLOCK FALSE
SYMMETRY Symmetry
