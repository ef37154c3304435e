SPECIFICATION MCSpec
CONSTANTS
  Members = {1, 2}
  Leader = 1
  Founders = {1}
  c1 = c1
  c2 = c2
  ACalls = {c1, c2}
  NoHash = NoHash
  OldHash = OldHash
  PermKeys = {0, 2}
  GrantKey = 0
  MaxChanges = 1
  AOps <- MCAOps
  Voters = {n1, n2, n3}
  Founder = n1
  Reads = {r1, r2}
  NoRead = NoRead
  MaxRTerm = 2
  MaxIndex = 2
  LyKeys <- MCLyKeys
  LyVals <- MCLyVals
  LyLayers = 2
  MinPage = 1
INVARIANTS
  BarrierRight MergeRight
PROPERTIES
  AuthRight
CONSTRAINT ReadsGoOn
SYMMETRY Symmetry
CHECK_DEADLOCK FALSE
