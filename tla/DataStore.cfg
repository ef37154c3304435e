SPECIFICATION MCSpec
CONSTANTS
  k1 = k1  k2 = k2  k3 = k3  a = a  sm = sm  log = log
  Keys = {k1, k2, k3}
  Vals = {a}
  Absent = Absent
  Writers = {sm, log}
  KeysOf <- MCKeysOf
  Batches <- MCBatches
  Readers = {r1}
  Syncers = {ckpt}
  Defraggers = {}
  Nobody = Nobody
  MaxLayers = 1
  MaxHist = 3
  RvKeys = {x1, x2}
  RvReaders = {r}
  Tries = 2
  NoRev = NoRev
  NoWork = NoWork
  MaxRev = 2
  MaxInstalls = 1
  self = self
  other = other
  Self <- self
  Other <- other
  Named <- MCNamed
  DdRetain = 2
  SafetyRetain = 2
  FirstFiles <- MCFirstFiles
  MaxAt = 3
  DdBudgets <- MCDdBudgets
INVARIANTS
  ViewIsCommitted SnapshotConsistent SyncedSurvives ReadsRight
PROPERTIES
  RestartsRight
