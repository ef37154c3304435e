SPECIFICATION FairSpec
CONSTANTS
  k1 = k1  k2 = k2  k3 = k3  a = a  sm = sm  log = log
  Keys = {k1, k2, k3}
  Vals = {a}
  Absent = Absent
  Writers = {sm}
  KeysOf <- MCKeysOf
  Batches <- MCBatches
  Readers = {r1}
  Syncers = {ckpt}
  Defraggers = {defrag}
  Nobody = Nobody
  MaxLayers = 1
  MaxHist = 3
PROPERTIES OneWriterContract BackpressureEnds
