--------------------------- MODULE MCWriteBehind ---------------------------
(* Instances of WriteBehind.  The state machine writes k1 and k2, with     *)
(* range deletes; the log store's mirror writes k3 without sync.           *)
EXTENDS WriteBehind

CONSTANTS k1, k2, k3, a, sm, log

Put(k, v) == [keys |-> {k}, val |-> v, range |-> FALSE]
DelRange(ks) == [keys |-> ks, val |-> Absent, range |-> TRUE]

MCKeysOf == [w \in Writers |-> IF w = sm THEN {k1, k2} ELSE {k3}]

MCBatches == {<<DelRange({k1, k2}), Put(k1, a)>>,
              <<Put(k1, a), Put(k2, a), DelRange({k1})>>,
              <<Put(k3, a)>>}
=============================================================================
