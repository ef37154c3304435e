---------------------------- MODULE WriteBehind ----------------------------
(***************************************************************************)
(* The write-behind engine (storage/write_behind.rs): commits that need    *)
(* not be durable become RAM layers over the base engine, a flush moves    *)
(* them into it, and a checkpoint makes the base durable.                  *)
(*                                                                         *)
(* A key stands for a (table, key) pair.  Every write to the base engine   *)
(* happens under flush_lock, whose holder is flush.who; the layers' RwLock *)
(* is held for reading by the processes in snapping and taken for writing  *)
(* within the single step that changes the list.                           *)
(***************************************************************************)
EXTENDS Naturals, Sequences

CONSTANTS
  Keys, Vals,
  Absent,        \* what a key without a value reads as
  Writers,       \* callers of commit, each of which awaits its commits
  KeysOf,        \* the keys each writer writes
  Batches,       \* the op lists the writers commit
  Readers,       \* callers of snapshot
  Syncers,       \* callers of sync (the checkpointer)
  Defraggers,    \* callers of defragment
  Nobody,
  MaxLayers,     \* back-pressure: the layer count and byte budget
  MaxHist        \* bound: no commit begins once hist is this long

Procs == Writers \cup Syncers \cup Defraggers

(* A WriteBatch op: a point op (put, delete) or a range delete. *)
Op == {o \in [keys : SUBSET Keys, val : Vals \cup {Absent}, range : BOOLEAN] :
         o.range => o.val = Absent}

Contents == [Keys -> Vals \cup {Absent}]

ASSUME WriterAssumption ==
  /\ KeysOf \in [Writers -> SUBSET Keys]
  /\ \A u, w \in Writers : u # w => KeysOf[u] \cap KeysOf[w] = {}

ASSUME BatchAssumption == Batches \subseteq Seq(Op)

ASSUME NameAssumption ==
  /\ Absent \notin Vals
  /\ Writers \cap Syncers = {}
  /\ Writers \cap Defraggers = {}
  /\ Syncers \cap Defraggers = {}
  /\ Nobody \notin Procs

ASSUME BoundAssumption == MaxLayers \in Nat /\ MaxHist \in Nat

VARIABLES
  base,      \* what the base engine shows its readers
  durable,   \* what it reopens with after a crash
  layers,    \* committed layers not in the base yet, oldest first
  flush,     \* the flush_lock holder, how far it is and the list it flushes
  pc,        \* what each process is doing
  batch,     \* the batch of each writer's commit in progress
  snapping,  \* readers inside snapshot(), holding the layers' read lock
  snap,      \* per reader inside snapshot(), the base snapshot it has
  hist,      \* history: the contents after each commit of this incarnation
  floor,     \* history: per writer, a state of hist that must survive
  began,     \* history: Len(hist) when each process' durable call began
  seen       \* history: the contents when each reader's snapshot was taken

vars == <<base, durable, layers, flush, pc, batch, snapping, snap, hist,
          floor, began, seen>>

----------------------------------------------------------------------------
(* Batches and layers. *)

Latest(S) == IF S = {} THEN 0 ELSE CHOOSE i \in S : \A j \in S : j <= i

(* The position of the op of b that decides key k, 0 if none does. *)
Deciding(b, k) == Latest({i \in DOMAIN b : k \in b[i].keys})

(* The base engine applies a batch's ops in order: the last one decides. *)
ApplyBatch(m, b) ==
  [k \in Keys |-> IF Deciding(b, k) = 0 THEN m[k] ELSE b[Deciding(b, k)].val]

(* Layer::from_batch: point results win over the range deletes, which      *)
(* remove the earlier point writes they cover.                             *)
FromBatch(b) ==
  [entries |-> [k \in {x \in Keys : /\ Deciding(b, x) # 0
                                    /\ ~b[Deciding(b, x)].range}
                  |-> b[Deciding(b, k)].val],
   dels    |-> UNION {b[i].keys : i \in {j \in DOMAIN b : b[j].range}}]

Layer == {FromBatch(b) : b \in Batches}

Touches(l, k) == k \in DOMAIN l.entries \/ k \in l.dels

(* What a layer says of a key it touches: TableLayer::covered. *)
Says(l, k) == IF k \in DOMAIN l.entries THEN l.entries[k] ELSE Absent

(* Mutant of Top: the oldest layer wins. *)
BottomMutant(ls, k) ==
  LET S == {i \in DOMAIN ls : Touches(ls[i], k)}
  IN  IF S = {} THEN 0 ELSE CHOOSE i \in S : \A j \in S : i <= j

(* OverlaySnapshot::get: the newest layer that touches the key decides,    *)
(* else the base.  A flush writes the same into the base, because to_ops   *)
(* puts each layer's range deletes before its points, oldest layer first.  *)
Top(ls, k) == Latest({i \in DOMAIN ls : Touches(ls[i], k)})

Overlay(m, ls) ==
  [k \in Keys |-> IF Top(ls, k) = 0 THEN m[k] ELSE Says(ls[Top(ls, k)], k)]

BatchesOf(w) == {b \in Batches : \A i \in DOMAIN b : b[i].keys \subseteq KeysOf[w]}

----------------------------------------------------------------------------
Now == hist[Len(hist)]

Empty == [k \in Keys |-> Absent]

NoFlush == [who |-> Nobody, step |-> "free", list |-> <<>>]

Init ==
  /\ base = Empty
  /\ durable = base
  /\ layers = <<>>
  /\ flush = NoFlush
  /\ pc = [p \in Procs |-> "idle"]
  /\ batch = [w \in Writers |-> <<>>]
  /\ snapping = {}
  /\ snap = [r \in Readers |-> base]
  /\ hist = <<base>>
  /\ floor = [w \in Writers |-> 1]
  /\ began = [p \in Procs |-> 1]
  /\ seen = [r \in Readers |-> base]

(* Mutants: readers do not hold off a change of the list; the whole list   *)
(* goes after a flush; a flush is skipped.                                 *)
UnlockedMutant == TRUE
NoLayersMutant == <<>>
SkipFlushMutant == "done"

(* The layers' write lock waits for every snapshot being taken. *)
WriteLockFree == snapping = {}

(* commit, sync = false: push the layer under the layers' write lock; over *)
(* the budget, the commit flushes before it returns.                       *)
CommitLayer(w, b) ==
  /\ pc[w] = "idle"
  /\ WriteLockFree
  /\ Len(hist) < MaxHist
  /\ layers' = Append(layers, FromBatch(b))
  /\ hist' = Append(hist, ApplyBatch(Now, b))
  /\ pc' = [pc EXCEPT ![w] = IF Len(layers') > MaxLayers THEN "flush" ELSE "idle"]
  /\ UNCHANGED <<base, durable, flush, batch, snapping, snap, floor, began, seen>>

(* commit and commit_stream, sync = true: wait for the flush lock. *)
CommitSync(w, b) ==
  /\ pc[w] = "idle"
  /\ Len(hist) < MaxHist
  /\ pc' = [pc EXCEPT ![w] = "durable"]
  /\ batch' = [batch EXCEPT ![w] = b]
  /\ began' = [began EXCEPT ![w] = Len(hist)]
  /\ UNCHANGED <<base, durable, layers, flush, snapping, snap, hist, floor, seen>>

(* sync: a flush of its own, then the fsync outside the lock (or its       *)
(* error, which ends the call), then the locked part.                      *)
SyncBegin(p) ==
  /\ pc[p] = "idle"
  /\ pc' = [pc EXCEPT ![p] = "flush"]
  /\ began' = [began EXCEPT ![p] = Len(hist)]
  /\ UNCHANGED <<base, durable, layers, flush, batch, snapping, snap, hist, floor, seen>>

Presync(p) ==
  /\ pc[p] = "presync"
  /\ \E s \in {"durable", "idle"} :
       /\ pc' = [pc EXCEPT ![p] = s]
       /\ began' = [began EXCEPT ![p] = IF s = "idle" THEN 1 ELSE @]
  /\ UNCHANGED <<base, durable, layers, flush, batch, snapping, snap, hist, floor, seen>>

DefragmentBegin(p) ==
  /\ pc[p] = "idle"
  /\ pc' = [pc EXCEPT ![p] = "durable"]
  /\ began' = [began EXCEPT ![p] = Len(hist)]
  /\ UNCHANGED <<base, durable, layers, flush, batch, snapping, snap, hist, floor, seen>>

LockFlush(p) ==
  /\ pc[p] \in {"flush", "durable"}
  /\ flush.who = Nobody
  /\ flush' = [who |-> p, step |-> "read", list |-> <<>>]
  /\ UNCHANGED <<base, durable, layers, pc, batch, snapping, snap, hist, floor, began, seen>>

----------------------------------------------------------------------------
(* flush_locked, by the holder of the flush lock. *)

AfterRead == IF layers = <<>> THEN "done" ELSE "write"

(* The layers pushed since the flush read the list. *)
Unflushed == SubSeq(layers, Len(flush.list) + 1, Len(layers))

FlushRead ==
  /\ flush.step = "read"
  /\ flush' = [flush EXCEPT !.list = layers, !.step = AfterRead]
  /\ UNCHANGED <<base, durable, layers, pc, batch, snapping, snap, hist, floor, began, seen>>

(* The base commits the list's ops; no layers lock is held. *)
FlushWrite ==
  /\ flush.step = "write"
  /\ base' = Overlay(base, flush.list)
  /\ flush' = [flush EXCEPT !.step = "drop"]
  /\ UNCHANGED <<durable, layers, pc, batch, snapping, snap, hist, floor, began, seen>>

(* Only then, under the layers' write lock, the flushed layers go. *)
FlushDrop ==
  /\ flush.step = "drop"
  /\ WriteLockFree
  /\ layers' = Unflushed
  /\ flush' = [flush EXCEPT !.list = <<>>, !.step = "done"]
  /\ UNCHANGED <<base, durable, pc, batch, snapping, snap, hist, floor, began, seen>>

(* Mutant of Return: an error path leaves the lock held. *)
KeepLockMutant(next) ==
  /\ flush' = [flush EXCEPT !.step = "free"]
  /\ pc' = [pc EXCEPT ![flush.who] = next]
  /\ UNCHANGED <<began, batch>>

(* The holder returns: flush's last step, or an engine error on the way    *)
(* (the `?' after base.commit, or a failing base.sync).                    *)
Return(next) ==
  /\ flush' = NoFlush
  /\ pc' = [pc EXCEPT ![flush.who] = next]
  /\ began' = [began EXCEPT ![flush.who] = IF next = "idle" THEN 1 ELSE @]
  /\ batch' = [w \in Writers |-> IF w = flush.who THEN <<>> ELSE batch[w]]

FlushReturn ==
  /\ flush.step = "done"
  /\ pc[flush.who] = "flush"
  /\ Return(IF flush.who \in Syncers THEN "presync" ELSE "idle")
  /\ UNCHANGED <<base, durable, layers, snapping, snap, hist, floor, seen>>

EngineError ==
  /\ \/ flush.step = "write"
     \/ flush.step = "done" /\ pc[flush.who] = "durable"
  /\ Return("idle")
  /\ UNCHANGED <<base, durable, layers, snapping, snap, hist, floor, seen>>

AtLeast(f, n) == [w \in Writers |-> IF f[w] < n THEN n ELSE f[w]]

(* A durable commit, after its flush: straight into the base. *)
CommitBase ==
  LET w == flush.who IN
  /\ flush.step = "done"
  /\ w \in Writers /\ pc[w] = "durable"
  /\ base' = ApplyBatch(base, batch[w])
  /\ durable' = base'
  /\ hist' = Append(hist, ApplyBatch(Now, batch[w]))
  /\ floor' = [AtLeast(floor, began[w]) EXCEPT ![w] = Len(hist) + 1]
  /\ Return("idle")
  /\ UNCHANGED <<layers, snapping, snap, seen>>

(* base.sync and base.defragment: an empty durable commit. *)
SyncBase ==
  LET p == flush.who IN
  /\ flush.step = "done"
  /\ p \in Syncers \cup Defraggers /\ pc[p] = "durable"
  /\ durable' = base
  /\ floor' = AtLeast(floor, began[p])
  /\ Return("idle")
  /\ UNCHANGED <<base, layers, snapping, snap, hist, seen>>

----------------------------------------------------------------------------
(* snapshot: under the layers' read lock, the base's snapshot (awaited),   *)
(* then the list: what it returns reads as Overlay(snap[r], layers) at     *)
(* SnapshotList(r), and is immutable from then on.                         *)
SnapshotBase(r) ==
  /\ r \notin snapping
  /\ snapping' = snapping \cup {r}
  /\ snap' = [snap EXCEPT ![r] = base]
  /\ seen' = [seen EXCEPT ![r] = Now]
  /\ UNCHANGED <<base, durable, layers, flush, pc, batch, hist, floor, began>>

SnapshotList(r) ==
  /\ r \in snapping
  /\ snapping' = snapping \ {r}
  /\ snap' = [snap EXCEPT ![r] = Empty]
  /\ seen' = [seen EXCEPT ![r] = Empty]
  /\ UNCHANGED <<base, durable, layers, flush, pc, batch, hist, floor, began>>

(* The process dies and reopens: the base is what was durable.             *)
Crash ==
  /\ base' = durable
  /\ layers' = <<>>
  /\ flush' = NoFlush
  /\ pc' = [p \in Procs |-> "idle"]
  /\ snapping' = {}
  /\ hist' = <<durable>>
  /\ floor' = [w \in Writers |-> 1]
  /\ snap' = [r \in Readers |-> Empty]
  /\ seen' = [r \in Readers |-> Empty]
  /\ began' = [p \in Procs |-> 1]
  /\ batch' = [w \in Writers |-> <<>>]
  /\ UNCHANGED durable

FlushStep == FlushRead \/ FlushWrite \/ FlushDrop \/ FlushReturn \/ CommitBase \/ SyncBase

Next ==
  \/ \E w \in Writers : \E b \in BatchesOf(w) : CommitLayer(w, b) \/ CommitSync(w, b)
  \/ \E p \in Syncers : SyncBegin(p) \/ Presync(p)
  \/ \E p \in Defraggers : DefragmentBegin(p)
  \/ \E p \in Procs : LockFlush(p)
  \/ FlushStep
  \/ EngineError
  \/ \E r \in Readers : SnapshotBase(r) \/ SnapshotList(r)
  \/ Crash

Spec == Init /\ [][Next]_vars

(***************************************************************************)
(* Fairness: the runtime keeps polling every task; tokio's Mutex and       *)
(* RwLock queue their waiters, so one that keeps finding the lock free     *)
(* gets it; the engine's calls return.                                     *)
(***************************************************************************)
Fairness ==
  /\ WF_vars(FlushStep)
  /\ \A p \in Syncers : WF_vars(Presync(p))
  /\ SF_vars(FlushDrop)
  /\ \A p \in Procs : SF_vars(LockFlush(p))
  /\ \A r \in Readers : WF_vars(SnapshotList(r))

FairSpec == Spec /\ Fairness

----------------------------------------------------------------------------
(* The flush lock: free, or held at one of the steps of flush_locked. *)
FlushState ==
  [who : Procs, step : {"read", "write", "drop", "done"}, list : Seq(Layer)] \cup {NoFlush}

(* Types of the write-behind state (struct Inner and the callers' stacks). *)
TypeOK ==
  /\ base \in Contents
  /\ durable \in Contents
  /\ layers \in Seq(Layer)
  /\ flush \in FlushState
  /\ pc \in [Procs -> {"idle", "flush", "presync", "durable"}]
  /\ batch \in [Writers -> Batches \cup {<<>>}]
  /\ snapping \subseteq Readers
  /\ snap \in [Readers -> Contents]
  /\ hist \in Seq(Contents) /\ hist # <<>>
  /\ floor \in [Writers -> Nat]
  /\ began \in [Procs -> Nat]
  /\ seen \in [Readers -> Contents]

(* The base under the layers always reads as every commit so far, whatever *)
(* step a flush is at: a layer is neither missed nor seen twice, and a     *)
(* durable commit that goes under newer layers of another writer does not  *)
(* change what they say (write_behind.rs, module docs and flush_locked).   *)
ViewIsCommitted == Overlay(base, layers) = Now

(* A snapshot is one state of that history, the one at its base snapshot,  *)
(* though flushes and durable commits run between its two steps: whenever  *)
(* it reads the list, base and list agree.                                 *)
SnapshotConsistent == \A r \in snapping : Overlay(snap[r], layers) = seen[r]

SameFor(w, m, n) == \A k \in KeysOf[w] : m[k] = n[k]

(* What a crash keeps is, for each writer, the state after some prefix of  *)
(* its commits, at or past every commit that completed before a durable    *)
(* commit, sync or defragment that has returned.                           *)
SyncedSurvives ==
  \A w \in Writers : \E n \in floor[w]..Len(hist) : SameFor(w, durable, hist[n])

TheWriter == CHOOSE w \in Writers : TRUE

Contract == INSTANCE KvStore WITH Contents <- Contents, hist <- hist, floor <- floor[TheWriter]

(* With one writer the layers over the base keep the whole KvStore         *)
(* contract (kvstore.rs, WriteOptions): commits in one order, and a crash  *)
(* that loses only a suffix past what the last completed sync covered.     *)
OneWriterContract == Contract!Spec

(* A commit that has to flush for back-pressure returns in the end.        *)
BackpressureEnds == \A w \in Writers : (pc[w] = "flush") ~> (pc[w] = "idle")
=============================================================================
