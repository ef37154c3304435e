----------------------------- MODULE RedbEngine -----------------------------
(***************************************************************************)
(* The redb engine (storage/redb_engine.rs): commits and snapshots, the    *)
(* in-place defragment, which waits for the open snapshots, and the        *)
(* rewrite of the data file into a new one while commits go on.            *)
(*                                                                         *)
(* redb itself is external: a commit is atomic and seen by the snapshots   *)
(* taken after it, a durable one also makes every commit before it         *)
(* durable.  A file is [vis, dur]: what it shows, and what it reopens with *)
(* after a power failure.  Commits hold the handle's read lock; the switch *)
(* and the defragment hold its write lock.                                 *)
(***************************************************************************)
EXTENDS Naturals, Sequences

CONSTANTS
  RKeys, RVals, RAbsent,
  RBatches,      \* the batches committed: functions from some keys to values
  Clients,       \* callers of snapshot and commit
  Defrag,        \* the caller of defragment
  NoCapture,
  MaxCapture,    \* CAPTURE_MAX_BYTES, in batches
  MaxRHist,      \* bound: no commit once rhist is this long
  MaxRewrites,   \* bound
  DirSyncFails   \* whether syncing the directory after the rename may fail

ASSUME RedbAssumption ==
  /\ Defrag \notin Clients /\ RAbsent \notin RVals
  /\ \A b \in RBatches : DOMAIN b \subseteq RKeys /\ \A k \in DOMAIN b : b[k] \in RVals \cup {RAbsent}
  /\ NoCapture \notin [ops : Seq(RBatches), abandoned : BOOLEAN]

VARIABLES
  files,         \* the data file and the file a rewrite writes
  handle,        \* the file the engine uses
  names,         \* the files the data file's name may stand for after a power failure
  capture,       \* the commits a rewrite has yet to apply, or NoCapture
  rw,            \* the rewrite
  dpc,           \* the defragment
  pending,       \* defrag_pending
  cpc,           \* what each client is doing
  woken,         \* waiters a Notify has woken
  rewrites,
  rhist, rfloor  \* history: the commits of this incarnation, and what must survive

redbVars == <<files, handle, names, capture, rw, dpc, pending, cpc, woken, rewrites, rhist, rfloor>>

REmpty == [k \in RKeys |-> RAbsent]
RContents == [RKeys -> RVals \cup {RAbsent}]
Other(f) == 3 - f
Written(m, b) == [k \in RKeys |-> IF k \in DOMAIN b THEN b[k] ELSE m[k]]
NoRewrite == [pc |-> "none", src |-> REmpty, todo |-> {}]

(* The handle's write lock is held: commits and new snapshots wait. *)
Exclusive == rw.pc \in {"last", "rename", "dirsync"} \/ dpc = "compact"

(* One rewrite or defragment at a time. *)
MaintenanceFree == rw.pc = "none" /\ dpc = "idle"

----------------------------------------------------------------------------
(* commit, commit_stream, sync. *)

(* Capture::push. *)
Push(c, b) ==
  IF c = NoCapture \/ c.abandoned THEN c
  ELSE IF Len(c.ops) >= MaxCapture THEN [ops |-> << >>, abandoned |-> TRUE]
  ELSE [c EXCEPT !.ops = Append(@, b)]

Abandon(c) == IF c = NoCapture THEN c ELSE [ops |-> << >>, abandoned |-> TRUE]

(* The capture is locked across the commit. *)
Captured(b, sync) == Push(capture, b)

Commits(b, sync) ==
  /\ ~Exclusive
  /\ Len(rhist) < MaxRHist
  /\ files' = [files EXCEPT ![handle].vis = Written(@, b),
                            ![handle].dur = IF sync THEN Written(files[handle].vis, b) ELSE @]
  /\ rhist' = Append(rhist, Written(files[handle].vis, b))
  /\ rfloor' = IF sync THEN Len(rhist) + 1 ELSE rfloor

RCommit(c, b, sync) ==
  /\ cpc[c] = "live"
  /\ Commits(b, sync)
  /\ capture' = Captured(b, sync)
  /\ UNCHANGED <<handle, names, rw, dpc, pending, cpc, woken, rewrites>>

(* commit_stream, a raft snapshot install: the whole store is replaced. *)
RCommitStream(c, b) ==
  /\ cpc[c] = "live"
  /\ Commits([k \in RKeys |-> IF k \in DOMAIN b THEN b[k] ELSE RAbsent], TRUE)
  /\ capture' = Abandon(capture)
  /\ UNCHANGED <<handle, names, rw, dpc, pending, cpc, woken, rewrites>>

RSync ==
  /\ ~Exclusive
  /\ files[handle].dur # files[handle].vis \/ rfloor < Len(rhist)
  /\ files' = [files EXCEPT ![handle].dur = files[handle].vis]
  /\ rfloor' = Len(rhist)
  /\ UNCHANGED <<handle, names, capture, rw, dpc, pending, cpc, woken, rewrites, rhist>>

----------------------------------------------------------------------------
(* snapshot: while a defragment is draining, a client arms a waiter, looks *)
(* again, and waits.  notify_waiters wakes the waiters armed before it.    *)

SnapshotCheck(c) ==
  /\ cpc[c] \in {"idle", "again"}
  /\ cpc' = [cpc EXCEPT ![c] = IF pending THEN "arm" ELSE "read"]
  /\ UNCHANGED <<files, handle, names, capture, rw, dpc, pending, woken, rewrites, rhist, rfloor>>

SnapshotArm(c) ==
  /\ cpc[c] = "arm"
  /\ cpc' = [cpc EXCEPT ![c] = "armed"]
  /\ UNCHANGED <<files, handle, names, capture, rw, dpc, pending, woken, rewrites, rhist, rfloor>>

LookAgain == pending

SnapshotLook(c) ==
  /\ cpc[c] = "armed"
  /\ cpc' = [cpc EXCEPT ![c] = IF LookAgain THEN "wait" ELSE "read"]
  /\ UNCHANGED <<files, handle, names, capture, rw, dpc, pending, woken, rewrites, rhist, rfloor>>

SnapshotWoken(c) ==
  /\ cpc[c] = "wait" /\ c \in woken
  /\ cpc' = [cpc EXCEPT ![c] = "again"]
  /\ woken' = woken \ {c}
  /\ UNCHANGED <<files, handle, names, capture, rw, dpc, pending, rewrites, rhist, rfloor>>

(* The read transaction begins under the read lock; it is counted after. *)
BeginRead(c) ==
  /\ cpc[c] = "read" /\ ~Exclusive
  /\ cpc' = [cpc EXCEPT ![c] = "begun"]
  /\ woken' = woken \ {c}
  /\ UNCHANGED <<files, handle, names, capture, rw, dpc, pending, rewrites, rhist, rfloor>>

CountReader(c) ==
  /\ cpc[c] = "begun"
  /\ cpc' = [cpc EXCEPT ![c] = "live"]
  /\ UNCHANGED <<files, handle, names, capture, rw, dpc, pending, woken, rewrites, rhist, rfloor>>

LiveReaders == {c \in Clients : cpc[c] = "live"}

(* The snapshot is dropped: uncounted first, the last one waking the       *)
(* defragment, and the read transaction closed after.                      *)
DropReader(c) ==
  /\ cpc[c] = "live"
  /\ cpc' = [cpc EXCEPT ![c] = "closing"]
  /\ woken' = IF LiveReaders = {c} /\ dpc \in {"armed", "wait"} THEN woken \cup {Defrag} ELSE woken
  /\ UNCHANGED <<files, handle, names, capture, rw, dpc, pending, rewrites, rhist, rfloor>>

CloseRead(c) ==
  /\ cpc[c] = "closing"
  /\ cpc' = [cpc EXCEPT ![c] = "idle"]
  /\ UNCHANGED <<files, handle, names, capture, rw, dpc, pending, woken, rewrites, rhist, rfloor>>

----------------------------------------------------------------------------
(* defragment: it raises the flag, waits for the counted snapshots with    *)
(* the same arm-and-look, and compacts under the write lock.               *)

DefragBegin ==
  /\ MaintenanceFree
  /\ dpc' = "check" /\ pending' = TRUE
  /\ UNCHANGED <<files, handle, names, capture, rw, cpc, woken, rewrites, rhist, rfloor>>

DefragCheck ==
  /\ dpc = "check"
  /\ dpc' = IF LiveReaders # {} THEN "arm" ELSE "lock"
  /\ UNCHANGED <<files, handle, names, capture, rw, pending, cpc, woken, rewrites, rhist, rfloor>>

DefragArm ==
  /\ dpc = "arm"
  /\ dpc' = "armed"
  /\ UNCHANGED <<files, handle, names, capture, rw, pending, cpc, woken, rewrites, rhist, rfloor>>

ReadersLeft == LiveReaders # {}

DefragLook ==
  /\ dpc = "armed"
  /\ dpc' = IF ReadersLeft THEN "wait" ELSE "lock"
  /\ woken' = IF ReadersLeft THEN woken ELSE woken \ {Defrag}
  /\ UNCHANGED <<files, handle, names, capture, rw, pending, cpc, rewrites, rhist, rfloor>>

DefragWoken ==
  /\ dpc = "wait" /\ Defrag \in woken
  /\ dpc' = "check"
  /\ woken' = woken \ {Defrag}
  /\ UNCHANGED <<files, handle, names, capture, rw, pending, cpc, rewrites, rhist, rfloor>>

(* DefragPending is dropped: the flag first, then the waiters are woken. *)
LowerFlag(next) ==
  /\ dpc' = next /\ pending' = FALSE
  /\ woken' = woken \ {Defrag}

(* DRAIN_TIMEOUT. *)
DefragTimeout ==
  /\ dpc = "wait" /\ Defrag \notin woken
  /\ LowerFlag("notify")
  /\ UNCHANGED <<files, handle, names, capture, rw, cpc, rewrites, rhist, rfloor>>

DefragLock ==
  /\ dpc = "lock"
  /\ dpc' = "compact"
  /\ UNCHANGED <<files, handle, names, capture, rw, pending, cpc, woken, rewrites, rhist, rfloor>>

(* A durable commit, then the compaction, which redb refuses (an error)    *)
(* while a read transaction is open; the contents stay as they are.        *)
DefragCompact ==
  /\ dpc = "compact"
  /\ files' = [files EXCEPT ![handle].dur = files[handle].vis]
  /\ rfloor' = Len(rhist)
  /\ LowerFlag("notify")
  /\ UNCHANGED <<handle, names, capture, rw, cpc, rewrites, rhist>>

DefragNotify ==
  /\ dpc = "notify"
  /\ dpc' = "idle"
  /\ woken' = woken \cup {c \in Clients : cpc[c] \in {"armed", "wait"}}
  /\ UNCHANGED <<files, handle, names, capture, rw, pending, cpc, rewrites, rhist, rfloor>>

----------------------------------------------------------------------------
(* rewrite. *)

rwSame == UNCHANGED <<dpc, pending, cpc, woken>>

(* The read transaction and the capture start together, under the capture's lock. *)
RewriteBegin ==
  /\ MaintenanceFree /\ rewrites < MaxRewrites
  /\ names = {handle}
  /\ rewrites' = rewrites + 1
  /\ capture' = [ops |-> << >>, abandoned |-> FALSE]
  /\ rw' = [pc |-> "copy", src |-> files[handle].vis, todo |-> RKeys]
  /\ files' = [files EXCEPT ![Other(handle)] = [vis |-> REmpty, dur |-> REmpty]]
  /\ rwSame /\ UNCHANGED <<handle, names, rhist, rfloor>>

(* copy_tables: a chunk, then a look at whether the capture was abandoned. *)
CopyChunk(k) ==
  /\ rw.pc = "copy" /\ k \in rw.todo
  /\ ~capture.abandoned
  /\ files' = [files EXCEPT ![Other(handle)].vis[k] = rw.src[k]]
  /\ rw' = [rw EXCEPT !.todo = @ \ {k}, !.pc = IF rw.todo = {k} THEN "catchup" ELSE @]
  /\ rwSame /\ UNCHANGED <<handle, names, capture, rewrites, rhist, rfloor>>

(* Mutant of CatchUp: the batches are applied newest first. *)
NewestFirstMutant(m, ops) ==
  LET after[i \in 0..Len(ops)] == IF i = 0 THEN m ELSE Written(after[i - 1], ops[Len(ops) + 1 - i])
  IN after[Len(ops)]

(* apply_all: the batches, in the order they were committed. *)
CatchUp(m, ops) ==
  LET after[i \in 0..Len(ops)] == IF i = 0 THEN m ELSE Written(after[i - 1], ops[i])
  IN after[Len(ops)]

TakeCapture ==
  /\ ~capture.abandoned
  /\ files' = [files EXCEPT ![Other(handle)].vis = CatchUp(@, capture.ops)]

CatchUpPass ==
  /\ rw.pc = "catchup" /\ capture.ops # << >>
  /\ TakeCapture
  /\ capture' = [capture EXCEPT !.ops = << >>]
  /\ rwSame /\ UNCHANGED <<handle, names, rw, rewrites, rhist, rfloor>>

(* The passes are over, whatever is left; the file is compacted and the    *)
(* engine's write lock taken.                                              *)
RewriteLock ==
  /\ rw.pc = "catchup"
  /\ rw' = [rw EXCEPT !.pc = "last"]
  /\ rwSame /\ UNCHANGED <<files, handle, names, capture, rewrites, rhist, rfloor>>

(* Mutant of LastPass: the new file is closed without the durable commit. *)
UndurableMutant ==
  /\ rw.pc = "last"
  /\ TakeCapture
  /\ capture' = NoCapture
  /\ rw' = [rw EXCEPT !.pc = "rename"]
  /\ rwSame /\ UNCHANGED <<handle, names, rewrites, rhist, rfloor>>

LastPass ==
  /\ rw.pc = "last"
  /\ ~capture.abandoned
  /\ LET m == CatchUp(files[Other(handle)].vis, capture.ops)
     IN files' = [files EXCEPT ![Other(handle)] = [vis |-> m, dur |-> m]]
  /\ capture' = NoCapture
  /\ rw' = [rw EXCEPT !.pc = "rename"]
  /\ rwSame /\ UNCHANGED <<handle, names, rewrites, rhist, rfloor>>

Rename ==
  /\ rw.pc = "rename"
  /\ names' = names \cup {Other(handle)}
  /\ rw' = [rw EXCEPT !.pc = "dirsync"]
  /\ rwSame /\ UNCHANGED <<files, handle, capture, rewrites, rhist, rfloor>>

(* The directory is synced and the handle swapped. *)
Switch ==
  /\ rw.pc = "dirsync"
  /\ names' = {Other(handle)} /\ handle' = Other(handle)
  /\ rw' = NoRewrite
  /\ rfloor' = Len(rhist)
  /\ rwSame /\ UNCHANGED <<files, capture, rewrites, rhist>>

(* An error, or an abandoned capture: RewriteCleanup ends the capture and  *)
(* removes the new file, if it still has its own name.                     *)
RewriteFails ==
  /\ rw.pc \in {"copy", "catchup", "last", "rename"} \/ (rw.pc = "dirsync" /\ DirSyncFails)
  /\ capture' = NoCapture
  /\ rw' = NoRewrite
  /\ rwSame /\ UNCHANGED <<files, handle, names, rewrites, rhist, rfloor>>

(* A power failure: the engine reopens whichever file the name is left     *)
(* with, as of its last durable commit; an unfinished rewrite is removed.  *)
PowerFailure ==
  /\ \E f \in names :
       /\ handle' = f /\ names' = {f}
       /\ files' = [files EXCEPT ![f].vis = files[f].dur]
       /\ rhist' = <<files[f].dur>>
  /\ rfloor' = 1
  /\ capture' = NoCapture /\ rw' = NoRewrite
  /\ dpc' = "idle" /\ pending' = FALSE
  /\ cpc' = [c \in Clients |-> "idle"] /\ woken' = {}
  /\ UNCHANGED rewrites

----------------------------------------------------------------------------
RedbInit ==
  /\ files = [f \in 1..2 |-> [vis |-> REmpty, dur |-> REmpty]]
  /\ handle = 1 /\ names = {1}
  /\ capture = NoCapture /\ rw = NoRewrite
  /\ dpc = "idle" /\ pending = FALSE
  /\ cpc = [c \in Clients |-> "idle"] /\ woken = {}
  /\ rewrites = 0
  /\ rhist = <<REmpty>> /\ rfloor = 1

ClientStep(c) ==
  \/ \E b \in RBatches : RCommitStream(c, b) \/ \E sync \in BOOLEAN : RCommit(c, b, sync)
  \/ SnapshotCheck(c) \/ SnapshotArm(c) \/ SnapshotLook(c) \/ SnapshotWoken(c)
  \/ BeginRead(c) \/ CountReader(c) \/ DropReader(c) \/ CloseRead(c)

DefragStep ==
  DefragBegin \/ DefragCheck \/ DefragArm \/ DefragLook \/ DefragWoken
  \/ DefragTimeout \/ DefragLock \/ DefragCompact \/ DefragNotify

RewriteStep ==
  RewriteBegin \/ (\E k \in RKeys : CopyChunk(k)) \/ CatchUpPass \/ RewriteLock
  \/ LastPass \/ Rename \/ Switch \/ RewriteFails

RedbNext ==
  (\E c \in Clients : ClientStep(c)) \/ RSync \/ DefragStep \/ RewriteStep \/ PowerFailure

RedbSpec == RedbInit /\ [][RedbNext]_redbVars

----------------------------------------------------------------------------
(* Type correctness; a rewrite captures until its last pass, and only then. *)
RedbTypeOK ==
  /\ files \in [1..2 -> [vis : RContents, dur : RContents]]
  /\ handle \in 1..2 /\ names \in SUBSET (1..2)
  /\ rw.pc \in {"none", "copy", "catchup", "last", "rename", "dirsync"}
  /\ dpc \in {"idle", "check", "arm", "armed", "wait", "lock", "compact", "notify"}
  /\ cpc \in [Clients -> {"idle", "again", "arm", "armed", "wait", "read", "begun", "live", "closing"}]
  /\ woken \subseteq Clients \cup {Defrag}
  /\ (capture = NoCapture) = (rw.pc \in {"none", "rename", "dirsync"})

(* The catch-up argument of rewrite: at every moment the captured commits, *)
(* applied in order to what has been copied (and to the read transaction   *)
(* for what has not), give exactly what the data file shows.               *)
CapturesTheRest ==
  rw.pc \in {"copy", "catchup", "last"} /\ ~capture.abandoned =>
    files[handle].vis =
      CatchUp([k \in RKeys |-> IF k \in rw.todo THEN rw.src[k] ELSE files[Other(handle)].vis[k]],
              capture.ops)

(* Neither a waiting snapshot nor a waiting defragment has missed the      *)
(* notification it waits for: a snapshot waits only while the flag is up   *)
(* or about to be notified, a defragment only while a snapshot is counted. *)
NoLostWakeup ==
  /\ \A c \in Clients : cpc[c] = "wait" /\ c \notin woken => pending \/ dpc = "notify"
  /\ dpc = "wait" /\ Defrag \notin woken => LiveReaders # {}

(* The engine keeps the KvStore contract (storage/kvstore.rs) across       *)
(* rewrites, defragments and power failures: a crash loses only a suffix   *)
(* of the non-sync commits, whichever file the name is left with.          *)
KvContract == INSTANCE KvStore WITH Contents <- RContents, hist <- rhist, floor <- rfloor

RedbContract == KvContract!Spec

(* Beside snapshots and a defragment a rewrite misses no commit, and       *)
(* nobody misses the notification it waits for (rewrite, defragment,       *)
(* snapshot).                                                              *)
RewriteRight == RedbTypeOK /\ CapturesTheRest /\ NoLostWakeup
=============================================================================
