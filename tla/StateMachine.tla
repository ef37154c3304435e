---------------------------- MODULE StateMachine ----------------------------
(***************************************************************************)
(* The raft state machine of each member (raft/state_machine.rs): apply,   *)
(* with batched entries applied in several commits; building, sending and  *)
(* installing snapshots; reopening after a power failure.                  *)
(*                                                                         *)
(* The engine commits without an fsync and a power failure keeps a prefix  *)
(* of its commits (the module WriteBehind): disk[m] is the sequence of     *)
(* database states a failure could leave, the last one the current one.    *)
(* A database state is the sequence of requests applied to it, each named  *)
(* by its place in the log, and the raft metadata of mvcc_meta.            *)
(*                                                                         *)
(* openraft runs the state machine in one task, the worker (apply,         *)
(* install_snapshot, get_current_snapshot), and a snapshot build in        *)
(* another, the builder.                                                   *)
(***************************************************************************)
EXTENDS SnapshotStore, Sequences

CONSTANTS
  Members,
  Log,          \* the committed entries: [kind, subs]
  MaxRun,       \* sub-entries applied in one commit
  Retain,       \* snapshots kept on disk
  Budget,       \* bound: snapshots built and sent; power failures and failed writes
  MidBatch,     \* whether a snapshot may be built before a batch cut by a crash is replayed
  Overlap       \* whether the worker and the builder may write snapshots at once

ASSUME LogAssumption ==
  \A i \in DOMAIN Log :
    /\ Log[i].kind \in {"normal", "batch", "member", "blank"}
    /\ \A j \in DOMAIN Log[i].subs : Log[i].subs[j] \in {"put", "read", "lease", "refused"}

VARIABLES
  disk,         \* the database states a power failure could leave
  staged,       \* pending_raft_meta
  ram,          \* Inner: last_applied, membership, batch_progress, current_snapshot
  job,          \* what the worker and the builder are doing
  dir,          \* the snapshot directory
  synced,       \* the snapshot directory as last synced
  incoming,     \* a snapshot received and not yet installed
  left          \* what is left of Budget

smVars == <<disk, staged, ram, job, dir, synced, incoming, left>>

NoBody == [data |-> << >>, applied |-> 0, mem |-> 0, prog |-> <<0, 0>>, batched |-> FALSE]
NothingStaged == [applied |-> 0, mem |-> 0, prog |-> <<0, 0>>, batched |-> FALSE]
Idle == [pc |-> "idle", kind |-> "none"]
Db(m) == disk[m][Len(disk[m])]

----------------------------------------------------------------------------
(* Requests.  A put (or txn) can share a commit; so can a read-only txn,   *)
(* which commits nothing; a lease request is applied alone; a refused one  *)
(* is applied alone and commits nothing.                                   *)

Writes(op) == op \in {"put", "lease"}
Groupable(op) == op \in {"put", "read"}
Subs(i) == Log[i].subs

(* The writes among sub-entries a to b of entry i, in order. *)
WritesOf(i, a, b) ==
  LET pick == SelectSeq([n \in 1 .. b |-> n], LAMBDA j : j >= a /\ Writes(Subs(i)[j]))
  IN  [n \in DOMAIN pick |-> <<i, pick[n]>>]

(* The database after the entries up to i, each applied once. *)
Upto[i \in 0 .. Len(Log)] ==
  IF i = 0 THEN << >> ELSE Upto[i - 1] \o WritesOf(i, 1, Len(Subs(i)))

(* The last sub-entry applied with sub-entry j + 1 of entry i. *)
RunEnd(i, j) ==
  LET ends == {e \in j + 1 .. Min({j + MaxRun, Len(Subs(i))}) :
                 \A n \in j + 1 .. e : Groupable(Subs(i)[n])}
  IN  IF ends = {} THEN j + 1 ELSE Max(ends)

----------------------------------------------------------------------------
(* The engine. *)

(* fold_raft_meta: the staged metadata goes into the commit. *)
FoldRaftMeta(b, st) ==
  [b EXCEPT !.applied = IF st.applied # 0 THEN st.applied ELSE @,
            !.mem     = IF st.mem # 0 THEN st.mem ELSE @,
            !.prog    = IF st.prog # <<0, 0>> THEN st.prog ELSE @,
            !.batched = @ \/ st.batched]

(* A commit of the writes ops with what is staged; without writes nothing  *)
(* is committed and it stays staged.                                       *)
Commit(m, ops, st) ==
  IF ops = << >>
  THEN staged' = [staged EXCEPT ![m] = st] /\ disk' = disk
  ELSE /\ staged' = [staged EXCEPT ![m] = NothingStaged]
       /\ disk' = [disk EXCEPT ![m] = Append(@, FoldRaftMeta([Db(m) EXCEPT !.data = @ \o ops], st))]

(* The engine's own sync: a checkpoint, or a durable commit.  Without a     *)
(* failure to come nothing depends on it.                                  *)
EngineSync(m) ==
  /\ Len(disk[m]) > 1 /\ left.faults > 0
  /\ disk' = [disk EXCEPT ![m] = <<Db(m)>>]
  /\ UNCHANGED <<staged, ram, job, dir, synced, incoming, left>>

----------------------------------------------------------------------------
(* apply.  It holds inner's lock from its first entry to its last. *)

Worker(m) == job[m].worker
SetWorker(m, w) == job' = [job EXCEPT ![m].worker = w]
Locked(m) == Worker(m).pc = "apply"

(* Mutant of Skip: the progress is not consulted. *)
NoSkipMutant(m, i) == 0

(* The sub-entries of entry i that an earlier run of the process applied. *)
Skip(m, i) == IF ram[m].prog[1] = i THEN ram[m].prog[2] ELSE 0

StartOf(m, i) == IF Log[i].kind = "batch" THEN Skip(m, i) ELSE 0

BeginApply(m) ==
  /\ Worker(m) = Idle
  /\ \E to \in ram[m].applied + 1 .. Len(Log) :
       LET i == ram[m].applied + 1
       IN  SetWorker(m, [pc |-> "apply", kind |-> "apply", i |-> i, j |-> StartOf(m, i), to |-> to])
  /\ UNCHANGED <<disk, staged, ram, dir, synced, incoming, left>>

(* The worker's next entry of the call, or its end. *)
NextEntry(m) ==
  LET w == Worker(m)
  IN  [pc |-> "apply", kind |-> "apply", i |-> w.i + 1, to |-> w.to,
       j |-> IF w.i < w.to THEN StartOf(m, w.i + 1) ELSE 0]

(* A membership or blank entry, or a request of its own. *)
ApplyEntry(m) ==
  LET w == Worker(m)
      st == [staged[m] EXCEPT !.applied = w.i, !.mem = IF Log[w.i].kind = "member" THEN w.i ELSE @]
  IN  /\ w.pc = "apply" /\ w.i <= w.to /\ Log[w.i].kind # "batch"
      /\ Commit(m, WritesOf(w.i, 1, Len(Subs(w.i))), st)
      /\ ram' = [ram EXCEPT ![m].applied = w.i,
                            ![m].mem = IF Log[w.i].kind = "member" THEN w.i ELSE @]
      /\ SetWorker(m, NextEntry(m))
      /\ UNCHANGED <<dir, synced, incoming, left>>

(* encode_progress. *)
ProgressAfter(i, end) == <<i, end>>

(* stage_batched_marker: the first batch this process applies. *)
Marked(m, st) == [st EXCEPT !.batched = @ \/ ~ram[m].batched]

(* apply_batch: the next sub-entry, or run of sub-entries, and its commit. *)
ApplyBatch(m) ==
  LET w == Worker(m)
      end == RunEnd(w.i, w.j)
      st == [Marked(m, staged[m]) EXCEPT !.prog = ProgressAfter(w.i, end),
                                         !.applied = IF end = Len(Subs(w.i)) THEN w.i ELSE @]
  IN  /\ w.pc = "apply" /\ w.i <= w.to /\ Log[w.i].kind = "batch"
      /\ w.j < Len(Subs(w.i))
      /\ Commit(m, WritesOf(w.i, w.j + 1, end), st)
      /\ ram' = [ram EXCEPT ![m].batched = TRUE]
      /\ SetWorker(m, [w EXCEPT !.j = end])
      /\ UNCHANGED <<dir, synced, incoming, left>>

(* The end of a batch.  If every sub-entry was skipped nothing has staged  *)
(* the applied log id yet; staging it again otherwise changes nothing.     *)
EndBatch(m) ==
  LET w == Worker(m)
      st == Marked(m, staged[m])
  IN  /\ w.pc = "apply" /\ w.i <= w.to /\ Log[w.i].kind = "batch"
      /\ w.j = Len(Subs(w.i))
      /\ staged' = [staged EXCEPT ![m] = IF Db(m).applied < w.i THEN [st EXCEPT !.applied = w.i] ELSE st]
      /\ ram' = [ram EXCEPT ![m].applied = w.i, ![m].batched = TRUE]
      /\ SetWorker(m, NextEntry(m))
      /\ UNCHANGED <<disk, dir, synced, incoming, left>>

(* flush_raft_meta, and the call returns. *)
EndApply(m) ==
  /\ Worker(m).pc = "apply" /\ Worker(m).i > Worker(m).to
  /\ disk' = IF staged[m] = NothingStaged THEN disk
             ELSE [disk EXCEPT ![m] = Append(@, FoldRaftMeta(Db(m), staged[m]))]
  /\ staged' = [staged EXCEPT ![m] = NothingStaged]
  /\ SetWorker(m, Idle)
  /\ UNCHANGED <<ram, dir, synced, incoming, left>>

----------------------------------------------------------------------------
(* Building a snapshot.  The source is an engine snapshot, with the        *)
(* applied log id and the membership read from inner, under inner's lock;  *)
(* the files are written later, without it.                                *)

Procs == {"worker", "builder"}
SetJob(m, p, w) == job' = [job EXCEPT ![m][p] = w]
Spend(what) == left[what] > 0 /\ left' = [left EXCEPT ![what] = @ - 1]

NotWriting(w) == w.pc \in {"idle", "apply"}

(* Mutant of BodySource: it does not wait. *)
UnlockedMutant(m) == \A p \in Procs : NotWriting(job[m][p])

(* body_source waits for inner's lock. *)
BodySource(m) ==
  /\ ~Locked(m)
  /\ MidBatch \/ ram[m].prog[1] # ram[m].applied + 1
  /\ Overlap \/ \A p \in Procs : NotWriting(job[m][p])

Body(m) == [Db(m) EXCEPT !.applied = ram[m].applied, !.mem = ram[m].mem]

BuildJob(m) == [pc |-> "room", kind |-> "build", body |-> Body(m), retried |-> FALSE]

(* build_snapshot, in the builder. *)
BeginBuild(m) ==
  /\ job[m].builder = Idle
  /\ ram[m].applied > 0
  /\ BodySource(m)
  /\ Spend("snapshots")
  /\ SetJob(m, "builder", BuildJob(m))
  /\ UNCHANGED <<disk, staged, ram, dir, synced, incoming>>

(* get_current_snapshot with no usable snapshot: one is built at once. *)
BuildNow(m) ==
  /\ Worker(m) = Idle
  /\ ram[m].applied > 0
  /\ ram[m].cur = NoSnapshot \/ ram[m].cur \notin Indices(dir[m])
  /\ BodySource(m)
  /\ Spend("snapshots")
  /\ ram' = [ram EXCEPT ![m].cur = NoSnapshot]
  /\ SetJob(m, "worker", BuildJob(m))
  /\ UNCHANGED <<disk, staged, dir, synced, incoming>>

(* make_room_for_one, before the files are written. *)
MakeRoom(m, p) ==
  /\ job[m][p].pc = "room"
  /\ dir' = [dir EXCEPT ![m] = MakeRoomForOne(@, Retain)]
  /\ SetJob(m, p, [job[m][p] EXCEPT !.pc = "body"])
  /\ UNCHANGED <<disk, staged, ram, synced, incoming, left>>

(* The body's rename into place: of the file just written, or received. *)
WriteBodyFile(m, p) ==
  LET w == job[m][p]
  IN  /\ w.pc = "body"
      /\ dir' = [dir EXCEPT ![m].snap = With(@, w.body.applied, w.body)]
      /\ SetJob(m, p, [w EXCEPT !.pc = "meta"])
      /\ UNCHANGED <<disk, staged, ram, synced, incoming, left>>

SyncDir(m, w) == [dir[m] EXCEPT !.meta = With(@, w.body.applied, w.body.applied)]

(* The meta's rename into place, and sync_dir. *)
WriteMetaFile(m, p) ==
  LET w == job[m][p]
  IN  /\ w.pc = "meta"
      /\ dir' = [dir EXCEPT ![m].meta = With(@, w.body.applied, w.body.applied)]
      /\ synced' = [synced EXCEPT ![m] = SyncDir(m, w)]
      /\ SetJob(m, p, [w EXCEPT !.pc = "written"])
      /\ UNCHANGED <<disk, staged, ram, incoming, left>>

(* A write fails.  Out of space, a build discards every retained snapshot  *)
(* and tries the pair once more; an install gives up, deleting the body it *)
(* renamed into place.                                                     *)
WriteFails(m, p) ==
  LET w == job[m][p]
  IN  /\ w.pc \in {"body", "meta"}
      /\ Spend("faults")
      /\ \/ /\ w.kind = "build" /\ ~w.retried
            /\ dir' = [dir EXCEPT ![m] = DiscardAll(@)]
            /\ SetJob(m, p, [w EXCEPT !.pc = "body", !.retried = TRUE])
         \/ /\ dir' = IF w.kind = "install" /\ w.pc = "meta"
                      THEN [dir EXCEPT ![m].snap = Without(@, {w.body.applied})] ELSE dir
            /\ SetJob(m, p, [w EXCEPT !.pc = "failed"])
      /\ UNCHANGED <<disk, staged, ram, synced, incoming>>

(* write_snapshot opens the body it wrote, and build_snapshot records the  *)
(* snapshot as the current one; held in memory only, there is none.        *)
EndBuild(m, p) ==
  LET w == job[m][p]
  IN  /\ w.pc \in {"written", "failed"} /\ w.kind = "build" /\ ~Locked(m)
      /\ ram' = [ram EXCEPT ![m].cur =
                   IF w.pc = "written" /\ w.body.applied \in Indices(dir[m])
                   THEN w.body.applied ELSE NoSnapshot]
      /\ SetJob(m, p, Idle)
      /\ UNCHANGED <<disk, staged, dir, synced, incoming, left>>

----------------------------------------------------------------------------
(* Sending and installing a snapshot. *)

(* get_current_snapshot at m, sent to n: begin_receiving_snapshot, and the *)
(* chunks written to a temp file.  Out of space, n discards its retained   *)
(* snapshots, and then goes on in memory; the body is the same.            *)
SendSnapshot(m, n) ==
  /\ m # n
  /\ Worker(m) = Idle /\ Worker(n) = Idle
  /\ ram[m].cur # NoSnapshot /\ ram[m].cur \in Indices(dir[m])
  /\ Spend("snapshots")
  /\ incoming' = [incoming EXCEPT ![n] = dir[m].snap[ram[m].cur]]
  /\ \E d \in {dir[n], DiscardAll(dir[n])} :
       /\ dir' = [dir EXCEPT ![n] = d]
       /\ ram' = [ram EXCEPT ![n].cur = LatestMeta(dir[n])]
  /\ UNCHANGED <<disk, staged, job, synced>>

(* openraft drops a snapshot of entries it has committed; the temp file is *)
(* deleted with its handle.  So is one that cannot be decoded: the commit  *)
(* it feeds is abandoned.                                                  *)
DropSnapshot(m) ==
  /\ incoming[m] # NoBody
  /\ incoming' = [incoming EXCEPT ![m] = NoBody]
  /\ UNCHANGED <<disk, staged, ram, job, dir, synced, left>>

(* stream_body: the tables, then the applied log id and membership of the  *)
(* body's header, in one durable commit; reload_locked.                    *)
InstallCommit(m) ==
  /\ Worker(m) = Idle
  /\ incoming[m].applied > ram[m].applied
  /\ Overlap \/ NotWriting(job[m].builder)
  /\ disk' = [disk EXCEPT ![m] = <<incoming[m]>>]
  /\ ram' = [ram EXCEPT ![m].batched = @ \/ incoming[m].batched]
  /\ SetWorker(m, [pc |-> "room", kind |-> "install", body |-> incoming[m], retried |-> FALSE])
  /\ incoming' = [incoming EXCEPT ![m] = NoBody]
  /\ UNCHANGED <<staged, dir, synced, left>>

(* retain_installed is done: inner learns of the snapshot. *)
EndInstall(m) ==
  LET w == Worker(m)
  IN  /\ w.pc \in {"written", "failed"} /\ w.kind = "install"
      /\ ram' = [ram EXCEPT ![m].applied = w.body.applied, ![m].mem = w.body.mem,
                            ![m].cur = IF w.pc = "written" THEN w.body.applied ELSE NoSnapshot]
      /\ SetWorker(m, Idle)
      /\ UNCHANGED <<disk, staged, dir, synced, incoming, left>>

----------------------------------------------------------------------------
(* A power failure, and open_with_retention. *)

Reopened(b, d) ==
  [applied |-> b.applied, mem |-> b.mem, prog |-> b.prog, batched |-> b.batched, cur |-> LatestMeta(d)]

Crash(m) ==
  /\ Spend("faults")
  /\ \E b \in {disk[m][n] : n \in DOMAIN disk[m]}, d \in CrashedDirs(synced[m], dir[m]) :
       /\ disk' = [disk EXCEPT ![m] = <<b>>]
       /\ dir' = [dir EXCEPT ![m] = OpenDir(d, Retain)]
       /\ synced' = [synced EXCEPT ![m] = d]
       /\ ram' = [ram EXCEPT ![m] = Reopened(b, OpenDir(d, Retain))]
  /\ staged' = [staged EXCEPT ![m] = NothingStaged]
  /\ job' = [job EXCEPT ![m] = [worker |-> Idle, builder |-> Idle]]
  /\ incoming' = [incoming EXCEPT ![m] = NoBody]

----------------------------------------------------------------------------
SMInit ==
  /\ disk = [m \in Members |-> <<NoBody>>]
  /\ staged = [m \in Members |-> NothingStaged]
  /\ ram = [m \in Members |-> Reopened(NoBody, EmptyDir)]
  /\ job = [m \in Members |-> [worker |-> Idle, builder |-> Idle]]
  /\ dir = [m \in Members |-> EmptyDir]
  /\ synced = dir
  /\ incoming = [m \in Members |-> NoBody]
  /\ left = Budget

SMNext ==
  \/ \E m \in Members :
       \/ EngineSync(m) \/ BeginApply(m) \/ ApplyEntry(m) \/ ApplyBatch(m) \/ EndBatch(m)
       \/ EndApply(m) \/ BeginBuild(m) \/ BuildNow(m)
       \/ DropSnapshot(m) \/ InstallCommit(m) \/ EndInstall(m) \/ Crash(m)
       \/ \E p \in Procs : MakeRoom(m, p) \/ WriteBodyFile(m, p) \/ WriteMetaFile(m, p)
                            \/ WriteFails(m, p) \/ EndBuild(m, p)
       \/ \E n \in Members : SendSnapshot(m, n)

SMSpec == SMInit /\ [][SMNext]_smVars

----------------------------------------------------------------------------
(* The variables have their types; a member never keeps more snapshots     *)
(* than it should, not even while it writes one (make_room_for_one, open). *)
SMTypeOK ==
  /\ \A m \in Members :
       /\ Len(disk[m]) > 0
       /\ ram[m].applied \in DOMAIN Upto /\ ram[m].cur \in DOMAIN Upto
       /\ Indices(dir[m]) \subseteq DOMAIN Log /\ Cardinality(Indices(dir[m])) <= Retain
  /\ \A k \in DOMAIN left : left[k] \in 0 .. Budget[k]

(* What the metadata of database state b says has been applied. *)
SaysApplied(b) ==
  Upto[b.applied] \o (IF b.prog[1] = b.applied + 1 THEN WritesOf(b.prog[1], 1, b.prog[2]) ELSE << >>)

(* Every database state a power failure could leave holds exactly the      *)
(* requests its own metadata says were applied, each once: the applied log *)
(* id, and the batch progress of the entry after it (apply, apply_batch,   *)
(* stream_body).                                                           *)
AppliedOnce == \A m \in Members : \A n \in DOMAIN disk[m] : disk[m][n].data = SaysApplied(disk[m][n])

(* A snapshot body, wherever it is, holds exactly the entries up to the    *)
(* log id it is labelled with (body_source: the engine snapshot and the    *)
(* applied log id are taken together).                                     *)
BodyMatchesIndex ==
  \A m \in Members :
    /\ \A i \in Indices(dir[m]) : dir[m].snap[i].applied = i /\ dir[m].snap[i].data = Upto[i]
    /\ \A p \in Procs : job[m][p].pc \in {"body", "meta"} => job[m][p].body.data = Upto[job[m][p].body.applied]
    /\ incoming[m].data = Upto[incoming[m].applied]

(* While no snapshot is being written, the snapshot a member reports as    *)
(* current is still there after a power failure, or a newer one is         *)
(* (write_pair_with, adopt, open: openraft purges the log against it).     *)
CurrentSurvives ==
  \A m \in Members :
    ram[m].cur \in Indices(dir[m]) /\ (\A p \in Procs : NotWriting(job[m][p]))
      => \A d \in CrashedDirs(synced[m], dir[m]) : LatestMeta(OpenDir(d, Retain)) >= ram[m].cur

(* A log that holds a batched entry is marked as such in every database    *)
(* state whose metadata covers the entry, a part of it or an install of it *)
(* (stage_batched_marker: an older member must not open it).               *)
BatchMarked ==
  \A m \in Members : \A n \in DOMAIN disk[m] :
    LET b == disk[m][n]
    IN  (\E i \in DOMAIN Log : Log[i].kind = "batch" /\ (i <= b.applied \/ b.prog[1] = i)) => b.batched

(* A member's memory agrees with its database: between calls the last      *)
(* applied entry and the membership are the ones it committed (apply's     *)
(* flush, install, open).                                                  *)
RamIsCommitted ==
  \A m \in Members : Worker(m) = Idle => ram[m].applied = Db(m).applied /\ ram[m].mem = Db(m).mem

(* Applying: every database state a power failure could leave holds each   *)
(* request once and its markers, and memory follows it (apply,             *)
(* apply_batch, stage_batched_marker).                                     *)
AppliesRight == SMTypeOK /\ AppliedOnce /\ BatchMarked /\ RamIsCommitted

(* Snapshots: a body is the state at its index, and the current one        *)
(* survives a power failure (body_source, write_pair_with, install).       *)
SnapshotsRight == BodyMatchesIndex /\ CurrentSurvives
=============================================================================
