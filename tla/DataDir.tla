------------------------------ MODULE DataDir ------------------------------
(***************************************************************************)
(* One member's data directory over its life: the phases of a start        *)
(* (server/main.rs), the periodic backups (server/backup.rs), starting     *)
(* from a backup when the data file is corrupt (server/recovery.rs), the   *)
(* upgrade of an older directory (server/admin.rs), and a crash between    *)
(* any two of their steps.                                                 *)
(*                                                                         *)
(* What the store holds is the log index it has applied (`at') and the     *)
(* membership at that index; the log is the range of indices it retains    *)
(* and the last membership entry among them.  A file is bad when redb      *)
(* refuses to open it.                                                     *)
(***************************************************************************)
EXTENDS Naturals, FiniteSets, FiniteSetsExt, Sequences, SequencesExt

CONSTANTS
  Self, Other,    \* this member, and one that may join it
  Named,          \* the members --initial-cluster names
  DdRetain,       \* --backup-retain
  SafetyRetain,   \* --upgrade-backup-retain
  FirstFiles,     \* what the directory may hold before the first start
  MaxAt,          \* bound: log indices
  DdBudgets       \* bounds: crashes and stops, power cuts that corrupt the
                  \* data file, backups that stop verifying

VARIABLES
  data, restored,   \* fastetcd.redb, fastetcd.redb.restored
  wal, snaps,       \* the directories wal and snapshots
  aside,            \* how many corrupt data files are kept
  backups,          \* --backup-dir, oldest first
  copies,           \* the upgrade safety backups, oldest first
  ddPc,               \* the phase of the start, "serve" or "down"
  fresh,            \* store_is_new
  ram,              \* what the serving process holds
  task,             \* the periodic backup task
  prior,            \* history: the data file an older version left
  skipped,          \* history: a safety backup was skipped or failed
  acked,            \* history: the index clients were answered at
  lost,             \* history: answered writes are gone, not disarmed yet
  truth,            \* history: the membership last answered
  pinned,           \* history: the cluster id clients first saw
  budget            \* crashes, power cuts and rotten backups so far, and at most

files == <<data, restored, wal, snaps, aside>>
histVars == <<prior, skipped, acked, lost, truth, pinned>>
ddVars == <<files, backups, copies, ddPc, fresh, ram, task, histVars, budget>>

NoMent == [at |-> 0, set |-> {}]

(* A log that retains (from, to], with the last membership entry appended *)
(* and the revision the store has once it is applied.                     *)
Log(from, to, ment, rev) == [from |-> from, to |-> to, ment |-> ment, rev |-> rev]

NoLog == Log(0, 0, NoMent, 0)

PurgedLog(from) == Log(from, from, NoMent, 0)

(* The membership entry a log still holds, if any. *)
Retained(l) == l.ment.at > l.from

(* A data file. `rev': the current revision; `at' 0: no applied position  *)
(* in it; `log': the log tables of a version before the WAL, or what it    *)
(* mirrors of the WAL's purge; `rec': a RecoveryRecord; `id': the cluster  *)
(* id; `ver': the version that last opened it.                             *)
File(good, rev, at, mem, log, rec, id, ver) ==
  [there |-> TRUE, good |-> good, rev |-> rev, at |-> at, mem |-> mem,
   log |-> log, rec |-> rec, id |-> id, ver |-> ver]

NoFile == [File(TRUE, 0, 0, {}, NoLog, FALSE, 0, "none") EXCEPT !.there = FALSE]

(* What redb creates where there is no file. *)
EmptyFile == File(TRUE, 0, 0, {}, NoLog, FALSE, 0, "none")

NoWal == [there |-> FALSE, log |-> NoLog]

Wal(log) == [there |-> TRUE, log |-> log]

NoBackup == [rev |-> 0, at |-> 0, mem |-> {}, from |-> 0, id |-> 0, node |-> Self, good |-> FALSE]

(* What the process knows: applied index and membership, the membership   *)
(* openraft's metrics show (effective once appended), CORRUPT alarm, id.   *)
Stopped == [rev |-> 0, at |-> 0, mem |-> {}, eff |-> {}, alarm |-> FALSE, id |-> 0]

(* The backup task: Last.revision, Last.members, and the dump it writes.   *)
TaskOff == [last |-> [some |-> FALSE, rev |-> 0, mem |-> {}, known |-> FALSE],
            busy |-> FALSE, dump |-> NoBackup, eff |-> {}]

DdInit ==
  /\ data \in FirstFiles
  /\ restored = NoFile /\ wal = NoWal /\ snaps = 0 /\ aside = 0
  /\ backups = <<>> /\ copies = <<>>
  /\ ddPc = "down" /\ fresh = FALSE
  /\ ram = Stopped /\ task = TaskOff
  /\ prior = data /\ skipped = FALSE
  /\ acked = data.log.to /\ lost = FALSE /\ pinned = 0
  /\ truth = IF Retained(data.log) THEN data.log.ment.set ELSE Named
  /\ budget \in [stops : {0}, cuts : {0}, rots : {0}, most : DdBudgets]

----------------------------------------------------------------------------
(* Crashes. *)

Down ==
  /\ ddPc' = "down" /\ fresh' = FALSE
  /\ ram' = Stopped /\ task' = TaskOff

(* The process is killed, at any step. *)
DdCrash ==
  /\ ddPc # "down" /\ budget.stops < budget.most.stops
  /\ budget' = [budget EXCEPT !.stops = @ + 1]
  /\ Down
  /\ UNCHANGED <<files, backups, copies, histVars>>

(* A power cut on a device that loses fsynced writes: redb will refuse the file. *)
PowerCut ==
  /\ ddPc = "serve" /\ budget.cuts < budget.most.cuts
  /\ budget' = [budget EXCEPT !.cuts = @ + 1]
  /\ data' = [data EXCEPT !.good = FALSE]
  /\ Down
  /\ UNCHANGED <<restored, wal, snaps, aside, backups, copies, histVars>>

(* A backup no longer verifies. *)
Rot ==
  /\ budget.rots < budget.most.rots
  /\ \E k \in DOMAIN backups :
       /\ backups[k].good
       /\ backups' = [backups EXCEPT ![k].good = FALSE]
  /\ budget' = [budget EXCEPT !.rots = @ + 1]
  /\ UNCHANGED <<files, copies, ddPc, fresh, ram, task, histVars>>

----------------------------------------------------------------------------
(* data_file_open: finish_interrupted_restore, then open_or_recover. *)

ToPhase(p) == ddPc' = p /\ UNCHANGED <<backups, copies, ram, task, histVars, budget>>

StartProcess ==
  /\ ddPc = "down"
  /\ ToPhase(IF ~data.there /\ restored.there THEN "finish_snaps" ELSE "open")
  /\ UNCHANGED <<files, fresh>>

(* move_raft_state_aside: the snapshots, then the log; each rename is its own. *)
MoveSnapsAside ==
  /\ \/ ddPc = "finish_snaps" /\ ToPhase("finish_wal")
     \/ ddPc = "recover_snaps" /\ ToPhase("recover_wal")
  /\ snaps' = 0
  /\ UNCHANGED <<data, restored, wal, aside, fresh>>

WalAside == NoWal

MoveWalAside ==
  /\ \/ ddPc = "finish_wal" /\ ToPhase("finish_place")
     \/ ddPc = "recover_wal" /\ ToPhase("recover_place")
  /\ wal' = WalAside
  /\ UNCHANGED <<data, restored, snaps, aside, fresh>>

(* The restored file takes the data file's name. *)
PlaceRestored ==
  /\ ddPc \in {"finish_place", "recover_place"}
  /\ ToPhase("open")
  /\ data' = restored /\ restored' = NoFile
  /\ UNCHANGED <<wal, snaps, aside, fresh>>

(* RedbEngine::open_with_cache on a file it accepts or creates. *)
OpenData ==
  /\ ddPc = "open" /\ data.good
  /\ ToPhase("resolve")
  /\ fresh' = ~data.there
  /\ data' = IF data.there THEN data ELSE EmptyFile
  /\ UNCHANGED <<restored, wal, snaps, aside>>

(* backup::verify, and the check of who took it. *)
Usable(b) == b.good /\ b.node = Self

(* The newest usable one, in backup::list's order. *)
UsableAt == {k \in DOMAIN backups : Usable(backups[k])}

(* The member may restore: alone by its flags and by the backup. *)
Lone(b) == Cardinality(Named \cup {Self}) <= 1 /\ b.mem \subseteq {Self}

NewestOf(ks) == Max(ks)

MayRestore == UsableAt # {} /\ Lone(backups[NewestOf(UsableAt)])

(* A corrupt file: refuse, leaving everything as it is. *)
RefuseStart ==
  /\ ddPc = "open" /\ ~data.good /\ ~MayRestore
  /\ Down
  /\ UNCHANGED <<files, backups, copies, histVars, budget>>

(* The store a backup holds: every table, the log's only its mirrored purge. *)
FromBackup(b) ==
  File(b.good, b.rev, b.at, b.mem, PurgedLog(b.from), FALSE, b.id, "cur")

(* backup::restore_to builds it beside the corrupt one. *)
BuildRestored ==
  /\ ddPc = "open" /\ ~data.good /\ MayRestore
  /\ restored' = FromBackup(backups[NewestOf(UsableAt)])
  /\ ToPhase("recover_record")
  /\ UNCHANGED <<data, wal, snaps, aside, fresh>>

(* Mutant of Recorded: the recovery is not written into the store. *)
UnrecordedMutant(f) == f

(* The RecoveryRecord is committed to the restored store before anything moves. *)
Recorded(f) == [f EXCEPT !.rec = TRUE]

RecordRecovery ==
  /\ ddPc = "recover_record"
  /\ ToPhase("recover_aside")
  /\ restored' = Recorded(restored)
  /\ UNCHANGED <<data, wal, snaps, aside, fresh>>

(* The corrupt file moves first: no data file then means a complete restored one. *)
MoveDataAside ==
  /\ ddPc = "recover_aside"
  /\ ToPhase("recover_snaps")
  /\ aside' = aside + 1 /\ data' = NoFile
  /\ UNCHANGED <<restored, wal, snaps, fresh>>

----------------------------------------------------------------------------
(* The phases from the cluster id to raft's start. *)

Legacy == 1
Token == 2

(* cluster_id::choose, with --initial-cluster-token and no --cluster-id. *)
ChooseId(persisted, new) ==
  IF persisted # 0 THEN persisted ELSE IF new THEN Token ELSE Legacy

Persisted(f, id) == [f EXCEPT !.id = id]

(* RecoveryAlarm::load. *)
AlarmOf(f) == f.rec

(* RecoveryAlarm::load and cluster_id::resolve; the index and the state machine load. *)
ResolveId ==
  /\ ddPc = "resolve"
  /\ LET id == ChooseId(data.id, fresh) IN
       /\ data' = Persisted(data, id)
       /\ ram' = [ram EXCEPT !.alarm = AlarmOf(data), !.id = id]
  /\ ddPc' = "upgrade"
  /\ UNCHANGED <<restored, wal, snaps, aside, backups, copies, fresh, task, histVars, budget>>

NewestCopy(s, n) == IF Len(s) <= n THEN s ELSE SubSeq(s, Len(s) - n + 1, Len(s))

(* prune_backups, before the copy. *)
KeptCopies(s) == NewestCopy(s, SafetyRetain - 1)

(* backup_before_version: roll off, then copy the file; or no room, or a failure. *)
SafetyBackup ==
  /\ ddPc = "upgrade"
  /\ IF data.rev > 0 /\ data.ver # "cur"
     THEN \/ copies' = Append(KeptCopies(copies), data) /\ UNCHANGED skipped
          \/ copies' = copies /\ skipped' = TRUE
     ELSE UNCHANGED <<copies, skipped>>
  /\ ddPc' = "wal_open"
  /\ UNCHANGED <<files, backups, fresh, ram, task, prior, acked, lost, truth, pinned, budget>>

(* migrate: the log is built from the data file's tables and renamed into place. *)
BuildWal ==
  /\ ddPc = "wal_open"
  /\ wal' = IF wal.there THEN wal ELSE Wal(data.log)
  /\ ToPhase("wal_clear")
  /\ UNCHANGED <<data, restored, snaps, aside, fresh>>

(* The tables are cleared; their purge stays. *)
Cleared(f) == [f EXCEPT !.log = PurgedLog(f.log.from)]

ClearLegacyLog ==
  /\ ddPc = "wal_clear"
  /\ data' = Cleared(data)
  /\ ToPhase("floor")
  /\ UNCHANGED <<restored, wal, snaps, aside, fresh>>

(* recover_applied_floor: without an applied position, the log's purge. *)
AppliedFloor(f, l) ==
  IF f.rev > 0 /\ f.at = 0 /\ l.from > 0 THEN [f EXCEPT !.at = l.from] ELSE f

RecoverFloor ==
  /\ ddPc = "floor"
  /\ data' = AppliedFloor(data, wal.log)
  /\ ToPhase("member")
  /\ UNCHANGED <<restored, wal, snaps, aside, fresh>>

(* An empty membership: the retained log's, else what --initial-cluster names. *)
RecoveredMembers(f, l) ==
  IF f.rev > 0 /\ f.mem = {}
  THEN [f EXCEPT !.mem = IF Retained(l) THEN l.ment.set ELSE Named]
  ELSE f

RecoverMembership ==
  /\ ddPc = "member"
  /\ data' = RecoveredMembers(data, wal.log)
  /\ ToPhase("stamp")
  /\ UNCHANGED <<restored, wal, snaps, aside, fresh>>

(* write_format_version and write_open_version. *)
StampVersion ==
  /\ ddPc = "stamp"
  /\ data' = [data EXCEPT !.ver = "cur"]
  /\ ToPhase("raft")
  /\ UNCHANGED <<restored, wal, snaps, aside, fresh>>

(* Raft::new (external): the log from the applied index on is replayed;   *)
(* a log that ends before it is purged to it; a snapshot past it is        *)
(* installed.  `initialize' writes the first membership of a new cluster.  *)
ReplayedTo == Max({data.at, snaps, wal.log.to})

StartRaft ==
  /\ ddPc = "raft"
  /\ LET virgin == ReplayedTo = 0
         l == IF virgin THEN Log(0, 1, [at |-> 1, set |-> Named], 0)
              ELSE IF wal.log.to < ReplayedTo THEN PurgedLog(ReplayedTo)
              ELSE wal.log
         mem == IF l.ment.at > data.at THEN l.ment.set ELSE data.mem
     IN /\ wal' = Wal(l)
        /\ ram' = [ram EXCEPT !.rev = Max({data.rev, l.rev}), !.at = l.to, !.mem = mem, !.eff = mem]
        /\ truth' = IF l.to = acked THEN truth ELSE mem
        /\ lost' = (lost \/ l.to < acked)
        /\ acked' = l.to
  /\ pinned' = IF pinned = 0 THEN ram.id ELSE pinned
  /\ ddPc' = "serve"
  /\ task' = [TaskOff EXCEPT !.last =
       LET ks == {k \in DOMAIN backups : backups[k].good} IN
       IF ks = {} THEN @
       ELSE [some |-> TRUE, rev |-> backups[Max(ks)].rev, mem |-> {}, known |-> FALSE]]
  /\ UNCHANGED <<data, restored, snaps, aside, backups, copies, fresh, prior, skipped, budget>>

----------------------------------------------------------------------------
(* Serving. *)

Serving == ddPc = "serve" /\ UNCHANGED <<ddPc, fresh, copies, restored, aside, prior, skipped, pinned>>

(* A write is logged, applied and answered. *)
Write ==
  /\ Serving /\ ram.at < MaxAt /\ ram.eff = ram.mem
  /\ wal' = [wal EXCEPT !.log.to = @ + 1, !.log.rev = ram.rev + 1]
  /\ ram' = [ram EXCEPT !.at = @ + 1, !.rev = @ + 1]
  /\ acked' = ram.at + 1
  /\ UNCHANGED <<data, snaps, backups, task, lost, truth, budget>>

(* A membership entry is appended: openraft's metrics show it at once. *)
AppendMembership(set) ==
  /\ Serving /\ ram.at < MaxAt /\ ram.eff = ram.mem /\ set # ram.mem
  /\ wal' = [wal EXCEPT !.log.to = @ + 1, !.log.ment = [at |-> ram.at + 1, set |-> set]]
  /\ ram' = [ram EXCEPT !.eff = set]
  /\ UNCHANGED <<data, snaps, backups, task, acked, lost, truth, budget>>

(* It is committed and applied. *)
ApplyMembership ==
  /\ Serving /\ ram.eff # ram.mem
  /\ ram' = [ram EXCEPT !.at = @ + 1, !.mem = ram.eff]
  /\ acked' = ram.at + 1 /\ truth' = ram.eff
  /\ UNCHANGED <<data, wal, snaps, backups, task, lost, budget>>

(* The data file with everything applied in it. *)
Flushed ==
  [data EXCEPT !.rev = ram.rev, !.at = ram.at, !.mem = ram.mem, !.log = PurgedLog(wal.log.from)]

(* The checkpointer makes the data file durable (WalLogStore). *)
CheckpointData ==
  /\ Serving /\ ram.at # data.at
  /\ data' = Flushed
  /\ UNCHANGED <<wal, snaps, backups, ram, task, acked, lost, truth, budget>>

(* A snapshot, and then the log purged as far as it and the data file reach. *)
SnapAndPurge ==
  /\ Serving /\ data.at > wal.log.from
  /\ snaps' = ram.at
  /\ wal' = [wal EXCEPT !.log.from = data.at]
  /\ UNCHANGED <<data, backups, ram, task, acked, lost, truth, budget>>

(* SIGTERM: stop_cleanly stops raft and flushes what is applied. *)
StopCleanly ==
  /\ ddPc = "serve" /\ ram.eff = ram.mem
  /\ data' = Flushed
  /\ Down
  /\ UNCHANGED <<restored, wal, snaps, aside, backups, copies, histVars, budget>>

(* RecoveryAlarm::disarm. *)
Disarm ==
  /\ Serving /\ ram.alarm
  /\ data' = [data EXCEPT !.rec = FALSE]
  /\ ram' = [ram EXCEPT !.alarm = FALSE]
  /\ lost' = FALSE
  /\ UNCHANGED <<wal, snaps, backups, task, acked, truth, budget>>

----------------------------------------------------------------------------
(* The periodic backup task. *)

(* A backup read from disk has no fingerprint: the current one is adopted. *)
Adopted(l) == IF l.some /\ ~l.known THEN [l EXCEPT !.mem = ram.eff, !.known = TRUE] ELSE l

(* backup::due, when the interval has passed or the revisions have. *)
Due(l) == ~l.some \/ l.rev # ram.rev \/ l.mem # ram.eff

(* Dump::read: one engine snapshot of every table. *)
BackupTick ==
  /\ Serving /\ ~task.busy
  /\ Adopted(task.last) # task.last \/ Due(Adopted(task.last))
  /\ task' = IF Due(Adopted(task.last))
             THEN [last |-> Adopted(task.last), busy |-> TRUE, eff |-> ram.eff,
                   dump |-> [rev |-> ram.rev, at |-> ram.at, mem |-> ram.mem, from |-> wal.log.from,
                             id |-> ram.id, node |-> Self, good |-> TRUE]]
             ELSE [task EXCEPT !.last = Adopted(@)]
  /\ UNCHANGED <<data, wal, snaps, backups, ram, acked, lost, truth, budget>>

Pruned(s) == NewestCopy(s, DdRetain)

(* write_backup: a temporary file, renamed; all but the newest rolled off. *)
BackupWritten ==
  /\ Serving /\ task.busy
  /\ backups' = Pruned(Append(backups, task.dump))
  /\ task' = [TaskOff EXCEPT !.last = [some |-> TRUE, rev |-> task.dump.rev, mem |-> task.eff, known |-> TRUE]]
  /\ UNCHANGED <<data, wal, snaps, ram, acked, lost, truth, budget>>

(* No room: the oldest is given up and it is tried once more; then it fails. *)
BackupFails ==
  /\ Serving /\ task.busy /\ Len(backups) > 1
  /\ backups' = Tail(backups)
  /\ task' = [TaskOff EXCEPT !.last = task.last]
  /\ UNCHANGED <<data, wal, snaps, ram, acked, lost, truth, budget>>

----------------------------------------------------------------------------
(* fastetcd fsck --repair on a stopped member (admin::cmd_fsck). *)
FsckRepair ==
  /\ ddPc = "down" /\ data.there /\ data.good
  /\ budget.stops < budget.most.stops
  /\ budget' = [budget EXCEPT !.stops = @ + 1]
  /\ LET l == IF wal.there THEN wal.log ELSE data.log
         f == Cleared(data)
         trouble == f.rev > 0 /\ (f.mem = {} \/ (f.at = 0 /\ l.from > 0) \/ f.ver = "none")
     IN /\ wal' = Wal(l)
        /\ data' = IF trouble THEN RecoveredMembers(AppliedFloor(f, l), l) ELSE f
        /\ skipped' = (skipped \/ f # data)
  /\ UNCHANGED <<restored, snaps, aside, backups, copies, ddPc, fresh, ram, task, prior, acked, lost, truth, pinned>>

DdNext ==
  \/ DdCrash \/ PowerCut \/ Rot \/ StartProcess \/ MoveSnapsAside \/ MoveWalAside \/ PlaceRestored
  \/ OpenData \/ RefuseStart \/ BuildRestored \/ RecordRecovery \/ MoveDataAside
  \/ ResolveId \/ SafetyBackup \/ BuildWal \/ ClearLegacyLog
  \/ RecoverFloor \/ RecoverMembership \/ StampVersion \/ StartRaft
  \/ Write \/ (\E s \in {{Self}, {Self, Other}} : AppendMembership(s)) \/ ApplyMembership
  \/ CheckpointData \/ SnapAndPurge \/ StopCleanly \/ Disarm \/ BackupTick \/ BackupWritten \/ BackupFails
  \/ FsckRepair

DdSpec == DdInit /\ [][DdNext]_ddVars

----------------------------------------------------------------------------

Phases == {"down", "finish_snaps", "finish_wal", "finish_place", "open", "recover_record",
           "recover_aside", "recover_snaps", "recover_wal", "recover_place", "resolve",
           "upgrade", "wal_open", "wal_clear", "floor", "member", "stamp", "raft", "serve"}

(* The start is in a known phase, the retained backups and copies are     *)
(* within their limits, every corrupt file is kept, and a serving member   *)
(* has its log (main.rs, recovery.rs).                                    *)
DdTypeOK ==
  /\ ddPc \in Phases
  /\ Len(backups) <= DdRetain /\ Len(copies) <= SafetyRetain
  /\ aside + (IF data.good THEN 0 ELSE 1) = budget.cuts
  /\ ddPc = "serve" => data.there /\ wal.there /\ data.at <= ram.at

(* `A restored file is only ever present without a data file if it was    *)
(* complete, recovery record included' (finish_interrupted_restore).      *)
RestoredComplete == restored.there /\ ~data.there => restored.good /\ restored.rec

(* However often the recovery is interrupted, a member that serves        *)
(* without writes it once answered has the CORRUPT alarm raised until an  *)
(* operator disarms it (recovery.rs).                                     *)
LossIsAlarmed == ddPc = "serve" /\ lost => ram.alarm

(* What is lost is only what came after the newest usable backup: the     *)
(* member serves exactly what one of its backups holds, and no usable one *)
(* holds more (open_or_recover).                                          *)
LosesLeast ==
  [][ddPc = "raft" /\ ddPc' = "serve" /\ ram'.at < acked
       => /\ \E k \in DOMAIN backups : backups[k].at = ram'.at
          /\ \A k \in UsableAt : backups[k].at <= ram'.at]_ddVars

(* openraft is never started on a log purged past what the store has      *)
(* applied (it would loop, #9), nor on a snapshot newer than both.        *)
LogReplays == ddPc = "raft" => wal.log.from <= data.at /\ snaps <= Max({data.at, wal.log.to})

(* A member serves with the voters last answered, across crashes and the  *)
(* upgrade of a directory that never kept its membership                  *)
(* (recover_data_dir, #11).                                               *)
VotersKept == ddPc = "serve" => ram.mem = truth /\ ram.mem # {}

(* The cluster id clients have pinned never changes for a store, restored *)
(* or not (cluster_id::resolve, #17).                                     *)
IdPinned == ddPc = "serve" => ram.id = pinned

(* While fewer starts were interrupted than safety backups are kept, an   *)
(* older version's data file whose log has been moved out is still there  *)
(* as it was, log included (backup_before_version before the WAL, #65).   *)
SafetyCopyKept ==
  prior.rev > 0 /\ data.there /\ data.log # prior.log /\ ~skipped /\ budget.stops < SafetyRetain
    => \E k \in DOMAIN copies : copies[k].log = prior.log

(* However starts, upgrades, backups and restores are interrupted: a       *)
(* member serves from a complete store, with its voters, its id and an     *)
(* alarm for what it lost, and it loses no more than it must (main.rs,     *)
(* recovery.rs, backup.rs).                                                *)
RestartsRight ==
  /\ [](DdTypeOK /\ RestoredComplete /\ LossIsAlarmed /\ LogReplays /\ VotersKept /\ IdPinned /\ SafetyCopyKept)
  /\ LosesLeast
=============================================================================
