------------------------------ MODULE ReadView ------------------------------
(***************************************************************************)
(* Reads that take no lock the write path holds (storage/mvcc/store.rs     *)
(* ReadView, read_view, range_with_revision, and mvcc/cache.rs), next to   *)
(* commits, compactions and snapshot installs.                             *)
(*                                                                         *)
(* The write-state lock is held from a writer's first step to its last;    *)
(* each step is one engine call or one guard's critical section.  A commit *)
(* writes one key at revision <<current + 1, 0>>; a record is known by its *)
(* key and revision.                                                       *)
(***************************************************************************)
EXTENDS KeyIndex, Sequences

CONSTANTS
  RvKeys, RvReaders,
  Tries,          \* READ_VIEW_TRIES
  NoWork,         \* no writer holds the write-state lock
  MaxRev,         \* bound: the last revision committed
  MaxInstalls     \* bound: snapshot installs

ASSUME ReadViewAssumption == Tries \in Nat \ {0} /\ MaxRev \in Nat /\ MaxInstalls \in Nat

VARIABLES
  kv,             \* the engine's mvcc_kv: pairs <<key, revision>>
  index,          \* ResidentIndex
  values,         \* ValueCache: each key's cached revision
  state,          \* WriteState: current and compact
  view,           \* ReadView: current, compact
  commits, published,   \* ReadView: engine_commits, published
  work,           \* the write-state lock's holder and what it does next
  installing,     \* `replace' is held for writing
  installs,
  reader,         \* each reader's read
  rvHist            \* hist[r + 1]: each key's live revision after revision r

store == <<kv, index, values, state, view, commits, published, work, installing, installs, rvHist>>
rvVars == <<store, reader>>

Revs == [current : Nat, compact : Nat]

Commit(k, del) == [kind |-> "commit", step |-> "engine", key |-> k, del |-> del]
Compaction(m) == [kind |-> "compact", step |-> "refuse", rev |-> m]
Install(k, del, m) == [kind |-> "install", step |-> "engine", key |-> k, del |-> del, rev |-> m]

(* What the lock's holder does, at every step. *)
Works ==
  [kind : {"commit"}, step : {"engine", "count", "values", "publish"}, key : RvKeys, del : BOOLEAN] \cup
  [kind : {"compact"}, step : {"refuse", "engine", "count", "publish"}, rev : Nat] \cup
  [kind : {"install"}, step : {"engine", "reload"}, key : RvKeys, del : BOOLEAN, rev : Nat]

ASSUME NoWorkAssumption == NoWork \notin Works

Resting == [pc |-> "idle", target |-> 0, floor |-> 0, tries |-> 0, seen |-> 0,
            snap |-> {}, revs |-> [current |-> 0, compact |-> 0],
            plan |-> [k \in {} |-> NoRev], got |-> [k \in {} |-> NoRev]]

RvInit ==
  /\ kv = {} /\ index = [k \in RvKeys |-> {}] /\ values = [k \in RvKeys |-> NoRev]
  /\ state = [current |-> 0, compact |-> 0] /\ view = state
  /\ commits = 0 /\ published = 0
  /\ work = NoWork /\ installing = FALSE /\ installs = 0
  /\ reader = [r \in RvReaders |-> Resting]
  /\ rvHist = <<[k \in RvKeys |-> NoRev]>>

Free == work = NoWork
Doing(kind, step) == ~Free /\ work.kind = kind /\ work.step = step
Goto(step) == work' = [work EXCEPT !.step = step]

----------------------------------------------------------------------------
(* commit_ctx. *)

NextRev == <<state.current + 1, 0>>

StartCommit(k, del) ==
  /\ Free
  /\ state.current + (IF installing THEN 1 ELSE 0) < MaxRev
  /\ del => IsLive(index[k])
  /\ work' = Commit(k, del)
  /\ UNCHANGED <<kv, index, values, state, view, commits, published, installing, installs, reader, rvHist>>

CommitEngine ==
  /\ Doing("commit", "engine")
  /\ \/ /\ kv' = kv \cup {<<work.key, NextRev>>}
        /\ Goto("count")
     \/ work' = NoWork /\ UNCHANGED kv      \* the commit fails
  /\ UNCHANGED <<index, values, state, view, commits, published, installing, installs, reader, rvHist>>

Count(kind) == Doing(kind, "count") /\ commits' = commits + 1

CommitCount ==
  /\ Count("commit")
  /\ Goto("values")
  /\ UNCHANGED <<kv, index, values, state, view, published, installing, installs, reader, rvHist>>

CommitValues ==
  /\ Doing("commit", "values")
  /\ values' = [values EXCEPT ![work.key] = IF work.del THEN NoRev ELSE NextRev]
  /\ Goto("publish")
  /\ UNCHANGED <<kv, index, state, view, commits, published, installing, installs, reader, rvHist>>

CommitPublish ==
  LET k == work.key
      revs == [state EXCEPT !.current = @ + 1]
  IN
  /\ Doing("commit", "publish")
  /\ index' = [index EXCEPT ![k] = IF work.del THEN RecordDelete(@, NextRev) ELSE RecordPut(@, NextRev)]
  /\ view' = revs /\ state' = revs
  /\ published' = published + 1
  /\ rvHist' = Append(rvHist, [rvHist[Len(rvHist)] EXCEPT ![k] = IF work.del THEN NoRev ELSE NextRev])
  /\ work' = NoWork
  /\ UNCHANGED <<kv, values, commits, installing, installs, reader>>

----------------------------------------------------------------------------
(* compact. *)

StartCompact(m) ==
  /\ Free
  /\ state.compact < m /\ m <= state.current
  /\ work' = Compaction(m)
  /\ UNCHANGED <<kv, index, values, state, view, commits, published, installing, installs, reader, rvHist>>

(* What reads see before any record goes. *)
Refusing(m) == [view EXCEPT !.compact = m]

CompactRefuse ==
  /\ Doing("compact", "refuse")
  /\ view' = Refusing(work.rev)
  /\ Goto("engine")
  /\ UNCHANGED <<kv, index, values, state, commits, published, installing, installs, reader, rvHist>>

Changed(m) == {k \in RvKeys : CompactionChanges(index[k], m)}

CompactEngine ==
  /\ Doing("compact", "engine")
  /\ \/ /\ kv' = kv \ UNION {{k} \X Dropped(index[k], work.rev) : k \in Changed(work.rev)}
        /\ Goto("count")
        /\ UNCHANGED view
     \/ view' = state /\ work' = NoWork /\ UNCHANGED kv      \* the commit fails
  /\ UNCHANGED <<index, values, state, commits, published, installing, installs, reader, rvHist>>

CompactCount ==
  /\ Count("compact")
  /\ Goto("publish")
  /\ UNCHANGED <<kv, index, values, state, view, published, installing, installs, reader, rvHist>>

CompactPublish ==
  LET revs == [state EXCEPT !.compact = work.rev]
  IN
  /\ Doing("compact", "publish")
  /\ index' = [k \in RvKeys |-> IF k \in Changed(work.rev) THEN Compacted(index[k], work.rev) ELSE index[k]]
  /\ view' = revs /\ state' = revs
  /\ published' = published + 1
  /\ work' = NoWork
  /\ UNCHANGED <<kv, values, commits, installing, installs, reader, rvHist>>

----------------------------------------------------------------------------
(* install_tables_stream: a snapshot of a member one commit, and perhaps a *)
(* compaction, further on.                                                 *)

InView(r) == reader[r].pc \in {"count", "snap", "check", "lock"}

TakeReplace ==
  /\ ~installing /\ installs < MaxInstalls
  /\ state.current + (IF Free THEN 0 ELSE 1) < MaxRev
  /\ \A r \in RvReaders : ~InView(r)
  /\ installing' = TRUE /\ installs' = installs + 1
  /\ UNCHANGED <<kv, index, values, state, view, commits, published, work, reader, rvHist>>

StartInstall(k, del, m) ==
  /\ Free /\ installing
  /\ del => IsLive(index[k])
  /\ state.compact <= m /\ m <= state.current + 1
  /\ work' = Install(k, del, m)
  /\ UNCHANGED <<kv, index, values, state, view, commits, published, installing, installs, reader, rvHist>>

(* The snapshot's mvcc_idx. *)
InstalledIndex ==
  LET changed == [index EXCEPT ![work.key] =
                    IF work.del THEN RecordDelete(@, NextRev) ELSE RecordPut(@, NextRev)]
  IN  [k \in RvKeys |-> Compacted(changed[k], work.rev)]

RvNamed(ix) ==
  UNION {{k} \X UNION {g.revs \cup ({g.tombstone} \ {NoRev}) : g \in ix[k]} : k \in RvKeys}

InstallEngine ==
  /\ Doing("install", "engine")
  /\ \/ kv' = RvNamed(InstalledIndex) /\ Goto("reload") /\ UNCHANGED installing
     \/ work' = NoWork /\ installing' = FALSE /\ UNCHANGED kv      \* the commit fails
  /\ UNCHANGED <<index, values, state, view, commits, published, installs, reader, rvHist>>

(* reload_locked. *)
InstallReload ==
  LET revs == [current |-> state.current + 1, compact |-> work.rev]
  IN
  /\ Doing("install", "reload")
  /\ index' = InstalledIndex
  /\ values' = [k \in RvKeys |-> NoRev]
  /\ state' = revs /\ view' = revs
  /\ rvHist' = Append(rvHist, [rvHist[Len(rvHist)] EXCEPT ![work.key] = IF work.del THEN NoRev ELSE NextRev])
  /\ work' = NoWork /\ installing' = FALSE
  /\ UNCHANGED <<kv, commits, published, installs, reader>>

----------------------------------------------------------------------------
(* read_view and range_with_revision. *)

At(r, pc) == reader[r].pc = pc

StartRead(r, target) ==
  /\ At(r, "idle") /\ ~installing
  /\ reader' = [reader EXCEPT ![r] =
       [Resting EXCEPT !.pc = "count", !.target = target, !.floor = state.current]]
  /\ UNCHANGED store

ReadCount(r) ==
  /\ At(r, "count")
  /\ reader' = [reader EXCEPT ![r].pc = "snap", ![r].seen = commits]
  /\ UNCHANGED store

ReadSnapshot(r) ==
  /\ At(r, "snap")
  /\ reader' = [reader EXCEPT ![r].pc = "check", ![r].snap = kv]
  /\ UNCHANGED store

(* Mutant of Planned: the records of one revision under the header of a    *)
(* later one.                                                              *)
StaleHeaderMutant(x, revs) ==
  LET hits == {k \in RvKeys : RevisionAt(index[k], x.floor) # NoRev}
  IN  [x EXCEPT !.pc = "fetch", !.revs = revs, !.plan = [k \in hits |-> RevisionAt(index[k], x.floor)]]

(* check_read_rev and plan_range under the index's read guard. *)
Planned(x, revs) ==
  LET m == IF x.target = 0 THEN revs.current ELSE x.target
      refused == x.target > revs.current \/ (x.target > 0 /\ x.target < revs.compact)
      hits == {k \in RvKeys : RevisionAt(index[k], m) # NoRev}
  IN  IF refused
      THEN [x EXCEPT !.pc = "refused", !.revs = revs, !.snap = {}]
      ELSE [x EXCEPT !.pc = "fetch", !.revs = revs,
                     !.plan = [k \in hits |-> RevisionAt(index[k], m)]]

(* No commit the index describes is missing from the snapshot. *)
Consistent(x) == published <= x.seen

ReadCheck(r) ==
  LET x == reader[r]
  IN
  /\ At(r, "check")
  /\ reader' = [reader EXCEPT ![r] =
       IF Consistent(x) THEN Planned(x, view)
       ELSE [x EXCEPT !.tries = @ + 1, !.snap = {},
                      !.pc = IF x.tries + 1 < Tries THEN "count" ELSE "lock"]]
  /\ UNCHANGED store

(* The fallback: everything under the write-state lock. *)
ReadLocked(r) ==
  /\ At(r, "lock") /\ Free
  /\ reader' = [reader EXCEPT ![r] = Planned([reader[r] EXCEPT !.snap = kv], state)]
  /\ UNCHANGED store

(* fetch_records, a key at a time: the value cache or the snapshot.  Only  *)
(* a read of the latest revision fills the cache, and never over a newer   *)
(* entry.                                                                  *)
Fills(x) == x.target \in {0, x.revs.current}

Fetch(r, k) ==
  LET x   == reader[r]
      rev == x.plan[k]
      hit == values[k] = rev
  IN
  /\ At(r, "fetch") /\ k \in DOMAIN x.plan \ DOMAIN x.got
  /\ \/ hit /\ UNCHANGED values
     \/ /\ ~hit
        /\ IF Fills(x) /\ <<k, rev>> \in x.snap /\ (values[k] = NoRev \/ Precedes(values[k], rev))
           THEN values' = [values EXCEPT ![k] = rev]
           ELSE UNCHANGED values
  /\ reader' = [reader EXCEPT ![r].got =
       [q \in DOMAIN x.got \cup {k} |->
          IF q # k THEN x.got[q] ELSE IF hit \/ <<k, rev>> \in x.snap THEN rev ELSE NoRev]]
  /\ UNCHANGED <<kv, index, state, view, commits, published, work, installing, installs, rvHist>>

FinishRead(r) ==
  /\ \/ At(r, "refused")
     \/ At(r, "fetch") /\ DOMAIN reader[r].got = DOMAIN reader[r].plan
  /\ reader' = [reader EXCEPT ![r] = Resting]
  /\ UNCHANGED store

(* The value cache makes room. *)
Evict(k) ==
  /\ values[k] # NoRev
  /\ values' = [values EXCEPT ![k] = NoRev]
  /\ UNCHANGED <<kv, index, state, view, commits, published, work, installing, installs, reader, rvHist>>

RvNext ==
  \/ \E k \in RvKeys, del \in BOOLEAN :
       StartCommit(k, del) \/ \E m \in 0..MaxRev : StartInstall(k, del, m)
  \/ CommitEngine \/ CommitCount \/ CommitValues \/ CommitPublish
  \/ \E m \in 1..MaxRev : StartCompact(m)
  \/ CompactRefuse \/ CompactEngine \/ CompactCount \/ CompactPublish
  \/ TakeReplace \/ InstallEngine \/ InstallReload
  \/ \E r \in RvReaders :
       \/ \E target \in 0..MaxRev : StartRead(r, target)
       \/ ReadCount(r) \/ ReadSnapshot(r) \/ ReadCheck(r) \/ ReadLocked(r) \/ FinishRead(r)
       \/ \E k \in RvKeys : Fetch(r, k)
  \/ \E k \in RvKeys : Evict(k)

RvSpec == RvInit /\ [][RvNext]_rvVars

----------------------------------------------------------------------------
(* Properties. *)

(* Every variable has its type. *)
RvTypeOK ==
  /\ kv \subseteq RvKeys \X Revision
  /\ \A k \in RvKeys : index[k] \subseteq Generation /\ values[k] \in Revision \cup {NoRev}
  /\ state \in Revs /\ view \in Revs /\ work \in Works \cup {NoWork}
  /\ published <= commits /\ commits <= published + 1
  /\ \A r \in RvReaders :
       /\ reader[r].pc \in {"idle", "count", "snap", "check", "lock", "fetch", "refused"}
       /\ reader[r].tries \in 0..Tries /\ reader[r].revs \in Revs
       /\ reader[r].snap \subseteq RvKeys \X Revision

(* A read finds every record its plan names, in the cache or in its        *)
(* snapshot, whatever commits, compacts or installs while it runs.         *)
NoMissingRecord ==
  \A r \in RvReaders : \A k \in DOMAIN reader[r].got : reader[r].got[k] # NoRev

(* A read returns the keys live at the revision it asked for, each with    *)
(* its record then; for the latest, at the revision its header carries.    *)
ReadsItsRevision ==
  \A r \in RvReaders : At(r, "fetch") =>
    LET x == reader[r]
        m == IF x.target = 0 THEN x.revs.current ELSE x.target
    IN  /\ m <= x.revs.current
        /\ DOMAIN x.plan = {k \in RvKeys : rvHist[m + 1][k] # NoRev}
        /\ \A k \in DOMAIN x.plan : x.plan[k] = rvHist[m + 1][k]

(* A read sees every commit that was over when it began. *)
ReadsAreCurrent ==
  \A r \in RvReaders : reader[r].pc \in {"fetch", "refused"} => reader[r].floor <= reader[r].revs.current

(* Reads beside writes: a read is of one revision, finds every record it   *)
(* plans to return and is not older than a commit that was over when it    *)
(* began, whatever commits, compactions and installs run beside its steps  *)
(* (read_view, fetch).                                                     *)
ReadsRight == RvTypeOK /\ NoMissingRecord /\ ReadsItsRevision /\ ReadsAreCurrent
=============================================================================
