------------------------------ MODULE Migrate ------------------------------
(***************************************************************************)
(* Importing an etcd database (migrate/src/lib.rs, bulk_load_records of    *)
(* storage/mvcc/store.rs).  The source is a BoltDB file: a `key' bucket of *)
(* records in revision order, a `lease' bucket.  The tool reads it, opens  *)
(* a new store and writes, a commit each: every lease, then all the keys,  *)
(* either their latest values or their records at their own revisions.  It *)
(* can be interrupted after any of them and run again with --force.        *)
(* The auth buckets, the hash of the file and its pages are left out.      *)
(***************************************************************************)
EXTENDS Integers, FiniteSets, Functions, FiniteSetsExt

CONSTANTS MgKeys, MgLeases,
          MgRevs,       \* revisions of the source, at most
          MgRuns,       \* runs of the tool, at most
          TombsDated,   \* a tombstone's record names its revision
          MgNone        \* Option::None

KX == INSTANCE KeyIndex WITH NoRev <- MgNone

VARIABLES source,    \* the file: records, revision, compacted revision, leases
          tool,      \* [step, mode, left: leases to grant]
          target,    \* the data directory: the store in it, or MgNone
          runs       \* runs begun

mgvars == <<source, tool, target, runs>>

(* No lease is 0, as in the records. *)
NoLease == 0

(***************************************************************************)
(* The source: etcd (external), one change per revision.                   *)
(***************************************************************************)

OfKey(recs, k) == {r \in recs : r.key = k}
LatestRec(recs) == CHOOSE r \in recs : \A q \in recs : q.rev <= r.rev
AtRev(recs, k, m) == {r \in OfKey(recs, k) : r.rev <= m}
LiveAt(recs, k, m) == AtRev(recs, k, m) # {} /\ ~LatestRec(AtRev(recs, k, m)).deleted

SourcePut(k, l) ==
  /\ tool.step = "idle" /\ source.rev < MgRevs
  /\ source' = [source EXCEPT !.rev = @ + 1,
       !.recs = @ \cup {[key |-> k, rev |-> source.rev + 1, lease |-> l, deleted |-> FALSE]}]
  /\ UNCHANGED <<tool, target, runs>>

SourceDelete(k) ==
  /\ tool.step = "idle" /\ source.rev < MgRevs /\ LiveAt(source.recs, k, source.rev)
  /\ source' = [source EXCEPT !.rev = @ + 1,
       !.recs = @ \cup {[key |-> k, rev |-> source.rev + 1, lease |-> NoLease, deleted |-> TRUE]}]
  /\ UNCHANGED <<tool, target, runs>>

(* What nobody can read from revision m on is gone. *)
SourceCompact(m) ==
  /\ tool.step = "idle" /\ m \in (source.compact + 1)..source.rev
  /\ source' = [source EXCEPT !.compact = m, !.recs =
       {r \in @ : r.rev > m \/ (LatestRec(AtRev(@, r.key, m)) = r /\ ~r.deleted)}]
  /\ UNCHANGED <<tool, target, runs>>

(***************************************************************************)
(* What the tool makes of it.                                              *)
(***************************************************************************)

(* mod_revision, as the record names it. *)
ModOf(r) == IF r.deleted /\ ~TombsDated THEN 0 ELSE r.rev

MaxRevOf(recs) == Max({0} \cup {ModOf(r) : r \in recs})

(* The lease a key keeps: one the bucket holds. *)
KeepLease(l) == IF l \in source.leases THEN l ELSE NoLease

(* Mutant of LatestOf: a tombstone does not take the key back. *)
DeletedStaysMutant(k) ==
  LET puts == {r \in OfKey(source.recs, k) : ~r.deleted}
  IN  IF puts = {} THEN MgNone ELSE LatestRec(puts)

(* LatestOnly, after the whole bucket in its order: a tombstone removes    *)
(* the key, a put replaces an older one.                                   *)
LatestOf(k) ==
  LET last == LatestRec(OfKey(source.recs, k))
  IN  IF OfKey(source.recs, k) = {} \/ last.deleted THEN MgNone ELSE last

(* PreserveRevisions: the key's records by revision (a stable sort of the  *)
(* bucket's order); of the ones up to the last tombstone the puts before   *)
(* it, else all.                                                           *)
Sorted(q, r) == ModOf(q) < ModOf(r) \/ (ModOf(q) = ModOf(r) /\ q.rev < r.rev)

LastTomb(k) ==
  LET tombs == {r \in OfKey(source.recs, k) : r.deleted}
  IN  IF tombs = {} THEN MgNone ELSE CHOOSE t \in tombs : \A u \in tombs : ~Sorted(t, u)

PutsOf(k) ==
  {r \in OfKey(source.recs, k) : LastTomb(k) = MgNone \/ Sorted(r, LastTomb(k))}

(* bulk_load_records: one generation, closed by the tombstone if any. *)
Generations(puts, tomb) ==
  LET at(r) == <<ModOf(r), 0>>
  IN  IF tomb = MgNone /\ puts = {} THEN {}
      ELSE {[created |-> IF puts = {} THEN at(tomb) ELSE <<Min({ModOf(r) : r \in puts}), 0>>,
             revs |-> {at(r) : r \in puts},
             tombstone |-> IF tomb = MgNone THEN MgNone ELSE at(tomb)]}

(* Its records, each under its key and revision. *)
Loaded(k) == {[key |-> k, rev |-> ModOf(r), from |-> r.rev, deleted |-> r.deleted]
              : r \in PutsOf(k) \cup (IF LastTomb(k) = MgNone THEN {} ELSE {LastTomb(k)})}

(* The key is on its lease only as it is now. *)
BulkLink(k) ==
  IF LastTomb(k) # MgNone \/ PutsOf(k) = {} THEN {}
  ELSE {<<KeepLease(LatestRec(PutsOf(k)).lease), k>>} \ {<<NoLease, k>>}

(***************************************************************************)
(* The tool.                                                               *)
(***************************************************************************)

EmptyStore == [rev |-> 0, leases |-> {}, gens |-> [k \in MgKeys |-> {}], kv |-> {}, links |-> {}]

ToolIdle == [step |-> "idle", mode |-> "none", left |-> {}]

MgInit ==
  /\ source \in [recs : {{}}, rev : {0}, compact : {0}, leases : SUBSET MgLeases]
  /\ tool = ToolIdle /\ target = MgNone /\ runs = 0

(* --force removes the store an earlier run left. *)
Emptied(t) == EmptyStore

(* migrate_snapshot_with_mode: a directory with something in it is refused *)
(* unless forced.                                                          *)
StartMigration(mode, force) ==
  /\ tool.step = "idle" /\ runs < MgRuns
  /\ target = MgNone \/ force
  /\ target' = Emptied(target)
  /\ tool' = [step |-> "leases", mode |-> mode, left |-> source.leases]
  /\ runs' = runs + 1
  /\ UNCHANGED source

(* apply_lease_grant, one by one. *)
GrantOne ==
  /\ tool.step = "leases"
  /\ \E l \in tool.left :
       /\ target' = [target EXCEPT !.leases = @ \cup {l}]
       /\ tool' = [tool EXCEPT !.left = @ \ {l}]
  /\ UNCHANGED <<source, runs>>

(* One apply of a put per key, in any order: revision 1. *)
ImportLatest ==
  /\ tool.step = "leases" /\ tool.left = {} /\ tool.mode = "latest"
  /\ LET keys == {k \in MgKeys : LatestOf(k) # MgNone}
     IN  /\ \E sub \in {f \in [keys -> 0..(Cardinality(keys) - 1)] : \A p, q \in keys : p # q => f[p] # f[q]} :
              target' = [target EXCEPT
                !.rev = IF keys = {} THEN @ ELSE @ + 1,
                !.gens = [k \in MgKeys |-> IF k \in keys THEN KX!RecordPut(@[k], <<target.rev + 1, sub[k]>>) ELSE @[k]],
                !.kv = @ \cup {[key |-> k, rev |-> target.rev + 1, from |-> LatestOf(k).rev, deleted |-> FALSE] : k \in keys},
                !.links = @ \cup {<<KeepLease(LatestOf(k).lease), k>> : k \in {x \in keys : KeepLease(LatestOf(x).lease) # NoLease}}]
  /\ tool' = [tool EXCEPT !.step = "done"]
  /\ UNCHANGED <<source, runs>>

(* bulk_load_records: refused unless the store is empty. *)
BulkLoad ==
  /\ tool.step = "leases" /\ tool.left = {} /\ tool.mode = "preserve" /\ target.rev = 0
  /\ target' = [target EXCEPT
       !.rev = MaxRevOf(source.recs),
       !.gens = [k \in MgKeys |-> Generations(PutsOf(k), LastTomb(k))],
       !.kv = UNION {Loaded(k) : k \in MgKeys},
       !.links = UNION {BulkLink(k) : k \in MgKeys}]
  /\ tool' = [tool EXCEPT !.step = "done"]
  /\ UNCHANGED <<source, runs>>

(* The tool ends, done or interrupted; the source may go on. *)
ToolEnds ==
  /\ tool.step # "idle" /\ tool' = ToolIdle
  /\ UNCHANGED <<source, target, runs>>

MgNext ==
  \/ \E k \in MgKeys : (\E l \in MgLeases \cup {NoLease} : SourcePut(k, l)) \/ SourceDelete(k)
  \/ \E m \in 1..MgRevs : SourceCompact(m)
  \/ \E mode \in {"latest", "preserve"}, force \in BOOLEAN : StartMigration(mode, force)
  \/ GrantOne \/ ImportLatest \/ BulkLoad \/ ToolEnds

MgSpec == MgInit /\ [][MgNext]_mgvars

(***************************************************************************)
(* Properties.                                                             *)
(***************************************************************************)

(* What the target answers for k at revision m: the source revision its    *)
(* value comes from, or 0.                                                 *)
TargetRead(k, m) ==
  LET r == KX!RevisionAt(target.gens[k], m)
      found == {x \in target.kv : x.key = k /\ r # MgNone /\ x.rev = r[1] /\ ~x.deleted}
  IN  IF found = {} THEN 0 ELSE (CHOOSE x \in found : TRUE).from

SourceRead(k, m) ==
  IF LiveAt(source.recs, k, m) THEN LatestRec(AtRev(source.recs, k, m)).rev ELSE 0

(* The indexes of the target are in order, and its keys are on leases it   *)
(* has.                                                                    *)
MgTypeOK ==
  /\ source.rev \in 0..MgRevs /\ source.compact \in 0..source.rev
  /\ tool.step \in {"idle", "leases", "done"} /\ runs \in 0..MgRuns
  /\ target # MgNone =>
       /\ target.leases \subseteq MgLeases
       /\ \A x \in target.links : x[1] \in target.leases /\ x[2] \in MgKeys
       /\ \A k \in MgKeys : \A g \in target.gens[k] :
            \A r \in g.revs : g.created[1] <= r[1] /\ (g.tombstone = MgNone \/ r[1] < g.tombstone[1])

(* LatestKept: after a migration without --preserve-revisions the target   *)
(* holds the keys that are live in the source, with their latest values,   *)
(* each on the lease it had if the snapshot has that lease, whatever an    *)
(* interrupted run left before (migrate_snapshot_with_mode, LatestOnly).   *)
LatestKept ==
  tool.step = "done" /\ tool.mode = "latest" =>
    /\ \A k \in MgKeys : TargetRead(k, target.rev) = SourceRead(k, source.rev)
    /\ target.leases = source.leases
    /\ target.links = {<<l, k>> \in source.leases \X MgKeys :
                         LiveAt(source.recs, k, source.rev) /\ LatestRec(OfKey(source.recs, k)).lease = l}

(* The target agrees with the source on k. *)
ReadsAlike(k) ==
  /\ \A m \in source.compact..source.rev : TargetRead(k, m) = SourceRead(k, m)
  /\ \A l \in source.leases :
       <<l, k>> \in target.links <=>
         LiveAt(source.recs, k, source.rev) /\ LatestRec(OfKey(source.recs, k)).lease = l

(* Preserved: after --preserve-revisions a read at any revision the source *)
(* had not compacted returns the record it returns there, and the key is   *)
(* on its lease, for every key that was not put again after a delete the   *)
(* snapshot still shows (bulk_load_records; the tool drops what comes      *)
(* after the last tombstone).                                              *)
Preserved ==
  tool.step = "done" /\ tool.mode = "preserve" =>
    \A k \in MgKeys :
      (\A t, r \in OfKey(source.recs, k) : t.deleted => r.rev <= t.rev) => ReadsAlike(k)

(* An import, of either mode and after interrupted ones, holds what the    *)
(* source holds (migrate_snapshot_with_mode, bulk_load_records).           *)
MigratesRight == MgTypeOK /\ LatestKept /\ Preserved
=============================================================================
