--------------------------- MODULE SnapshotStore ---------------------------
(***************************************************************************)
(* The directory of retained raft snapshots (raft/snapshot_store.rs).  A   *)
(* snapshot of log index i is two files, i.snap (the body) and i.meta;     *)
(* each is written to a temp file, synced and renamed into place, the body *)
(* first.  A directory is [snap, meta]: what each index's body holds, and  *)
(* the index each meta describes.  Temp files are reclaimed by open and    *)
(* hold nothing a reader sees, so they are left out.                       *)
(***************************************************************************)
EXTENDS Integers, FiniteSets, Functions, FiniteSetsExt

NoSnapshot == 0

EmptyDir == [snap |-> << >>, meta |-> << >>]

Indices(d) == DOMAIN d.snap

Without(f, S) == Restrict(f, DOMAIN f \ S)

With(f, i, v) == [x \in DOMAIN f \cup {i} |-> IF x = i THEN v ELSE f[x]]

(* prune_to: roll off the oldest until keep are left. *)
PruneTo(d, keep) ==
  LET old == {i \in Indices(d) : Cardinality({x \in Indices(d) : x > i}) >= keep}
  IN  [snap |-> Without(d.snap, old), meta |-> Without(d.meta, old)]

MakeRoomForOne(d, retain) == PruneTo(d, retain - 1)

DiscardAll(d) == PruneTo(d, 0)

(* remove_orphans: a body or a meta left alone by an interrupted write. *)
RemoveOrphans(d) ==
  LET both == DOMAIN d.snap \cap DOMAIN d.meta
  IN  [snap |-> Restrict(d.snap, both), meta |-> Restrict(d.meta, both)]

OpenDir(d, retain) == PruneTo(RemoveOrphans(d), retain)

(* latest_meta: the newest body that has a meta. *)
LatestMeta(d) ==
  LET S == DOMAIN d.snap \cap DOMAIN d.meta
  IN  IF S = {} THEN NoSnapshot ELSE Max(S)

(* What a power failure makes of directory d, last synced as old: every    *)
(* rename and unlink since then took place or did not.                     *)
CrashedDirs(old, d) ==
  LET mix(f, g, K) == [i \in (DOMAIN g \cap K) \cup (DOMAIN f \ K) |-> IF i \in K THEN g[i] ELSE f[i]]
      mixes(f, g) == {mix(f, g, K) : K \in SUBSET (DOMAIN f \cup DOMAIN g)}
  IN  {[snap |-> s, meta |-> t] : s \in mixes(old.snap, d.snap), t \in mixes(old.meta, d.meta)}
=============================================================================
