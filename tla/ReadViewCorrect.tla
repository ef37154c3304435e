-------------------------- MODULE ReadViewCorrect ---------------------------
(***************************************************************************)
(* Reads beside writes, continued: the steps that publish what a writer    *)
(* did and the readers' steps keep the invariant of ReadViewProofs, and    *)
(* with it every read is right.                                            *)
(***************************************************************************)
EXTENDS ReadViewProofs

(* A set of records that is enough before a commit, with the commit's own, *)
(* is enough after it.                                                     *)
LEMMA HoldsAdvanced ==
  ASSUME Typed, Indexed, NEW key \in RvKeys, NEW del \in BOOLEAN, del => IsLive(index[key]),
         NEW S, Holds(S, state.compact), <<key, NextRev>> \in S,
         NEW k \in RvKeys, NEW m \in state.compact..(state.current + 1),
         RevisionAt(After(key, del, k), m) # NoRev
  PROVE  <<k, RevisionAt(After(key, del, k), m)>> \in S
<1>1. /\ state.current \in Nat /\ state.compact \in Nat /\ state.compact <= state.current
  BY DEF Typed, Revs
<1>2. \A n \in state.compact..state.current : RevisionAt(index[k], n) = rvHist[n + 1][k]
  BY DEF Indexed
<1>3. /\ \A n \in state.compact..state.current : RevisionAt(After(key, del, k), n) = rvHist[n + 1][k]
      /\ RevisionAt(After(key, del, k), state.current + 1) = Left(key, del, k)
  BY Advanced
<1>4. CASE m \in state.compact..state.current
  BY <1>2, <1>3, <1>4 DEF Holds
<1>5. CASE m = state.current + 1
  <2>1. CASE k = key
    BY <1>3, <1>5, <2>1 DEF Left
  <2>2. CASE k # key
    <3>1. Left(key, del, k) = RevisionAt(index[k], state.current)
      BY <1>1, <1>2, <2>2 DEF Left
    <3> QED
      BY <1>1, <1>3, <1>5, <3>1 DEF Holds
  <2> QED
    BY <2>1, <2>2
<1> QED
  BY <1>1, <1>4, <1>5

(* The commit is published. *)
LEMMA CommitPublishInv ==
  ASSUME RvIInv, CommitPublish
  PROVE  RvIInv'
<1>1. /\ ~Free /\ work.kind = "commit" /\ work.step = "publish"
      /\ work.key \in RvKeys /\ work.del \in BOOLEAN /\ (work.del => IsLive(index[work.key]))
  BY WorkFields DEF CommitPublish, Doing, RvIInv, Holder
<1>2. /\ ~Erased /\ Counted /\ Committed /\ ~Doing("install", "reload") /\ ~Doing("compact", "engine")
  BY <1>1 DEF Erased, Counted, Committed, Doing
<1>3. /\ work' = NoWork /\ Free' /\ ~Erased' /\ ~Counted' /\ ~Committed' /\ ~Doing("install", "reload")'
      /\ ~Doing("compact", "engine")'
  BY DEF CommitPublish, Free, Erased, Counted, Committed, Doing
<1>4. /\ state.current \in Nat /\ state.compact \in Nat /\ state.compact <= state.current
      /\ state \in Revs
  BY DEF RvIInv, Typed, Revs
<1>5. /\ state' \in Revs /\ state'.current = state.current + 1 /\ state'.compact = state.compact
      /\ view' = state'
  BY <1>4 DEF CommitPublish, Revs
<1>6. /\ UNCHANGED <<kv, values, commits, installing, reader>> /\ published' = published + 1
      /\ commits \in Nat /\ published \in Nat /\ commits = published + 1
  BY <1>2 DEF CommitPublish, RvIInv, Typed, Viewed
<1>7. index' = [k \in RvKeys |-> After(work.key, work.del, k)]
  <2>1. index \in [RvKeys -> SUBSET Generation]
    BY DEF RvIInv, Typed
  <2> QED
    BY <2>1, Zenon DEF CommitPublish, After
<1>8. /\ rvHist' \in Seq([RvKeys -> Revision \cup {NoRev}])
      /\ Len(rvHist') = state.current + 2
      /\ \A m \in 0..state.current : rvHist'[m + 1] = rvHist[m + 1]
      /\ \A k \in RvKeys : rvHist'[state.current + 2][k] = Left(work.key, work.del, k)
  BY <1>1, Recorded, Zenon DEF CommitPublish, RvIInv
<1>9. ASSUME NEW k \in RvKeys
      PROVE  /\ WellFormed(index'[k]) /\ Bounded(index'[k])
             /\ AllBefore(index'[k], <<state.current + 2, 0>>)
             /\ \A m \in state.compact..state.current : RevisionAt(index'[k], m) = rvHist[m + 1][k]
             /\ RevisionAt(index'[k], state.current + 1) = Left(work.key, work.del, k)
  BY <1>1, <1>7, Advanced DEF RvIInv
<1>10. Typed'
  <2>1. index' \in [RvKeys -> SUBSET Generation]
    BY <1>7, <1>9 DEF WellFormed
  <2> QED
    <3>1. Typed
      BY DEF RvIInv
    <3>2. state' \in Revs /\ state'.compact <= state'.current /\ view' \in Revs
      BY <1>4, <1>5, <1>6, <3>1 DEF Typed, Revs
    <3> QED
      BY <1>3, <1>4, <1>5, <1>6, <1>8, <2>1, <3>1, <3>2 DEF Typed
<1>11. Indexed'
  <2>1. NextRev' = <<state.current + 2, 0>>
    BY <1>4, <1>5 DEF NextRev
  <2>2. ASSUME NEW k \in RvKeys, NEW m \in state.compact..(state.current + 1)
        PROVE  RevisionAt(index'[k], m) = rvHist'[m + 1][k]
    <3>1. CASE m \in state.compact..state.current
      <4>1. m \in 0..state.current
        BY <1>4, <3>1
      <4> QED
        BY <1>8, <1>9, <3>1, <4>1
    <3>2. CASE m = state.current + 1
      <4>1. m + 1 = state.current + 2
        BY <1>4, <3>2
      <4> QED
        BY <1>8, <1>9, <3>2, <4>1
    <3> QED
      BY <1>4, <3>1, <3>2
  <2> QED
    BY <1>5, <1>9, <2>1, <2>2 DEF Indexed
<1>12. Holder'
  BY <1>3 DEF Holder
<1>13. Viewed'
  BY <1>3, <1>5, <1>6 DEF Viewed
<1>14. Lost = state.compact /\ Lost' = state.compact
  BY <1>2, <1>3, <1>5 DEF Lost
<1>15. ASSUME NEW S, Holds(S, Lost), <<work.key, NextRev>> \in S PROVE Holds(S, Lost)'
  <2>1. ASSUME NEW k \in RvKeys, NEW m \in state.compact..(state.current + 1), RevisionAt(index'[k], m) # NoRev
        PROVE  <<k, RevisionAt(index'[k], m)>> \in S
    BY <1>1, <1>7, <1>14, <1>15, <2>1, HoldsAdvanced DEF RvIInv
  <2> QED
    BY <1>5, <1>14, <2>1 DEF Holds
<1>16. Stored'
  <2>1. Holds(kv, Lost) /\ <<work.key, NextRev>> \in kv
    BY <1>1, <1>2 DEF RvIInv, Stored
  <2>2. Holds(kv, Lost)'
    BY <1>6, <1>15, <2>1
  <2> QED
    BY <1>3, <2>2 DEF Stored
<1>17. ASSUME NEW r \in RvReaders PROVE Looking(reader[r])' /\ Holding(reader[r])'
  <2>0. state.current <= state'.current /\ state'.current \in Nat
    BY <1>4, <1>5
  <2>1. Holding(reader[r])'
    BY <1>6, <1>8, <2>0, HoldingKept
  <2> DEFINE x == reader[r]
  <2>2. Looking(x) /\ x' = x /\ x.floor \in Nat /\ x.seen \in Nat
    BY <1>6 DEF RvIInv, Typed, Reader
  <2> HIDE DEF x
  <2>3. x.pc = "check" /\ published + 1 <= x.seen => Holds(x.snap, Lost) /\ <<work.key, NextRev>> \in x.snap
    BY <1>2, <1>6, <2>2 DEF Looking, Committed
  <2>4. (x.pc = "check" /\ published <= x.seen => Holds(x.snap, Lost))'
    BY <1>6, <1>15, <2>2, <2>3, Zenon
  <2>5. Looking(x)'
    BY <1>3, <1>4, <1>5, <1>6, <2>2, <2>4 DEF Looking, Committed
  <2> QED
    BY <2>1, <2>5 DEF x
<1> QED
  BY <1>10, <1>11, <1>12, <1>13, <1>16, <1>17 DEF RvIInv

(* The compaction is published. *)
LEMMA CompactPublishInv ==
  ASSUME RvIInv, CompactPublish
  PROVE  RvIInv'
<1>1. /\ ~Free /\ work.kind = "compact" /\ work.step = "publish" /\ work.rev \in Nat
      /\ state.compact < work.rev /\ work.rev <= state.current
  BY WorkFields DEF CompactPublish, Doing, RvIInv, Holder
<1>2. /\ Erased /\ Counted /\ ~Doing("install", "reload")
  BY <1>1 DEF Erased, Counted, Doing
<1>3. /\ work' = NoWork /\ Free' /\ ~Erased' /\ ~Counted' /\ ~Committed' /\ ~Doing("install", "reload")'
      /\ ~Doing("compact", "engine")'
  BY DEF CompactPublish, Free, Erased, Counted, Committed, Doing
<1>4. /\ state.current \in Nat /\ state.compact \in Nat /\ state \in Revs
  BY DEF RvIInv, Typed, Revs
<1>5. /\ state' \in Revs /\ state'.current = state.current /\ state'.compact = work.rev
      /\ view' = state' /\ NextRev' = NextRev
  BY <1>1, <1>4 DEF CompactPublish, Revs, NextRev
<1>6. /\ UNCHANGED <<kv, values, commits, installing, reader, rvHist>> /\ published' = published + 1
      /\ commits \in Nat /\ published \in Nat /\ commits = published + 1
  BY <1>2 DEF CompactPublish, RvIInv, Typed, Viewed
<1>7. index' = [k \in RvKeys |-> IF k \in Changed(work.rev) THEN Compacted(index[k], work.rev) ELSE index[k]]
  BY DEF CompactPublish
<1>8. ASSUME NEW k \in RvKeys
      PROVE  /\ WellFormed(index'[k]) /\ Bounded(index'[k]) /\ AllBefore(index'[k], NextRev)
             /\ \A m \in Nat : work.rev <= m => RevisionAt(index'[k], m) = RevisionAt(index[k], m)
  <2>1. WellFormed(index[k]) /\ Bounded(index[k]) /\ AllBefore(index[k], NextRev)
    BY DEF RvIInv, Indexed
  <2>2. CASE k \in Changed(work.rev)
    <3>1. index'[k] = Compacted(index[k], work.rev)
      BY <1>7, <2>2
    <3>2. WellFormed(index'[k]) /\ Bounded(index'[k])
      BY <1>1, <2>1, <3>1, CompactKeepsWellFormed
    <3>3. AllBefore(index'[k], NextRev)
      BY <2>1, <3>1, CompactAllBefore
    <3>4. \A m \in Nat : work.rev <= m => RevisionAt(index'[k], m) = RevisionAt(index[k], m)
      BY <1>1, <2>1, <3>1, CompactKeepsReads
    <3> QED
      BY <3>2, <3>3, <3>4
  <2>3. CASE k \notin Changed(work.rev)
    BY <1>7, <2>1, <2>3
  <2> QED
    BY <2>2, <2>3
<1>9. \A m \in work.rev..state.current : m \in Nat /\ work.rev <= m /\ m \in state.compact..state.current
  BY <1>1, <1>4
<1>10. Typed'
  <2>1. index' \in [RvKeys -> SUBSET Generation]
    BY <1>7, <1>8, Zenon DEF WellFormed
  <2> QED
    BY <1>1, <1>3, <1>4, <1>5, <1>6, <2>1, Zenon DEF RvIInv, Typed
<1>11. Indexed'
  BY <1>5, <1>6, <1>8, <1>9, Zenon DEF RvIInv, Indexed
<1>12. Holder'
  BY <1>3 DEF Holder
<1>13. Viewed'
  BY <1>3, <1>5, <1>6 DEF Viewed
<1>14. Lost = work.rev /\ Lost' = work.rev
  BY <1>2, <1>3, <1>5, Zenon DEF Lost
<1>15. \A S : Holds(S, Lost) => Holds(S, Lost)'
  BY <1>5, <1>8, <1>9, <1>14, Zenon DEF Holds
<1>16. Stored'
  <2>1. Holds(kv, Lost)
    BY <1>2 DEF RvIInv, Stored
  <2>2. Holds(kv, Lost)'
    BY <1>6, <1>15, <2>1
  <2> QED
    BY <1>3, <2>2 DEF Stored
<1>17. ASSUME NEW r \in RvReaders PROVE Looking(reader[r])' /\ Holding(reader[r])'
  <2>1. Holding(reader[r])'
    BY <1>4, <1>5, <1>6, HoldingKept
  <2> DEFINE x == reader[r]
  <2>2. Looking(x) /\ x' = x /\ x.floor \in Nat /\ x.seen \in Nat
    BY <1>6 DEF RvIInv, Typed, Reader
  <2> HIDE DEF x
  <2>3. x.pc = "check" /\ published + 1 <= x.seen => Holds(x.snap, Lost)
    BY <1>6, <2>2 DEF Looking
  <2>4. (x.pc = "check" /\ published <= x.seen => Holds(x.snap, Lost))'
    BY <1>6, <1>15, <2>2, <2>3
  <2>5. Looking(x)'
    BY <1>3, <1>4, <1>5, <1>6, <2>2, <2>4, Zenon DEF Looking, Committed
  <2> QED
    BY <2>1, <2>5 DEF x
<1> QED
  BY <1>10, <1>11, <1>12, <1>13, <1>16, <1>17 DEF RvIInv

(* The members' state is the snapshot's. *)
LEMMA InstallReloadInv ==
  ASSUME RvIInv, InstallReload
  PROVE  RvIInv'
<1>1. /\ ~Free /\ work.kind = "install" /\ work.step = "reload" /\ installing
      /\ work.key \in RvKeys /\ work.del \in BOOLEAN /\ work.rev \in Nat
      /\ (work.del => IsLive(index[work.key]))
      /\ state.compact <= work.rev /\ work.rev <= state.current + 1
  BY WorkFields DEF InstallReload, Doing, RvIInv, Holder
<1>2. /\ kv = RvNamed(InstalledIndex) /\ ~Counted
  BY <1>1 DEF RvIInv, Stored, Doing, Counted
<1>3. /\ work' = NoWork /\ Free' /\ ~Erased' /\ ~Counted' /\ ~Committed' /\ ~Doing("install", "reload")'
      /\ ~Doing("compact", "engine")' /\ installing' = FALSE
  BY DEF InstallReload, Free, Erased, Counted, Committed, Doing
<1>4. /\ state.current \in Nat /\ state.compact \in Nat
  BY DEF RvIInv, Typed, Revs
<1>5. /\ state' \in Revs /\ state'.current = state.current + 1 /\ state'.compact = work.rev
      /\ view' = state'
  BY <1>1, <1>4 DEF InstallReload, Revs
<1>6. /\ UNCHANGED <<kv, commits, published, reader>>
      /\ commits \in Nat /\ published \in Nat /\ commits = published
      /\ values' \in [RvKeys -> Revision \cup {NoRev}]
  BY <1>2 DEF InstallReload, RvIInv, Typed, Viewed
<1>7. index' = InstalledIndex
  BY DEF InstallReload
<1>8. /\ rvHist' \in Seq([RvKeys -> Revision \cup {NoRev}])
      /\ Len(rvHist') = state.current + 2
      /\ \A m \in 0..state.current : rvHist'[m + 1] = rvHist[m + 1]
      /\ \A k \in RvKeys : rvHist'[state.current + 2][k] = Left(work.key, work.del, k)
  BY <1>1, Recorded, Zenon DEF InstallReload, RvIInv
<1>9. ASSUME NEW k \in RvKeys
      PROVE  /\ WellFormed(index'[k]) /\ Bounded(index'[k])
             /\ AllBefore(index'[k], <<state.current + 2, 0>>)
             /\ \A m \in work.rev..state.current : RevisionAt(index'[k], m) = rvHist[m + 1][k]
             /\ RevisionAt(index'[k], state.current + 1) = Left(work.key, work.del, k)
  BY <1>1, <1>7, Installed
<1>10. Typed'
  <2>1. \A k \in RvKeys : InstalledIndex[k] \subseteq Generation
    BY <1>7, <1>9 DEF WellFormed
  <2>2. InstalledIndex = [k \in RvKeys |-> InstalledIndex[k]]
    BY DEF InstalledIndex
  <2>3. index' \in [RvKeys -> SUBSET Generation]
    BY <1>7, <2>1, <2>2, Zenon
  <2>4. state'.compact <= state'.current /\ Len(rvHist') = state'.current + 1
    BY <1>1, <1>4, <1>5, <1>8
  <2>5. installing' \in BOOLEAN /\ work' \in Works \cup {NoWork}
    BY <1>3, Zenon
  <2> QED
    BY <1>5, <1>6, <1>8, <2>3, <2>4, <2>5, Zenon DEF RvIInv, Typed
<1>11. Indexed'
  <2>1. NextRev' = <<state.current + 2, 0>>
    BY <1>4, <1>5 DEF NextRev
  <2>2. ASSUME NEW k \in RvKeys, NEW m \in work.rev..(state.current + 1)
        PROVE  RevisionAt(index'[k], m) = rvHist'[m + 1][k]
    <3>1. CASE m \in work.rev..state.current
      <4>1. m \in 0..state.current
        BY <1>1, <1>4, <3>1
      <4> QED
        BY <1>8, <1>9, <3>1, <4>1
    <3>2. CASE m = state.current + 1
      <4>1. m + 1 = state.current + 2
        BY <1>4, <3>2
      <4> QED
        BY <1>8, <1>9, <3>2, <4>1
    <3> QED
      BY <1>1, <1>4, <3>1, <3>2
  <2> QED
    BY <1>5, <1>9, <2>1, <2>2 DEF Indexed
<1>12. Holder'
  BY <1>3 DEF Holder
<1>13. Viewed'
  BY <1>3, <1>5, <1>6 DEF Viewed
<1>14. Lost' = work.rev
  BY <1>3, <1>5 DEF Lost
<1>15. Stored'
  <2>1. ASSUME NEW k \in RvKeys, NEW m \in work.rev..(state.current + 1), RevisionAt(index'[k], m) # NoRev
        PROVE  <<k, RevisionAt(index'[k], m)>> \in kv
    <3>1. m \in Nat
      BY <1>1, <1>4
    <3>2. PICK g \in index'[k] : RevisionAt(index'[k], m) \in g.revs
      BY <1>9, <2>1, <3>1, ReadFinds
    <3> QED
      BY <1>2, <1>7, <3>2 DEF RvNamed
  <2>2. Holds(kv, Lost)'
    BY <1>5, <1>6, <1>14, <2>1, Zenon DEF Holds
  <2> QED
    BY <1>3, <2>2 DEF Stored
<1>16. ASSUME NEW r \in RvReaders PROVE Looking(reader[r])' /\ Holding(reader[r])'
  <2>0. state.current <= state'.current /\ state'.current \in Nat
    BY <1>4, <1>5
  <2>1. Holding(reader[r])'
    BY <1>6, <1>8, <2>0, HoldingKept, Zenon
  <2> DEFINE x == reader[r]
  <2>2. Looking(x) /\ x' = x /\ x.floor \in Nat
    BY <1>6 DEF RvIInv, Typed, Reader
  <2> HIDE DEF x
  <2>3. x.pc \notin {"count", "snap", "check", "lock"}
    BY <1>1, <2>2, Zenon DEF Looking
  <2>4. Looking(x)'
    BY <1>4, <1>5, <2>2, <2>3 DEF Looking
  <2> QED
    BY <2>1, <2>4 DEF x
<1> QED
  BY <1>10, <1>11, <1>12, <1>13, <1>15, <1>16 DEF RvIInv

----------------------------------------------------------------------------
(* Readers. *)

(* A step of one reader that leaves the rest alone. *)
LEMMA ReaderStepInv ==
  ASSUME RvIInv, NEW r \in RvReaders, NEW y \in Reader,
         reader' = [reader EXCEPT ![r] = y], Looking(y), Holding(y),
         UNCHANGED <<kv, index, state, view, commits, published, work, installing, installs, rvHist>>,
         values' \in [RvKeys -> Revision \cup {NoRev}]
  PROVE  RvIInv'
<1>1. /\ Free' <=> Free
      /\ \A kind, step : Doing(kind, step)' <=> Doing(kind, step)
      /\ NextRev' = NextRev
  BY DEF Free, Doing, NextRev
<1>2. (Erased' <=> Erased) /\ (Counted' <=> Counted)
  BY <1>1 DEF Erased, Counted
<1>3. Lost' = Lost
  BY <1>2 DEF Lost
<1>4. Typed' /\ Indexed'
  BY Same, Zenon DEF RvIInv, Typed
<1>5. Holder'
  BY <1>1, Zenon DEF Holder, RvIInv
<1>6. Viewed'
  BY <1>1, <1>2, Zenon DEF RvIInv, Viewed
<1>7. InstalledIndex' = InstalledIndex /\ RvNamed(InstalledIndex)' = RvNamed(InstalledIndex)
  BY <1>1, SameInstalled
<1>8. Stored'
  BY <1>1, <1>3, <1>7, Same DEF RvIInv, Stored
<1>9. ASSUME NEW q \in RvReaders PROVE Looking(reader[q])' /\ Holding(reader[q])'
  <2>1. Looking(reader'[q]) /\ Holding(reader'[q])
    <3>1. reader'[q] = IF q = r THEN y ELSE reader[q]
      BY DEF RvIInv, Typed
    <3> QED
      BY <3>1 DEF RvIInv
  <2> DEFINE x == reader'[q]
  <2>2. Looking(x) /\ Holding(x)
    BY <2>1, Zenon
  <2> HIDE DEF x
  <2>3. /\ x.pc \in {"count", "snap", "check", "lock"} => ~installing'
        /\ x.pc \in {"count", "snap", "check"} => x.tries < Tries
        /\ x.pc # "idle" => x.floor <= state'.current
        /\ x.pc \in {"snap", "check"} => x.seen <= commits'
    BY <2>2 DEF Looking
  <2>4. x.pc = "check" /\ published' <= x.seen => Holds(x.snap, Lost)
    BY <2>2 DEF Looking
  <2>5. \A S : Holds(S, Lost) => Holds(S, Lost)'
    BY <1>3, Same, Zenon
  <2>6. /\ x.pc = "check" /\ commits' <= x.seen /\ (Doing("commit", "values")' \/ Doing("commit", "publish")')
             => <<work'.key, NextRev'>> \in x.snap
    BY <1>1, <2>2, Zenon DEF Looking
  <2>7. Looking(reader[q])'
    BY <2>3, <2>4, <2>5, <2>6, Zenon DEF Looking, x
  <2>8. Holding(reader[q])'
    <3>1. \A z : Holding(z)' <=> Holding(z)
      BY DEF Holding, ReadAt
    <3> QED
      BY <2>1, <3>1, Zenon
  <2> QED
    BY <2>7, <2>8
<1> QED
  BY <1>4, <1>5, <1>6, <1>8, <1>9, Zenon DEF RvIInv

(* What check_read_rev and plan_range leave a reader whose snapshot is     *)
(* good for the window they see.                                           *)
LEMMA PlannedRight ==
  ASSUME RvIInv, NEW x \in Reader, NEW revs \in Revs,
         revs.current = state.current, Lost <= revs.compact, revs.compact <= state.current,
         Holds(x.snap, Lost), x.floor <= state.current
  PROVE  Planned(x, revs) \in Reader /\ Looking(Planned(x, revs)) /\ Holding(Planned(x, revs))
<1> DEFINE m == IF x.target = 0 THEN revs.current ELSE x.target
           refused == x.target > revs.current \/ (x.target > 0 /\ x.target < revs.compact)
           hits == {k \in RvKeys : RevisionAt(index[k], m) # NoRev}
           plan == [k \in hits |-> RevisionAt(index[k], m)]
<1>1. /\ x.target \in Nat /\ revs.current \in Nat /\ revs.compact \in Nat /\ x.floor \in Nat
      /\ state.compact \in Nat /\ Lost \in Nat /\ state.compact <= Lost
  BY Window DEF Reader, Revs, RvIInv
<1>2. CASE refused
  <2> DEFINE y == [x EXCEPT !.pc = "refused", !.revs = revs, !.snap = {}]
  <2>1. Planned(x, revs) = y
    BY <1>2 DEF Planned
  <2>2. y \in Reader
    BY Zenon DEF Reader
  <2>3. y.pc = "refused" /\ y.floor = x.floor /\ y.revs = revs
    BY DEF Reader
  <2> HIDE DEF y
  <2>4. Looking(y) /\ Holding(y)
    BY <1>1, <2>3 DEF Looking, Holding
  <2> QED
    BY <2>1, <2>2, <2>4
<1>3. CASE ~refused
  <2> DEFINE y == [x EXCEPT !.pc = "fetch", !.revs = revs, !.plan = plan]
  <2>1. Planned(x, revs) = y
    BY <1>3 DEF Planned
  <2>2. m \in Nat /\ m \in Lost..state.current /\ m \in state.compact..state.current /\ m <= revs.current
    BY <1>1, <1>3
  <2>3. ASSUME NEW k \in RvKeys
        PROVE  /\ RevisionAt(index[k], m) = rvHist[m + 1][k]
               /\ RevisionAt(index[k], m) # NoRev =>
                    RevisionAt(index[k], m) \in Revision /\ <<k, RevisionAt(index[k], m)>> \in x.snap
    <3>1. RevisionAt(index[k], m) = rvHist[m + 1][k]
      BY <2>2, Zenon DEF RvIInv, Indexed
    <3>2. RevisionAt(index[k], m) # NoRev => <<k, RevisionAt(index[k], m)>> \in x.snap
      BY <2>2 DEF Holds
    <3>3. x.snap \subseteq RvKeys \X Revision
      BY DEF Reader
    <3> QED
      BY <3>1, <3>2, <3>3, Zenon
  <2>4. plan \in RvMap
    <3>1. hits \in SUBSET RvKeys
      OBVIOUS
    <3>2. \A k \in hits : RevisionAt(index[k], m) \in Revision
      BY <2>3, Zenon
    <3> HIDE DEF hits, m
    <3>3. plan \in [hits -> Revision]
      BY <3>2
    <3> QED
      BY <3>1, <3>3 DEF RvMap
  <2>5. DOMAIN plan = {k \in RvKeys : rvHist[m + 1][k] # NoRev}
    BY <2>3, Zenon
  <2>6. \A k \in DOMAIN plan : plan[k] = rvHist[m + 1][k] /\ <<k, plan[k]>> \in x.snap
    BY <2>3
  <2> HIDE DEF plan, hits, m, refused
  <2>7. y \in Reader
    BY <2>4, Zenon DEF Reader
  <2>8. /\ y.pc = "fetch" /\ y.floor = x.floor /\ y.revs = revs /\ y.plan = plan /\ y.snap = x.snap
        /\ y.target = x.target
    BY DEF Reader
  <2>9. ReadAt(y) = m
    BY <2>8 DEF ReadAt, m
  <2> HIDE DEF y
  <2>10. Looking(y)
    BY <1>1, <2>8 DEF Looking
  <2>11. Holding(y)
    BY <1>1, <2>2, <2>5, <2>6, <2>8, <2>9 DEF Holding
  <2> QED
    BY <2>1, <2>7, <2>10, <2>11
<1> QED
  BY <1>2, <1>3, Zenon

(* The steps of a reader before it has its plan. *)
LEMMA ReadStepsInv ==
  ASSUME RvIInv, NEW r \in RvReaders,
         \/ \E target \in 0..MaxRev : StartRead(r, target)
         \/ ReadCount(r) \/ ReadSnapshot(r) \/ FinishRead(r)
  PROVE  RvIInv'
<1> DEFINE x == reader[r]
<1>1. x \in Reader /\ Looking(x) /\ Holding(x)
  BY DEF RvIInv, Typed
<1>2. /\ values \in [RvKeys -> Revision \cup {NoRev}] /\ kv \subseteq RvKeys \X Revision
      /\ state.current \in Nat /\ commits \in Nat /\ reader \in [RvReaders -> Reader]
  BY DEF RvIInv, Typed, Revs
<1>3. [k \in {} |-> NoRev] \in RvMap
  <2>1. [k \in {} |-> NoRev] \in [{} -> Revision] /\ {} \in SUBSET RvKeys
    OBVIOUS
  <2> QED
    BY <2>1, Zenon DEF RvMap
<1>4. Resting \in Reader
  BY <1>3, ReadViewAssumption DEF Resting, Reader, Revs
<1> HIDE DEF x
<1>5. ASSUME NEW target \in 0..MaxRev, StartRead(r, target) PROVE RvIInv'
  <2> DEFINE y == [Resting EXCEPT !.pc = "count", !.target = target, !.floor = state.current]
  <2>1. target \in Nat
    BY ReadViewAssumption
  <2>2. y \in Reader
    BY <1>2, <1>4, <2>1, Zenon DEF Reader
  <2>3. y.pc = "count" /\ y.floor = state.current /\ y.tries = 0
    BY DEF Resting
  <2>4. /\ reader' = [reader EXCEPT ![r] = y] /\ UNCHANGED store /\ ~installing
    BY <1>5, Zenon DEF StartRead
  <2> HIDE DEF y
  <2>5. Looking(y) /\ Holding(y)
    BY <1>2, <2>3, <2>4, ReadViewAssumption DEF Looking, Holding
  <2> QED
    BY <1>2, <2>2, <2>4, <2>5, ReaderStepInv, Zenon DEF store
<1>6. CASE ReadCount(r)
  <2> DEFINE y == [x EXCEPT !.pc = "snap", !.seen = commits]
  <2>1. y \in Reader
    BY <1>1, <1>2, Zenon DEF Reader
  <2>2. /\ y.pc = "snap" /\ y.floor = x.floor /\ y.tries = x.tries /\ y.seen = commits
    BY <1>1 DEF Reader
  <2>3. /\ reader' = [reader EXCEPT ![r] = y] /\ UNCHANGED store /\ x.pc = "count"
    BY <1>1, <1>2, <1>6, Zenon DEF ReadCount, At, x, Reader
  <2> HIDE DEF y
  <2>4. Looking(y) /\ Holding(y)
    BY <1>1, <1>2, <2>2, <2>3 DEF Looking, Holding
  <2> QED
    BY <1>2, <2>1, <2>3, <2>4, ReaderStepInv, Zenon DEF store
<1>7. CASE ReadSnapshot(r)
  <2> DEFINE y == [x EXCEPT !.pc = "check", !.snap = kv]
  <2>1. y \in Reader
    BY <1>1, <1>2, Zenon DEF Reader
  <2>2. /\ y.pc = "check" /\ y.floor = x.floor /\ y.tries = x.tries /\ y.seen = x.seen /\ y.snap = kv
    BY <1>1 DEF Reader
  <2>3. /\ reader' = [reader EXCEPT ![r] = y] /\ UNCHANGED store /\ x.pc = "snap"
    BY <1>1, <1>2, <1>7, Zenon DEF ReadSnapshot, At, x, Reader
  <2> HIDE DEF y
  <2>4. ~installing
    BY <1>1, <2>3, Zenon DEF Looking
  <2>5. Holds(kv, Lost)
    BY <2>4 DEF RvIInv, Stored, Holder, Doing
  <2>6. Doing("commit", "values") \/ Doing("commit", "publish") => <<work.key, NextRev>> \in kv
    BY Zenon DEF RvIInv, Stored, Doing
  <2>7. Looking(y) /\ Holding(y)
    BY <1>1, <1>2, <2>2, <2>3, <2>5, <2>6, Zenon DEF Looking, Holding
  <2> QED
    BY <1>2, <2>1, <2>3, <2>7, ReaderStepInv, Zenon DEF store
<1>8. CASE FinishRead(r)
  <2>1. reader' = [reader EXCEPT ![r] = Resting] /\ UNCHANGED store
    BY <1>8, Zenon DEF FinishRead
  <2>2. Resting.pc = "idle"
    BY Zenon DEF Resting
  <2>3. Looking(Resting) /\ Holding(Resting)
    BY <2>2 DEF Looking, Holding
  <2> QED
    BY <1>2, <1>4, <2>1, <2>3, ReaderStepInv, Zenon DEF store
<1> QED
  BY <1>5, <1>6, <1>7, <1>8, Zenon

(* read_view decides: the plan, another try, or the write-state lock. *)
LEMMA ReadDecidesInv ==
  ASSUME RvIInv, NEW r \in RvReaders, ReadCheck(r) \/ ReadLocked(r)
  PROVE  RvIInv'
<1> DEFINE x == reader[r]
<1>1. x \in Reader /\ Looking(x) /\ Holding(x)
  BY DEF RvIInv, Typed
<1>2. /\ values \in [RvKeys -> Revision \cup {NoRev}] /\ kv \subseteq RvKeys \X Revision
      /\ state.current \in Nat /\ commits \in Nat /\ published \in Nat
      /\ reader \in [RvReaders -> Reader] /\ view \in Revs /\ state \in Revs
  BY DEF RvIInv, Typed, Revs
<1>3. /\ Lost <= view.compact /\ view.compact <= state.current /\ view.current = state.current
      /\ Lost \in Nat
  BY Window DEF RvIInv, Viewed
<1> HIDE DEF x
<1>4. CASE ReadCheck(r)
  <2>1. x.pc = "check" /\ UNCHANGED store
    BY <1>4, Zenon DEF ReadCheck, At, x
  <2>2. CASE Consistent(x)
    <3>1. reader' = [reader EXCEPT ![r] = Planned(x, view)]
      BY <1>4, <2>2 DEF ReadCheck, x
    <3>2. Holds(x.snap, Lost) /\ x.floor <= state.current
      BY <1>1, <2>1, <2>2, Zenon DEF Looking, Consistent
    <3>3. Planned(x, view) \in Reader /\ Looking(Planned(x, view)) /\ Holding(Planned(x, view))
      BY <1>1, <1>2, <1>3, <3>2, PlannedRight, Zenon
    <3> QED
      BY <1>2, <2>1, <3>1, <3>3, ReaderStepInv, Zenon DEF store
  <2>3. CASE ~Consistent(x)
    <3> DEFINE y == [x EXCEPT !.tries = @ + 1, !.snap = {},
                              !.pc = IF x.tries + 1 < Tries THEN "count" ELSE "lock"]
    <3>1. reader' = [reader EXCEPT ![r] = y]
      BY <1>4, <2>3 DEF ReadCheck, x
    <3>2. x.tries \in 0..Tries /\ x.tries < Tries /\ Tries \in Nat
      BY <1>1, <2>1, ReadViewAssumption DEF Reader, Looking
    <3>3. x.tries + 1 \in 0..Tries
      BY <3>2
    <3>4. y \in Reader
      BY <1>1, <3>3, Zenon DEF Reader
    <3>5. /\ y.pc = IF x.tries + 1 < Tries THEN "count" ELSE "lock"
          /\ y.tries = x.tries + 1 /\ y.floor = x.floor
      BY <1>1 DEF Reader
    <3> HIDE DEF y
    <3>6. Looking(y) /\ Holding(y)
      BY <1>1, <2>1, <3>5 DEF Looking, Holding
    <3> QED
      BY <1>2, <2>1, <3>1, <3>4, <3>6, ReaderStepInv, Zenon DEF store
  <2> QED
    BY <2>2, <2>3
<1>5. CASE ReadLocked(r)
  <2> DEFINE y == [x EXCEPT !.snap = kv]
  <2>1. x.pc = "lock" /\ UNCHANGED store /\ Free /\ reader' = [reader EXCEPT ![r] = Planned(y, state)]
    BY <1>5 DEF ReadLocked, At, x
  <2>2. y \in Reader
    BY <1>1, <1>2 DEF Reader
  <2>3. y.snap = kv /\ y.floor = x.floor
    BY <1>1 DEF Reader
  <2> HIDE DEF y
  <2>4. Holds(y.snap, Lost)
    BY <2>1, <2>3, Zenon DEF RvIInv, Stored, Doing
  <2>5. Lost = state.compact /\ state.compact <= state.current /\ state.compact \in Nat
    BY <2>1, Window, Zenon DEF Lost, Erased, Doing, RvIInv, Typed
  <2>6. y.floor <= state.current
    BY <1>1, <2>1, <2>3, Zenon DEF Looking
  <2>7. Planned(y, state) \in Reader /\ Looking(Planned(y, state)) /\ Holding(Planned(y, state))
    BY <1>2, <2>2, <2>4, <2>5, <2>6, PlannedRight
  <2> QED
    BY <1>2, <2>1, <2>7, ReaderStepInv, Zenon DEF store
<1> QED
  BY <1>4, <1>5, Zenon

(* A record from the value cache or the snapshot. *)
LEMMA FetchInv ==
  ASSUME RvIInv, NEW r \in RvReaders, NEW k \in RvKeys, Fetch(r, k)
  PROVE  RvIInv'
<1> DEFINE x == reader[r]
           rev == x.plan[k]
           got == [q \in DOMAIN x.got \cup {k} |-> IF q # k THEN x.got[q] ELSE rev]
           y == [x EXCEPT !.got = got]
<1>1. x \in Reader /\ Looking(x) /\ Holding(x) /\ reader \in [RvReaders -> Reader]
  BY DEF RvIInv, Typed
<1>2. x.pc = "fetch" /\ k \in DOMAIN x.plan /\ <<k, rev>> \in x.snap
  BY <1>1 DEF Fetch, At, Holding
<1>3. rev \in Revision /\ x.got \in RvMap
  BY <1>1, <1>2, Zenon DEF Reader
<1>4. got \in RvMap
  <2>1. PICK S \in SUBSET RvKeys : x.got \in [S -> Revision]
    BY <1>3 DEF RvMap
  <2> HIDE DEF x, rev
  <2>2. got \in [S \cup {k} -> Revision] /\ S \cup {k} \in SUBSET RvKeys
    BY <1>3, <2>1
  <2> QED
    BY <2>2, Zenon DEF RvMap
<1>5. reader' = [reader EXCEPT ![r].got = got]
  BY <1>2 DEF Fetch
<1> HIDE DEF rev, got
<1>6. reader' = [reader EXCEPT ![r] = y]
  BY <1>1, <1>5 DEF Reader
<1>7. y \in Reader
  BY <1>1, <1>4 DEF Reader
<1>8. /\ y.pc = "fetch" /\ y.floor = x.floor /\ y.revs = x.revs /\ y.plan = x.plan /\ y.snap = x.snap
      /\ y.target = x.target
  BY <1>1, <1>2 DEF Reader
<1>9. values' \in [RvKeys -> Revision \cup {NoRev}]
  BY <1>3, Zenon DEF Fetch, RvIInv, Typed, rev
<1> HIDE DEF x, y
<1>10. Looking(y)
  BY <1>1, <1>2, <1>8, Zenon DEF Looking
<1>11. Holding(y)
  BY <1>1, <1>2, <1>8, Zenon DEF Holding, ReadAt
<1> QED
  BY <1>6, <1>7, <1>9, <1>10, <1>11, ReaderStepInv, Zenon DEF Fetch

----------------------------------------------------------------------------
(* The empty store satisfies the invariant. *)
LEMMA RvInitInv == RvInit => RvIInv
<1> SUFFICES ASSUME RvInit PROVE RvIInv
  OBVIOUS
<1>1. /\ Free /\ ~Erased /\ ~Counted /\ ~Doing("install", "reload") /\ ~Doing("compact", "engine")
      /\ Lost = 0 /\ state.current = 0 /\ state.compact = 0 /\ state \in Revs /\ view = state
  BY Zenon DEF RvInit, Free, Erased, Counted, Doing, Lost, Revs
<1>2. Resting \in Reader /\ Resting.pc = "idle"
  <2>1. [k \in {} |-> NoRev] \in [{} -> Revision] /\ {} \in SUBSET RvKeys
    OBVIOUS
  <2>2. [k \in {} |-> NoRev] \in RvMap
    BY <2>1 DEF RvMap
  <2> QED
    BY <2>2, ReadViewAssumption DEF Resting, Reader, Revs
<1> DEFINE e == [k \in RvKeys |-> NoRev]
<1>3. e \in [RvKeys -> Revision \cup {NoRev}] /\ rvHist = <<e>> /\ \A k \in RvKeys : e[k] = NoRev
  BY DEF RvInit
<1> HIDE DEF e
<1>4. rvHist \in Seq([RvKeys -> Revision \cup {NoRev}]) /\ Len(rvHist) = 1 /\ rvHist[1] = e
  BY <1>3
<1>5. Typed
  <2>1. /\ index \in [RvKeys -> SUBSET Generation] /\ values \in [RvKeys -> Revision \cup {NoRev}]
        /\ reader \in [RvReaders -> Reader]
    BY <1>2 DEF RvInit
  <2>2. installing \in BOOLEAN /\ work \in Works \cup {NoWork} /\ kv \subseteq RvKeys \X Revision
    BY Zenon DEF RvInit
  <2>3. /\ commits \in Nat /\ published \in Nat /\ state.compact <= state.current
        /\ Len(rvHist) = state.current + 1 /\ view \in Revs
    BY <1>1, <1>4 DEF RvInit
  <2> QED
    BY <1>1, <1>4, <2>1, <2>2, <2>3, Zenon DEF Typed
<1>6. ASSUME NEW k \in RvKeys
      PROVE  /\ index[k] = {} /\ WellFormed(index[k]) /\ Bounded(index[k]) /\ AllBefore(index[k], NextRev)
             /\ RevisionAt(index[k], 0) = NoRev
  <2>1. index[k] = {}
    BY Zenon DEF RvInit
  <2> QED
    BY <2>1 DEF WellFormed, Bounded, AllBefore, RevisionAt
<1>7. Indexed
  BY <1>1, <1>3, <1>4, <1>6 DEF Indexed
<1>8. Holder
  BY <1>1, Zenon DEF Holder
<1>9. Viewed
  BY <1>1 DEF Viewed, RvInit
<1>10. Stored
  BY <1>1, <1>6 DEF Stored, Holds
<1>11. \A r \in RvReaders : Looking(reader[r]) /\ Holding(reader[r])
  BY <1>2, Zenon DEF RvInit, Looking, Holding
<1> QED
  BY <1>5, <1>7, <1>8, <1>9, <1>10, <1>11 DEF RvIInv

(* Every step of the store and of its readers keeps the invariant. *)
LEMMA RvNextInv == RvIInv /\ [RvNext]_rvVars => RvIInv'
<1> SUFFICES ASSUME RvIInv, [RvNext]_rvVars PROVE RvIInv'
  OBVIOUS
<1>1. CASE RvNext
  <2>1. CASE \/ \E k \in RvKeys, del \in BOOLEAN :
                  StartCommit(k, del) \/ \E m \in 0..MaxRev : StartInstall(k, del, m)
             \/ \E m \in 1..MaxRev : StartCompact(m)
    BY <2>1, StartsInv
  <2>2. CASE CommitEngine
    BY <2>2, CommitEngineInv
  <2>3. CASE CommitCount \/ CommitValues
    BY <2>3, CommitStepsInv, Zenon
  <2>4. CASE CommitPublish
    BY <2>4, CommitPublishInv
  <2>5. CASE CompactRefuse
    BY <2>5, CompactRefuseInv
  <2>6. CASE CompactEngine
    BY <2>6, CompactEngineInv
  <2>7. CASE CompactCount
    BY <2>7, CompactCountInv
  <2>8. CASE CompactPublish
    BY <2>8, CompactPublishInv
  <2>9. CASE TakeReplace \/ \E k \in RvKeys : Evict(k)
    BY <2>9, AsideInv, Zenon
  <2>10. CASE InstallEngine
    BY <2>10, InstallEngineInv
  <2>11. CASE InstallReload
    BY <2>11, InstallReloadInv
  <2>12. ASSUME NEW r \in RvReaders,
                \/ \E target \in 0..MaxRev : StartRead(r, target)
                \/ ReadCount(r) \/ ReadSnapshot(r) \/ FinishRead(r)
         PROVE  RvIInv'
    BY <2>12, ReadStepsInv
  <2>13. ASSUME NEW r \in RvReaders, ReadCheck(r) \/ ReadLocked(r) PROVE RvIInv'
    BY <2>13, ReadDecidesInv
  <2>14. ASSUME NEW r \in RvReaders, NEW k \in RvKeys, Fetch(r, k) PROVE RvIInv'
    BY <2>14, FetchInv
  <2> QED
    BY <1>1, <2>1, <2>2, <2>3, <2>4, <2>5, <2>6, <2>7, <2>8, <2>9, <2>10, <2>11, <2>12, <2>13, <2>14, Zenon
    DEF RvNext
<1>2. CASE UNCHANGED rvVars
  BY <1>2, AsideInv
<1> QED
  BY <1>1, <1>2

(* Reads beside writes, for any number of readers, keys, tries, commits,   *)
(* compactions and installs: a read is of one revision, finds every record *)
(* it plans to return, in the value cache or in its snapshot, and is not   *)
(* older than a commit that was over when it began (read_view and          *)
(* range_with_revision against commit_ctx, compact and                     *)
(* install_tables_stream).                                                 *)
THEOREM ReadsCorrect == RvSpec => []ReadsRight
<1>1. RvIInv => ReadsRight
  <2> SUFFICES ASSUME RvIInv PROVE ReadsRight
    OBVIOUS
  <2>1. \A r \in RvReaders : reader[r] \in Reader /\ Looking(reader[r]) /\ Holding(reader[r])
    BY Zenon DEF RvIInv, Typed
  <2>2. RvTypeOK
    <3>1. \A k \in RvKeys : index[k] \subseteq Generation /\ values[k] \in Revision \cup {NoRev}
      BY DEF RvIInv, Typed
    <3>2. published <= commits /\ commits <= published + 1
      BY DEF RvIInv, Typed, Viewed
    <3>3. ASSUME NEW r \in RvReaders
          PROVE  /\ reader[r].pc \in {"idle", "count", "snap", "check", "lock", "fetch", "refused"}
                 /\ reader[r].tries \in 0..Tries /\ reader[r].revs \in Revs
                 /\ reader[r].snap \subseteq RvKeys \X Revision
      BY <2>1 DEF Reader
    <3> QED
      BY <3>1, <3>2, <3>3 DEF RvTypeOK, RvIInv, Typed
  <2>3. NoMissingRecord
    <3> SUFFICES ASSUME NEW r \in RvReaders, NEW k \in DOMAIN reader[r].got
                 PROVE  reader[r].got[k] # NoRev
      BY DEF NoMissingRecord
    <3>1. reader[r].got \in RvMap
      BY <2>1 DEF Reader
    <3>2. PICK S \in SUBSET RvKeys : reader[r].got \in [S -> Revision]
      BY <3>1, Zenon DEF RvMap
    <3> QED
      BY <3>2, NoRevAssumption, Zenon
  <2>4. ReadsItsRevision
    BY <2>1, Zenon DEF ReadsItsRevision, Holding, ReadAt, At
  <2>5. ReadsAreCurrent
    BY <2>1 DEF ReadsAreCurrent, Holding
  <2> QED
    BY <2>2, <2>3, <2>4, <2>5 DEF ReadsRight
<1> QED
  BY <1>1, RvInitInv, RvNextInv, PTL DEF RvSpec
=============================================================================
