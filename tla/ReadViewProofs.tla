--------------------------- MODULE ReadViewProofs ---------------------------
(***************************************************************************)
(* For any keys, readers, number of tries and length of the history: a     *)
(* read beside commits, compactions and installs is of one revision, finds *)
(* every record it plans to return and misses no commit that was over when *)
(* it began.                                                               *)
(***************************************************************************)
EXTENDS ReadView, KeyIndexProofs, Integers

(***************************************************************************)
(* The inductive invariant.                                                *)
(***************************************************************************)

(* A record for every read at lo or above. *)
Holds(recs, lo) ==
  \A k \in RvKeys, m \in lo..state.current :
    RevisionAt(index[k], m) # NoRev => <<k, RevisionAt(index[k], m)>> \in recs

(* A compaction has taken its records out; the oldest revision still read. *)
Erased == Doing("compact", "count") \/ Doing("compact", "publish")
Lost == IF Erased THEN work.rev ELSE state.compact

(* A commit that is counted and not yet published. *)
Counted == Doing("commit", "values") \/ Doing("commit", "publish") \/ Doing("compact", "publish")

RvMap == UNION {[S -> Revision] : S \in SUBSET RvKeys}

Reader ==
  [pc : {"idle", "count", "snap", "check", "lock", "fetch", "refused"}, target : Nat, floor : Nat,
   tries : 0..Tries, seen : Nat, snap : SUBSET (RvKeys \X Revision), revs : Revs,
   plan : RvMap, got : RvMap]

Typed ==
  /\ kv \subseteq RvKeys \X Revision
  /\ index \in [RvKeys -> SUBSET Generation]
  /\ values \in [RvKeys -> Revision \cup {NoRev}]
  /\ state \in Revs /\ view \in Revs /\ state.compact <= state.current
  /\ commits \in Nat /\ published \in Nat
  /\ work \in Works \cup {NoWork}
  /\ installing \in BOOLEAN
  /\ reader \in [RvReaders -> Reader]
  /\ rvHist \in Seq([RvKeys -> Revision \cup {NoRev}])
  /\ Len(rvHist) = state.current + 1

(* The index is one that commits up to the current revision can have left, *)
(* and reads in the kept window find what was live then.                   *)
Indexed ==
  \A k \in RvKeys :
    /\ WellFormed(index[k]) /\ Bounded(index[k]) /\ AllBefore(index[k], NextRev)
    /\ \A m \in state.compact..state.current : RevisionAt(index[k], m) = rvHist[m + 1][k]

(* What the holder of the write-state lock was started with still holds. *)
Holder ==
  /\ ~Free /\ work.kind \in {"commit", "install"} => (work.del => IsLive(index[work.key]))
  /\ ~Free /\ work.kind = "compact" => state.compact < work.rev /\ work.rev <= state.current
  /\ ~Free /\ work.kind = "install" =>
       installing /\ state.compact <= work.rev /\ work.rev <= state.current + 1

(* The read view follows the write state, but for a compaction under way. *)
Viewed ==
  /\ view.current = state.current
  /\ view.compact = IF Doing("compact", "engine") \/ Erased THEN work.rev ELSE state.compact
  /\ commits = published + (IF Counted THEN 1 ELSE 0)

(* The engine holds the record of every read in the window. *)
Stored ==
  /\ ~Doing("install", "reload") => Holds(kv, Lost)
  /\ ~Free /\ work.kind = "commit" /\ work.step # "engine" => <<work.key, NextRev>> \in kv
  /\ Doing("install", "reload") => kv = RvNamed(InstalledIndex)

(* A reader before its plan: what its snapshot is good for. *)
Looking(x) ==
  /\ x.pc \in {"count", "snap", "check", "lock"} => ~installing
  /\ x.pc \in {"count", "snap", "check"} => x.tries < Tries
  /\ x.pc # "idle" => x.floor <= state.current
  /\ x.pc \in {"snap", "check"} => x.seen <= commits
  /\ x.pc = "check" /\ published <= x.seen => Holds(x.snap, Lost)
  /\ x.pc = "check" /\ commits <= x.seen /\ (Doing("commit", "values") \/ Doing("commit", "publish"))
       => <<work.key, NextRev>> \in x.snap

(* A reader with its plan. *)
ReadAt(x) == IF x.target = 0 THEN x.revs.current ELSE x.target

Holding(x) ==
  /\ x.pc \in {"fetch", "refused"} => x.floor <= x.revs.current /\ x.revs.current <= state.current
  /\ x.pc = "fetch" =>
       /\ ReadAt(x) <= x.revs.current
       /\ DOMAIN x.plan = {k \in RvKeys : rvHist[ReadAt(x) + 1][k] # NoRev}
       /\ \A k \in DOMAIN x.plan : x.plan[k] = rvHist[ReadAt(x) + 1][k] /\ <<k, x.plan[k]>> \in x.snap

RvIInv ==
  /\ Typed /\ Indexed /\ Holder /\ Viewed /\ Stored
  /\ \A r \in RvReaders : Looking(reader[r]) /\ Holding(reader[r])

----------------------------------------------------------------------------
(* The fields of what the lock's holder does. *)
LEMMA WorkFields ==
  ASSUME Typed, ~Free
  PROVE  /\ work \in Works
         /\ work.kind \in {"commit", "compact", "install"}
         /\ work.kind = "commit" => /\ work.key \in RvKeys /\ work.del \in BOOLEAN
                                    /\ work.step \in {"engine", "count", "values", "publish"}
         /\ work.kind = "compact" => /\ work.rev \in Nat
                                     /\ work.step \in {"refuse", "engine", "count", "publish"}
         /\ work.kind = "install" => /\ work.key \in RvKeys /\ work.del \in BOOLEAN /\ work.rev \in Nat
                                     /\ work.step \in {"engine", "reload"}
<1>1. work \in Works
  BY DEF Typed, Free
<1>2. CASE work \in [kind : {"commit"}, step : {"engine", "count", "values", "publish"}, key : RvKeys, del : BOOLEAN]
  BY <1>1, <1>2
<1>3. CASE work \in [kind : {"compact"}, step : {"refuse", "engine", "count", "publish"}, rev : Nat]
  BY <1>1, <1>3
<1>4. CASE work \in [kind : {"install"}, step : {"engine", "reload"}, key : RvKeys, del : BOOLEAN, rev : Nat]
  BY <1>1, <1>4
<1> QED
  BY <1>1, <1>2, <1>3, <1>4 DEF Works

(* The holder's next step: only the step changes. *)
LEMMA Stepped ==
  ASSUME Typed, ~Free, NEW s, Goto(s),
         \/ work.kind = "commit" /\ s \in {"count", "values", "publish"}
         \/ work.kind = "compact" /\ s \in {"engine", "count", "publish"}
         \/ work.kind = "install" /\ s = "reload"
  PROVE  /\ work' \in Works /\ ~Free'
         /\ work'.kind = work.kind /\ work'.step = s
         /\ work.kind = "commit" => work'.key = work.key /\ work'.del = work.del
         /\ work.kind = "compact" => work'.rev = work.rev
         /\ work.kind = "install" =>
              work'.key = work.key /\ work'.del = work.del /\ work'.rev = work.rev
<1>1. work \in Works
  BY WorkFields
<1>2. work' = [work EXCEPT !.step = s]
  BY DEF Goto
<1>3. CASE work \in [kind : {"commit"}, step : {"engine", "count", "values", "publish"}, key : RvKeys, del : BOOLEAN]
  <2>1. work.kind = "commit" /\ s \in {"count", "values", "publish"}
    BY <1>3
  <2>2. work' \in [kind : {"commit"}, step : {"engine", "count", "values", "publish"}, key : RvKeys, del : BOOLEAN]
    BY <1>2, <1>3, <2>1
  <2>3. work'.kind = work.kind /\ work'.step = s /\ work'.key = work.key /\ work'.del = work.del
    BY <1>2, <1>3
  <2>4. work' \in Works
    BY <2>2 DEF Works
  <2> QED
    BY <2>1, <2>3, <2>4, NoWorkAssumption DEF Free
<1>4. CASE work \in [kind : {"compact"}, step : {"refuse", "engine", "count", "publish"}, rev : Nat]
  <2>1. work.kind = "compact" /\ s \in {"engine", "count", "publish"}
    BY <1>4
  <2>2. work' \in [kind : {"compact"}, step : {"refuse", "engine", "count", "publish"}, rev : Nat]
    BY <1>2, <1>4, <2>1
  <2>3. work'.kind = work.kind /\ work'.step = s /\ work'.rev = work.rev
    BY <1>2, <1>4
  <2>4. work' \in Works
    BY <2>2 DEF Works
  <2> QED
    BY <2>1, <2>3, <2>4, NoWorkAssumption DEF Free
<1>5. CASE work \in [kind : {"install"}, step : {"engine", "reload"}, key : RvKeys, del : BOOLEAN, rev : Nat]
  <2>1. work.kind = "install" /\ s = "reload"
    BY <1>5
  <2>2. work' \in [kind : {"install"}, step : {"engine", "reload"}, key : RvKeys, del : BOOLEAN, rev : Nat]
    BY <1>2, <1>5, <2>1
  <2>3. /\ work'.kind = work.kind /\ work'.step = s /\ work'.key = work.key /\ work'.del = work.del
        /\ work'.rev = work.rev
    BY <1>2, <1>5
  <2>4. work' \in Works
    BY <2>2 DEF Works
  <2> QED
    BY <2>1, <2>3, <2>4, NoWorkAssumption DEF Free
<1> QED
  BY <1>1, <1>3, <1>4, <1>5 DEF Works

(* The window's ends, and the next revision. *)
LEMMA Window ==
  ASSUME Typed, Holder, Viewed
  PROVE  /\ state.current \in Nat /\ state.compact \in Nat /\ Lost \in Nat /\ view.compact \in Nat
         /\ state.compact <= Lost /\ Lost <= view.compact /\ view.compact <= state.current
         /\ NextRev \in Revision /\ Main(NextRev) = state.current + 1
<1>1. /\ state.current \in Nat /\ state.compact \in Nat /\ state.compact <= state.current
  BY DEF Typed, Revs
<1>2. NextRev \in Revision /\ Main(NextRev) = state.current + 1
  BY <1>1 DEF NextRev, Revision, Main
<1>3. CASE Doing("compact", "engine") \/ Erased
  <2>1. ~Free /\ work.kind = "compact" /\ work.rev \in Nat
    BY <1>3, WorkFields DEF Doing, Erased
  <2>2. state.compact < work.rev /\ work.rev <= state.current
    BY <2>1 DEF Holder
  <2> QED
    BY <1>1, <1>2, <1>3, <2>1, <2>2 DEF Viewed, Lost
<1>4. CASE ~(Doing("compact", "engine") \/ Erased)
  BY <1>1, <1>2, <1>4 DEF Viewed, Lost
<1> QED
  BY <1>3, <1>4

(* The generations of k after a commit that changes key. *)
After(key, del, k) ==
  IF k # key THEN index[k]
  ELSE IF del THEN RecordDelete(index[k], NextRev) ELSE RecordPut(index[k], NextRev)

(* What the commit leaves live of k. *)
Left(key, del, k) ==
  IF k # key THEN rvHist[state.current + 1][k] ELSE IF del THEN NoRev ELSE NextRev

(* A commit's index: reads below it as before, at it what it left. *)
LEMMA Advanced ==
  ASSUME Typed, Indexed, NEW key \in RvKeys, NEW del \in BOOLEAN, del => IsLive(index[key]),
         NEW k \in RvKeys
  PROVE  /\ WellFormed(After(key, del, k)) /\ Bounded(After(key, del, k))
         /\ AllBefore(After(key, del, k), <<state.current + 2, 0>>)
         /\ \A m \in state.compact..state.current : RevisionAt(After(key, del, k), m) = rvHist[m + 1][k]
         /\ RevisionAt(After(key, del, k), state.current + 1) = Left(key, del, k)
<1> DEFINE s == <<state.current + 2, 0>>
<1>1. /\ state.current \in Nat /\ state.compact \in Nat /\ state.compact <= state.current
      /\ state.current + 1 \in Nat
  BY DEF Typed, Revs
<1>2. NextRev \in Revision /\ Main(NextRev) = state.current + 1 /\ s \in Revision /\ Precedes(NextRev, s)
  BY <1>1 DEF NextRev, Revision, Main, Precedes
<1>3. /\ WellFormed(index[k]) /\ Bounded(index[k]) /\ AllBefore(index[k], NextRev)
      /\ \A m \in state.compact..state.current : RevisionAt(index[k], m) = rvHist[m + 1][k]
  BY DEF Indexed
<1>4. \A m \in state.compact..state.current : m \in Nat /\ ~(state.current + 1 <= m)
  BY <1>1
<1> HIDE DEF s
<1>5. CASE k # key
  <2>1. After(key, del, k) = index[k] /\ Left(key, del, k) = rvHist[state.current + 1][k]
    BY <1>5 DEF After, Left
  <2>2. RevisionAt(index[k], state.current + 1) = RevisionAt(index[k], state.current)
    BY <1>1, <1>3, ReadsPastAll DEF NextRev
  <2>3. RevisionAt(index[k], state.current) = rvHist[state.current + 1][k]
    BY <1>1, <1>3
  <2>4. AllBefore(index[k], s)
    BY <1>2, <1>3, PutAllBefore
  <2> QED
    BY <1>3, <2>1, <2>2, <2>3, <2>4 DEF s
<1>6. CASE k = key /\ del
  <2>1. After(key, del, k) = RecordDelete(index[k], NextRev) /\ Left(key, del, k) = NoRev /\ IsLive(index[k])
    BY <1>6 DEF After, Left
  <2>2. WellFormed(RecordDelete(index[k], NextRev)) /\ Bounded(RecordDelete(index[k], NextRev))
    BY <1>2, <1>3, <2>1, DeleteKeepsWellFormed
  <2>3. AllBefore(RecordDelete(index[k], NextRev), s)
    BY <1>2, <1>3, <2>1, DeleteAllBefore
  <2>4. \A m \in Nat : RevisionAt(RecordDelete(index[k], NextRev), m) =
                         IF state.current + 1 <= m THEN NoRev ELSE RevisionAt(index[k], m)
    BY <1>2, <1>3, <2>1, DeleteReads
  <2> QED
    BY <1>1, <1>3, <1>4, <2>1, <2>2, <2>3, <2>4 DEF s
<1>7. CASE k = key /\ ~del
  <2>1. After(key, del, k) = RecordPut(index[k], NextRev) /\ Left(key, del, k) = NextRev
    BY <1>7 DEF After, Left
  <2>2. WellFormed(RecordPut(index[k], NextRev)) /\ Bounded(RecordPut(index[k], NextRev))
    BY <1>2, <1>3, PutKeepsWellFormed
  <2>3. AllBefore(RecordPut(index[k], NextRev), s)
    BY <1>2, <1>3, PutAllBefore
  <2>4. \A m \in Nat : RevisionAt(RecordPut(index[k], NextRev), m) =
                         IF state.current + 1 <= m THEN NextRev ELSE RevisionAt(index[k], m)
    BY <1>2, <1>3, PutReads
  <2> QED
    BY <1>1, <1>3, <1>4, <2>1, <2>2, <2>3, <2>4 DEF s
<1> QED
  BY <1>5, <1>6, <1>7

(* The history after a commit that changes key. *)
LEMMA Recorded ==
  ASSUME Typed, NEW key \in RvKeys, NEW del \in BOOLEAN,
         rvHist' = Append(rvHist, [rvHist[Len(rvHist)] EXCEPT ![key] = IF del THEN NoRev ELSE NextRev])
  PROVE  /\ rvHist' \in Seq([RvKeys -> Revision \cup {NoRev}])
         /\ Len(rvHist') = state.current + 2
         /\ \A m \in 0..state.current : rvHist'[m + 1] = rvHist[m + 1]
         /\ \A k \in RvKeys : rvHist'[state.current + 2][k] = Left(key, del, k)
<1> DEFINE T == [RvKeys -> Revision \cup {NoRev}]
           e == [rvHist[Len(rvHist)] EXCEPT ![key] = IF del THEN NoRev ELSE NextRev]
<1>1. state.current \in Nat /\ rvHist \in Seq(T) /\ Len(rvHist) = state.current + 1
  BY DEF Typed, Revs
<1>2. rvHist[state.current + 1] \in T
  BY <1>1
<1>3. NextRev \in Revision
  BY <1>1 DEF NextRev, Revision
<1>4. e \in T /\ \A k \in RvKeys : e[k] = Left(key, del, k)
  BY <1>1, <1>2, <1>3 DEF Left
<1> HIDE DEF T, e
<1>5. rvHist' = Append(rvHist, e)
  BY DEF e
<1>6. rvHist' \in Seq(T) /\ Len(rvHist') = state.current + 2 /\ rvHist'[state.current + 2] = e
  BY <1>1, <1>4, <1>5
<1>7. \A m \in 0..state.current : rvHist'[m + 1] = rvHist[m + 1]
  BY <1>1, <1>4, <1>5
<1> QED
  BY <1>4, <1>6, <1>7, Zenon DEF T

----------------------------------------------------------------------------
(* Steps that leave the index, the write state and the history alone. *)
LEMMA Same ==
  ASSUME UNCHANGED <<index, state, rvHist>>
  PROVE  /\ Indexed => Indexed'
         /\ NextRev' = NextRev
         /\ \A S, lo : Holds(S, lo)' <=> Holds(S, lo)
         /\ \A S, lo, hi : lo <= hi /\ lo \in Nat /\ hi \in Nat /\ Holds(S, lo) => Holds(S, hi)
<1>1. NextRev' = NextRev
  BY DEF NextRev
<1>2. Indexed => Indexed'
  BY <1>1 DEF Indexed
<1>3. \A S, lo : Holds(S, lo)' <=> Holds(S, lo)
  BY DEF Holds
<1>4. ASSUME NEW S, NEW lo \in Nat, NEW hi \in Nat, lo <= hi, Holds(S, lo) PROVE Holds(S, hi)
  BY <1>4 DEF Holds
<1> QED
  BY <1>1, <1>2, <1>3, <1>4

(* The tables an install writes are fixed while it runs. *)
LEMMA SameInstalled ==
  ASSUME work'.key = work.key, work'.del = work.del, work'.rev = work.rev,
         index' = index, NextRev' = NextRev
  PROVE  InstalledIndex' = InstalledIndex /\ RvNamed(InstalledIndex)' = RvNamed(InstalledIndex)
<1>1. InstalledIndex' = InstalledIndex
  BY DEF InstalledIndex
<1>2. RvNamed(InstalledIndex)' = RvNamed(InstalledIndex)
  BY <1>1 DEF RvNamed
<1> QED
  BY <1>1, <1>2

Committed == Doing("commit", "values") \/ Doing("commit", "publish")

(* ... leave the readers' part of the invariant too, when they undo no     *)
(* commit and let no install in beside a reader.                           *)
LEMMA ReadersKept ==
  ASSUME RvIInv, index' = index, state' = state, rvHist' = rvHist, reader' = reader,
         published' = published, installing' => installing \/ \A r \in RvReaders : ~InView(r),
         commits' \in Nat, commits <= commits', Lost' \in Nat, Lost <= Lost',
         Committed' => commits < commits' \/ (Committed /\ work'.key = work.key)
  PROVE  \A r \in RvReaders : Looking(reader[r])' /\ Holding(reader[r])'
<1> TAKE r \in RvReaders
<1> DEFINE x == reader[r]
<1>1. /\ Looking(x) /\ Holding(x) /\ reader' = reader /\ state' = state /\ rvHist' = rvHist
      /\ published' = published
  BY DEF RvIInv
<1>2. Lost \in Nat /\ commits \in Nat /\ published \in Nat
  BY Window DEF RvIInv, Typed
<1>3. reader[r] \in Reader
  BY DEF RvIInv, Typed
<1>4. x.seen \in Nat
  BY <1>3 DEF Reader
<1>5. NextRev' = NextRev /\ (\A S, lo : Holds(S, lo)' <=> Holds(S, lo))
      /\ (Holds(x.snap, Lost) => Holds(x.snap, Lost'))
  <2>1. UNCHANGED <<index, state, rvHist>>
    BY <1>1
  <2> QED
    BY <1>2, <2>1, Same, Zenon
<1> HIDE DEF x
<1>6. Holding(x)'
  BY <1>1, Zenon DEF Holding, ReadAt, x
<1>7. /\ (x.pc \in {"count", "snap", "check", "lock"} => ~installing)'
      /\ (x.pc \in {"count", "snap", "check"} => x.tries < Tries)'
      /\ (x.pc # "idle" => x.floor <= state.current)'
      /\ (x.pc \in {"snap", "check"} => x.seen <= commits)'
  BY <1>1, <1>2, <1>4 DEF Looking, InView, x
<1>8. (x.pc = "check" /\ published <= x.seen => Holds(x.snap, Lost))'
  <2>1. x' = x
    BY <1>1 DEF x
  <2>2. x.pc = "check" /\ published <= x.seen => Holds(x.snap, Lost)
    BY <1>1 DEF Looking
  <2> QED
    BY <1>1, <1>5, <2>1, <2>2
<1>9. (x.pc = "check" /\ commits <= x.seen /\ Committed => <<work.key, NextRev>> \in x.snap)'
  <2>1. x' = x
    BY <1>1 DEF x
  <2>2. /\ x.pc = "check" /\ commits <= x.seen /\ Committed => <<work.key, NextRev>> \in x.snap
        /\ x.pc = "check" => x.seen <= commits
    BY <1>1 DEF Looking, Committed
  <2> QED
    BY <1>2, <1>4, <1>5, <2>1, <2>2
<1> QED
  BY <1>6, <1>7, <1>8, <1>9 DEF Looking, Committed, x

(* The lock is taken. *)
LEMMA TakenInv ==
  ASSUME RvIInv, Free, work' \in Works,
         UNCHANGED <<kv, index, values, state, view, commits, published, installing, installs, reader, rvHist>>,
         \/ work'.kind = "commit" /\ work'.step = "engine" /\ (work'.del => IsLive(index[work'.key]))
         \/ work'.kind = "compact" /\ work'.step = "refuse"
              /\ state.compact < work'.rev /\ work'.rev <= state.current
         \/ work'.kind = "install" /\ work'.step = "engine" /\ (work'.del => IsLive(index[work'.key]))
              /\ installing /\ state.compact <= work'.rev /\ work'.rev <= state.current + 1
  PROVE  RvIInv'
<1>1. ~Free' /\ NextRev' = NextRev
  BY NoWorkAssumption DEF Free, NextRev
<1>2. /\ ~Erased /\ ~Counted /\ ~Committed /\ ~Doing("install", "reload") /\ ~Doing("compact", "engine")
  BY DEF Erased, Counted, Committed, Doing
<1>3. /\ ~Erased' /\ ~Counted' /\ ~Committed' /\ ~Doing("install", "reload")' /\ ~Doing("compact", "engine")'
  BY DEF Erased, Counted, Committed, Doing
<1>4. Lost = state.compact /\ Lost' = state.compact /\ Lost \in Nat
  BY <1>2, <1>3, Window, Zenon DEF Lost, RvIInv
<1>5. Typed' /\ Indexed'
  BY Same DEF RvIInv, Typed
<1>6. Holder'
  BY DEF Holder
<1>7. Viewed'
  BY <1>2, <1>3 DEF RvIInv, Viewed
<1>8. Stored'
  BY <1>1, <1>2, <1>3, <1>4, Same, Zenon DEF RvIInv, Stored
<1>9. \A r \in RvReaders : Looking(reader[r])' /\ Holding(reader[r])'
  <2>1. commits' = commits /\ commits \in Nat
    BY DEF RvIInv, Typed
  <2> QED
    BY <1>3, <1>4, <2>1, ReadersKept
<1> QED
  BY <1>5, <1>6, <1>7, <1>8, <1>9, Zenon DEF RvIInv

(* A commit, a compaction or an install takes the write-state lock. *)
LEMMA StartsInv ==
  ASSUME RvIInv,
         \/ \E k \in RvKeys, del \in BOOLEAN :
              StartCommit(k, del) \/ \E m \in 0..MaxRev : StartInstall(k, del, m)
         \/ \E m \in 1..MaxRev : StartCompact(m)
  PROVE  RvIInv'
<1>1. ASSUME NEW k \in RvKeys, NEW del \in BOOLEAN, StartCommit(k, del) PROVE RvIInv'
  <2>1. work' = Commit(k, del)
    BY <1>1 DEF StartCommit
  <2>2. Commit(k, del) \in [kind : {"commit"}, step : {"engine", "count", "values", "publish"}, key : RvKeys, del : BOOLEAN]
    BY DEF Commit
  <2>3. work'.kind = "commit" /\ work'.step = "engine" /\ work'.del = del /\ work'.key = k
    BY <2>1 DEF Commit
  <2>4. work' \in Works
    BY <2>1, <2>2 DEF Works
  <2> QED
    BY <1>1, <2>3, <2>4, TakenInv DEF StartCommit
<1>2. ASSUME NEW k \in RvKeys, NEW del \in BOOLEAN, NEW m \in 0..MaxRev, StartInstall(k, del, m)
      PROVE  RvIInv'
  <2>1. work' = Install(k, del, m)
    BY <1>2 DEF StartInstall
  <2>2. Install(k, del, m) \in [kind : {"install"}, step : {"engine", "reload"}, key : RvKeys, del : BOOLEAN, rev : Nat]
    BY DEF Install
  <2>3. /\ work'.kind = "install" /\ work'.step = "engine" /\ work'.del = del /\ work'.key = k
        /\ work'.rev = m
    BY <2>1 DEF Install
  <2>4. work' \in Works
    BY <2>1, <2>2 DEF Works
  <2> QED
    BY <1>2, <2>3, <2>4, TakenInv DEF StartInstall
<1>3. ASSUME NEW m \in 1..MaxRev, StartCompact(m) PROVE RvIInv'
  <2>1. work' = Compaction(m)
    BY <1>3 DEF StartCompact
  <2>2. Compaction(m) \in [kind : {"compact"}, step : {"refuse", "engine", "count", "publish"}, rev : Nat]
    BY DEF Compaction
  <2>3. work'.kind = "compact" /\ work'.step = "refuse" /\ work'.rev = m
    BY <2>1 DEF Compaction
  <2>4. work' \in Works
    BY <2>1, <2>2 DEF Works
  <2> QED
    BY <1>3, <2>3, <2>4, TakenInv DEF StartCompact
<1> QED
  BY <1>1, <1>2, <1>3

(* The lock is given back with nothing changed: the engine's commit of a   *)
(* commit or an install failed.                                            *)
LEMMA CommitFailsInv ==
  ASSUME RvIInv, Doing("commit", "engine") \/ Doing("install", "engine"), work' = NoWork,
         UNCHANGED <<kv, index, values, state, view, commits, published, installs, reader, rvHist>>,
         installing' \in BOOLEAN, installing' => installing
  PROVE  RvIInv'
<1>1. Free' /\ NextRev' = NextRev
  BY DEF Free, NextRev
<1>2. /\ ~Erased /\ ~Counted /\ ~Doing("install", "reload") /\ ~Doing("compact", "engine")
  BY DEF Erased, Counted, Doing
<1>3. /\ ~Erased' /\ ~Counted' /\ ~Committed' /\ ~Doing("install", "reload")' /\ ~Doing("compact", "engine")'
  BY <1>1 DEF Erased, Counted, Committed, Doing
<1>4. Lost = state.compact /\ Lost' = state.compact /\ Lost \in Nat
  BY <1>2, <1>3, Window DEF Lost, RvIInv
<1>5. Typed' /\ Indexed'
  BY Same DEF RvIInv, Typed
<1>6. Holder'
  BY <1>1, Zenon DEF Holder
<1>7. Viewed'
  BY <1>2, <1>3 DEF RvIInv, Viewed
<1>8. Stored'
  <2>1. Holds(kv, Lost)
    BY <1>2 DEF RvIInv, Stored
  <2>2. Holds(kv, Lost)'
    BY <1>4, <2>1, Same
  <2> QED
    BY <1>1, <1>3, <2>2 DEF Stored
<1>9. \A r \in RvReaders : Looking(reader[r])' /\ Holding(reader[r])'
  <2>1. commits' = commits /\ commits \in Nat
    BY DEF RvIInv, Typed
  <2> QED
    BY <1>3, <1>4, <2>1, ReadersKept
<1> QED
  BY <1>5, <1>6, <1>7, <1>8, <1>9 DEF RvIInv

(* A commit's records reach the engine, or the commit fails. *)
LEMMA CommitEngineInv ==
  ASSUME RvIInv, CommitEngine
  PROVE  RvIInv'
<1>1. CASE work' = NoWork /\ UNCHANGED kv
  <2>1. installing' = installing /\ installing \in BOOLEAN
    BY DEF CommitEngine, RvIInv, Typed
  <2> QED
    BY <1>1, <2>1, CommitFailsInv DEF CommitEngine
<1>2. CASE kv' = kv \cup {<<work.key, NextRev>>} /\ Goto("count")
  <2>1. /\ ~Free /\ work.kind = "commit" /\ work.step = "engine" /\ work.key \in RvKeys
    BY WorkFields DEF CommitEngine, Doing, RvIInv
  <2>2. /\ work' \in Works /\ ~Free' /\ work'.kind = "commit" /\ work'.step = "count"
        /\ work'.key = work.key /\ work'.del = work.del
    BY <1>2, <2>1, Stepped DEF RvIInv
  <2>3. /\ ~Erased /\ ~Counted /\ ~Doing("install", "reload") /\ ~Doing("compact", "engine")
        /\ ~Erased' /\ ~Counted' /\ ~Committed' /\ ~Doing("install", "reload")'
        /\ ~Doing("compact", "engine")'
    BY <2>1, <2>2 DEF Erased, Counted, Committed, Doing
  <2>4. /\ UNCHANGED <<index, values, state, view, commits, published, installing, installs, reader, rvHist>>
        /\ NextRev' = NextRev /\ NextRev \in Revision
    BY Window DEF CommitEngine, NextRev, RvIInv
  <2>5. Lost = state.compact /\ Lost' = state.compact /\ Lost \in Nat
    BY <2>3, <2>4, Window DEF Lost, RvIInv
  <2>6. Typed' /\ Indexed'
    <3>1. Typed /\ Indexed
      BY DEF RvIInv
    <3>2. kv' \subseteq RvKeys \X Revision
      BY <1>2, <2>1, <2>4, <3>1 DEF Typed
    <3> QED
      BY <2>2, <2>4, <3>1, <3>2, Same, Zenon DEF Typed
  <2>7. Holder'
    BY <2>1, <2>2, <2>4, Zenon DEF Holder, RvIInv
  <2>8. Viewed'
    BY <2>3, <2>4, Zenon DEF RvIInv, Viewed
  <2>9. Stored'
    <3>1. Holds(kv, Lost)
      BY <2>3, Zenon DEF RvIInv, Stored
    <3>2. Holds(kv', Lost)
      BY <1>2, <3>1 DEF Holds
    <3>3. Holds(kv, Lost)'
      BY <2>4, <2>5, <3>2, Same
    <3> QED
      BY <1>2, <2>2, <2>3, <2>4, <3>3, Zenon DEF Stored
  <2>10. \A r \in RvReaders : Looking(reader[r])' /\ Holding(reader[r])'
    <3>1. /\ index' = index /\ state' = state /\ rvHist' = rvHist
          /\ reader' = reader /\ published' = published
      BY <2>4
    <3>2. commits \in Nat
      BY Zenon DEF RvIInv, Typed
    <3>3. commits' \in Nat /\ commits <= commits' /\ Lost' \in Nat /\ Lost <= Lost'
      BY <2>4, <2>5, <3>2
    <3> QED
      BY <2>3, <2>4, <3>1, <3>3, ReadersKept, Zenon
  <2> QED
    BY <2>6, <2>7, <2>8, <2>9, <2>10 DEF RvIInv
<1> QED
  BY <1>1, <1>2 DEF CommitEngine

(* The commit is counted; its value is cached. *)
LEMMA CommitStepsInv ==
  ASSUME RvIInv, CommitCount \/ CommitValues
  PROVE  RvIInv'
<1>1. /\ ~Free /\ work.kind = "commit" /\ work.key \in RvKeys
      /\ work.step = IF CommitCount THEN "count" ELSE "values"
  BY WorkFields, Zenon DEF CommitCount, CommitValues, Count, Doing, RvIInv
<1>2. /\ work' \in Works /\ ~Free' /\ work'.kind = "commit"
      /\ work'.step = IF CommitCount THEN "values" ELSE "publish"
      /\ work'.key = work.key /\ work'.del = work.del
  BY <1>1, Stepped DEF CommitCount, CommitValues, RvIInv
<1>3. /\ ~Erased /\ ~Doing("install", "reload") /\ ~Doing("compact", "engine")
      /\ ~Erased' /\ ~Doing("install", "reload")' /\ ~Doing("compact", "engine")'
      /\ Counted' /\ (Counted <=> ~CommitCount) /\ (Committed <=> ~CommitCount)
  BY <1>1, <1>2, Zenon DEF Erased, Counted, Committed, Doing
<1>4. /\ UNCHANGED <<kv, index, state, view, published, installing, installs, reader, rvHist>>
      /\ NextRev' = NextRev /\ NextRev \in Revision
      /\ commits' = IF CommitCount THEN commits + 1 ELSE commits
      /\ commits \in Nat /\ published \in Nat
  BY <1>1, Window, Zenon DEF CommitCount, CommitValues, Count, NextRev, RvIInv, Typed
<1>5. Lost = state.compact /\ Lost' = state.compact /\ Lost \in Nat
  BY <1>3, <1>4, Window, Zenon DEF Lost, RvIInv
<1>6. values' \in [RvKeys -> Revision \cup {NoRev}]
  BY <1>1, <1>4 DEF CommitCount, CommitValues, RvIInv, Typed
<1>7. Typed' /\ Indexed'
  <2>1. Typed /\ Indexed
    BY DEF RvIInv
  <2>2. commits' \in Nat
    BY <1>4
  <2> QED
    BY <1>2, <1>4, <1>6, <2>1, <2>2, Same, Zenon DEF Typed
<1>8. Holder'
  BY <1>1, <1>2, <1>4, Zenon DEF Holder, RvIInv
<1>9. Viewed'
  <2>1. Viewed
    BY DEF RvIInv
  <2>2. view.current = state.current /\ view.compact = state.compact
    BY <1>3, <2>1, Zenon DEF Viewed
  <2>3. commits' = published + 1
    BY <1>3, <1>4, <2>1 DEF Viewed
  <2> QED
    BY <1>2, <1>3, <1>4, <2>2, <2>3, Zenon DEF Viewed
<1>10. Stored'
  <2>1. Holds(kv, Lost) /\ <<work.key, NextRev>> \in kv
    BY <1>1, <1>3, Zenon DEF RvIInv, Stored
  <2> QED
    BY <1>2, <1>3, <1>4, <1>5, <2>1, Same, Zenon DEF Stored
<1>11. \A r \in RvReaders : Looking(reader[r])' /\ Holding(reader[r])'
  <2>1. /\ index' = index /\ state' = state /\ rvHist' = rvHist
        /\ reader' = reader /\ published' = published
    BY <1>4
  <2>2. commits' \in Nat /\ commits <= commits' /\ Lost' \in Nat /\ Lost <= Lost'
    BY <1>4, <1>5
  <2>3. CommitCount => commits < commits'
    BY <1>4
  <2> QED
    BY <1>2, <1>3, <1>4, <2>1, <2>2, <2>3, ReadersKept, Zenon
<1> QED
  BY <1>7, <1>8, <1>9, <1>10, <1>11, Zenon DEF RvIInv

(* Reads at revisions about to go are refused before the records go. *)
LEMMA CompactRefuseInv ==
  ASSUME RvIInv, CompactRefuse
  PROVE  RvIInv'
<1>1. /\ ~Free /\ work.kind = "compact" /\ work.step = "refuse" /\ work.rev \in Nat
  BY WorkFields, Zenon DEF CompactRefuse, Doing, RvIInv
<1>2. /\ work' \in Works /\ ~Free' /\ work'.kind = "compact" /\ work'.step = "engine"
      /\ work'.rev = work.rev
  BY <1>1, Stepped DEF CompactRefuse, RvIInv
<1>3. /\ ~Erased /\ ~Counted /\ ~Doing("install", "reload")
      /\ ~Erased' /\ ~Counted' /\ ~Committed' /\ ~Doing("install", "reload")'
      /\ Doing("compact", "engine")'
  BY <1>1, <1>2 DEF Erased, Counted, Committed, Doing
<1>4. /\ UNCHANGED <<kv, index, values, state, commits, published, installing, installs, reader, rvHist>>
      /\ view' = [view EXCEPT !.compact = work.rev] /\ commits \in Nat
  BY DEF CompactRefuse, Refusing, RvIInv, Typed
<1>5. view' \in Revs /\ view'.current = view.current /\ view'.compact = work.rev
  BY <1>1, <1>4 DEF RvIInv, Typed, Revs
<1>6. Lost = state.compact /\ Lost' = state.compact /\ Lost \in Nat
  BY <1>3, <1>4, Window DEF Lost, RvIInv
<1>7. Typed' /\ Indexed'
  BY <1>2, <1>4, <1>5, Same DEF RvIInv, Typed
<1>8. Holder'
  BY <1>1, <1>2, <1>4 DEF Holder, RvIInv
<1>9. Viewed'
  BY <1>2, <1>3, <1>4, <1>5 DEF RvIInv, Viewed
<1>10. Stored'
  BY <1>2, <1>3, <1>4, <1>6, Same DEF RvIInv, Stored
<1>11. \A r \in RvReaders : Looking(reader[r])' /\ Holding(reader[r])'
  <2>1. /\ index' = index /\ state' = state /\ rvHist' = rvHist
        /\ reader' = reader /\ published' = published
        /\ commits' = commits /\ commits \in Nat
    BY <1>4
  <2>2. commits' \in Nat /\ commits <= commits' /\ Lost' \in Nat /\ Lost <= Lost'
    BY <1>6, <2>1
  <2> QED
    BY <1>3, <1>4, <2>1, <2>2, ReadersKept, Zenon
<1> QED
  BY <1>7, <1>8, <1>9, <1>10, <1>11 DEF RvIInv

(* The records go, or the refusal is taken back. *)
LEMMA CompactEngineInv ==
  ASSUME RvIInv, CompactEngine
  PROVE  RvIInv'
<1>1. /\ ~Free /\ work.kind = "compact" /\ work.step = "engine" /\ work.rev \in Nat
      /\ state.compact < work.rev /\ work.rev <= state.current
  BY WorkFields DEF CompactEngine, Doing, RvIInv, Holder
<1>2. /\ UNCHANGED <<index, values, state, commits, published, installing, installs, reader, rvHist>>
      /\ commits \in Nat /\ NextRev' = NextRev
  BY DEF CompactEngine, RvIInv, Typed, NextRev
<1>3. /\ ~Erased /\ ~Counted /\ ~Doing("install", "reload")
  BY <1>1 DEF Erased, Counted, Doing
<1>4. Lost = state.compact /\ state.compact \in Nat /\ state.current \in Nat
  BY <1>3, Window DEF Lost, RvIInv
<1>5. Holds(kv, state.compact)
  BY <1>3, <1>4 DEF RvIInv, Stored
<1>6. CASE view' = state /\ work' = NoWork /\ UNCHANGED kv
  <2>1. /\ Free' /\ ~Erased' /\ ~Counted' /\ ~Committed' /\ ~Doing("install", "reload")'
        /\ ~Doing("compact", "engine")'
    BY <1>6, Zenon DEF Free, Erased, Counted, Committed, Doing
  <2>2. Lost' = state.compact
    BY <1>2, <2>1 DEF Lost
  <2>3. Typed' /\ Indexed'
    BY <1>2, <1>6, Same, Zenon DEF RvIInv, Typed
  <2>4. Holder'
    BY <2>1, Zenon DEF Holder
  <2>5. Viewed'
    BY <1>2, <1>3, <1>6, <2>1, Zenon DEF RvIInv, Viewed
  <2>6. Stored'
    BY <1>2, <1>5, <1>6, <2>1, <2>2, Same, Zenon DEF Stored
  <2>7. \A r \in RvReaders : Looking(reader[r])' /\ Holding(reader[r])'
    <3>1. /\ index' = index /\ state' = state /\ rvHist' = rvHist
          /\ reader' = reader /\ published' = published
          /\ commits' = commits /\ commits \in Nat
      BY <1>2
    <3>2. commits' \in Nat /\ commits <= commits' /\ Lost' \in Nat /\ Lost <= Lost'
      BY <1>4, <2>2, <3>1
    <3> QED
      BY <1>2, <2>1, <3>1, <3>2, ReadersKept, Zenon
  <2> QED
    BY <2>3, <2>4, <2>5, <2>6, <2>7 DEF RvIInv
<1>7. CASE /\ kv' = kv \ UNION {{k} \X Dropped(index[k], work.rev) : k \in Changed(work.rev)}
           /\ Goto("count")
           /\ UNCHANGED view
  <2>1. /\ work' \in Works /\ ~Free' /\ work'.kind = "compact" /\ work'.step = "count"
        /\ work'.rev = work.rev
    BY <1>1, <1>7, Stepped DEF RvIInv
  <2>2. /\ Erased' /\ ~Counted' /\ ~Committed' /\ ~Doing("install", "reload")'
    BY <2>1 DEF Erased, Counted, Committed, Doing
  <2>3. Lost' = work.rev
    BY <1>2, <2>1, <2>2, Zenon DEF Lost
  <2>4. Typed' /\ Indexed'
    BY <1>2, <1>7, <2>1, Same, Zenon DEF RvIInv, Typed
  <2>5. Holder'
    BY <1>1, <1>2, <2>1, Zenon DEF Holder
  <2>6. Viewed'
    BY <1>1, <1>2, <1>3, <1>7, <2>1, <2>2, Zenon DEF RvIInv, Viewed, Doing
  <2>7. Holds(kv', work.rev)
    <3>1. SUFFICES ASSUME NEW k \in RvKeys, NEW m \in work.rev..state.current,
                          RevisionAt(index[k], m) # NoRev
                   PROVE  <<k, RevisionAt(index[k], m)>> \in kv'
      BY DEF Holds
    <3>2. m \in Nat /\ work.rev <= m /\ m \in state.compact..state.current
      BY <1>1, <1>4
    <3>3. <<k, RevisionAt(index[k], m)>> \in kv
      BY <1>5, <3>1, <3>2, Zenon DEF Holds
    <3>4. RevisionAt(index[k], m) \notin Dropped(index[k], work.rev)
      BY <1>1, <3>1, <3>2, ReadsNotDropped, Zenon DEF RvIInv, Indexed
    <3> QED
      BY <1>7, <3>3, <3>4
  <2>8. Stored'
    BY <1>2, <2>1, <2>2, <2>3, <2>7, Same, Zenon DEF Stored
  <2>9. \A r \in RvReaders : Looking(reader[r])' /\ Holding(reader[r])'
    <3>1. /\ index' = index /\ state' = state /\ rvHist' = rvHist
          /\ reader' = reader /\ published' = published
          /\ commits' = commits /\ commits \in Nat
      BY <1>2
    <3>2. commits' \in Nat /\ commits <= commits' /\ Lost' \in Nat /\ Lost <= Lost'
      BY <1>1, <1>4, <2>3, <3>1
    <3> QED
      BY <1>2, <2>2, <3>1, <3>2, ReadersKept, Zenon
  <2> QED
    BY <2>4, <2>5, <2>6, <2>8, <2>9 DEF RvIInv
<1>8. \/ view' = state /\ work' = NoWork /\ UNCHANGED kv
      \/ /\ kv' = kv \ UNION {{k} \X Dropped(index[k], work.rev) : k \in Changed(work.rev)}
         /\ Goto("count")
         /\ UNCHANGED view
  BY Zenon DEF CompactEngine
<1> QED
  BY <1>6, <1>7, <1>8, Zenon

(* The compaction is counted before it is published. *)
LEMMA CompactCountInv ==
  ASSUME RvIInv, CompactCount
  PROVE  RvIInv'
<1>1. /\ ~Free /\ work.kind = "compact" /\ work.step = "count" /\ work.rev \in Nat
  BY WorkFields, Zenon DEF CompactCount, Count, Doing, RvIInv
<1>2. /\ work' \in Works /\ ~Free' /\ work'.kind = "compact" /\ work'.step = "publish"
      /\ work'.rev = work.rev
  BY <1>1, Stepped DEF CompactCount, RvIInv
<1>3. /\ Erased /\ ~Counted /\ ~Doing("install", "reload")
      /\ Erased' /\ Counted' /\ ~Committed' /\ ~Doing("install", "reload")'
  BY <1>1, <1>2 DEF Erased, Counted, Committed, Doing
<1>4. /\ UNCHANGED <<kv, index, values, state, view, published, installing, installs, reader, rvHist>>
      /\ commits' = commits + 1 /\ commits \in Nat /\ published \in Nat
  BY Zenon DEF CompactCount, Count, RvIInv, Typed
<1>5. Lost = work.rev /\ Lost' = work.rev
  BY <1>2, <1>3, <1>4, Zenon DEF Lost
<1>6. Typed' /\ Indexed'
  <2>1. Typed /\ Indexed
    BY DEF RvIInv
  <2>2. commits' \in Nat
    BY <1>4
  <2> QED
    BY <1>2, <1>4, <2>1, <2>2, Same, Zenon DEF Typed
<1>7. Holder'
  BY <1>1, <1>2, <1>4, Zenon DEF Holder, RvIInv
<1>8. Viewed'
  <2>1. Viewed
    BY DEF RvIInv
  <2>2. view.current = state.current /\ view.compact = work.rev
    BY <1>3, <2>1, Zenon DEF Viewed
  <2>3. commits' = published + 1
    BY <1>3, <1>4, <2>1 DEF Viewed
  <2> QED
    BY <1>2, <1>3, <1>4, <2>2, <2>3, Zenon DEF Viewed
<1>9. Stored'
  BY <1>2, <1>3, <1>4, <1>5, Same, Zenon DEF RvIInv, Stored
<1>10. \A r \in RvReaders : Looking(reader[r])' /\ Holding(reader[r])'
  <2>1. /\ index' = index /\ state' = state /\ rvHist' = rvHist
        /\ reader' = reader /\ published' = published
    BY <1>4
  <2>2. commits' \in Nat /\ commits <= commits' /\ Lost' \in Nat /\ Lost <= Lost'
    BY <1>1, <1>4, <1>5
  <2> QED
    BY <1>3, <1>4, <2>1, <2>2, ReadersKept, Zenon
<1> QED
  BY <1>6, <1>7, <1>8, <1>9, <1>10 DEF RvIInv

(* The value cache makes room, an install shuts new readers out, or        *)
(* nothing changes.                                                        *)
LEMMA AsideInv ==
  ASSUME RvIInv, TakeReplace \/ (\E k \in RvKeys : Evict(k)) \/ UNCHANGED rvVars
  PROVE  RvIInv'
<1>1. /\ UNCHANGED <<kv, index, state, view, commits, published, work, reader, rvHist>>
      /\ commits \in Nat /\ NextRev' = NextRev
  BY DEF TakeReplace, Evict, rvVars, store, RvIInv, Typed, NextRev
<1>2. /\ installing' \in BOOLEAN /\ (installing => installing')
      /\ (installing' => installing \/ \A r \in RvReaders : ~InView(r))
  <2>1. CASE TakeReplace
    BY <2>1 DEF TakeReplace
  <2>2. CASE (\E k \in RvKeys : Evict(k)) \/ UNCHANGED rvVars
    <3>1. installing' = installing /\ installing \in BOOLEAN
      BY <2>2 DEF Evict, rvVars, store, RvIInv, Typed
    <3> QED
      BY <3>1, Zenon
  <2> QED
    BY <2>1, <2>2
<1>3. values' \in [RvKeys -> Revision \cup {NoRev}]
  BY DEF TakeReplace, Evict, rvVars, store, RvIInv, Typed
<1>4. /\ Free' <=> Free
      /\ \A kind, step : Doing(kind, step)' <=> Doing(kind, step)
  BY <1>1 DEF Free, Doing
<1>5. (Erased' <=> Erased) /\ (Counted' <=> Counted) /\ (Committed' <=> Committed)
  BY <1>4 DEF Erased, Counted, Committed
<1>6. Lost' = Lost /\ Lost \in Nat
  BY <1>1, <1>5, Window, Zenon DEF Lost, RvIInv
<1>7. Typed' /\ Indexed'
  BY <1>1, <1>2, <1>3, Same DEF RvIInv, Typed
<1>8. Holder'
  <2>1. Holder /\ work' = work /\ state' = state /\ index' = index
    BY <1>1, Zenon DEF RvIInv
  <2> QED
    BY <1>2, <1>4, <2>1, Zenon DEF Holder
<1>9. Viewed'
  BY <1>1, <1>4, <1>5, Zenon DEF RvIInv, Viewed
<1>10. InstalledIndex' = InstalledIndex /\ RvNamed(InstalledIndex)' = RvNamed(InstalledIndex)
  <2>1. work' = work /\ index' = index /\ state' = state /\ NextRev' = NextRev
    BY <1>1
  <2> QED
    BY <2>1, SameInstalled
<1>11. Stored'
  BY <1>1, <1>4, <1>6, <1>10, Same, Zenon DEF RvIInv, Stored
<1>12. \A r \in RvReaders : Looking(reader[r])' /\ Holding(reader[r])'
  <2>1. /\ index' = index /\ state' = state /\ rvHist' = rvHist
        /\ reader' = reader /\ published' = published
    BY <1>1
  <2>2. commits' \in Nat /\ commits <= commits' /\ Lost' \in Nat /\ Lost <= Lost'
    BY <1>1, <1>6
  <2> QED
    BY <1>1, <1>2, <1>5, <2>1, <2>2, ReadersKept, Zenon
<1> QED
  BY <1>7, <1>8, <1>9, <1>11, <1>12, Zenon DEF RvIInv

(* The snapshot's index: well-formed, and read as the history says from    *)
(* its compacted revision on.                                              *)
LEMMA Installed ==
  ASSUME RvIInv, ~Free, work.kind = "install", NEW k \in RvKeys
  PROVE  /\ InstalledIndex[k] = Compacted(After(work.key, work.del, k), work.rev)
         /\ WellFormed(InstalledIndex[k]) /\ Bounded(InstalledIndex[k])
         /\ AllBefore(InstalledIndex[k], <<state.current + 2, 0>>)
         /\ \A m \in work.rev..state.current : RevisionAt(InstalledIndex[k], m) = rvHist[m + 1][k]
         /\ RevisionAt(InstalledIndex[k], state.current + 1) = Left(work.key, work.del, k)
<1> DEFINE A == After(work.key, work.del, k)
<1>1. work.key \in RvKeys /\ work.del \in BOOLEAN /\ work.rev \in Nat
  BY WorkFields DEF RvIInv
<1>2. /\ work.del => IsLive(index[work.key])
      /\ state.compact <= work.rev /\ work.rev <= state.current + 1
      /\ state.current \in Nat /\ state.compact \in Nat
  BY DEF RvIInv, Holder, Typed, Revs
<1>3. InstalledIndex[k] = Compacted(A, work.rev)
  <2>1. index \in [RvKeys -> SUBSET Generation]
    BY Zenon DEF RvIInv, Typed
  <2> QED
    BY <1>1, <2>1 DEF InstalledIndex, After
<1>4. /\ WellFormed(A) /\ Bounded(A) /\ AllBefore(A, <<state.current + 2, 0>>)
      /\ \A m \in state.compact..state.current : RevisionAt(A, m) = rvHist[m + 1][k]
      /\ RevisionAt(A, state.current + 1) = Left(work.key, work.del, k)
  <2>1. Typed /\ Indexed
    BY DEF RvIInv
  <2> QED
    BY <1>1, <1>2, <2>1, Advanced, Zenon
<1> HIDE DEF A
<1>5. WellFormed(Compacted(A, work.rev)) /\ Bounded(Compacted(A, work.rev))
  BY <1>1, <1>4, CompactKeepsWellFormed, Zenon
<1>6. AllBefore(Compacted(A, work.rev), <<state.current + 2, 0>>)
  BY <1>4, CompactAllBefore, Zenon
<1>7. \A m \in Nat : work.rev <= m => RevisionAt(Compacted(A, work.rev), m) = RevisionAt(A, m)
  <2>1. WellFormed(A) /\ Bounded(A) /\ work.rev \in Nat
    BY <1>1, <1>4, Zenon
  <2> QED
    BY <2>1, CompactKeepsReads, Zenon
<1>8. \A m \in work.rev..state.current : m \in Nat /\ work.rev <= m /\ m \in state.compact..state.current
  BY <1>1, <1>2
<1>9. state.current + 1 \in Nat
  BY <1>2
<1>10. \A m \in work.rev..state.current : RevisionAt(Compacted(A, work.rev), m) = rvHist[m + 1][k]
  BY <1>4, <1>7, <1>8, Zenon
<1>11. RevisionAt(Compacted(A, work.rev), state.current + 1) = Left(work.key, work.del, k)
  BY <1>2, <1>4, <1>7, <1>9, Zenon
<1> QED
  BY <1>3, <1>5, <1>6, <1>10, <1>11, Zenon DEF A

(* The snapshot's tables replace the engine's. *)
LEMMA InstallEngineInv ==
  ASSUME RvIInv, InstallEngine
  PROVE  RvIInv'
<1>1. CASE work' = NoWork /\ installing' = FALSE /\ UNCHANGED kv
  BY <1>1, CommitFailsInv, Zenon DEF InstallEngine
<1>2. CASE kv' = RvNamed(InstalledIndex) /\ Goto("reload") /\ UNCHANGED installing
  <2>1. /\ ~Free /\ work.kind = "install" /\ work.step = "engine" /\ installing
        /\ work.key \in RvKeys /\ work.del \in BOOLEAN /\ work.rev \in Nat
    BY WorkFields DEF InstallEngine, Doing, RvIInv, Holder
  <2>2. /\ work' \in Works /\ ~Free' /\ work'.kind = "install" /\ work'.step = "reload"
        /\ work'.key = work.key /\ work'.del = work.del /\ work'.rev = work.rev
    BY <1>2, <2>1, Stepped DEF RvIInv
  <2>3. /\ UNCHANGED <<index, values, state, view, commits, published, installing, installs, reader, rvHist>>
        /\ NextRev' = NextRev /\ commits \in Nat
    BY <1>2, Zenon DEF InstallEngine, NextRev, RvIInv, Typed
  <2>4. /\ ~Erased /\ ~Counted /\ ~Doing("compact", "engine")
        /\ ~Erased' /\ ~Counted' /\ ~Committed' /\ Doing("install", "reload")'
        /\ ~Doing("compact", "engine")'
    BY <2>1, <2>2, Zenon DEF Erased, Counted, Committed, Doing
  <2>5. Lost = state.compact /\ Lost' = state.compact /\ Lost \in Nat
    BY <2>3, <2>4, Window, Zenon DEF Lost, RvIInv
  <2>6. InstalledIndex' = InstalledIndex /\ RvNamed(InstalledIndex)' = RvNamed(InstalledIndex)
    BY <2>2, <2>3, SameInstalled
  <2>7. kv' \subseteq RvKeys \X Revision
    <3>1. ASSUME NEW k \in RvKeys, NEW g \in InstalledIndex[k], NEW q \in g.revs \cup ({g.tombstone} \ {NoRev})
          PROVE  q \in Revision
      <4>1. g \in Generation
        BY <2>1, Installed, Zenon DEF WellFormed
      <4> QED
        BY <4>1, <3>1, Zenon DEF Generation
    <3> QED
      BY <1>2, <3>1 DEF RvNamed
  <2>8. Typed' /\ Indexed'
    BY <2>2, <2>3, <2>7, Same, Zenon DEF RvIInv, Typed
  <2>9. Holder'
    BY <2>1, <2>2, <2>3, Zenon DEF Holder, RvIInv
  <2>10. Viewed'
    BY <2>3, <2>4, Zenon DEF RvIInv, Viewed
  <2>11. Stored'
    BY <1>2, <2>2, <2>4, <2>6, Zenon DEF Stored
  <2>12. \A r \in RvReaders : Looking(reader[r])' /\ Holding(reader[r])'
    <3>1. /\ index' = index /\ state' = state /\ rvHist' = rvHist
          /\ reader' = reader /\ published' = published
      BY <2>3
    <3>2. commits' \in Nat /\ commits <= commits' /\ Lost' \in Nat /\ Lost <= Lost'
      BY <2>3, <2>5
    <3> QED
      BY <2>3, <2>4, <3>1, <3>2, ReadersKept, Zenon
  <2> QED
    BY <2>8, <2>9, <2>10, <2>11, <2>12 DEF RvIInv
<1> QED
  BY <1>1, <1>2, Zenon DEF InstallEngine

(* A reader with its plan keeps it while the history grows. *)
LEMMA HoldingKept ==
  ASSUME RvIInv, NEW r \in RvReaders, reader' = reader, state.current <= state'.current,
         state'.current \in Nat,
         \A m \in 0..state.current : rvHist'[m + 1] = rvHist[m + 1]
  PROVE  Holding(reader[r])'
<1>1. /\ reader[r] \in Reader /\ Holding(reader[r]) /\ state.current \in Nat
  BY Zenon DEF RvIInv, Typed, Revs
<1> DEFINE x == reader[r]
<1>2. x.floor \in Nat /\ x.revs.current \in Nat /\ ReadAt(x) \in Nat /\ x' = x
  BY <1>1, Zenon DEF Reader, Revs, ReadAt
<1>3. ReadAt(x)' = ReadAt(x)
  BY <1>2, Zenon DEF ReadAt
<1>4. x.pc = "fetch" => rvHist'[ReadAt(x) + 1] = rvHist[ReadAt(x) + 1]
  <2>1. Holding(x)
    BY <1>1
  <2> HIDE DEF x
  <2> SUFFICES ASSUME x.pc = "fetch" PROVE rvHist'[ReadAt(x) + 1] = rvHist[ReadAt(x) + 1]
    OBVIOUS
  <2>2. ReadAt(x) <= x.revs.current /\ x.revs.current <= state.current
    BY <2>1, Zenon DEF Holding
  <2>3. ReadAt(x) \in 0..state.current
    BY <1>1, <1>2, <2>2
  <2> QED
    BY <2>3, Zenon
<1> HIDE DEF x
<1>5. Holding(x)'
  <2>1. Holding(x)
    BY <1>1, Zenon DEF x
  <2>2. x.revs.current <= state.current => x.revs.current <= state'.current
    BY <1>1, <1>2
  <2> QED
    BY <1>2, <1>3, <1>4, <2>1, <2>2, Zenon DEF Holding
<1> QED
  BY <1>5, Zenon DEF x
=============================================================================
