----------------------------- MODULE SnapPolicy -----------------------------
(***************************************************************************)
(* Snapshots and purges counted in proposals (raft/src/snapshot_policy.rs) *)
(* on one member: the ProposalLog the state machine fills, the task that   *)
(* asks openraft for a snapshot once SnapCount proposals followed the last *)
(* one and purges down to keep, and the openraft around it: a build   *)
(* at a time, a snapshot that only moves forward, a request dropped while  *)
(* one is built, snapshots installed from the leader, and restarts.        *)
(***************************************************************************)
EXTENDS Naturals, Sequences, FiniteSets, FiniteSetsExt

CONSTANTS
  PolBatches,       \* proposals an entry may hold
  SnapCount,     \* --snapshot-count
  KeepCounts,    \* --max-in-snapshot-log-to-keep: the values considered
  SpLast,        \* bound: log entries
  Installs,      \* bound: snapshots installed from a leader
  Restarts,      \* bound: restarts of the process
  Redundant      \* whether another request may start a build of nothing new

ASSUME PolicyAssumption == PolBatches \subseteq Nat /\ SnapCount \in Nat \ {0} /\ KeepCounts \subseteq Nat

VARIABLES
  keep,       \* --max-in-snapshot-log-to-keep of this process
  sizes,      \* proposals in each entry of the replicated log, applied so far
  since0,     \* the index this process started after
  skipped,    \* entries this process never applied: an install brought them
  entriesOf,  \* ProposalLog.entries: <<index, cumulative>>
  floorAt,    \* ProposalLog.floor
  total,      \* ProposalLog.total
  snapAt,     \* index of the stored snapshot, 0 if none
  buildAt,    \* index of the snapshot being built, 0 if none
  purgedTo,   \* the log's purge point
  poll,       \* the task: [pc, snap, purged]
  askedAfter, \* asked_after: {} or {index}
  purgedFor,  \* purged_for: {} or {index}
  spent       \* [installs, restarts]

plVars == <<entriesOf, floorAt, total>>
taskVars == <<poll, askedAfter, purgedFor>>
polVars == <<keep, sizes, since0, skipped, entriesOf, floorAt, total, snapAt, buildAt, purgedTo, poll, askedAfter, purgedFor, spent>>

Applied == Len(sizes)
Home == [pc |-> "sleep", snap |-> 0, purged |-> 0]

(* What was applied by this process up to an index: the truth the counts   *)
(* stand for.                                                              *)
TrueCount(i) == MapThenSumSet(LAMBDA j : sizes[j], {j \in (since0 + 1)..i : j \notin skipped})

----------------------------------------------------------------------------
\* ProposalLog.

(* Mutant of FloorOr: a count below the first entry kept is lost. *)
NoFloorMutant(index) == 0

(* Below the first entry kept, the floor's count. *)
FloorOr(index) == IF index >= floorAt[1] THEN floorAt[2] ELSE 0

(* cumulative_at. *)
CumulativeAt(index) ==
  LET upto == {n \in 1..Len(entriesOf) : entriesOf[n][1] <= index}
  IN  IF upto # {} THEN entriesOf[Max(upto)][2] ELSE FloorOr(index)

(* An entry may go if the log after it still holds `keep` proposals up to  *)
(* the snapshot.                                                           *)
MayPurge(e, snap) == e[1] <= snap /\ CumulativeAt(snap) >= e[2] + keep

(* purge_point: {} for None. *)
PurgePoint(snap) ==
  IF keep = 0 THEN {snap}
  ELSE LET may == {n \in 1..Len(entriesOf) : \A k \in 1..n : MayPurge(entriesOf[k], snap)}
       IN  IF may = {} THEN {} ELSE {entriesOf[Max(may)][1]}

(* forget_upto. *)
ForgetUpto(index) ==
  LET gone == {n \in 1..Len(entriesOf) : entriesOf[n][1] <= index}
  IN  /\ floorAt' = IF gone = {} THEN floorAt ELSE entriesOf[Max(gone)]
      /\ entriesOf' = SubSeq(entriesOf, Cardinality(gone) + 1, Len(entriesOf))
      /\ UNCHANGED total

----------------------------------------------------------------------------
\* The member around the task.

(* The state machine applies an entry and records its proposals; blank and *)
(* membership entries hold none.                                           *)
ApplyRecord(n) ==
  /\ Applied < SpLast /\ sizes' = Append(sizes, n)
  /\ total' = total + n
  /\ entriesOf' = IF n = 0 THEN entriesOf ELSE Append(entriesOf, <<Applied + 1, total + n>>)
  /\ UNCHANGED <<since0, skipped, floorAt, snapAt, buildAt, purgedTo, taskVars, spent>>

SnapAfter(b) == Max({snapAt, b})

(* openraft finishes the build: a snapshot not newer than the stored one   *)
(* changes nothing.                                                        *)
BuildDone ==
  /\ buildAt > 0 /\ buildAt' = 0 /\ snapAt' = SnapAfter(buildAt)
  /\ UNCHANGED <<sizes, since0, skipped, plVars, purgedTo, taskVars, spent>>

(* A snapshot from the leader: state, log and snapshot move to its index.  *)
InstallFrom(n) ==
  /\ spent.installs < Installs /\ Applied < SpLast
  /\ spent' = [spent EXCEPT !.installs = @ + 1]
  /\ sizes' = Append(sizes, n) /\ skipped' = skipped \cup {Applied + 1}
  /\ snapAt' = Applied + 1 /\ purgedTo' = Applied + 1
  /\ UNCHANGED <<since0, plVars, buildAt, taskVars>>

(* Another request (the space monitor's) that read the metrics before the  *)
(* last snapshot showed in them: a build of nothing new.                   *)
OtherTrigger ==
  /\ Redundant /\ buildAt = 0 /\ Applied > 0 /\ Applied = snapAt /\ buildAt' = Applied
  /\ UNCHANGED <<sizes, since0, skipped, plVars, snapAt, purgedTo, taskVars, spent>>

(* The process restarts: the counts and the task's memory start over.      *)
RestartPolicy ==
  /\ spent.restarts < Restarts /\ spent' = [spent EXCEPT !.restarts = @ + 1]
  /\ entriesOf' = <<>> /\ floorAt' = <<0, 0>> /\ total' = 0 /\ buildAt' = 0
  /\ poll' = Home /\ askedAfter' = {} /\ purgedFor' = {}
  /\ since0' = Applied /\ skipped' = {}
  /\ UNCHANGED <<sizes, snapAt, purgedTo>>

----------------------------------------------------------------------------
\* The task.

(* It wakes and clones the metrics. *)
PollMetrics ==
  /\ poll.pc = "sleep" /\ poll' = [pc |-> "ask", snap |-> snapAt, purged |-> purgedTo]
  /\ UNCHANGED <<sizes, since0, skipped, plVars, snapAt, buildAt, purgedTo, askedAfter, purgedFor, spent>>

(* Proposals since the snapshot the metrics showed. *)
Since(snap) == LET c == IF snap = 0 THEN 0 ELSE CumulativeAt(snap) IN IF total > c THEN total - c ELSE 0

(* Mutant of SnapshotDue: the count is passed, not reached. *)
PassedMutant(snap) == Since(snap) > SnapCount

(* snapshot_due by count. *)
SnapshotDue(snap) == Since(snap) >= SnapCount

(* Once per snapshot: the request, which openraft drops during a build.    *)
PollAsk ==
  /\ poll.pc = "ask" /\ poll' = [poll EXCEPT !.pc = "purge"]
  /\ \/ /\ SnapshotDue(poll.snap) /\ askedAfter # {poll.snap} /\ askedAfter' = {poll.snap}
        /\ buildAt' = IF buildAt = 0 THEN Applied ELSE buildAt
     \/ (~SnapshotDue(poll.snap) \/ askedAfter = {poll.snap}) /\ UNCHANGED <<askedAfter, buildAt>>
  /\ UNCHANGED <<sizes, since0, skipped, plVars, snapAt, purgedTo, purgedFor, spent>>

(* openraft purges up to the request, capped at its snapshot. *)
PurgedAfter(p) == IF p > purgedTo THEN Min({p, snapAt}) ELSE purgedTo

(* Once per snapshot seen: purge down to the proposals to keep, and forget *)
(* their counts.                                                           *)
PollPurge ==
  /\ poll.pc = "purge" /\ poll' = Home
  /\ LET point == PurgePoint(poll.snap) IN
     \/ /\ poll.snap > 0 /\ purgedFor # {poll.snap} /\ purgedFor' = {poll.snap}
        /\ IF point = {} THEN UNCHANGED <<plVars, purgedTo>>
           ELSE \E p \in point : /\ purgedTo' = IF p > poll.purged THEN PurgedAfter(p) ELSE purgedTo
                                 /\ ForgetUpto(p)
     \/ (poll.snap = 0 \/ purgedFor = {poll.snap}) /\ UNCHANGED <<plVars, purgedTo, purgedFor>>
  /\ UNCHANGED <<sizes, since0, skipped, snapAt, buildAt, askedAfter, spent>>

----------------------------------------------------------------------------
PolicyInit ==
  /\ keep \in KeepCounts
  /\ sizes = <<>> /\ since0 = 0 /\ skipped = {} /\ entriesOf = <<>> /\ floorAt = <<0, 0>> /\ total = 0
  /\ snapAt = 0 /\ buildAt = 0 /\ purgedTo = 0
  /\ poll = Home /\ askedAfter = {} /\ purgedFor = {} /\ spent = [installs |-> 0, restarts |-> 0]

Task == PollMetrics \/ PollAsk \/ PollPurge

PolicyNext ==
  /\ \/ Task \/ BuildDone \/ OtherTrigger \/ RestartPolicy
     \/ \E n \in PolBatches : ApplyRecord(n) \/ InstallFrom(n)
  /\ UNCHANGED keep

(* The task's timer fires and openraft finishes its builds. Nothing is     *)
(* assumed of writes, installs and restarts.                               *)
PolicySafe == PolicyInit /\ [][PolicyNext]_polVars
PolicySpec == PolicySafe /\ WF_polVars(Task /\ UNCHANGED keep) /\ WF_polVars(BuildDone /\ UNCHANGED keep)

----------------------------------------------------------------------------
\* Properties.

(* The types, and: the purge point never passes the snapshot, nor the      *)
(* snapshot what is applied.                                               *)
PolicyTypeOK ==
  /\ snapAt \in 0..Applied /\ buildAt \in 0..Applied /\ purgedTo \in 0..snapAt
  /\ entriesOf \in Seq((1..SpLast) \X Nat) /\ total \in Nat
  /\ Cardinality(askedAfter) <= 1 /\ Cardinality(purgedFor) <= 1

(* The counts stay exact while they are trimmed: for every index the log   *)
(* still reaches, cumulative_at is what this process applied up to it, so  *)
(* `since` is neither over- nor undercounted after purges, installs and    *)
(* restarts (cumulative_at, forget_upto).                                  *)
CountsExact ==
  /\ total = TrueCount(Applied)
  /\ \A i \in snapAt..Applied : CumulativeAt(i) = TrueCount(i)

(* A purge by count keeps the proposals asked for: the entries from the    *)
(* purge point up to the snapshot it was decided for still hold keep  *)
(* (purge_point).                                                          *)
KeepsProposals ==
  [][purgedTo' > purgedTo /\ poll.pc = "purge" /\ poll'.pc = "sleep"
       => TrueCount(poll.snap) - TrueCount(purgedTo') >= keep]_polVars

(* A snapshot that is due is taken: not for ever are SnapCount proposals   *)
(* applied since the last one ("triggers a snapshot once `snapshot_count`  *)
(* proposals have been applied since the last one").                       *)
DueIsTaken == ~<>[](TrueCount(Applied) - TrueCount(snapAt) >= SnapCount)

(* The snapshot policy: exact counts through purges, installs and          *)
(* restarts, and a purge that keeps what was asked (cumulative_at,         *)
(* forget_upto, purge_point).                                              *)
PolicyRight == [](PolicyTypeOK /\ CountsExact) /\ KeepsProposals
============================================================================
