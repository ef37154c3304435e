------------------------------- MODULE Space -------------------------------
(***************************************************************************)
(* One member's disk space (server/src/space.rs, compaction.rs): the       *)
(* monitor that samples the footprint, raises and clears the NOSPACE alarm *)
(* and reclaims (compact, snapshot, purge, defragment, rewrite), the       *)
(* background rewrite, auto-compaction, the operator's disarm, and the     *)
(* clients: puts pass check_write, deletes and compactions do not.         *)
(*                                                                         *)
(* Space is counted in units: a put is one unit in the log, one in the     *)
(* history and one in a snapshot; a delete or a compaction none; the       *)
(* engine's own pages are SpBase units.                                    *)
(***************************************************************************)
EXTENDS Naturals, Sequences, FiniteSets

CONSTANTS
  SpKeys,        \* the keys written
  SpBase,        \* units the engine holds for itself
  HighMark,      \* high_water_percent of the capacity, in units
  AlarmMark,     \* alarm_percent
  ClearMark,     \* clear_percent
  Retention,     \* reclaim_retention, and the auto-compaction's window
  MinReclaim,    \* defrag_min_reclaim_bytes
  MinFile,       \* rewrite.min_file_bytes
  AutoTicks,     \* whether auto-compaction is on
  MaxSpRev,        \* bound: revisions written
  MaxInFlight,   \* bound: puts past check_write and not yet applied
  MaxTrouble     \* bound: engine errors met, changes of leadership, operator disarms

ASSUME SpaceAssumption ==
  /\ {SpBase, HighMark, AlarmMark, ClearMark, Retention, MinReclaim, MinFile} \subseteq Nat
  /\ ClearMark <= HighMark /\ HighMark <= AlarmMark /\ SpBase > 0

VARIABLES
  hist,      \* the revisions: [key, put]
  comp,      \* the compaction point
  tail,      \* units of the log after the stored snapshot
  news,      \* whether any entry follows the stored snapshot
  seen,      \* whether raft.metrics() shows one: published after the fact
  covered,   \* units of the log a snapshot covers, not purged
  gone,      \* units purged, their WAL segments not yet deleted
  snap,      \* units of the stored snapshot
  build,     \* the snapshot openraft is building: [on, units, tail, since]
  file,      \* units of the data file, free pages included
  copy,      \* units of the file a rewrite is writing
  alarm,     \* SpaceGuard.nospace
  inUse,     \* SpaceGuard.db_in_use_bytes
  due,       \* whether a live-bytes walk is due
  mon,       \* the monitor: [pc, stat, to]
  backoff,   \* last_reclaim was less than reclaim_backoff ago
  rewr,      \* the background rewrite
  leadsHere, \* metrics.current_leader is this member
  inflight,  \* puts past check_write
  trouble    \* what went wrong so far

fsVars == <<file, copy>>
raftSp == <<tail, news, seen, covered, gone, snap, build>>
dataSp == <<hist, comp>>
guardVars == <<alarm, inUse, due>>
spVars == <<hist, comp, tail, news, seen, covered, gone, snap, build, file, copy, alarm, inUse, due,
            mon, backoff, rewr, leadsHere, inflight, trouble>>

SpZero == [used |-> 0, nospace |-> FALSE]
Rev == Len(hist)

----------------------------------------------------------------------------
\* The footprint.

(* The versions the store keeps for a compaction point: everything after   *)
(* it, and each key's value at it.                                         *)
Keeps(h, c) ==
  {r \in 1..Len(h) : h[r].put /\ (r > c \/ \A q \in (r + 1)..c : h[q].key # h[r].key)}

(* Live pages of the engine. *)
UsedPages(h, c) == SpBase + Cardinality(Keeps(h, c))
Live == UsedPages(hist, comp)

(* What the live keys alone would take. *)
Least == UsedPages(hist, Rev)

Larger(a, b) == IF a > b THEN a ELSE b

(* The data directory: database, the copy being written, the log's         *)
(* segments, snapshots.                                                    *)
UsedBytes == file + copy + tail + covered + gone + snap + build.units

(* update_alarm. *)
AlarmAfter(raised, used) == IF raised THEN used > ClearMark ELSE used >= AlarmMark

Sampled == [used |-> UsedBytes, nospace |-> AlarmAfter(alarm, UsedBytes)]

----------------------------------------------------------------------------
\* Clients. A put checks the alarm when it arrives and is applied later.

CheckWrite ==
  /\ ~alarm /\ inflight < MaxInFlight /\ Rev + inflight < MaxSpRev
  /\ inflight' = inflight + 1
  /\ UNCHANGED <<dataSp, raftSp, fsVars, guardVars, mon, backoff, rewr, leadsHere, trouble>>

(* An entry of so many units is appended and applied. *)
Logged(units) == /\ tail' = tail + units /\ news' = TRUE
                 /\ build' = [build EXCEPT !.since = build.on]
                 /\ UNCHANGED <<seen, covered, gone, snap>>

Stored(h) == /\ hist' = h
             /\ file' = Larger(file, UsedPages(h, comp))

PutApplied ==
  /\ inflight > 0 /\ inflight' = inflight - 1
  /\ \E k \in SpKeys : Stored(Append(hist, [key |-> k, put |-> TRUE]))
  /\ Logged(1)
  /\ UNCHANGED <<comp, copy, guardVars, mon, backoff, rewr, leadsHere, trouble>>

(* A delete is not gated (kv.rs delete_range); one that finds nothing      *)
(* writes nothing.                                                         *)
DeleteApplied ==
  /\ Rev + inflight < MaxSpRev
  /\ \E r \in Keeps(hist, Rev) : Stored(Append(hist, [key |-> hist[r].key, put |-> FALSE]))
  /\ Logged(0)
  /\ UNCHANGED <<comp, copy, guardVars, mon, backoff, rewr, leadsHere, inflight, trouble>>

(* The state machine's Compact entry: refused at or below the point        *)
(* reached, and past the current revision.                                 *)
CompactsTo(c) == comp' = IF c > comp /\ c <= Rev THEN c ELSE comp

Entry(c) == CompactsTo(c) /\ Logged(0) /\ UNCHANGED hist

(* compact_to_retention: the leader's proposal, or nothing to do. Between  *)
(* its reads of the revisions and the apply others may compact further.    *)
Target(keep) == IF leadsHere /\ Rev > keep /\ Rev - keep > comp THEN Rev - keep ELSE 0

(* The auto-compaction's tick here, or another leader's. *)
AutoCompact ==
  /\ AutoTicks /\ Rev > Retention /\ Rev - Retention > comp /\ Entry(Rev - Retention)
  /\ UNCHANGED <<fsVars, guardVars, mon, backoff, rewr, leadsHere, inflight, trouble>>

----------------------------------------------------------------------------
\* openraft: a snapshot at a time, metrics published after the fact.

NoBuild == [on |-> FALSE, units |-> 0, tail |-> 0, since |-> FALSE]

BuildEnd ==
  /\ build.on /\ build' = NoBuild /\ snap' = build.units
  /\ tail' = tail - build.tail /\ covered' = covered + build.tail
  /\ news' = build.since /\ seen' = build.since
  /\ UNCHANGED <<dataSp, gone, fsVars, guardVars, mon, backoff, rewr, leadsHere, inflight, trouble>>

Publish ==
  /\ seen # news /\ seen' = news
  /\ UNCHANGED <<dataSp, tail, news, covered, gone, snap, build, fsVars, guardVars, mon, backoff, rewr, leadsHere, inflight, trouble>>

(* A checkpoint lets the purge delete the log's segments. *)
Checkpoint ==
  /\ gone > 0 /\ gone' = 0
  /\ UNCHANGED <<dataSp, tail, news, seen, covered, snap, build, fsVars, guardVars, mon, backoff, rewr, leadsHere, inflight, trouble>>

(* Leadership comes and goes; the operator disarms the alarm. *)
LeadershipMoves ==
  /\ trouble < MaxTrouble /\ trouble' = trouble + 1 /\ leadsHere' = ~leadsHere
  /\ UNCHANGED <<dataSp, raftSp, fsVars, guardVars, mon, backoff, rewr, inflight>>

Disarm ==
  /\ trouble < MaxTrouble /\ trouble' = trouble + 1 /\ alarm /\ alarm' = FALSE
  /\ UNCHANGED <<dataSp, raftSp, fsVars, inUse, due, mon, backoff, rewr, leadsHere, inflight>>

----------------------------------------------------------------------------
\* The monitor (spawn) and its reclaim.

At(pc) == [pc |-> pc, stat |-> SpZero, to |-> 0, free |-> FALSE]
Goes(pc) == mon' = At(pc)
Restful == UNCHANGED <<dataSp, raftSp, fsVars, rewr, leadsHere, inflight>>

(* measure_in_use_if_due. *)
Measure == inUse' = (IF due THEN Live ELSE inUse) /\ due' = FALSE

(* A tick: refresh, then the walk if one is due. *)
Tick ==
  /\ mon.pc = "tick"
  /\ mon' = [At("decide") EXCEPT !.stat = Sampled]
  /\ alarm' = Sampled.nospace /\ Measure
  /\ Restful /\ UNCHANGED <<backoff, trouble>>

(* Mutant of Presses: only the high-water mark makes the monitor reclaim. *)
HighOnlyMutant(stat) == stat.used >= HighMark

(* The monitor reclaims above the high-water mark, and under the alarm.    *)
Presses(stat) == stat.used >= HighMark \/ stat.nospace

Decide ==
  /\ mon.pc = "decide"
  /\ \/ Presses(mon.stat) /\ ~backoff /\ backoff' = TRUE /\ Goes("compact")
     \/ (~Presses(mon.stat) \/ backoff) /\ Goes("tick") /\ UNCHANGED backoff
  /\ Restful /\ UNCHANGED <<guardVars, trouble>>

(* reclaim_backoff passes. *)
BackoffEnds ==
  /\ backoff /\ mon.pc \in {"tick", "decide"} /\ backoff' = FALSE
  /\ Restful /\ UNCHANGED <<guardVars, mon, trouble>>

(* The cached measurement grows old. *)
InUseAges ==
  /\ ~due /\ inUse # Live /\ due' = TRUE
  /\ Restful /\ UNCHANGED <<alarm, inUse, mon, backoff, trouble>>

(* Mutant of ReclaimRetention: every reclaim keeps nothing. *)
KeepsNothingMutant(nospace) == 0

(* reclaim_retention. *)
ReclaimRetention(nospace) == IF nospace THEN 0 ELSE Retention

(* Step 1 of reclaim reads the alarm and the revisions, and proposes. *)
ProposeCompact ==
  /\ mon.pc = "compact"
  /\ mon' = [At("compacting") EXCEPT !.to = Target(ReclaimRetention(alarm)), !.free = alarm]
  /\ Restful /\ UNCHANGED <<guardVars, backoff, trouble>>

(* The proposal is applied, or lost with the leadership. *)
CompactApplied ==
  /\ mon.pc = "compacting" /\ Goes("snap")
  /\ \/ mon.to > 0 /\ leadsHere /\ Entry(mon.to)
     \/ (mon.to = 0 \/ ~leadsHere) /\ UNCHANGED <<dataSp, raftSp>>
  /\ UNCHANGED <<fsVars, guardVars, backoff, rewr, leadsHere, inflight, trouble>>

(* snapshot_and_purge: a snapshot unless the metrics show there is nothing *)
(* new; a trigger during a build is dropped.                               *)
TriggerSnapshot ==
  /\ mon.pc = "snap" /\ Goes("wait")
  /\ build' = (IF seen /\ ~build.on THEN [on |-> TRUE, units |-> Live, tail |-> tail, since |-> FALSE] ELSE build)
  /\ UNCHANGED <<dataSp, tail, news, seen, covered, gone, snap, fsVars, guardVars, backoff, rewr, leadsHere, inflight, trouble>>

(* trigger().purge_log: all that the snapshot shown covers. *)
PurgedNow == covered

(* The wait ends with the snapshot, or after RECLAIM_SNAPSHOT_WAIT, and    *)
(* the log the snapshot covers is purged.                                  *)
WaitAndPurge ==
  /\ mon.pc = "wait" /\ Goes("usage")
  /\ gone' = gone + PurgedNow /\ covered' = covered - PurgedNow
  /\ UNCHANGED <<dataSp, tail, news, seen, snap, build, fsVars, guardVars, backoff, rewr, leadsHere, inflight, trouble>>

(* Step 3: measure, and defragment when it is worth it. In place the       *)
(* engine cuts what it can off the end of the file, often nothing.         *)
UsageAndDefrag ==
  /\ mon.pc = "usage" /\ inUse' = Live
  /\ \/ file - Live < MinReclaim /\ Goes("again") /\ due' = FALSE /\ UNCHANGED file
     \/ /\ file - Live >= MinReclaim /\ Goes("rewrite") /\ due' = TRUE
        /\ \E f \in {Live, file} : file' = f
  /\ UNCHANGED <<dataSp, raftSp, copy, alarm, backoff, rewr, leadsHere, inflight, trouble>>

(* usage or defragment fails: the pass ends. *)
ReclaimFails ==
  /\ mon.pc = "usage" /\ trouble < MaxTrouble /\ trouble' = trouble + 1 /\ Goes("again")
  /\ Restful /\ UNCHANGED <<guardVars, backoff>>

(* rewrite_decision. *)
RewriteDecision(used, in_use) ==
  /\ file >= MinFile
  /\ in_use > 0 /\ 2 * (file - in_use) >= file
  /\ used + in_use <= HighMark

(* rewrite_if_due: refresh, measure if due, decide; the copy begins. *)
RewriteBegins(in_use) ==
  IF copy = 0 /\ RewriteDecision(UsedBytes, in_use) /\ Live <= file THEN copy' = Live ELSE UNCHANGED copy

MonitorRewrite ==
  /\ mon.pc = "rewrite" /\ Goes("copying")
  /\ alarm' = Sampled.nospace /\ Measure /\ RewriteBegins(inUse')
  /\ UNCHANGED <<dataSp, raftSp, file, backoff, rewr, leadsHere, inflight, trouble>>

(* The file a rewrite switches to: the copy with what was captured since.  *)
Switched == Live

(* engine.rewrite ends: the copy, with what was written meanwhile, is the  *)
(* data file; or it fails and the file stays.                              *)
CopyEnds(fails) ==
  IF copy = 0 THEN UNCHANGED <<file, copy, due>>
  ELSE /\ copy' = 0 /\ file' = (IF fails THEN file ELSE Switched) /\ due' = (due \/ ~fails)

MonitorRewritten ==
  /\ mon.pc = "copying" /\ rewr # "copying" /\ Goes("again")
  /\ \E fails \in BOOLEAN : /\ fails => copy > 0 /\ trouble < MaxTrouble
                            /\ trouble' = (IF fails THEN trouble + 1 ELSE trouble) /\ CopyEnds(fails)
  /\ UNCHANGED <<dataSp, raftSp, alarm, inUse, backoff, rewr, leadsHere, inflight>>

(* The pass ends with a sample. *)
SampleAgain ==
  /\ mon.pc = "again" /\ Goes("tick") /\ alarm' = Sampled.nospace
  /\ Restful /\ UNCHANGED <<inUse, due, backoff, trouble>>

(* The background rewrite (spawn_rewrite): a check, and the rewrite. The   *)
(* engine does one at a time.                                              *)
TaskCheck ==
  /\ rewr = "tick" /\ mon.pc # "copying" /\ copy = 0
  /\ alarm' = Sampled.nospace /\ Measure /\ RewriteBegins(inUse')
  /\ rewr' = (IF copy' > 0 THEN "copying" ELSE "tick")
  /\ UNCHANGED <<dataSp, raftSp, file, mon, backoff, leadsHere, inflight, trouble>>

TaskRewritten ==
  /\ rewr = "copying" /\ rewr' = "tick"
  /\ \E fails \in BOOLEAN : /\ fails => trouble < MaxTrouble
                            /\ trouble' = (IF fails THEN trouble + 1 ELSE trouble) /\ CopyEnds(fails)
  /\ UNCHANGED <<dataSp, raftSp, alarm, inUse, mon, backoff, leadsHere, inflight>>

----------------------------------------------------------------------------
SpaceInit ==
  /\ hist = <<>> /\ comp = 0 /\ tail = 0 /\ news = FALSE /\ seen = FALSE
  /\ covered = 0 /\ gone = 0 /\ snap = 0 /\ build = NoBuild
  /\ file = SpBase /\ copy = 0 /\ alarm = FALSE /\ inUse = 0 /\ due = TRUE
  /\ mon = At("tick") /\ backoff = FALSE
  /\ rewr = "tick" /\ leadsHere \in BOOLEAN /\ inflight = 0 /\ trouble = 0

Monitor == \/ Tick \/ Decide \/ ProposeCompact \/ CompactApplied \/ TriggerSnapshot \/ WaitAndPurge
           \/ UsageAndDefrag \/ MonitorRewrite \/ MonitorRewritten \/ SampleAgain

SpaceNext ==
  \/ Monitor \/ CheckWrite \/ PutApplied \/ DeleteApplied \/ AutoCompact
  \/ BuildEnd \/ Publish \/ Checkpoint \/ LeadershipMoves \/ Disarm
  \/ BackoffEnds \/ InUseAges \/ ReclaimFails \/ TaskCheck \/ TaskRewritten

(* The monitor and the rewrite are tasks of the runtime; openraft finishes *)
(* its builds and publishes its metrics, the engine checkpoints, puts past *)
(* the check are applied, and time passes. Nothing is assumed of clients,  *)
(* of the operator or of the leadership.                                   *)
SpaceFairness ==
  /\ WF_spVars(Monitor) /\ WF_spVars(TaskRewritten)
  /\ WF_spVars(BuildEnd) /\ WF_spVars(Publish) /\ WF_spVars(Checkpoint)
  /\ WF_spVars(PutApplied) /\ WF_spVars(BackoffEnds)

SpaceSafe == SpaceInit /\ [][SpaceNext]_spVars
SpaceSpec == SpaceSafe /\ SpaceFairness

----------------------------------------------------------------------------
\* Properties.

(* The types, and: the data file always holds what is live, and a stored   *)
(* snapshot's log is never counted as still to be covered.                 *)
SpaceTypeOK ==
  /\ hist \in Seq([key : SpKeys, put : BOOLEAN]) /\ comp \in 0..Rev
  /\ {tail, covered, gone, snap} \subseteq Nat /\ build.tail <= tail /\ (seen => news) /\ (tail > 0 => news)
  /\ file >= Live /\ alarm \in BOOLEAN /\ inflight \in 0..MaxInFlight
  /\ mon.pc \in {"tick", "decide", "compact", "compacting", "snap", "wait", "usage", "rewrite", "copying", "again"}

(* History inside the retention window is dropped only by a reclaim that   *)
(* found the alarm raised, and the compaction point never goes back,       *)
(* whatever compactions race (compact_to_retention, reclaim_retention).    *)
WindowKept ==
  [][comp' # comp => /\ comp' > comp
                     /\ comp' + Retention <= Rev \/ (mon.pc = "compacting" /\ mon.free)]_spVars

(* Once the live data leaves room (the copy of the rewrite fits under the  *)
(* high-water mark, and what a finished reclaim leaves is under the clear  *)
(* mark), a leading member's alarm does not stay up: the reclaim runs      *)
(* under the alarm whatever the occupancy, keeps no history, purges the    *)
(* log and rewrites the file (spawn, reclaim; #182).                       *)
Room ==
  /\ leadsHere /\ file + 2 * Least <= HighMark
  /\ 3 * Least <= ClearMark /\ MinFile + Least <= ClearMark /\ MinReclaim + 2 * Least <= ClearMark

AlarmClears == ~<>[](alarm /\ Room)

(* The space monitor and auto-compaction: the file holds what is live, and *)
(* the history window is dropped only under the alarm (space.rs,           *)
(* compaction.rs).                                                         *)
SpaceRight == []SpaceTypeOK /\ WindowKept
============================================================================
