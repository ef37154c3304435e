------------------------------ MODULE RaftWal -------------------------------
(***************************************************************************)
(* The segmented write-ahead log (storage/raft_wal.rs), under its one      *)
(* writer.  A segment is a sequence of slots, one per record; a slot is a  *)
(* record, Zero (preallocated space) or Torn (a record that fails its      *)
(* checks).  Only the last segment is written; the one before it was       *)
(* synced when it was closed.                                              *)
(***************************************************************************)
EXTENDS WalRecords, FiniteSets, Sequences, SequencesExt

CONSTANTS
  Records,        \* the records written
  Zero, Torn,
  SegRecords,     \* a segment with this many records is closed before the next write
  Reordered,      \* a power failure may keep an unsynced record and none of one before it
  MaxWrites, MaxRwCrashes   \* bounds

VARIABLES
  segs,           \* the segment files, oldest first
  end, synced,    \* of the last one: records written, and how many are durable
  unlinked,       \* segments deleted since the directory was last synced
  sticky,         \* the current purge, vote and committed records
  prealloc,       \* the last segment is only preallocated
  dropUpto,       \* a purge to delete segments for once it is synced; 0: none
  writes, rwCrashes,
  now, may        \* what the log says, and what it may say after a power failure

rwVars == <<segs, end, synced, unlinked, sticky, prealloc, dropUpto, writes, rwCrashes, now, may>>

NoSticky == [purge |-> 0, vote |-> 0, committed |-> 0]

RwInit ==
  /\ segs = << <<>> >>
  /\ end = 0 /\ synced = 0 /\ unlinked = <<>>
  /\ sticky = NoSticky
  /\ prealloc = TRUE /\ dropUpto = 0
  /\ writes = 0 /\ rwCrashes = 0
  /\ now = Empty /\ may = {Empty}

----------------------------------------------------------------------------
(* Reading a log back. *)

(* The records of a segment: parse stops at the first slot without one. *)
RecordsIn(s) ==
  LET bad == {i \in DOMAIN s : s[i] \in {Zero, Torn}}
  IN IF bad = {} THEN s ELSE SubSeq(s, 1, Min(bad) - 1)

ReplaySegment(c, s) ==
  LET after[i \in 0..Len(s)] == IF i = 0 THEN c ELSE ReplayRecord(after[i - 1], s[i])
  IN after[Len(RecordsIn(s))]

(* Wal::open: every segment, oldest first. *)
Replay(ss) ==
  LET after[k \in 0..Len(ss)] == IF k = 0 THEN Empty ELSE ReplaySegment(after[k - 1], ss[k])
  IN after[Len(ss)]

Meta(c) == [purge |-> c.purge, vote |-> c.vote, committed |-> c.committed]

(* The log if its last segment held only k records. *)
CutAt(ss, k) == Append(Front(ss), SubSeq(Last(ss), 1, k))

(* The entries and the purge of the contents. *)
LogPart(c) == [c EXCEPT !.vote = 0, !.committed = 0]

(* What the log says after a step. *)
Says ==
  /\ now' = LogPart(Replay(CutAt(segs', end')))
  /\ may' = {LogPart(Replay(CutAt(segs', k))) : k \in synced'..end'}

----------------------------------------------------------------------------
(* Wal::append and roll, Wal::sync, drop_segments_upto. *)

NeedsRoll == end >= SegRecords

StickyRecs ==
  (IF sticky.purge # 0 THEN <<PurgeRec(sticky.purge)>> ELSE <<>>)
    \o (IF sticky.vote # 0 THEN <<VoteRec(sticky.vote)>> ELSE <<>>)
    \o (IF sticky.committed # 0 THEN <<CommittedRec(sticky.committed)>> ELSE <<>>)

Stuck(st, r) ==
  CASE r.kind = "purge" -> [st EXCEPT !.purge = r.index]
    [] r.kind = "vote" -> [st EXCEPT !.vote = r.val]
    [] r.kind = "committed" -> [st EXCEPT !.committed = r.index]
    [] OTHER -> st

(* The slots after record r is written at position n + 1. *)
Written(s, n, r) == SubSeq(s, 1, n) \o <<r>> \o SubSeq(s, n + 2, Len(s))

(* What the log store writes: nothing at or below the purge. *)
Legal(r) == r.kind \in {"entry", "truncate", "purge"} => r.index > sticky.purge

NewSegment == StickyRecs

(* Wal::append of one record, after a roll if the segment is full or was   *)
(* only preallocated and the zero-filled spare is ready.                   *)
AppendRecord(r, rolls) ==
  LET ss == IF rolls THEN Append(segs, NewSegment) ELSE segs
      n == IF rolls THEN Len(NewSegment) ELSE end
  IN
  /\ writes < MaxWrites
  /\ Legal(r)
  /\ dropUpto = 0 \/ synced # end
  /\ NeedsRoll => rolls
  /\ rolls => NeedsRoll \/ (prealloc /\ end > 0)
  /\ segs' = Append(Front(ss), Written(Last(ss), n, r))
  /\ end' = n + 1
  /\ synced' = IF rolls THEN 0 ELSE synced
  /\ unlinked' = IF rolls THEN <<>> ELSE unlinked
  /\ prealloc' \in IF rolls THEN BOOLEAN ELSE {prealloc}
  /\ sticky' = Stuck(sticky, r)
  /\ dropUpto' = IF r.kind = "purge" /\ r.index > dropUpto THEN r.index ELSE dropUpto
  /\ writes' = writes + 1
  /\ UNCHANGED rwCrashes
  /\ Says

Sync ==
  /\ synced' = end
  /\ UNCHANGED <<segs, end, unlinked, sticky, prealloc, dropUpto, writes, rwCrashes>>
  /\ Says

(* Mutant of Droppable: a segment goes while one of its entries is above   *)
(* the purge.                                                              *)
AnyBelowMutant(s, i) == s # <<>>

(* Every entry written to the segment is at or below index i. *)
Droppable(s, i) == \A r \in {RecordsIn(s)[k] : k \in DOMAIN RecordsIn(s)} : r.kind = "entry" => r.index <= i

(* The purge is durable first.  The oldest segments go, never the last. *)
DropSegments ==
  LET stay == {k \in 1..Len(segs) : k = Len(segs) \/ ~Droppable(segs[k], dropUpto)}
      n == Min(stay) - 1
  IN
  /\ dropUpto # 0 /\ synced = end
  /\ segs' = SubSeq(segs, n + 1, Len(segs))
  /\ unlinked' = unlinked \o SubSeq(segs, 1, n)
  /\ dropUpto' = 0
  /\ UNCHANGED <<end, synced, sticky, prealloc, writes, rwCrashes>>
  /\ Says

SyncDir ==
  /\ unlinked # <<>>
  /\ unlinked' = <<>>
  /\ UNCHANGED <<segs, end, synced, sticky, prealloc, dropUpto, writes, rwCrashes, now, may>>

----------------------------------------------------------------------------
(* A crash, and Wal::open. *)

(* What a power failure can leave of the last segment: what was synced,    *)
(* and of the slots written since, each kept, lost or torn.  Unless        *)
(* Reordered, a record is lost whole only with all that follow it.         *)
Survivors(s) ==
  LET kept(f) == [i \in DOMAIN s |-> IF i <= synced \/ i > end \/ f[i] = "kept" THEN s[i]
                                     ELSE IF f[i] = "lost" THEN Zero ELSE Torn]
      fates == [(synced + 1)..end -> {"kept", "lost", "torn"}]
      inOrder(f) == \A i, j \in DOMAIN f : i < j /\ f[i] = "lost" => f[j] = "lost"
  IN {kept(f) : f \in {g \in fates : Reordered \/ inOrder(g)}}

(* A torn record is cut off with all that follows it; zeros are just the   *)
(* end.                                                                    *)
Opened(s) ==
  LET n == Len(RecordsIn(s))
  IN IF n < Len(s) /\ s[n + 1] = Torn THEN SubSeq(s, 1, n) ELSE s

RwOpen(ss) ==
  LET l == Opened(Last(ss))
  IN
  /\ segs' = Append(Front(ss), l)
  /\ end' = Len(RecordsIn(l))
  /\ sticky' = Meta(Replay(ss))
  /\ prealloc' = FALSE /\ dropUpto' = 0
  /\ rwCrashes' = rwCrashes + 1

(* An unlink not yet synced may be undone. *)
Undone(back) == [i \in 1..Cardinality(back) |-> unlinked[SetToSortSeq(back, <)[i]]]

RwPowerLoss ==
  /\ rwCrashes < MaxRwCrashes
  /\ \E l \in Survivors(Last(segs)), back \in SUBSET DOMAIN unlinked :
       RwOpen(Undone(back) \o Append(Front(segs), l))
  /\ synced' = end'
  /\ unlinked' = <<>>
  /\ UNCHANGED writes
  /\ Says

(* The process dies and the machine does not: the files are as written. *)
RwKill ==
  /\ rwCrashes < MaxRwCrashes
  /\ RwOpen(segs)
  /\ UNCHANGED <<synced, unlinked, writes>>
  /\ Says

----------------------------------------------------------------------------
RwNext ==
  \/ \E r \in Records, rolls \in BOOLEAN : AppendRecord(r, rolls)
  \/ Sync
  \/ DropSegments
  \/ SyncDir
  \/ RwPowerLoss
  \/ RwKill

RwSpec == RwInit /\ [][RwNext]_rwVars

----------------------------------------------------------------------------
(* The sequence of segments and the counters have their types, and no more *)
(* is durable than was written.                                            *)
RwTypeOK ==
  /\ segs # <<>> /\ \A k \in DOMAIN segs : \A i \in DOMAIN segs[k] : segs[k][i] \in Record \cup {Zero, Torn}
  /\ end \in 0..Len(Last(segs)) /\ synced \in 0..end
  /\ sticky \in [purge : Index \cup {0}, vote : Val \cup {0}, committed : Index \cup {0}]
  /\ prealloc \in BOOLEAN

Wal == INSTANCE AbstractWal

(* However segments are closed, dropped, torn and reopened, the entries    *)
(* and the purge are those of a sequence of records that loses only a      *)
(* suffix of what was written since the last sync.                         *)
Refines == Wal!WalSpec

(* "so a prefix of segments can be deleted without losing them": the       *)
(* purge, vote and committed id in RAM are those the segments hold.        *)
StickyIsHeld == sticky = Meta(Replay(CutAt(segs, end)))

(* "a later write can never be followed by a stale record": an open reads  *)
(* back the records written, and none after them.                          *)
NoStaleRecord == Len(RecordsIn(Last(segs))) = end

(* The segments: they implement the abstract log for entries and purges,   *)
(* and nothing stale follows what was written (append, roll, sync,         *)
(* drop_upto, open).                                                       *)
WalRight == [](RwTypeOK /\ NoStaleRecord) /\ Refines
=============================================================================
