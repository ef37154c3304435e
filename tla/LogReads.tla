------------------------------ MODULE LogReads ------------------------------
(***************************************************************************)
(* Reading the raft log back (raft/wal_log_store.rs, storage/raft_wal.rs): *)
(* the entries in memory and their places on disk (State, Slot, Loc), the  *)
(* cache that is emptied from its oldest end, the writer thread that       *)
(* places what it wrote, segments deleted by purges, and a replication     *)
(* task that measures a message, captures where its entries are, and reads *)
(* them without a lock.                                                    *)
(*                                                                         *)
(* An entry is [id, size]; ids are never used twice, so an entry appended  *)
(* where another was truncated is another entry.                           *)
(***************************************************************************)
EXTENDS Naturals, Sequences, FiniteSets, FiniteSetsExt

CONSTANTS
  LrSizes,       \* encoded sizes of entries
  CacheLimit,    \* cache_limit
  SegmentBytes,  \* WalOptions.segment_bytes
  MessageBytes,  \* REPLICATION_BYTES
  LrLast,        \* bound: log indices
  LrIds,         \* bound: entries appended
  LrQueue        \* bound: commands waiting for the writer

VARIABLES
  slots,      \* State.entries: a Slot by index, id 0 where there is none
  cached,     \* State.cached_bytes
  cursor,     \* State.evict_cursor
  lrPurged,   \* last_purged
  lrPending,  \* whether a purge is not in the WAL yet (pending_purge)
  queue,      \* commands sent to the writer
  lrSegs,       \* the segments: [seq, recs, bytes, max]
  placed,     \* what the writer wrote and has not placed, and the drop it owes
  reader,     \* the replication task's read
  nextId

lrVars == <<slots, cached, cursor, lrPurged, lrPending, queue, lrSegs, placed, reader, nextId>>

NoLoc == <<0, 0>>
NoSlot == [id |-> 0, size |-> 0, mem |-> FALSE, loc |-> NoLoc]
NothingPlaced == [on |-> FALSE, recs |-> <<>>, drop |-> 0]
NoRead == [pc |-> "idle", start |-> 0, stop |-> 0, srcs |-> <<>>, want |-> <<>>, got |-> <<>>]
Segment(seq) == [seq |-> seq, recs |-> <<>>, bytes |-> 0, max |-> 0]

Indices == 1..LrLast
Held == {i \in Indices : slots[i].id # 0}

(* last_log_id: the last entry, or what was purged. *)
LastHeld == Max(Held \cup {lrPurged})
Bytes(S) == MapThenSumSet(LAMBDA i : slots[i].size, {i \in S : slots[i].mem})

LrInit ==
  /\ slots = [i \in Indices |-> NoSlot] /\ cached = 0 /\ cursor = 0
  /\ lrPurged = 0 /\ lrPending = FALSE
  /\ queue = <<>> /\ lrSegs = <<Segment(1)>> /\ placed = NothingPlaced
  /\ reader = NoRead /\ nextId = 1

----------------------------------------------------------------------------
(* State::forget. *)
Forgotten(S) == cached - Bytes(S)

Without(S) == [i \in Indices |-> IF i \in S THEN NoSlot ELSE slots[i]]

(* remove_from's part in the eviction. *)
CursorAfter(i) == Min({cursor, i})

Send(recs, drop) == Len(queue) < LrQueue /\ queue' = Append(queue, [recs |-> recs, drop |-> drop])

(* append: after the last entry, in memory at once, written later. *)
AppendOne(size) ==
  LET i == LastHeld + 1 IN
  /\ i <= LrLast /\ nextId <= LrIds
  /\ slots' = [slots EXCEPT ![i] = [id |-> nextId, size |-> size, mem |-> TRUE, loc |-> NoLoc]]
  /\ cached' = cached + size /\ cursor' = CursorAfter(i)
  /\ Send(<<[at |-> i, id |-> nextId, size |-> size]>>, 0)
  /\ nextId' = nextId + 1
  /\ UNCHANGED <<lrPurged, lrPending, lrSegs, placed, reader>>

(* truncate: a follower's, whose replication tasks are gone (openraft). *)
TruncateFrom(i) ==
  LET gone == {j \in Held : j >= i} IN
  /\ i \in Held /\ reader.pc = "idle"
  /\ slots' = Without(gone) /\ cached' = Forgotten(gone) /\ cursor' = CursorAfter(i)
  /\ Send(<<[at |-> i, id |-> 0, size |-> 1]>>, 0)
  /\ UNCHANGED <<lrPurged, lrPending, lrSegs, placed, reader, nextId>>

(* purge: in memory only. openraft puts it off while a replication task    *)
(* was told to send entries it would remove (try_purge_log).               *)
PurgeUpto(p) ==
  LET gone == {j \in Held : j <= p} IN
  /\ p \in Held /\ (reader.pc = "idle" \/ p < reader.start)
  /\ slots' = Without(gone) /\ cached' = Forgotten(gone)
  /\ lrPurged' = p /\ lrPending' = TRUE
  /\ UNCHANGED <<cursor, queue, lrSegs, placed, reader, nextId>>

(* complete_purge, at a checkpoint: the writer may now delete segments. *)
CompletePurge ==
  /\ lrPending /\ lrPending' = FALSE
  /\ Send(<<[at |-> lrPurged, id |-> 0, size |-> 1]>>, lrPurged)
  /\ UNCHANGED <<slots, cached, cursor, lrPurged, lrSegs, placed, reader, nextId>>

----------------------------------------------------------------------------
\* The writer thread.

(* Wal::append of one record: a segment that is full is rolled first. *)
RollIfFull(s) == IF s[Len(s)].bytes >= SegmentBytes THEN Append(s, Segment(s[Len(s)].seq + 1)) ELSE s

LrAppended(s, r) ==
  LET t == RollIfFull(s)
      n == Len(t)
  IN [t EXCEPT ![n] = [seq |-> t[n].seq, recs |-> Append(t[n].recs, r.id), bytes |-> t[n].bytes + r.size,
                       max |-> IF r.id # 0 THEN Max({t[n].max, r.at}) ELSE t[n].max]]

(* Where a record just appended is. *)
LocIn(s) == <<s[Len(s)].seq, Len(s[Len(s)].recs)>>

(* The writer takes a command and writes its record. *)
WriterWrites ==
  /\ queue # <<>> /\ placed.recs = <<>> /\ ~placed.on
  /\ LET r == Head(queue).recs[1]
         s == LrAppended(lrSegs, r)
     IN /\ lrSegs' = s
        /\ placed' = [on |-> TRUE, drop |-> Head(queue).drop,
                      recs |-> IF r.id # 0 THEN <<[at |-> r.at, id |-> r.id, loc |-> LocIn(s)]>> ELSE <<>>]
  /\ queue' = Tail(queue)
  /\ UNCHANGED <<slots, cached, cursor, lrPurged, lrPending, reader, nextId>>

(* The next command of the group, before the sync. *)
WriterGroups ==
  /\ queue # <<>> /\ placed.on
  /\ LET r == Head(queue).recs[1]
         s == LrAppended(lrSegs, r)
     IN /\ lrSegs' = s
        /\ placed' = [placed EXCEPT !.drop = Max({@, Head(queue).drop}),
                      !.recs = IF r.id # 0 THEN Append(@, [at |-> r.at, id |-> r.id, loc |-> LocIn(s)]) ELSE @]
  /\ queue' = Tail(queue)
  /\ UNCHANGED <<slots, cached, cursor, lrPurged, lrPending, reader, nextId>>

LrDroppable(s, d) == s[1].max <= d

(* How many of the oldest segments go, never the last. *)
DropCount(s, d) ==
  Max({n \in 0..(Len(s) - 1) : \A k \in 1..n : LrDroppable(SubSeq(s, k, k), d)})

(* After the sync: drop_segments_upto. *)
WriterDrops ==
  /\ placed.on /\ placed.drop > 0
  /\ lrSegs' = SubSeq(lrSegs, DropCount(lrSegs, placed.drop) + 1, Len(lrSegs))
  /\ placed' = [placed EXCEPT !.drop = 0]
  /\ UNCHANGED <<slots, cached, cursor, lrPurged, lrPending, queue, reader, nextId>>

(* The slot still holds the entry that was written (Arc::ptr_eq). *)
SameEntry(slot, r) == slot.id = r.id /\ slot.mem

WithLoc(i) ==
  LET mine == {k \in DOMAIN placed.recs : placed.recs[k].at = i /\ SameEntry(slots[i], placed.recs[k])}
  IN IF mine = {} THEN slots[i] ELSE [slots[i] EXCEPT !.loc = placed.recs[Max(mine)].loc]

(* The eviction: from the cursor on, entries that have a place, until the  *)
(* cache is within its limit.                                              *)
EvictedTo(s, from) ==
  LET run(j) == {i \in Held : i >= from /\ i < j}
      ok(j) == /\ \A i \in run(j) : s[i].loc # NoLoc
               /\ \A i \in run(j) : cached - Bytes({k \in run(j) : k < i}) > CacheLimit
  IN Max({j \in {from} \cup {i + 1 : i \in Held} : j >= from /\ ok(j)})

(* State::place. *)
WriterPlaces ==
  /\ placed.on /\ placed.drop = 0
  /\ LET s == [i \in Indices |-> WithLoc(i)]
         upto == EvictedTo(s, cursor)
         out == {i \in Held : i >= cursor /\ i < upto}
     IN /\ slots' = [i \in Indices |-> IF i \in out THEN [s[i] EXCEPT !.mem = FALSE] ELSE s[i]]
        /\ cached' = cached - Bytes(out)
        /\ cursor' = upto
  /\ placed' = NothingPlaced
  /\ UNCHANGED <<lrPurged, lrPending, queue, lrSegs, reader, nextId>>

----------------------------------------------------------------------------
\* A replication task.

(* Mutant of TakesFirst: an entry over the limit is never sent. *)
NoFirstMutant(n) == FALSE

(* One entry goes whatever its size. *)
TakesFirst(n) == n = 0

SizeOf(S) == MapThenSumSet(LAMBDA i : slots[i].size, S)

(* limited_get_log_entries, under the lock: where the message stops. *)
StopOf(start, end) ==
  LET fits(j) == \A i \in start..(j - 1) : TakesFirst(i - start) \/ SizeOf(start..i) <= MessageBytes
  IN Max({j \in start..end : fits(j)})

MeasureRead(start, end) ==
  /\ reader.pc = "idle" /\ start..(end - 1) \subseteq Held /\ start < end
  /\ reader' = [NoRead EXCEPT !.pc = "measured", !.start = start, !.stop = StopOf(start, end)]
  /\ UNCHANGED <<slots, cached, cursor, lrPurged, lrPending, queue, lrSegs, placed, nextId>>

(* try_get_log_entries, under the lock again: bytes, or a place on disk. *)
CaptureRead ==
  /\ reader.pc = "measured"
  /\ LET n == reader.stop - reader.start
         at(k) == slots[reader.start + k - 1]
     IN reader' = [reader EXCEPT !.pc = "captured",
                     !.srcs = [k \in 1..n |-> [id |-> IF at(k).mem THEN at(k).id ELSE 0, loc |-> at(k).loc]],
                     !.want = [k \in 1..n |-> at(k).id]]
  /\ UNCHANGED <<slots, cached, cursor, lrPurged, lrPending, queue, lrSegs, placed, nextId>>

(* What is on disk at a place: 0 where there is nothing. *)
OnDisk(loc) ==
  LET f == {k \in DOMAIN lrSegs : lrSegs[k].seq = loc[1]}
  IN IF f = {} THEN 0
     ELSE LET s == lrSegs[CHOOSE k \in f : TRUE] IN IF loc[2] \in DOMAIN s.recs THEN s.recs[loc[2]] ELSE 0

(* WalReader::read of each, without a lock. *)
ReadEntries ==
  /\ reader.pc = "captured"
  /\ reader' = [reader EXCEPT !.pc = "read",
                  !.got = [k \in DOMAIN reader.srcs |->
                             IF reader.srcs[k].id # 0 THEN reader.srcs[k].id ELSE OnDisk(reader.srcs[k].loc)]]
  /\ UNCHANGED <<slots, cached, cursor, lrPurged, lrPending, queue, lrSegs, placed, nextId>>

(* The follower answers. *)
EndRead ==
  /\ reader.pc = "read" /\ reader' = NoRead
  /\ UNCHANGED <<slots, cached, cursor, lrPurged, lrPending, queue, lrSegs, placed, nextId>>

LrNext ==
  \/ \E s \in LrSizes : AppendOne(s)
  \/ \E i \in Indices : TruncateFrom(i) \/ PurgeUpto(i)
  \/ \E i, j \in 1..(LrLast + 1) : MeasureRead(i, j)
  \/ CompletePurge \/ WriterWrites \/ WriterGroups \/ WriterDrops \/ WriterPlaces
  \/ CaptureRead \/ ReadEntries \/ EndRead

LrSpec == LrInit /\ [][LrNext]_lrVars

----------------------------------------------------------------------------

(* The types, and the log has no hole (purge, truncate, append). *)
LrTypeOK ==
  /\ Held = (lrPurged + 1)..LastHeld
  /\ cursor \in 0..(LrLast + 1) /\ nextId \in 1..(LrIds + 1)

(* An entry out of memory is on disk where its slot says, in a segment     *)
(* that is still there, whatever was truncated, appended again or purged   *)
(* while the writer was behind (place, drop_segments_upto).                *)
SlotsRight ==
  \A i \in Held : /\ slots[i].mem \/ slots[i].loc # NoLoc
                  /\ slots[i].loc # NoLoc => OnDisk(slots[i].loc) = slots[i].id

(* `Every slot below this has been evicted or has no bytes' (State): the   *)
(* cache never keeps an entry its eviction has passed, and cached_bytes is *)
(* what it holds, so the limit means something.                            *)
CacheBounded ==
  /\ cached = Bytes(Held)
  /\ \A i \in Held : i < cursor => ~slots[i].mem

(* A replication read gets exactly the entries the log held when it was    *)
(* captured, though the cache was emptied and segments were deleted before *)
(* it came to the disk; and a message is never empty, nor over the limit   *)
(* with more than one entry (limited_get_log_entries).                     *)
ReadRight ==
  reader.pc = "read" => /\ reader.got = reader.want /\ reader.got # <<>>
                        /\ Len(reader.got) = 1 \/ SizeOf(reader.start..(reader.stop - 1)) <= MessageBytes

(* The cache of entries and the reads behind it: every entry is in memory  *)
(* or where its slot says, the bytes are counted once, and a read returns  *)
(* what it captured (place, evict, limited_get_log_entries).               *)
CacheRight == LrTypeOK /\ SlotsRight /\ CacheBounded /\ ReadRight
=============================================================================
