---------------------------- MODULE LayerReads ----------------------------
(***************************************************************************)
(* Range reads over the write-behind layers (OverlaySnapshot of            *)
(* storage/write_behind.rs; the engine's own reads, RedbSnapshot of        *)
(* storage/redb_engine.rs).  Point reads and the locking of a flush are    *)
(* WriteBehind's.  One table; its keys are numbers in key order.  A read   *)
(* merges the engine's rows, page by page, with what the layers say, and   *)
(* must return the rows a plain table would hold.                          *)
(***************************************************************************)
EXTENDS Integers, Sequences, FiniteSets, SequencesExt, FiniteSetsExt

CONSTANTS LyKeys,     \* 1..n
          LyVals,     \* values, not 0
          LyLayers,   \* layers, at most
          MinPage     \* fewest rows a limited read asks the engine for

VARIABLES engine,   \* the engine's table: a value per key, 0 for none
          over,     \* the layers not dropped yet, oldest first
          flushed,  \* how many of them the engine holds already
          plain     \* what the table holds: the commits, in order

lyvars == <<engine, over, flushed, plain>>

Gone == 0

(* A range delete is [from, to); a batch of one op, as a layer. *)
Spans == {<<a, b>> \in LyKeys \X (LyKeys \cup {Max(LyKeys) + 1}) : a < b}
LyCovers(sp, k) == k >= sp[1] /\ k < sp[2]
PointLayer(k, v) == [points |-> [x \in {k} |-> v], spans |-> {}]
SpanLayer(sp) == [points |-> << >>, spans |-> {sp}]

(* A range delete and a put after it, in one batch: the point is kept. *)
BothLayer(sp, k, v) == [points |-> [x \in {k} |-> v], spans |-> {sp}]

LyBatches ==
  {PointLayer(k, v) : k \in LyKeys, v \in LyVals \cup {Gone}}
    \cup {SpanLayer(sp) : sp \in Spans}
    \cup UNION {{BothLayer(sp, k, v) : k \in {x \in LyKeys : LyCovers(sp, x)}, v \in LyVals} : sp \in Spans}

AppliedTo(m, l) ==
  [k \in LyKeys |-> IF k \in DOMAIN l.points THEN l.points[k]
                    ELSE IF \E sp \in l.spans : LyCovers(sp, k) THEN Gone ELSE m[k]]

(***************************************************************************)
(* Bounds and the engine's reads.                                          *)
(***************************************************************************)

Bounds == [kind : {"included", "excluded"}, key : LyKeys] \cup {[kind |-> "unbounded", key |-> 0]}

Between(k, lo, hi) ==
  /\ lo.kind = "unbounded" \/ k > lo.key \/ (k = lo.key /\ lo.kind = "included")
  /\ hi.kind = "unbounded" \/ k < hi.key \/ (k = hi.key /\ hi.kind = "included")

(* in_bounds, for the layers' keys. *)
InBounds(k, lo, hi) == Between(k, lo, hi)

(* The keys of a set that have a value in m, as rows in key order. *)
InOrder(ks, m) ==
  [i \in 1..Cardinality(ks) |-> LET k == CHOOSE x \in ks : Cardinality({y \in ks : y < x}) = i - 1
                                IN  <<k, m[k]>>]

(* The rows of a plain table between two bounds. *)
RowsOf(m, lo, hi) == InOrder({k \in LyKeys : m[k] # Gone /\ Between(k, lo, hi)}, m)

(* No limit is 0. *)
Limited(s, limit) == IF limit = 0 \/ Len(s) <= limit THEN s ELSE SubSeq(s, 1, limit)

(* RedbSnapshot::range, count and last. *)
BaseRange(lo, hi, limit) == Limited(RowsOf(engine, lo, hi), limit)
BaseCount(lo, hi) == Len(RowsOf(engine, lo, hi))
Everything == [kind |-> "unbounded", key |-> 0]
BaseLast == LET rows == RowsOf(engine, Everything, Everything)
            IN  IF rows = << >> THEN << >> ELSE <<rows[Len(rows)]>>

(***************************************************************************)
(* OverlaySnapshot.                                                        *)
(***************************************************************************)

TouchesTable == over # << >>

(* view: what the layers say of the keys in the bounds, newest last. *)
AddLayer(v, l, lo, hi) ==
  LET hit == {k \in DOMAIN v.says : \E sp \in l.spans : LyCovers(sp, k)}
      new == {k \in DOMAIN l.points : InBounds(k, lo, hi)}
  IN  [says |-> [k \in DOMAIN v.says \cup new |->
                   IF k \in new THEN l.points[k] ELSE IF k \in hit THEN Gone ELSE v.says[k]],
       spans |-> v.spans \cup l.spans]

ViewOf(lo, hi) ==
  FoldLeft(LAMBDA v, l : AddLayer(v, l, lo, hi), [says |-> << >>, spans |-> {}], over)

(* Mutant of Hides: only a key the layers name is hidden. *)
PointsOnlyMutant(v, k) == k \in DOMAIN v.says

Hides(v, k) == k \in DOMAIN v.says \/ \E sp \in v.spans : LyCovers(sp, k)

(* The layers' own rows, in order. *)
Pending(v) == InOrder({k \in DOMAIN v.says : v.says[k] # Gone}, v.says)

(* Pending rows from position n on with a key up to k. *)
PendingTo(p, n, k) == SelectSeq(SubSeq(p, n + 1, Len(p)), LAMBDA row : row[1] <= k)

(* One row of the engine: the pending rows before it, then itself unless   *)
(* hidden.  [out, next]                                                    *)
MergeRow(acc, row, v, p) ==
  LET before == PendingTo(p, acc.next, row[1] - 1)
  IN  [out  |-> acc.out \o before \o (IF Hides(v, row[1]) THEN << >> ELSE <<row>>),
       next |-> acc.next + Len(before)]

(* Between two pages: the layers' rows up to the page's last key. *)
AfterPage(acc, rows, p) ==
  LET more == PendingTo(p, acc.next, rows[Len(rows)][1])
  IN  [out |-> acc.out \o more, next |-> acc.next + Len(more)]

PageSize(limit) == IF limit = 0 THEN 0 ELSE Max({2 * limit, MinPage})

(* merged, page after page from cursor: a read that has its limit returns. *)
RECURSIVE Pages(_, _, _, _, _, _)
Pages(acc, cursor, hi, limit, v, p) ==
  LET page == PageSize(limit)
      rows == BaseRange(cursor, hi, page)
      read == FoldLeft(LAMBDA a, row : MergeRow(a, row, v, p), acc, rows)
      next == AfterPage(read, rows, p)
  IN  IF page = 0 \/ Len(rows) < page
        THEN read.out \o SubSeq(p, read.next + 1, Len(p))
      ELSE IF Len(next.out) >= limit THEN next.out
      ELSE Pages(next, [kind |-> "excluded", key |-> rows[Len(rows)][1]], hi, limit, v, p)

Merged(lo, hi, limit) ==
  IF ~TouchesTable THEN BaseRange(lo, hi, limit)
  ELSE LET v == ViewOf(lo, hi)
       IN  Limited(Pages([out |-> << >>, next |-> 0], lo, hi, limit, v, Pending(v)), limit)

MergedCount(lo, hi) == IF TouchesTable THEN Len(Merged(lo, hi, 0)) ELSE BaseCount(lo, hi)

(* last: the later of the engine's last row and the layers'; all of it is  *)
(* merged when the engine's is hidden.                                     *)
MergedLast ==
  LET v == ViewOf(Everything, Everything)
      p == Pending(v)
      top == IF p = << >> THEN << >> ELSE <<p[Len(p)]>>
      all == Merged(Everything, Everything, 0)
  IN  IF ~TouchesTable THEN BaseLast
      ELSE IF BaseLast = << >> THEN top
      ELSE IF Hides(v, BaseLast[1][1]) THEN IF all = << >> THEN << >> ELSE <<all[Len(all)]>>
      ELSE IF top # << >> /\ top[1][1] > BaseLast[1][1] THEN top ELSE BaseLast

(***************************************************************************)
(* Commits and the flush.                                                  *)
(***************************************************************************)

LyInit ==
  /\ engine \in [LyKeys -> LyVals \cup {Gone}] /\ plain = engine
  /\ over = << >> /\ flushed = 0

CommitBatch(l) ==
  /\ Len(over) < LyLayers
  /\ over' = Append(over, l) /\ plain' = AppliedTo(plain, l)
  /\ UNCHANGED <<engine, flushed>>

(* flush_locked: the engine has the layers before they leave the list. *)
FlushToEngine ==
  /\ flushed = 0 /\ over # << >>
  /\ engine' = FoldLeft(AppliedTo, engine, over) /\ flushed' = Len(over)
  /\ UNCHANGED <<over, plain>>

(* The layers committed since the flush began. *)
NotFlushed == SubSeq(over, flushed + 1, Len(over))

DropFlushed ==
  /\ flushed > 0
  /\ over' = NotFlushed /\ flushed' = 0
  /\ UNCHANGED <<engine, plain>>

LyNext == (\E l \in LyBatches : CommitBatch(l)) \/ FlushToEngine \/ DropFlushed

LySpec == LyInit /\ [][LyNext]_lyvars

(***************************************************************************)
(* Properties.                                                             *)
(***************************************************************************)

(* The engine with the layers over it is what was committed. *)
LyTypeOK ==
  /\ engine \in [LyKeys -> LyVals \cup {Gone}] /\ plain \in [LyKeys -> LyVals \cup {Gone}]
  /\ flushed \in 0..Len(over) /\ Len(over) <= LyLayers
  /\ FoldLeft(AppliedTo, engine, over) = plain

(* RangesRight: a range read through the layers returns, in order and up   *)
(* to its limit, the rows the table holds: through pages of the engine,    *)
(* range deletes of a layer over points of an older one, and a flush half  *)
(* way through, the engine ahead of the list; count counts them            *)
(* (OverlaySnapshot::merged, view, range, count).                          *)
RangesRight ==
  \A lo, hi \in Bounds :
    /\ \A limit \in 0..1 : Merged(lo, hi, limit) = Limited(RowsOf(plain, lo, hi), limit)
    /\ MergedCount(lo, hi) = Len(RowsOf(plain, lo, hi))

(* LastRight: last returns the table's last row, also when the engine's is *)
(* deleted or overwritten in a layer (OverlaySnapshot::last).              *)
LastRight ==
  LET rows == RowsOf(plain, Everything, Everything)
  IN  MergedLast = IF rows = << >> THEN << >> ELSE <<rows[Len(rows)]>>
=============================================================================
