-------------------------------- MODULE Mvcc --------------------------------
(***************************************************************************)
(* The MVCC layer's write path (storage/mvcc/store.rs): puts, range        *)
(* deletes, txns (nested ones included), several requests in one commit    *)
(* (apply_many), leases and compaction, over the tables mvcc_kv, mvcc_idx, *)
(* lease and lease_keys.                                                   *)
(*                                                                         *)
(* write_state's lock is held from Begin to Finish; a request's changes    *)
(* are in its ApplyContext, ctx, until its one commit.  A key range is the *)
(* set of its keys.  The variables ref, before, pend and hist follow       *)
(* etcd's meaning of each request: the key space as a function from keys   *)
(* to their latest record, one per revision.                               *)
(***************************************************************************)
EXTENDS KeyIndex, Sequences

Seqs == INSTANCE SequencesExt

CONSTANTS
  Keys,         \* naturals: the order of keys
  Leases,       \* naturals: lease ids clients name; 0 is no lease
  Requests,     \* the requests: sequences of items (see Item)
  NoRec,        \* Option::None of a record
  NoReq,
  MaxRev        \* bound: no request begins that could pass this revision

ASSUME KeyAssumption == Keys \subseteq Nat /\ Leases \subseteq Nat \ {0}

ASSUME BoundAssumption == MaxRev \in Nat

(* An item is a request that takes a revision of its own: a txn's compares *)
(* and branches, or mutations (txn is FALSE: no compares, one branch).     *)
IsMutation(o) == o.op \in {"put", "del"}
IgnoresPrev(o) == o.op = "put" /\ (o.keepVal \/ o.keepLease)
OpsOf(it) == {it.yes[i] : i \in DOMAIN it.yes} \cup {it.no[i] : i \in DOMAIN it.no}

VARIABLES
  kv,           \* mvcc_kv: the records
  idx,          \* mvcc_idx and the resident index: each key's generations
  leases,       \* lease
  leaseKeys,    \* lease_keys: pairs <<lease, key>>
  current, compact,
  req,          \* the request being applied: items and ops left
  ctx,          \* its ApplyContext
  events,       \* the event batches broadcast so far
  reply,        \* the revision of the last response
  ref,          \* what the request has made of the key space so far
  before,       \* the key space before the item being applied
  pend,         \* the key space after each revision of the request
  hist          \* hist[r + 1]: the key space at revision r

tables == <<kv, idx, leases, leaseKeys, current, compact, events, hist>>
vars == <<tables, req, ctx, reply, ref, before, pend>>

----------------------------------------------------------------------------
(* Records. *)

ZeroRec(k) ==
  [key |-> k, rev |-> NoRev, val |-> 0, create |-> 0, version |-> 0, lease |-> 0,
   mod |-> 0, deleted |-> FALSE]

Tombstone(k, r) == [ZeroRec(k) EXCEPT !.rev = r, !.mod = Main(r), !.deleted = TRUE]

RecordAt(k, r) == CHOOSE x \in kv : x.key = k /\ x.rev = r

(* latest_record_in: the key's live record as the request sees it. *)
LatestIn(k) ==
  IF k \in DOMAIN ctx.rec
  THEN IF ctx.rec[k].deleted THEN NoRec ELSE ctx.rec[k]
  ELSE IF IsLive(ctx.idx[k]) THEN RecordAt(k, Current(ctx.idx[k])) ELSE NoRec

(* range_inner: the records of keys K at main revision m, through ctx. *)
RangeIn(K, m) ==
  LET found == {k \in K : RevisionAt(ctx.idx[k], m) # NoRev}
      rec(k) == LET r == RevisionAt(ctx.idx[k], m)
                IN  IF k \in DOMAIN ctx.rec /\ ~ctx.rec[k].deleted /\ ctx.rec[k].mod = Main(r)
                    THEN ctx.rec[k]
                    ELSE RecordAt(k, r)
  IN  [k \in found |-> rec(k)]

----------------------------------------------------------------------------
(* Compares. *)

EvalCompare(x, c) ==
  \/ c.op = "eq" /\ x[c.field] = c.arg
  \/ c.op = "ne" /\ x[c.field] # c.arg
  \/ c.op = "gt" /\ x[c.field] > c.arg
  \/ c.op = "lt" /\ x[c.field] < c.arg

(* The keys a compare covers: one key, or the keys of a range that have an *)
(* index.                                                                  *)
CompareTargets(ix, c) == IF c.range THEN {k \in c.keys : ix[k] # {}} ELSE c.keys

EvaluateCompares(ix, cs, rec) ==
  \A c \in cs : \A k \in CompareTargets(ix, c) :
    EvalCompare(IF IsLive(ix[k]) THEN rec[k] ELSE ZeroRec(k), c)

(* etcd's meaning of the compares, over the key space m. *)
Satisfied(m, cs) ==
  \A c \in cs : \A k \in c.keys :
    \/ c.range /\ m[k] = NoRec
    \/ EvalCompare(IF m[k] = NoRec THEN ZeroRec(k) ELSE m[k], c)

----------------------------------------------------------------------------
(* What a put or a delete makes of the key space. *)

RefPut(m, o, r) ==
  [m EXCEPT ![o.key] =
    [key |-> o.key, rev |-> r,
     val     |-> IF o.keepVal THEN m[o.key].val ELSE o.val,
     create  |-> IF m[o.key] = NoRec THEN Main(r) ELSE m[o.key].create,
     version |-> IF m[o.key] = NoRec THEN 1 ELSE m[o.key].version + 1,
     lease   |-> IF o.keepLease THEN m[o.key].lease ELSE o.lease,
     mod |-> Main(r), deleted |-> FALSE]]

RefDelete(m, K) == [k \in Keys |-> IF k \in K THEN NoRec ELSE m[k]]

----------------------------------------------------------------------------
EmptySpace == [k \in Keys |-> NoRec]

Latest == hist[Len(hist)]

NoCtx == [idx |-> [k \in Keys |-> {}], rec |-> [k \in {} |-> NoRec], kv |-> {}, lk |-> {},
          events |-> <<>>, batches |-> <<>>, local |-> 0, main |-> 0, sub |-> 0,
          produced |-> FALSE]

Init ==
  /\ kv = {} /\ idx = [k \in Keys |-> {}]
  /\ leases = {} /\ leaseKeys = {}
  /\ current = 0 /\ compact = 0
  /\ req = NoReq /\ ctx = NoCtx
  /\ events = <<>> /\ reply = 0
  /\ ref = EmptySpace /\ before = EmptySpace
  /\ pend = <<>> /\ hist = <<EmptySpace>>

Idle == req = NoReq

(* ApplyItem::mutations and ApplyItem::txn: what may share a commit. *)
Shareable(it) ==
  \/ ~it.txn /\ (Len(it.yes) = 1 \/ \A o \in OpsOf(it) : ~IgnoresPrev(o))
  \/ it.txn /\ \A o \in OpsOf(it) : \/ IsMutation(o) /\ ~IgnoresPrev(o)
                                    \/ o.op = "range" /\ o.rev = 0

(* The lock and the snapshot; a request that is not a revoke has revoke 0. *)
Open(items, revoke) ==
  /\ Idle
  /\ current + Len(items) <= MaxRev
  /\ req' = [items |-> items, ops |-> <<>>, stage |-> "item", txn |-> FALSE,
             revoke |-> revoke, many |-> Len(items) > 1]
  /\ ctx' = [NoCtx EXCEPT !.idx = idx, !.lk = leaseKeys, !.local = current]
  /\ UNCHANGED <<tables, reply, ref, before, pend>>

(* apply and txn (one item), apply_many. *)
Begin(items) ==
  /\ Len(items) > 1 => \A i \in DOMAIN items : Shareable(items[i])
  /\ Open(items, 0)

(* apply_lease_revoke: each attached key a delete of its own, in order. *)
AttachedTo(l) == {k \in Keys : <<l, k>> \in leaseKeys}

InOrder(K) == Seqs!SetToSortSeq(K, LAMBDA a, b : a < b)

BeginRevoke(l) ==
  LET ks == InOrder(AttachedTo(l))
      deletes == [i \in DOMAIN ks |-> [op |-> "del", keys |-> {ks[i]}]]
  IN  Open(<<[txn |-> FALSE, cmp |-> {}, yes |-> deletes, no |-> <<>>]>>, l)

----------------------------------------------------------------------------
(* An item's compares decide its branch; its revision is the next one. *)
StartItem ==
  LET it  == Head(req.items)
      yes == EvaluateCompares(ctx.idx, it.cmp, [k \in Keys |-> LatestIn(k)])
  IN
  /\ ~Idle /\ req.stage = "item" /\ req.items # <<>>
  /\ req' = [req EXCEPT !.items = Tail(@), !.stage = "ops", !.txn = it.txn,
                        !.ops = IF yes THEN it.yes ELSE it.no]
  /\ ctx' = [ctx EXCEPT !.main = ctx.local + 1, !.sub = 0, !.produced = FALSE]
  /\ before' = ref
  /\ UNCHANGED <<tables, reply, ref, pend>>

AtOp(kind) == ~Idle /\ req.stage = "ops" /\ req.ops # <<>> /\ Head(req.ops).op = kind

Rev == <<ctx.main, ctx.sub>>

(* The request's context dropped: a refusal, or a failed commit. *)
Abandon ==
  /\ req' = NoReq /\ ctx' = NoCtx /\ reply' = current
  /\ ref' = Latest /\ before' = Latest /\ pend' = <<>>
  /\ UNCHANGED tables

(* apply_one of a put the key's state refuses, etcd's ErrKeyNotFound: the  *)
(* whole request, or one of apply_many's items.                            *)
PutRefused ==
  /\ AtOp("put")
  /\ IgnoresPrev(Head(req.ops)) /\ LatestIn(Head(req.ops).key) = NoRec
  /\ \/ ~req.many /\ Abandon
     \/ /\ req.many /\ reply' = ctx.local
        /\ req' = [req EXCEPT !.ops = <<>>, !.stage = "item"]
        /\ ref' = before
        /\ UNCHANGED <<tables, ctx, before, pend>>

(* Mutant of Relink: the old lease keeps its entry. *)
KeepLinkMutant(lk, k, old, new) == lk \cup {<<l, k>> : l \in {new} \ {0}}

(* The key's lease_keys entry follows its lease. *)
Relink(lk, k, old, new) ==
  IF old = new THEN lk ELSE (lk \ {<<old, k>>}) \cup {<<l, k>> : l \in {new} \ {0}}

LeaseOf(x) == IF x = NoRec THEN 0 ELSE x.lease

PutOp ==
  LET o    == Head(req.ops)
      prev == LatestIn(o.key)
      gens == RecordPut(ctx.idx[o.key], Rev)
      rec  == [key |-> o.key, rev |-> Rev,
               val     |-> IF o.keepVal THEN prev.val ELSE o.val,
               create  |-> Main(PutCreated(gens)),
               version |-> PutVersion(gens),
               lease   |-> IF o.keepLease THEN prev.lease ELSE o.lease,
               mod |-> ctx.main, deleted |-> FALSE]
  IN
  /\ AtOp("put")
  /\ ~(IgnoresPrev(o) /\ prev = NoRec)
  /\ ctx' = [ctx EXCEPT
       !.idx[o.key] = gens,
       !.rec = [k \in DOMAIN @ \cup {o.key} |-> IF k = o.key THEN rec ELSE @[k]],
       !.kv = @ \cup {rec},
       !.lk = Relink(@, o.key, LeaseOf(prev), rec.lease),
       !.events = Append(@, [rec |-> rec, prev |-> prev]),
       !.sub = @ + 1, !.produced = TRUE]
  /\ req' = [req EXCEPT !.ops = Tail(@)]
  /\ ref' = RefPut(ref, o, Rev)
  /\ UNCHANGED <<tables, reply, before, pend>>

(* A delete of every live key of the range, in order, at one revision. *)
DelOp ==
  LET live == {k \in Head(req.ops).keys : IsLive(ctx.idx[k])}
      ks   == InOrder(live)
  IN
  /\ AtOp("del")
  /\ ctx' = [ctx EXCEPT
       !.idx = [k \in Keys |-> IF k \in live THEN RecordDelete(@[k], Rev) ELSE @[k]],
       !.rec = [k \in DOMAIN @ \cup live |-> IF k \in live THEN Tombstone(k, Rev) ELSE @[k]],
       !.kv = @ \cup {Tombstone(k, Rev) : k \in live},
       !.lk = @ \ {<<LeaseOf(LatestIn(k)), k>> : k \in live},
       !.events = @ \o [i \in DOMAIN ks |-> [rec |-> Tombstone(ks[i], Rev), prev |-> LatestIn(ks[i])]],
       !.sub = @ + 1, !.produced = @ \/ live # {}]
  /\ req' = [req EXCEPT !.ops = Tail(@)]
  /\ ref' = RefDelete(ref, Head(req.ops).keys)
  /\ UNCHANGED <<tables, reply, before, pend>>

(* The revision a txn's reads are at: its own, once it changed anything. *)
ReadRev == IF ctx.produced THEN ctx.main ELSE ctx.local

(* check_read_rev of a range in a txn. *)
Readable(rev) == rev = 0 \/ (rev <= ReadRev /\ compact <= rev)

RangeOp ==
  /\ AtOp("range") /\ Readable(Head(req.ops).rev)
  /\ req' = [req EXCEPT !.ops = Tail(@)]
  /\ UNCHANGED <<tables, ctx, reply, ref, before, pend>>

RangeRefused ==
  /\ AtOp("range") /\ ~Readable(Head(req.ops).rev)
  /\ Abandon

(* Mutant of CommittedCompares: a nested txn's compares see its own        *)
(* request's writes.                                                       *)
NestedSeesCtxMutant(cs) == EvaluateCompares(ctx.idx, cs, [k \in Keys |-> LatestIn(k)])

(* evaluate_compares through an empty context: the state before the txn. *)
CommittedCompares(cs) ==
  EvaluateCompares(idx, cs, [k \in Keys |-> RecordAt(k, Current(idx[k]))])

(* A nested txn's branch runs in the outer one's place. *)
NestedOp ==
  LET o == Head(req.ops)
  IN
  /\ AtOp("txn")
  /\ req' = [req EXCEPT !.ops = (IF CommittedCompares(o.cmp) THEN o.yes ELSE o.no) \o Tail(@)]
  /\ UNCHANGED <<tables, ctx, reply, ref, before, pend>>

(* event_marks: a batch per revision. *)
Batched(bs, b) == Append(bs, b)

(* An item that changed something takes its revision, and its events are a *)
(* batch of their own.                                                     *)
EndItem ==
  /\ ~Idle /\ req.stage = "ops" /\ req.ops = <<>>
  /\ req' = [req EXCEPT !.stage = "item"]
  /\ reply' = IF ctx.produced \/ (~req.txn /\ ctx.sub > 0) THEN ctx.main ELSE ctx.local
  /\ IF ctx.produced
     THEN /\ ctx' = [ctx EXCEPT !.local = ctx.main, !.events = <<>>,
                       !.batches = Batched(@, [rev |-> ctx.main, events |-> ctx.events])]
          /\ pend' = Append(pend, ref)
     ELSE UNCHANGED <<ctx, pend>>
  /\ UNCHANGED <<tables, ref, before>>

(* commit_ctx, and a revoke's own deletes in the same commit. *)
Finish ==
  /\ ~Idle /\ req.stage = "item" /\ req.items = <<>>
  /\ kv' = kv \cup ctx.kv
  /\ idx' = ctx.idx
  /\ leases' = leases \ {req.revoke}
  /\ leaseKeys' = ctx.lk \ {<<req.revoke, k>> : k \in Keys}
  /\ current' = ctx.local
  /\ events' = events \o ctx.batches
  /\ hist' = hist \o pend
  /\ req' = NoReq /\ ctx' = NoCtx
  /\ pend' = <<>>
  /\ UNCHANGED <<compact, reply, ref, before>>

(* The engine's commit fails. *)
CommitFails ==
  /\ ~Idle /\ req.stage = "item" /\ req.items = <<>>
  /\ Abandon

(* apply_lease_grant. *)
LeaseGrant(l) ==
  /\ Idle
  /\ leases' = leases \cup {l}
  /\ reply' = current
  /\ UNCHANGED <<kv, idx, leaseKeys, current, compact, events, hist, req, ctx, ref, before, pend>>

(* What compact does not refuse, or find already done. *)
MayCompact(rev) == compact < rev /\ rev <= current

(* compact, of the keys it changes. *)
Compact(rev) ==
  LET changed == {k \in Keys : CompactionChanges(idx[k], rev)}
  IN
  /\ Idle /\ MayCompact(rev)
  /\ kv' = {x \in kv : x.key \in changed => x.rev \notin Dropped(idx[x.key], rev)}
  /\ idx' = [k \in Keys |-> IF k \in changed THEN Compacted(idx[k], rev) ELSE idx[k]]
  /\ compact' = rev
  /\ UNCHANGED <<leases, leaseKeys, current, events, hist, req, ctx, reply, ref, before, pend>>

Next ==
  \/ \E items \in Requests : Begin(items)
  \/ \E l \in Leases : BeginRevoke(l) \/ LeaseGrant(l)
  \/ StartItem \/ PutOp \/ PutRefused \/ DelOp
  \/ RangeOp \/ RangeRefused \/ NestedOp
  \/ EndItem \/ Finish \/ CommitFails
  \/ \E rev \in 1..MaxRev : Compact(rev)

Spec == Init /\ [][Next]_vars

----------------------------------------------------------------------------
(* Properties. *)

Record == [key : Keys, rev : Revision, val : Nat, create : Nat, version : Nat, lease : Nat,
           mod : Nat, deleted : BOOLEAN]

Spaces == [Keys -> Record \cup {NoRec}]

(* Every variable has its type; in particular every stored record names a  *)
(* real revision and compact_rev never passes current_rev.                 *)
TypeOK ==
  /\ kv \subseteq Record
  /\ \A k \in Keys : idx[k] \subseteq Generation
  /\ leases \subseteq Leases /\ leaseKeys \subseteq Leases \X Keys
  /\ current \in 0..MaxRev /\ compact \in 0..current
  /\ Len(hist) = current + 1
  /\ \A i \in DOMAIN hist : hist[i] \in Spaces
  /\ ref \in Spaces /\ before \in Spaces
  /\ reply \in 0..MaxRev

(* A record but for its version, which compaction makes restart. *)
Plain(x) == IF x = NoRec THEN NoRec ELSE [x EXCEPT !.version = 0]

(* A read of m's live keys found exactly them, with their records. *)
Shows(found, m) ==
  /\ DOMAIN found = {k \in Keys : m[k] # NoRec}
  /\ \A k \in DOMAIN found : Plain(found[k]) = Plain(m[k])

(* What a range at main revision m reads of the committed store. *)
Read(m) ==
  [k \in {q \in Keys : RevisionAt(idx[q], m) # NoRev} |-> RecordAt(k, RevisionAt(idx[k], m))]

(* Every key's generations follow each other, none empty, only the last    *)
(* open, none past current_rev: through any requests and compactions the   *)
(* index keeps the shape record.rs's binary searches and loops rely on.    *)
IndexWellFormed ==
  \A k \in Keys : WellFormed(idx[k]) /\ AllBefore(idx[k], <<current + 1, 0>>)

(* range_with_revision at any revision from compact_rev to current_rev     *)
(* returns the key space as it was after that revision, whatever was put,  *)
(* deleted, revoked or compacted since: compaction takes nothing a         *)
(* permitted read needs.                                                   *)
ReadsHistory == \A m \in compact..current : Shows(Read(m), hist[m + 1])

(* mvcc_kv holds exactly the records the indexes name: no read and no      *)
(* replay misses a record ("missing KvRecord"), and compaction leaves no   *)
(* record that nothing points to.                                          *)
IndexMatchesRecords ==
  {<<x.key, x.rev>> : x \in kv} =
    UNION {{k} \X UNION {g.revs \cup ({g.tombstone} \ {NoRev}) : g \in idx[k]} : k \in Keys}

(* The reverse index lease_keys names exactly the live keys with a lease,  *)
(* under the lease of their latest put: a revoke deletes them and no other.*)
LeaseKeysExact ==
  leaseKeys = {<<Latest[k].lease, k>> : k \in {q \in Keys : LeaseOf(Latest[q]) # 0}}

(* An op of a txn or a batch sees its request's earlier writes, and only   *)
(* them: through ApplyContext the key space is the one those ops made of   *)
(* the committed one, now and, for a range at an older revision, then.     *)
SeesOwnWrites ==
  (~Idle /\ req.stage = "ops") =>
    /\ \A k \in Keys : Plain(LatestIn(k)) = Plain(ref[k])
    /\ Shows(RangeIn(Keys, ReadRev), ref)
    /\ \A m \in compact..current : Shows(RangeIn(Keys, m), hist[m + 1])

(* Compares choose the branch etcd's compares choose: an item's of the     *)
(* state its predecessors in the batch left, a nested txn's of the state   *)
(* before the outermost txn.                                               *)
BranchesAgree ==
  /\ (~Idle /\ req.stage = "item" /\ req.items # <<>>) =>
       LET cs == Head(req.items).cmp
       IN  EvaluateCompares(ctx.idx, cs, [k \in Keys |-> LatestIn(k)]) = Satisfied(ref, cs)
  /\ AtOp("txn") =>
       LET cs == Head(req.ops).cmp
       IN  CommittedCompares(cs) = Satisfied(Latest, cs)

(* Each revision is broadcast once, in order, as one batch; its events, in *)
(* order, turn the key space before it into the one after it, and each     *)
(* carries as prev_kv the record it replaced.                              *)
Applied(m, e) == [m EXCEPT ![e.rec.key] = IF e.rec.deleted THEN NoRec ELSE e.rec]

EventsRebuildHistory ==
  /\ Len(events) = current
  /\ \A r \in 1..current :
       LET es == events[r].events
           at[i \in 0..Len(es)] == IF i = 0 THEN hist[r] ELSE Applied(at[i - 1], es[i])
       IN  /\ events[r].rev = r
           /\ \A k \in Keys : Plain(at[Len(es)][k]) = Plain(hist[r + 1][k])
           /\ \A i \in DOMAIN es : Plain(es[i].prev) = Plain(at[i - 1][es[i].rec.key])

(* The revisions of a generation that are replayed. *)
NamedBy(g) == g.revs \cup {g.tombstone}

(* range_events_until(all keys, s, current): an event for each revision    *)
(* after s the indexes name, sorted by revision and key.                   *)
Replayed(s) ==
  LET named == {x \in kv : \E g \in idx[x.key] : x.rev \in NamedBy(g)}
      prev(x) == LET r == PreviousPut(idx[x.key], x.rev)
                 IN  IF r = NoRev THEN NoRec ELSE RecordAt(x.key, r)
  IN  {[rec |-> x, prev |-> prev(x)] : x \in {y \in named : Main(y.rev) > s}}

Earlier(x, y) == Precedes(x.rev, y.rev) \/ (x.rev = y.rev /\ x.key < y.key)

LiveAfter(s) == UNION {{events[r].events[i] : i \in DOMAIN events[r].events} : r \in (s + 1)..current}

Records(es) == {e.rec : e \in es}

(* The history a watch replays from any revision it may start at is the    *)
(* sequence of events a live watcher got, record for record and in the     *)
(* same order: puts and deletes of one key in one txn, keys deleted        *)
(* together, revoked leases.  A live event's prev_kv is replayed too.      *)
ReplayMatchesLive ==
  /\ \A s \in compact..current :
       /\ Records(Replayed(s)) = Records(LiveAfter(s))
       /\ \A e \in Replayed(s), f \in LiveAfter(s) :
            e.rec = f.rec /\ f.prev # NoRec => e.prev = f.prev
  /\ \A r \in 1..current : \A i, j \in DOMAIN events[r].events :
       i < j => Earlier(events[r].events[i].rec, events[r].events[j].rec)

(* The tables agree: each key's generations, the records and the reverse   *)
(* index of leases describe the same keys after any requests and           *)
(* compactions (apply_put, apply_delete_range, revoke_lease, compact).     *)
TablesAgree == TypeOK /\ IndexWellFormed /\ IndexMatchesRecords /\ LeaseKeysExact

(* A request sees its own writes and takes etcd's branches, and its events *)
(* are those the history replays (apply_many, evaluate_compares,           *)
(* commit_ctx, range_events_until).                                        *)
RequestsRight == SeesOwnWrites /\ BranchesAgree /\ EventsRebuildHistory /\ ReplayMatchesLive
=============================================================================
