------------------------------- MODULE Watch --------------------------------
(***************************************************************************)
(* One Watch stream (server/watch.rs): its watchers and their cursors, the *)
(* task that handles creates, cancels and progress requests, the task that *)
(* forwards events from the store's broadcast channel, and the store they  *)
(* read (storage/mvcc/store.rs) with its commits, compactions and snapshot *)
(* installs.                                                               *)
(*                                                                         *)
(* Revision r is one event, log[r], of one key.  What a watcher is sent is *)
(* its client's sequence got.  The store's write lock is held from a       *)
(* commit's publish to its last broadcast; the stream's lock, `lock', is   *)
(* held through a create's or a resync's replays.                          *)
(***************************************************************************)
EXTENDS Naturals, Sequences, FiniteSets

CONSTANTS
  Keys,
  Clients,        \* the creates a client sends on the stream
  ClientIds,      \* watch ids clients may choose
  Capacity,       \* of the broadcast channel
  None, Resync, Asked,  \* no value; a resync is due; a progress request is pending
  MaxRev, MaxCompactions, MaxInstalls, MaxProgress   \* bounds

ASSUME WatchAssumption == Capacity \in Nat \ {0} /\ MaxRev \in Nat /\ ClientIds \subseteq Nat \ {0}

VARIABLES
  log,            \* the event of each revision
  current, compact,     \* the revisions reads see
  purged,         \* the compaction whose records are gone
  unsent,         \* published revisions whose batch is not yet broadcast
  open,           \* watch(): "none", then "subscribed" to the channel, then "running"
  queue, lagged,  \* this stream's receiver
  forward,        \* forward_events: None, a batch's revision to deliver, or Resync
  lastRev,        \* forward_events' last_rev
  lock,           \* who holds the stream lock: None, "create", "resync"
  watchers,       \* watch id -> watcher
  nextAuto,
  create,         \* handle_create in progress
  replay,         \* replay_history in progress
  todo, failed,   \* resync: watch ids to catch up, and to cancel
  upto,           \* resync: the revision to catch up to
  progress,       \* handle_progress: the revision read
  announced,      \* the last progress revision sent
  client,         \* what each create's client knows
  installs, compactions, asks

storeVars == <<log, current, compact, purged, unsent, queue, lagged, installs, compactions>>
streamVars == <<open, forward, lastRev, lock, watchers, nextAuto, create, replay, todo, failed, upto, progress,
                announced, client, asks>>
vars == <<storeVars, streamVars>>

Init ==
  /\ log = <<>> /\ current = 0 /\ compact = 0 /\ purged = 0
  /\ unsent = <<>> /\ queue = <<>> /\ lagged = FALSE
  /\ open = "none" /\ forward = None /\ lastRev = 0 /\ lock = None
  /\ watchers = [id \in {} |-> None] /\ nextAuto = 0
  /\ create = None /\ replay = None
  /\ todo = {} /\ failed = {} /\ upto = 0
  /\ progress = None /\ announced = 0
  /\ client = [c \in Clients |-> [st |-> "new", keys |-> {}, start |-> 0, got |-> <<>>]]
  /\ installs = 0 /\ compactions = 0 /\ asks = 0

----------------------------------------------------------------------------
(* The store. *)

(* A commit, a compaction or an install holds write_state. *)
Locked == unsent # <<>> \/ purged # compact \/ Len(log) # current

Events(n) == [1..n -> [key : Keys, del : BOOLEAN]]

(* Mutant of Batches: only the first revision of a commit is broadcast. *)
FirstBatchMutant(es) == <<current + 1>>

(* One batch of events per revision. *)
Batches(es) == [i \in DOMAIN es |-> current + i]

(* commit_ctx: a commit's revisions are published together. *)
Commit(es) ==
  /\ ~Locked
  /\ current + Len(es) <= MaxRev
  /\ log' = log \o es
  /\ current' = current + Len(es)
  /\ unsent' = Batches(es)
  /\ UNCHANGED <<compact, purged, queue, lagged, installs, compactions, streamVars>>

(* A full channel drops its oldest batch; the receiver will be told. *)
Received(q, r) ==
  IF open = "none" THEN [queue |-> q, lagged |-> lagged]
  ELSE IF Len(q) = Capacity
  THEN [queue |-> Append(Tail(q), r), lagged |-> TRUE]
  ELSE [queue |-> Append(q, r), lagged |-> lagged]

Broadcast ==
  LET rx == Received(queue, Head(unsent))
  IN
  /\ unsent # <<>>
  /\ unsent' = Tail(unsent)
  /\ queue' = rx.queue /\ lagged' = rx.lagged
  /\ UNCHANGED <<log, current, compact, purged, installs, compactions, streamVars>>

(* compact: reads below m are refused first, then the records go. *)
CompactRefuse(m) ==
  /\ ~Locked
  /\ compactions < MaxCompactions
  /\ compact < m /\ m <= current
  /\ compact' = m /\ compactions' = compactions + 1
  /\ UNCHANGED <<log, current, purged, unsent, queue, lagged, installs, streamVars>>

CompactPurge ==
  /\ purged < compact
  /\ purged' = compact
  /\ UNCHANGED <<log, current, compact, unsent, queue, lagged, installs, compactions, streamVars>>

(* A raft snapshot brings revisions and a compaction, and no events: first *)
(* the tables, then the revisions reads see.                               *)
InstallTables(es, m) ==
  /\ ~Locked
  /\ installs < MaxInstalls
  /\ current + Len(es) <= MaxRev
  /\ compact <= m /\ m <= current + Len(es)
  /\ log' = log \o es
  /\ purged' = m
  /\ installs' = installs + 1
  /\ UNCHANGED <<current, compact, unsent, queue, lagged, compactions, streamVars>>

InstallPublish ==
  /\ Len(log) > current
  /\ current' = Len(log)
  /\ compact' = purged
  /\ UNCHANGED <<log, purged, unsent, queue, lagged, installs, compactions, streamVars>>

(* Of the revisions a purge covers, mvcc_kv keeps each live key's newest. *)
Retained(r) ==
  \/ r > purged
  \/ ~log[r].del /\ \A q \in (r + 1)..purged : log[q].key # log[r].key

----------------------------------------------------------------------------
(* watch: the subscription precedes the read of the revision it starts at. *)

Subscribe ==
  /\ open = "none"
  /\ open' = "subscribed"
  /\ UNCHANGED <<storeVars, forward, lastRev, lock, watchers, nextAuto, create, replay, todo, failed, upto,
                 progress, announced, asks, client>>

SubscribedAt ==
  /\ open = "subscribed"
  /\ open' = "running"
  /\ lastRev' = current
  /\ UNCHANGED <<storeVars, forward, lock, watchers, nextAuto, create, replay, todo, failed, upto, progress,
                 announced, asks, client>>

----------------------------------------------------------------------------
(* handle_create. *)

StartCreate(c, K, start, id) ==
  LET wid == IF id > 0 THEN id ELSE nextAuto + 1
  IN
  /\ open = "running" /\ lock = None
  /\ client[c].st = "new"
  /\ lock' = "create"
  /\ nextAuto' = IF id > 0 THEN nextAuto ELSE wid
  /\ create' = [c |-> c, id |-> wid, keys |-> K, upto |-> current,
                next |-> IF start > 0 THEN start ELSE current + 1, start |-> start]
  /\ UNCHANGED <<storeVars, open, forward, lastRev, watchers, replay, todo, failed, upto, progress, announced, asks, client>>

Replay(id, c, K, next, to) ==
  [id |-> id, c |-> c, keys |-> K, next |-> next, upto |-> to, step |-> "compact"]

CreateCheck ==
  /\ create # None /\ replay = None
  /\ IF create.start > 0 /\ create.start < compact
     THEN /\ client' = [client EXCEPT ![create.c].st = "cancelled"]
          /\ create' = None /\ lock' = None
          /\ UNCHANGED replay
     ELSE /\ client' = [client EXCEPT ![create.c].st = "created", ![create.c].keys = create.keys,
                                      ![create.c].start = create.next]
          /\ replay' = Replay(create.id, create.c, create.keys, create.next, create.upto)
          /\ UNCHANGED <<create, lock>>
  /\ UNCHANGED <<storeVars, open, forward, lastRev, watchers, nextAuto, todo, failed, upto, progress, announced, asks>>

----------------------------------------------------------------------------
(* replay_history, for a create or a resync: `compact' is looked at, then  *)
(* range_events_until looks at it again, then takes its snapshot.          *)

SelectedIn(K, r) == log[r].key \in K

Ascending(S) == CHOOSE s \in [1..Cardinality(S) -> S] : \A i, j \in DOMAIN s : i < j => s[i] < s[j]

Send(c, S) == [client EXCEPT ![c].got = @ \o Ascending(S)]

With(id, w) == [i \in DOMAIN watchers \cup {id} |-> IF i = id THEN w ELSE watchers[i]]

AfterReplay == IF replay.next > replay.upto THEN replay.next ELSE replay.upto + 1

(* The watcher is current to upto. *)
ReplayDone ==
  /\ watchers' = With(replay.id, [c |-> replay.c, keys |-> replay.keys, next |-> AfterReplay])
  /\ replay' = None
  /\ IF lock = "create" THEN create' = None /\ lock' = None /\ UNCHANGED todo
     ELSE todo' = todo \ {replay.id} /\ UNCHANGED <<create, lock>>
  /\ UNCHANGED failed

(* Its history is compacted, or could not be read. *)
ReplayCancels ==
  /\ replay' = None
  /\ UNCHANGED watchers
  /\ IF lock = "create"
     THEN /\ client' = [client EXCEPT ![replay.c].st = "cancelled"]
          /\ create' = None /\ lock' = None
          /\ UNCHANGED <<todo, failed>>
     ELSE /\ todo' = todo \ {replay.id} /\ failed' = failed \cup {replay.id}
          /\ UNCHANGED <<create, lock, client>>

Continue(step) == replay' = [replay EXCEPT !.step = step]
                  /\ UNCHANGED <<watchers, create, lock, todo, failed, client>>

ReplayAt(step) ==
  /\ replay # None /\ replay.step = step
  /\ UNCHANGED <<storeVars, open, forward, lastRev, nextAuto, upto, progress, announced, asks>>

ReplayCompact ==
  /\ ReplayAt("compact")
  /\ CASE replay.next > replay.upto -> ReplayDone /\ UNCHANGED client
       [] replay.next <= replay.upto /\ replay.next < compact -> ReplayCancels
       [] OTHER -> Continue("revs")

Compacted(next) == compact > 0 /\ next - 1 < compact

ReplayRevs ==
  /\ ReplayAt("revs")
  /\ IF Compacted(replay.next) THEN ReplayCancels ELSE Continue("read")

ReplayRead ==
  LET S == {r \in replay.next..replay.upto : Retained(r) /\ SelectedIn(replay.keys, r)}
  IN
  /\ ReplayAt("read")
  /\ \/ ReplayDone /\ client' = Send(replay.c, S)
     \/ ReplayCancels

----------------------------------------------------------------------------
(* forward_events and resync. *)

forwardOnly == <<open, nextAuto, create, progress, announced, asks>>

(* Mutant of Gap: a hole in the revisions goes unnoticed. *)
NoGapMutant(r) == FALSE

(* Revisions r - 1 and back to lastRev never came. *)
Gap(r) == r > lastRev + 1

Receive ==
  /\ open = "running" /\ forward = None
  /\ IF lagged
     THEN lagged' = FALSE /\ forward' = Resync /\ UNCHANGED <<queue, lastRev>>
     ELSE LET r == Head(queue)
          IN /\ queue # <<>>
             /\ queue' = Tail(queue)
             /\ forward' = IF Gap(r) THEN Resync ELSE r
             /\ lastRev' = IF Gap(r) \/ r < lastRev THEN lastRev ELSE r
             /\ UNCHANGED lagged
  /\ UNCHANGED <<log, current, compact, purged, unsent, installs, compactions>>
  /\ UNCHANGED <<forwardOnly, lock, watchers, replay, todo, failed, upto, client>>

(* A batch, for each watcher whose cursor it has not passed. *)
Deliver ==
  LET r == forward
      due == {id \in DOMAIN watchers : watchers[id].next <= r}
      to == {watchers[id].c : id \in {i \in due : SelectedIn(watchers[i].keys, r)}}
  IN
  /\ forward \notin {None, Resync} /\ lock = None
  /\ forward' = None
  /\ watchers' = [id \in DOMAIN watchers |->
                   IF id \in due THEN [watchers[id] EXCEPT !.next = r + 1] ELSE watchers[id]]
  /\ client' = [c \in Clients |->
                 IF c \in to THEN [client[c] EXCEPT !.got = Append(@, r)] ELSE client[c]]
  /\ UNCHANGED <<storeVars, forwardOnly, lastRev, lock, replay, todo, failed, upto>>

Behind(n) == {id \in DOMAIN watchers : watchers[id].next <= n}

StartResync ==
  /\ forward = Resync /\ lock = None
  /\ lock' = "resync"
  /\ upto' = current
  /\ todo' = Behind(current)
  /\ UNCHANGED <<storeVars, forwardOnly, forward, lastRev, watchers, replay, failed, client>>

ResyncWatcher(id) ==
  /\ lock = "resync" /\ replay = None
  /\ id \in todo
  /\ replay' = Replay(id, watchers[id].c, watchers[id].keys, watchers[id].next, upto)
  /\ UNCHANGED <<storeVars, forwardOnly, forward, lastRev, lock, watchers, todo, failed, upto, client>>

Removed(ids) == [id \in DOMAIN watchers \ ids |-> watchers[id]]

Cancelled(ids) ==
  [c \in Clients |-> IF \E id \in ids : watchers[id].c = c
                     THEN [client[c] EXCEPT !.st = "cancelled"] ELSE client[c]]

EndResync ==
  /\ lock = "resync" /\ replay = None
  /\ todo = {}
  /\ watchers' = Removed(failed)
  /\ client' = Cancelled(failed)
  /\ failed' = {}
  /\ lastRev' = IF upto > lastRev THEN upto ELSE lastRev
  /\ lock' = None /\ forward' = None /\ upto' = 0
  /\ UNCHANGED <<storeVars, forwardOnly, replay, todo>>

----------------------------------------------------------------------------
(* handle_cancel; handle_progress and the progress ticker. *)

handlerOnly == <<open, forward, lastRev, nextAuto, create, replay, todo, failed, upto>>

Cancel(id) ==
  /\ lock = None
  /\ id \in DOMAIN watchers
  /\ watchers' = Removed({id})
  /\ client' = Cancelled({id})
  /\ UNCHANGED <<storeVars, handlerOnly, lock, progress, announced, asks>>

(* The stream lock is released before the revision is read and sent. *)
StartProgress ==
  /\ lock = None /\ progress = None
  /\ DOMAIN watchers # {}
  /\ asks < MaxProgress /\ asks' = asks + 1
  /\ progress' = Asked
  /\ UNCHANGED <<storeVars, handlerOnly, lock, watchers, announced, client>>

ReadProgress ==
  /\ progress = Asked
  /\ progress' = current
  /\ UNCHANGED <<storeVars, handlerOnly, lock, watchers, announced, client, asks>>

SendProgress ==
  /\ progress \notin {None, Asked}
  /\ progress' = None
  /\ announced' = progress
  /\ UNCHANGED <<storeVars, handlerOnly, lock, watchers, client, asks>>

----------------------------------------------------------------------------
Next ==
  \/ \E n \in 1..2 : \E es \in Events(n) : Commit(es)
  \/ \E es \in Events(1), m \in 0..MaxRev : InstallTables(es, m)
  \/ InstallPublish
  \/ Broadcast
  \/ \E m \in 1..MaxRev : CompactRefuse(m)
  \/ CompactPurge
  \/ Subscribe \/ SubscribedAt
  \/ \E c \in Clients, K \in SUBSET Keys \ {{}}, start \in 0..MaxRev, id \in {0} \cup ClientIds :
       StartCreate(c, K, start, id)
  \/ CreateCheck
  \/ ReplayCompact \/ ReplayRevs \/ ReplayRead
  \/ Receive \/ Deliver
  \/ StartResync \/ EndResync
  \/ \E id \in todo : ResyncWatcher(id)
  \/ \E id \in DOMAIN watchers : Cancel(id)
  \/ StartProgress \/ ReadProgress \/ SendProgress

Spec == Init /\ [][Next]_vars

(* The store finishes a commit or compaction it began; the stream's tasks  *)
(* run.  Nobody has to commit, compact, create or cancel.                  *)
FairSpec ==
  /\ Spec
  /\ WF_vars(Broadcast) /\ WF_vars(CompactPurge) /\ WF_vars(InstallPublish)
  /\ WF_vars(CreateCheck)
  /\ WF_vars(ReplayCompact) /\ WF_vars(ReplayRevs) /\ WF_vars(ReplayRead)
  /\ WF_vars(Receive) /\ WF_vars(Deliver)
  /\ WF_vars(StartResync) /\ WF_vars(EndResync)
  /\ WF_vars(\E id \in todo : ResyncWatcher(id))

----------------------------------------------------------------------------
(* Every variable has its type, the channel holds at most its capacity,    *)
(* and a replay or a resync runs only under the stream lock.               *)
TypeOK ==
  /\ log \in Seq([key : Keys, del : BOOLEAN]) /\ Len(log) >= current
  /\ current \in 0..MaxRev /\ compact \in 0..current /\ purged \in 0..Len(log)
  /\ Len(queue) <= Capacity /\ lagged \in BOOLEAN
  /\ \A i \in DOMAIN queue : queue[i] \in 1..current
  /\ lastRev \in 0..current /\ upto \in 0..current
  /\ lock \in {None, "create", "resync"}
  /\ (create # None) = (lock = "create")
  /\ replay # None => lock # None
  /\ (todo # {} \/ failed # {}) => lock = "resync"
  /\ todo \cup failed \subseteq DOMAIN watchers
  /\ \A id \in DOMAIN watchers : watchers[id].c \in Clients
  /\ announced \in 0..current


Wanted(id) ==
  LET w == watchers[id]
  IN {r \in client[w.c].start..(w.next - 1) : r <= current /\ SelectedIn(w.keys, r)}

Got(id) == {client[watchers[id].c].got[i] : i \in DOMAIN client[watchers[id].c].got}

(* A watcher is sent nothing it did not ask for, each event once, in the   *)
(* order of the revisions, through every hand-over between replays, the    *)
(* broadcast and resyncs.                                                  *)
InOrderOnce ==
  \A id \in DOMAIN watchers :
    LET got == client[watchers[id].c].got
    IN /\ \A i, j \in DOMAIN got : i < j => got[i] < got[j]
       /\ Got(id) \subseteq Wanted(id)

(* A watcher whose cursor has passed an event it asked for was sent it,    *)
(* however commits, lag, installs and resyncs interleave: only a           *)
(* compaction can take one away.                                           *)
OnlyCompactedMissed ==
  \A id \in DOMAIN watchers : \A r \in Wanted(id) \ Got(id) : r <= compact \/ r <= purged

(* No stream skips a broadcast batch: what the forwarder has accounted     *)
(* for, every settled watcher's cursor has passed.                         *)
ForwarderAccounts ==
  forward = None /\ open = "running" =>
    \A id \in DOMAIN watchers : watchers[id].next > lastRev

(* A revision reaches every open watcher's cursor, or the watch ends. *)
CaughtUp ==
  \A c \in Clients : \A r \in 1..MaxRev :
    ~<>[](/\ current >= r /\ client[c].st = "created"
          /\ \A id \in DOMAIN watchers : watchers[id].c = c => watchers[id].next <= r)

(* A stream under overflow, compaction and install: events in order and    *)
(* once, every batch accounted for, and only what a compaction took is     *)
(* missed (serve_watch, forward, resync).                                  *)
StreamRight == TypeOK /\ InOrderOnce /\ ForwarderAccounts /\ OnlyCompactedMissed

----------------------------------------------------------------------------
(* What the documents say. *)

(* "A watch never silently skips a revision in its range." *)
NeverSkips == \A id \in DOMAIN watchers : Wanted(id) = Got(id)
=============================================================================
