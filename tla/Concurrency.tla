---------------------------- MODULE Concurrency ----------------------------
(***************************************************************************)
(* The Lock and Election services (server/src/concurrency.rs) on top of    *)
(* the replicated store: a txn that puts the session's key unless it is    *)
(* there, a wait for every key created before it to be deleted, and an     *)
(* observer of the oldest key. Txns act on the committed log; a read is    *)
(* linearizable and takes effect on the log committed at that moment; the  *)
(* events are this member's, which may have applied less of it: they are   *)
(* received in order or lost to lag.                                       *)
(*                                                                         *)
(* A session makes one Lock or Campaign at a time. Its key is named by its *)
(* lease, so sessions stand for keys.                                      *)
(***************************************************************************)
EXTENDS Naturals, Sequences, FiniteSets

CONSTANTS
  Sessions,     \* sessions (leases) contending for one name
  NoSession,    \* no session
  KindOf,       \* the call each session makes: "lock" or "campaign"
  EventCap,     \* capacity of the event channel
  MaxEvents,    \* bound: no key is put after this many revisions
  MaxDrops,     \* bound: clients that go away while they wait
  Scenes        \* initial cases: the leases alive, whether there is an observer,
                \* and how many of the MaxDrops may happen

ASSUME ConAssumption ==
  /\ NoSession \notin Sessions /\ MaxDrops \in Nat
  /\ \A scene \in Scenes : scene.lease \subseteq Sessions /\ scene.drops \in 0..MaxDrops

VARIABLES
  evs,        \* the committed log, an event per revision: [kind, key]
  here,       \* how much of it this member has applied
  lease,      \* the sessions whose lease is alive
  locker,       \* each session's call: [pc, rev, pos, last, readAt]
  granted,    \* the create revision each session was told it holds, or 0
  dropped,    \* abandoned calls whose undoing is still to run
  drops,
  obs         \* the observer: [pc, pos, at, leader]; in "follow", its last
              \* message named leader, who led up to revision at

conVars == <<evs, here, lease, locker, granted, dropped, drops, obs>>

Resting == [pc |-> "idle", rev |-> 0, pos |-> 0, last |-> NoSession, readAt |-> 0]
Watching == [pc |-> "sub", pos |-> 0, at |-> 0, leader |-> NoSession]

----------------------------------------------------------------------------
\* The store's state at a revision.

Touches(k, lo, hi) == {r \in lo..hi : evs[r].key = k}
NewestOf(S) == CHOOSE r \in S : \A q \in S : q <= r
OldestOf(S) == CHOOSE r \in S : \A q \in S : q >= r

(* The keys there are at a revision, and the revision each was created at. *)
There(i) == {k \in Sessions : Touches(k, 1, i) # {} /\ evs[NewestOf(Touches(k, 1, i))].kind = "put"}
LastDelete(k, i) == LET d == {r \in Touches(k, 1, i) : evs[r].kind = "delete"}
                    IN  IF d = {} THEN 0 ELSE NewestOf(d)
CreatedAt(k, i) == OldestOf(Touches(k, LastDelete(k, i) + 1, i))

(* first_create: the oldest key under the prefix. *)
FirstCreate(i) == {k \in There(i) : \A j \in There(i) : CreatedAt(k, i) <= CreatedAt(j, i)}

(* The keys created at or below a revision, and the last of them. *)
Before(rev, i) == {k \in There(i) : CreatedAt(k, i) <= rev}
LastBefore(rev, i) == CHOOSE k \in Before(rev, i) : \A j \in Before(rev, i) : CreatedAt(j, i) <= CreatedAt(k, i)

Top == Len(evs)
Put(k) == evs' = Append(evs, [kind |-> "put", key |-> k])
Delete(k) == evs' = IF k \in There(Top) THEN Append(evs, [kind |-> "delete", key |-> k]) ELSE evs
DeleteIf(k, rev) == IF k \in There(Top) /\ CreatedAt(k, Top) = rev THEN Delete(k) ELSE UNCHANGED evs
(* A key deleted is held no more. *)
Forget(k) == granted' = [granted EXCEPT ![k] = IF evs' = evs THEN @ ELSE 0]

Roomy == Top < MaxEvents

Set(s, c) == locker' = [locker EXCEPT ![s] = c]

----------------------------------------------------------------------------
\* Lock and Campaign.

(* The first txn. A Lock whose key is the oldest is granted at once; a     *)
(* Campaign always goes through wait_deletes. The put of an expired lease  *)
(* is refused.                                                             *)
Acquire(s) ==
  /\ locker[s].pc = "idle" /\ s \in lease
  /\ LET present == s \in There(Top)
         rev == IF present THEN CreatedAt(s, Top) ELSE Top + 1
         mine == FirstCreate(Top) \in {{}, {s}}
     IN  /\ IF present THEN UNCHANGED evs ELSE Roomy /\ Put(s)
         /\ IF KindOf[s] = "lock" /\ mine
            THEN granted' = [granted EXCEPT ![s] = rev] /\ UNCHANGED locker
            ELSE /\ Set(s, [Resting EXCEPT !.pc = "sub", !.rev = rev]) /\ UNCHANGED granted
  /\ UNCHANGED <<here, lease, dropped, drops, obs>>

(* Campaign with another value on a key already the session's, and         *)
(* Proclaim: a put only while the create revision is the leader's. Only    *)
(* observers see it: it is made in the cases that have one.                *)
Proclaim(s) ==
  /\ granted[s] > 0 /\ Roomy /\ s \in lease /\ obs.pc # "off"
  /\ s \in There(Top) /\ CreatedAt(s, Top) = granted[s] /\ Put(s)
  /\ UNCHANGED <<here, lease, locker, granted, dropped, drops, obs>>

(* Mutant of From: the wait takes the events from when it first looks. *)
LateMutant(s) == here

(* The event stream is the one subscribed to before the read. *)
From(s) == locker[s].pos

(* Only keys created before the session's own are waited for. *)
Bound(s) == locker[s].rev - 1

(* wait_deletes: subscribe, then read: nothing was created before, or the  *)
(* last such key is waited for.                                            *)
WaitDeletes(s) ==
  /\ locker[s].pc = "sub"
  /\ IF Before(Bound(s), Top) = {}
     THEN Set(s, [locker[s] EXCEPT !.pc = "back"])
     ELSE Set(s, [locker[s] EXCEPT !.pc = "recv", !.pos = here, !.last = LastBefore(Bound(s), Top), !.readAt = Top])
  /\ UNCHANGED <<evs, here, lease, granted, dropped, drops, obs>>

(* Mutant of Reread: the first delete ends the wait. *)
OnceMutant == "back"

(* After a delete the loop subscribes and reads again. *)
Reread == "sub"

(* waitDelete: the key's first DELETE after the read. *)
ReceiveEvent(s) ==
  /\ locker[s].pc = "recv" /\ From(s) < here /\ here - From(s) <= EventCap
  /\ LET i == From(s) + 1 IN
     IF i > locker[s].readAt /\ evs[i] = [kind |-> "delete", key |-> locker[s].last]
     THEN Set(s, [Resting EXCEPT !.pc = Reread, !.rev = locker[s].rev])
     ELSE Set(s, [locker[s] EXCEPT !.pos = i])
  /\ UNCHANGED <<evs, here, lease, granted, dropped, drops, obs>>

(* The channel overran: read again rather than miss the delete. *)
Lagged(s) ==
  /\ locker[s].pc = "recv" /\ here - From(s) > EventCap
  /\ Set(s, [Resting EXCEPT !.pc = "sub", !.rev = locker[s].rev])
  /\ UNCHANGED <<evs, here, lease, granted, dropped, drops, obs>>

(* A Lock reads its key back: gone means the session expired. A Campaign   *)
(* is answered without.                                                    *)
ReadBack(s) == KindOf[s] = "lock" => s \in There(Top)

Finish(s) ==
  /\ locker[s].pc = "back"
  /\ granted' = [granted EXCEPT ![s] = IF ReadBack(s) THEN locker[s].rev ELSE 0]
  /\ Set(s, Resting)
  /\ UNCHANGED <<evs, here, lease, dropped, drops, obs>>

(* The client goes away while its call waits: Abandon undoes it later, a   *)
(* Lock by deleting the key, a Campaign by resigning.                      *)
ClientGone(s) ==
  /\ locker[s].pc \in {"sub", "recv"} \/ (locker[s].pc = "back" /\ KindOf[s] = "lock")
  /\ drops < MaxDrops /\ drops' = drops + 1
  /\ dropped' = dropped \cup {[key |-> s, rev |-> locker[s].rev]}
  /\ Set(s, Resting)
  /\ UNCHANGED <<evs, here, lease, granted, obs>>

Undo(d) ==
  /\ d \in dropped /\ dropped' = dropped \ {d}
  /\ IF KindOf[d.key] = "lock" THEN Delete(d.key) ELSE DeleteIf(d.key, d.rev)
  /\ Forget(d.key)
  /\ UNCHANGED <<here, lease, locker, drops, obs>>

(* Unlock deletes the key; Resign only while it is the leader's. *)
Release(s) ==
  /\ granted[s] > 0 /\ locker[s].pc = "idle"
  /\ Delete(s) \/ DeleteIf(s, granted[s])
  /\ Forget(s)
  /\ UNCHANGED <<here, lease, locker, dropped, drops, obs>>

(* The lease ends: its key is deleted with it. *)
LeaseEnds(s) ==
  /\ s \in lease /\ s \in There(Top)
  /\ lease' = lease \ {s} /\ Delete(s) /\ Forget(s)
  /\ UNCHANGED <<here, locker, dropped, drops, obs>>

(* This member applies the next entry. *)
ApplyHere ==
  /\ here < Top /\ here' = here + 1
  /\ UNCHANGED <<evs, lease, locker, granted, dropped, drops, obs>>

----------------------------------------------------------------------------
\* Observe.

(* Subscribe, then read the leader, if there is one. *)
ObserveRead ==
  /\ obs.pc = "sub"
  /\ IF FirstCreate(Top) = {}
     THEN obs' = [obs EXCEPT !.pc = "first", !.pos = here, !.at = Top]
     ELSE \E k \in FirstCreate(Top) : obs' = [pc |-> "follow", pos |-> here, at |-> Top, leader |-> k]
  /\ UNCHANGED <<evs, here, lease, locker, granted, dropped, drops>>

ObserveLagged ==
  /\ obs.pc \in {"first", "follow"} /\ here - obs.pos > EventCap /\ obs' = Watching
  /\ UNCHANGED <<evs, here, lease, locker, granted, dropped, drops>>

LeaderLeft(e) == e = [kind |-> "delete", key |-> obs.leader]

(* No leader yet: the first put. Then the leader's changes until it is     *)
(* deleted; events at or before the read are skipped.                      *)
ObserveNext ==
  /\ obs.pc \in {"first", "follow"} /\ obs.pos < here /\ here - obs.pos <= EventCap
  /\ LET i == obs.pos + 1 e == evs[i] old == i <= obs.at IN
     \/ old /\ obs' = [obs EXCEPT !.pos = i]
     \/ /\ ~old /\ obs.pc = "first" /\ e.kind = "put"
        /\ obs' = [obs EXCEPT !.pc = "follow", !.pos = i, !.at = i, !.leader = e.key]
     \/ ~old /\ obs.pc = "first" /\ e.kind = "delete" /\ obs' = [obs EXCEPT !.pos = i]
     \/ ~old /\ obs.pc = "follow" /\ LeaderLeft(e) /\ obs' = Watching
     \/ ~old /\ obs.pc = "follow" /\ ~LeaderLeft(e) /\ obs' = [obs EXCEPT !.pos = i, !.at = i]
  /\ UNCHANGED <<evs, here, lease, locker, granted, dropped, drops>>

----------------------------------------------------------------------------
ConInit ==
  /\ evs = <<>> /\ here = 0 /\ locker = [s \in Sessions |-> Resting]
  /\ granted = [s \in Sessions |-> 0] /\ dropped = {}
  /\ \E scene \in Scenes : lease = scene.lease /\ drops = MaxDrops - scene.drops
                           /\ obs = [Watching EXCEPT !.pc = IF scene.observed THEN "sub" ELSE "off"]

CallStep(s) == WaitDeletes(s) \/ ReceiveEvent(s) \/ Lagged(s) \/ Finish(s)
ObserverStep == ObserveRead \/ ObserveLagged \/ ObserveNext

ConNext ==
  \/ \E s \in Sessions : \/ Acquire(s) \/ CallStep(s) \/ Proclaim(s) \/ ClientGone(s) \/ Release(s) \/ LeaseEnds(s)
  \/ \E d \in dropped : Undo(d)
  \/ ApplyHere \/ ObserverStep

(* Committed entries are applied, and tasks that can run do. Nothing is    *)
(* assumed of clients or of leases.                                        *)
ConFairness == WF_conVars(ApplyHere) /\ WF_conVars(ObserverStep) /\ \A s \in Sessions : WF_conVars(CallStep(s))

ConSafe == ConInit /\ [][ConNext]_conVars
ConSpec == ConSafe /\ ConFairness

----------------------------------------------------------------------------
\* Properties.

(* The types; and a call in flight waits for a key of another session.     *)
ConTypeOK ==
  /\ here \in 0..Top /\ lease \subseteq Sessions /\ drops \in 0..MaxDrops
  /\ \A s \in Sessions : /\ locker[s].pc \in {"idle", "sub", "recv", "back"}
                         /\ locker[s].last # s /\ granted[s] \in 0..Top

(* Mutual exclusion: two sessions never both hold, a session holding while *)
(* the key it was granted for exists. Lock and Campaign answer only when   *)
(* no key created before theirs is left, whatever was deleted, created or  *)
(* applied late in between (lock, campaign, wait_deletes).                 *)
Holds(s) == granted[s] > 0 /\ s \in There(Top) /\ CreatedAt(s, Top) = granted[s]
OneHolder == \A s, t \in Sessions : Holds(s) /\ Holds(t) => s = t

(* No call waits for ever with nobody before it: the delete it waits for   *)
(* is not missed between the subscription, the read and the events         *)
(* ("Subscribed first", wait_deletes).                                     *)
WaiterGoesOn ==
  \A s \in Sessions : ~<>[](/\ locker[s].pc # "idle"
                            /\ Before(locker[s].rev - 1, Top) = {})

(* The key an observer reports is the one that leads at the revision it    *)
(* reports: the oldest one, never one deleted and created again behind     *)
(* another (observe).                                                      *)
ObservedLed == obs.pc = "follow" => FirstCreate(obs.at) = {obs.leader}

(* Locks and elections: one holder, and an observer told of leaders only   *)
(* (lock, campaign, observe).                                              *)
LocksRight == ConTypeOK /\ OneHolder /\ ObservedLed
============================================================================
