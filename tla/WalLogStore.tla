---------------------------- MODULE WalLogStore -----------------------------
(***************************************************************************)
(* The raft log over the write-ahead log (raft/wal_log_store.rs): the      *)
(* memory image openraft reads, the channel to the writer thread, the      *)
(* writer that groups commands under one fsync, the checkpointer that      *)
(* makes the data file durable, and a crash.  The write-ahead log itself   *)
(* is AbstractWal, which RaftWal implements; the data file is the index    *)
(* it has applied, in RAM (`applied') and on disk (`durable').  openraft   *)
(* is modelled by the calls it makes.  Deleting segments and the copy of   *)
(* the vote and the purge in the data file change nothing here.            *)
(***************************************************************************)
EXTENDS AbstractWal, FiniteSets, Sequences, SequencesExt

CONSTANTS
  MaxGroup,       \* commands the writer takes at once (4096 in the code)
  MaxChan,        \* bound: commands waiting in the channel
  Budgets         \* bounds: how often each call, crash or failure may happen

VARIABLES
  entries,        \* State.entries: the log as openraft reads it
  lastPurged, pending,        \* State.last_purged, pending_purge
  vote, committed,            \* State.vote, State.committed
  lastDurable,    \* LogProgress.last_durable
  chan,           \* commands sent to the writer
  group, left,    \* the commands it took, and the records of them still to write
  flushed,        \* the group needs no sync, or has had it
  failed,         \* a write or a sync has failed
  core,           \* openraft's core: what it waits for
  ck,             \* the checkpointer
  smq,            \* what the state machine's worker was sent
  applied, durable,   \* the data file's last applied index: in RAM, on disk
  acked,          \* history: the entries openraft was told are durable
  begun,          \* history: the highest snapshot whose install was begun
  calls           \* how often each bounded call was made, and may be

logVars == <<entries, lastPurged, pending, vote, committed, lastDurable>>
writerVars == <<group, left, flushed, failed>>
dataVars == <<smq, applied, durable>>
vars == <<now, may, logVars, chan, writerVars, core, ck, dataVars, acked, begun, calls>>

NoEntries == [i \in {} |-> 0]

(* The last index of a log: its last entry, or what was purged. *)
LastIndex(es, purged) == Max(DOMAIN es \cup {purged})

Running == [pc |-> "run", arg |-> 0]

Idle == [pc |-> "idle", target |-> 0, purge |-> 0]

Calls == {"append", "vote", "truncate", "purge", "install", "loss", "kill", "failure"}

Counted(c) == calls[c].made < calls[c].most /\ calls' = [calls EXCEPT ![c].made = @ + 1]

Init ==
  /\ WalInit
  /\ entries = NoEntries /\ lastPurged = 0 /\ pending = 0
  /\ vote = 0 /\ committed = 0 /\ lastDurable = 0
  /\ chan = <<>> /\ group = <<>> /\ left = <<>> /\ flushed = FALSE /\ failed = FALSE
  /\ core = Running /\ ck = Idle
  /\ smq = <<>> /\ applied = 0 /\ durable = 0
  /\ acked = NoEntries /\ begun = 0
  /\ \E b \in Budgets : calls = [c \in Calls |-> [made |-> 0, most |-> b[c]]]

----------------------------------------------------------------------------
(* The calls openraft makes. *)

Cmd(recs, sync, done) == [recs |-> recs, sync |-> sync, done |-> done]

(* WalLogStore::send. *)
SendCmd(cmd) == Len(chan) < MaxChan /\ chan' = Append(chan, cmd)

(* What openraft holds committed: everything it has sent to be applied. *)
CommittedTo == IF smq = <<>> THEN applied ELSE Last(smq).upto

(* An entry is known by its term.  A log is truncated for a leader of a    *)
(* later term, so what replaces an entry differs from it.                  *)
Term == 1 + calls["truncate"].made

(* append: readable at once, answered after its fsync.  A leader does not  *)
(* wait for that answer.                                                   *)
AppendEntries(n) ==
  LET i == LastIndex(entries, lastPurged) + 1
      new == i..(i + n - 1)
  IN
  /\ core = Running /\ new \subseteq Index /\ Term \in Val
  /\ Counted("append")
  /\ entries' = [j \in DOMAIN BelowIndex(entries, i) \cup new |-> IF j \in new THEN Term ELSE entries[j]]
  /\ SendCmd(Cmd([k \in 1..n |-> EntryRec(i + k - 1, Term)], TRUE, "append"))
  /\ UNCHANGED <<now, may, lastPurged, pending, vote, committed, lastDurable, writerVars, core, ck,
                 dataVars, acked, begun>>

(* Mutant of CallTruncate: the record names the first index removed as the *)
(* last one kept.                                                          *)
TruncateAfterMutant(i) ==
  /\ core = Running /\ i \in DOMAIN entries /\ i > CommittedTo
  /\ Counted("truncate")
  /\ entries' = BelowIndex(entries, i)
  /\ acked' = BelowIndex(acked, i)
  /\ SendCmd(Cmd(<<TruncateRec(i + 1)>>, TRUE, "core"))
  /\ core' = [pc |-> "truncate", arg |-> i]
  /\ UNCHANGED <<now, may, lastPurged, pending, vote, committed, lastDurable, writerVars, ck, dataVars, begun>>

(* truncate: only what is not committed. *)
CallTruncate(i) ==
  /\ core = Running /\ i \in DOMAIN entries /\ i > CommittedTo
  /\ Counted("truncate")
  /\ entries' = BelowIndex(entries, i)
  /\ acked' = BelowIndex(acked, i)
  /\ SendCmd(Cmd(<<TruncateRec(i)>>, TRUE, "core"))
  /\ core' = [pc |-> "truncate", arg |-> i]
  /\ UNCHANGED <<now, may, lastPurged, pending, vote, committed, lastDurable, writerVars, ck, dataVars, begun>>

(* save_vote: of a vote above the last; the next one stands for any. *)
CallSaveVote ==
  LET v == vote + 1 IN
  /\ core = Running /\ v \in Val
  /\ Counted("vote")
  /\ SendCmd(Cmd(<<VoteRec(v)>>, TRUE, "core"))
  /\ core' = [pc |-> "vote", arg |-> v]
  /\ UNCHANGED <<now, may, logVars, writerVars, ck, dataVars, acked, begun>>

(* save_committed, not synced; openraft then sends the entries to apply. *)
SaveCommitted(i) ==
  /\ core = Running /\ i \in DOMAIN entries /\ i > CommittedTo
  /\ committed' = i
  /\ SendCmd(Cmd(<<CommittedRec(i)>>, FALSE, "none"))
  /\ smq' = Append(smq, [kind |-> "apply", upto |-> i])
  /\ UNCHANGED <<now, may, entries, lastPurged, pending, vote, lastDurable, writerVars, core, ck,
                 applied, durable, acked, begun, calls>>

(* A snapshot past what is committed: its install is sent to the state     *)
(* machine's worker, and the purge up to it is called without waiting.     *)
BeginInstall(s) ==
  /\ core = Running /\ s \in Index /\ s > CommittedTo
  /\ Counted("install")
  /\ smq' = Append(smq, [kind |-> "install", upto |-> s])
  /\ core' = [pc |-> "purgeTo", arg |-> s]
  /\ begun' = s
  /\ UNCHANGED <<now, may, logVars, chan, writerVars, ck, applied, durable, acked>>

(* purge, up to the end of its critical section. *)
PurgeMemory(i) ==
  /\ entries' = AboveIndex(entries, i)
  /\ acked' = AboveIndex(acked, i)
  /\ lastPurged' = Max({lastPurged, i})
  /\ pending' = Max({pending, i})
  /\ core' = IF LastIndex(entries, lastPurged) < i THEN [pc |-> "hole", arg |-> i] ELSE Running
  /\ UNCHANGED <<now, may, vote, committed, lastDurable, chan, writerVars, ck, dataVars, begun>>

(* After a snapshot of its own, openraft purges entries it has applied. *)
CallPurge(i) ==
  /\ core = Running /\ i \in DOMAIN entries /\ i <= applied
  /\ Counted("purge")
  /\ PurgeMemory(i)

PurgeToSnapshot == core.pc = "purgeTo" /\ PurgeMemory(core.arg) /\ UNCHANGED calls

(* A purge past the last entry: the data file is synced, then the purge. *)
SyncForHole ==
  /\ core.pc = "hole"
  /\ durable' = applied
  /\ SendCmd(Cmd(<<PurgeRec(core.arg)>>, TRUE, "core"))
  /\ core' = [core EXCEPT !.pc = "purge"]
  /\ UNCHANGED <<now, may, logVars, writerVars, ck, smq, applied, acked, begun, calls>>

(* The end of complete_purge. *)
PurgeRecorded(p) == pending' = IF pending <= p THEN 0 ELSE pending

(* The call openraft waited for has been answered. *)
CoreResumes ==
  /\ core.pc \in {"truncated", "voted", "purged"}
  /\ lastDurable' = IF core.pc = "truncated" THEN Min({lastDurable, core.arg - 1}) ELSE lastDurable
  /\ vote' = IF core.pc = "voted" THEN core.arg ELSE vote
  /\ IF core.pc = "purged" THEN PurgeRecorded(core.arg) ELSE UNCHANGED pending
  /\ core' = Running
  /\ UNCHANGED <<now, may, entries, lastPurged, committed, chan, writerVars, ck, dataVars, acked, begun, calls>>

----------------------------------------------------------------------------
(* The writer thread. *)

AllRecs(cmds) ==
  LET upto[k \in 0..Len(cmds)] == IF k = 0 THEN <<>> ELSE upto[k - 1] \o cmds[k].recs
  IN upto[Len(cmds)]

(* Mutant of SomeSync: the last command of the group decides. *)
LastSyncMutant(cmds) == Last(cmds).sync

SomeSync(cmds) == \E k \in DOMAIN cmds : cmds[k].sync

(* "Once a write fails, every later one fails too." *)
Taken(cmds) == IF failed THEN <<>> ELSE AllRecs(cmds)

TakeGroup ==
  LET n == Min({Len(chan), MaxGroup})
  IN
  /\ group = <<>> /\ chan # <<>>
  /\ group' = SubSeq(chan, 1, n)
  /\ chan' = SubSeq(chan, n + 1, Len(chan))
  /\ left' = Taken(group')
  /\ flushed' = (failed \/ ~SomeSync(group'))
  /\ UNCHANGED <<now, may, logVars, failed, core, ck, dataVars, acked, begun, calls>>

WriteRecord(rolled) ==
  /\ left # <<>>
  /\ WalWrite(Head(left), rolled)
  /\ left' = Tail(left)
  /\ UNCHANGED <<logVars, chan, group, flushed, failed, core, ck, dataVars, acked, begun, calls>>

(* Wal::append fails: the rest of the group is not written. *)
WriteFails ==
  /\ left # <<>>
  /\ Counted("failure")
  /\ left' = <<>> /\ flushed' = TRUE /\ failed' = TRUE
  /\ UNCHANGED <<now, may, logVars, chan, group, core, ck, dataVars, acked, begun>>

SyncGroup ==
  /\ group # <<>> /\ left = <<>> /\ ~flushed
  /\ WalSync
  /\ flushed' = TRUE
  /\ UNCHANGED <<logVars, chan, group, left, failed, core, ck, dataVars, acked, begun, calls>>

SyncFails ==
  /\ group # <<>> /\ left = <<>> /\ ~flushed
  /\ Counted("failure")
  /\ flushed' = TRUE /\ failed' = TRUE
  /\ UNCHANGED <<now, may, logVars, chan, group, left, core, ck, dataVars, acked, begun>>

Appended(cmds) ==
  UNION {ToSet(cmds[k].recs) : k \in {j \in DOMAIN cmds : cmds[j].done = "append"}}

(* The entries of the group's appends that are still in the log. *)
Answered(cmds) ==
  {r.index : r \in {q \in Appended(cmds) : q.index \in DOMAIN entries /\ entries[q.index] = q.val}}

Woken(pc) ==
  CASE pc = "truncate" -> "truncated" [] pc = "vote" -> "voted" [] pc = "purge" -> "purged" [] OTHER -> pc

(* The group's commands are answered. *)
AnswerGroup ==
  LET dones == {group[k].done : k \in DOMAIN group}
  IN
  /\ group # <<>> /\ left = <<>> /\ flushed
  /\ group' = <<>> /\ flushed' = FALSE
  /\ IF failed
     THEN /\ core' = IF dones \cap {"append", "core"} # {} THEN [core EXCEPT !.pc = "dead"] ELSE core
          /\ ck' = IF "ckpt" \in dones THEN Idle ELSE ck
          /\ UNCHANGED <<lastDurable, acked>>
     ELSE /\ lastDurable' = Max({lastDurable} \cup {r.index : r \in Appended(group)})
          /\ acked' = [i \in DOMAIN acked \cup Answered(group) |-> entries[i]]
          /\ core' = IF "core" \in dones THEN [core EXCEPT !.pc = Woken(@)] ELSE core
          /\ ck' = IF "ckpt" \in dones THEN [ck EXCEPT !.pc = "recorded"] ELSE ck
  /\ UNCHANGED <<now, may, entries, lastPurged, pending, vote, committed, chan, left, failed,
                 dataVars, begun, calls>>

----------------------------------------------------------------------------
(* The state machine's worker, the checkpointer. *)

(* LogProgress::wait_durable. *)
MayApply(i) == lastDurable >= i

(* The entry came with the command, but at a restart it is read back. *)
Apply ==
  /\ smq # <<>> /\ Head(smq).kind = "apply" /\ MayApply(applied + 1)
  /\ core.pc = "restart" => applied + 1 \in DOMAIN entries
  /\ applied' = applied + 1
  /\ smq' = IF applied' = Head(smq).upto THEN Tail(smq) ELSE smq
  /\ UNCHANGED <<now, may, logVars, chan, writerVars, core, ck, durable, acked, begun, calls>>

(* install_snapshot: one durable commit. *)
Install ==
  /\ smq # <<>> /\ Head(smq).kind = "install"
  /\ applied' = Head(smq).upto /\ durable' = applied'
  /\ smq' = Tail(smq)
  /\ UNCHANGED <<now, may, logVars, chan, writerVars, core, ck, acked, begun, calls>>

(* A round is skipped if there is nothing to do. *)
CkptRead ==
  /\ ck = Idle
  /\ applied # durable \/ pending # 0
  /\ ck' = [pc |-> "sync", target |-> applied, purge |-> pending]
  /\ UNCHANGED <<now, may, logVars, chan, writerVars, core, dataVars, acked, begun, calls>>

(* The data file is synced; a purge it covers is then recorded. *)
CkptSync ==
  /\ ck.pc = "sync"
  /\ durable' = applied
  /\ IF ck.purge # 0 /\ ck.purge <= ck.target
     THEN /\ SendCmd(Cmd(<<PurgeRec(ck.purge)>>, TRUE, "ckpt"))
          /\ ck' = [ck EXCEPT !.pc = "record"]
     ELSE ck' = Idle /\ UNCHANGED chan
  /\ UNCHANGED <<now, may, logVars, writerVars, core, smq, applied, acked, begun, calls>>

CkptRecorded ==
  /\ ck.pc = "recorded"
  /\ PurgeRecorded(ck.purge)
  /\ ck' = Idle
  /\ UNCHANGED <<now, may, entries, lastPurged, vote, committed, lastDurable, chan, writerVars, core,
                 dataVars, acked, begun, calls>>

----------------------------------------------------------------------------
(* A crash, WalLogStore::open and openraft's start. *)

(* The memory image is what the log says (c); all of it counts as durable. *)
Open(c) ==
  /\ entries' = c.entries /\ lastPurged' = c.purge /\ pending' = 0
  /\ vote' = c.vote /\ committed' = c.committed
  /\ lastDurable' = LastIndex(c.entries, c.purge)
  /\ acked' = c.entries
  /\ chan' = <<>> /\ group' = <<>> /\ left' = <<>> /\ flushed' = FALSE /\ failed' = FALSE
  /\ core' = [pc |-> "restart", arg |-> 0] /\ ck' = Idle
  /\ smq' = IF c.committed > durable THEN <<[kind |-> "apply", upto |-> c.committed]>> ELSE <<>>
  /\ applied' = durable
  /\ UNCHANGED <<durable, begun>>

PowerLoss ==
  /\ Counted("loss")
  /\ \E c \in may : now' = c /\ may' = {c} /\ Open(c)

(* The process dies and the machine does not. *)
Kill ==
  /\ Counted("kill")
  /\ Open(now)
  /\ UNCHANGED <<now, may>>

(* Once the committed entries are applied again, a log that ends before    *)
(* the state machine is purged up to it.                                   *)
Started ==
  /\ core.pc = "restart" /\ smq = <<>>
  /\ UNCHANGED calls
  /\ IF LastIndex(entries, lastPurged) < applied
     THEN PurgeMemory(applied)
     ELSE /\ core' = Running
          /\ UNCHANGED <<now, may, logVars, chan, writerVars, ck, dataVars, acked, begun>>

----------------------------------------------------------------------------
Next ==
  \/ \E n \in 1..2 : AppendEntries(n)
  \/ \E i \in Index : CallTruncate(i) \/ SaveCommitted(i) \/ BeginInstall(i) \/ CallPurge(i)
  \/ CallSaveVote
  \/ PurgeToSnapshot
  \/ SyncForHole
  \/ CoreResumes
  \/ TakeGroup
  \/ \E rolled \in BOOLEAN : WriteRecord(rolled)
  \/ WriteFails
  \/ SyncGroup
  \/ SyncFails
  \/ AnswerGroup
  \/ Apply
  \/ Install
  \/ CkptRead
  \/ CkptSync
  \/ CkptRecorded
  \/ PowerLoss
  \/ Kill
  \/ Started

Spec == Init /\ [][Next]_vars

----------------------------------------------------------------------------
(* Types; the writer and the checkpointer are where the code can be, and   *)
(* the data file on disk is never ahead of RAM.                            *)
TypeOK ==
  /\ now \in Contents /\ may \subseteq Contents /\ now \in may
  /\ DOMAIN entries \subseteq Index
  /\ pending <= lastPurged
  /\ durable <= applied
  /\ group = <<>> => left = <<>> /\ ~flushed
  /\ core.pc \in {"run", "truncate", "truncated", "vote", "voted", "purgeTo", "hole", "purge", "purged",
                  "restart", "dead"}
  /\ ck.pc \in {"idle", "sync", "record", "recorded"}

(* A kill makes unsynced entries count as durable (Open); an install       *)
(* purges early (BeginInstall).  Some properties hold only without one.    *)
NeverKilled == calls["kill"].made = 0
NeverInstalled == begun = 0

(* "Nothing acknowledged is lost": whatever a power failure leaves holds   *)
(* every entry reported durable that was not truncated or purged since,    *)
(* and no older a vote than the one save_vote returned for.                *)
AckedSurvives ==
  NeverKilled =>
    \A c \in may :
      /\ \A i \in DOMAIN acked : i \in DOMAIN c.entries /\ c.entries[i] = acked[i]
      /\ c.vote >= vote

(* The state machine waits "so nothing is applied, and checkpointed into   *)
(* the data file, that this member's log could lose in a crash"; only a    *)
(* snapshot brings more than the log has.                                  *)
AppliedIsLogged ==
  NeverKilled => \A c \in may : durable <= LastIndex(c.entries, c.purge) \/ durable <= begun

(* "The WAL never drops an entry redb could still need": from any crash,   *)
(* the entries between the data file and the committed id are in the log.  *)
RestartReplays == NeverInstalled => \A c \in may : (durable + 1)..c.committed \subseteq DOMAIN c.entries

(* "a gap in the log must never be followed by an entry": what a crash     *)
(* leaves is a purge and the entries right after it.                       *)
NoHole == NeverInstalled => \A c \in may : DOMAIN c.entries = (c.purge + 1)..LastIndex(c.entries, c.purge)

(* Once the writer has caught up, a restart would read the log openraft    *)
(* sees, but for entries whose purge waits for a checkpoint.               *)
MemoryIsLog ==
  chan = <<>> /\ group = <<>> /\ ~failed =>
    /\ entries = AboveIndex(now.entries, lastPurged)
    /\ now.purge <= lastPurged
    /\ committed = now.committed

(* "Make the data file durable at the snapshot, then the purge": no crash  *)
(* leaves a purge past what the data file has applied.                     *)
PurgeCovered == \A c \in may : c.purge <= durable

(* A purge is past the data file only for a snapshot whose install was     *)
(* begun.                                                                  *)
OnlyInstallsRunAhead == \A c \in may : c.purge <= durable \/ c.purge <= begun

(* Whatever a crash leaves of the log and the data file: entries and votes *)
(* acknowledged are there, and a restart can replay what the data file     *)
(* lacks (append, save_vote, wait_durable, checkpoint).                    *)
LogKept == AckedSurvives /\ AppliedIsLogged /\ RestartReplays

(* The log has no hole, is what memory says once the writer has caught up, *)
(* and is purged past the data file for a snapshot only (writer, purge,    *)
(* checkpoint).                                                            *)
LogWhole == TypeOK /\ NoHole /\ MemoryIsLog /\ OnlyInstallsRunAhead
=============================================================================
