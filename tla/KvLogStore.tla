----------------------------- MODULE KvLogStore -----------------------------
(***************************************************************************)
(* The raft log in the engine's tables (raft/src/kv_log_store.rs): what is *)
(* visible and what a crash leaves, the LogProgress other tasks read, and  *)
(* the state machine waiting for an entry to be durable before it applies  *)
(* it. openraft makes one call at a time; a call prepares its batch, the   *)
(* engine commits it (atomically, and durably unless sync is off), and the *)
(* call returns.                                                           *)
(***************************************************************************)
EXTENDS Naturals, Sequences

CONSTANTS
  LsTerms,      \* the terms
  LsMax,        \* bound: log indexes
  MaxCrashes    \* bound: crashes

ASSUME LsAssumption == LsTerms \subseteq Nat \ {0} /\ LsMax \in Nat

VARIABLES
  tabs,     \* the tables: [log, purged, vote, committed]
  safe,     \* the tables a crash leaves
  op,       \* the call in flight: [pc, kind, next]
  prog,     \* LogProgress: [committed, durable, vote, start]
  acted,    \* the highest term of a vote openraft granted or acted on
  leading,  \* the term this member leads, or 0
  agreed,   \* the highest index known committed by a quorum
  done,     \* the highest index the state machine applied
  waiter,   \* wait_durable: [pc, woken]
  crashes

klVars == <<tabs, safe, op, prog, acted, leading, agreed, done, waiter, crashes>>

Contract == INSTANCE LogStore WITH
  lsLog <- tabs.log, lsPurged <- tabs.purged, lsVote <- tabs.vote, lsCommitted <- tabs.committed
LastOf(log) == Contract!LastOf(log)
TermAt(log, i) == Contract!TermAt(log, i)
KlLeast(a, b) == Contract!Least(a, b)

Blank == [log |-> [from |-> 0, terms |-> <<>>], purged |-> 0, vote |-> 0, committed |-> 0]
NoOp == [pc |-> "idle", kind |-> "none", next |-> Blank]
Fresh == [committed |-> 0, durable |-> 0, vote |-> 0, start |-> <<0, 0>>]
Highest(a, b) == IF a > b THEN a ELSE b

Issue(kind, next) == op.pc = "idle" /\ op' = [pc |-> "commit", kind |-> kind, next |-> next]

----------------------------------------------------------------------------
\* openraft's calls: the part before the engine's commit.

(* append: the first entry of a newer term is noted before it is written.  *)
(* A leader appends in its own term; a follower what a leader sends.       *)
StartAfter(t, i) == IF t > prog.start[1] THEN <<t, i>> ELSE prog.start

AppendEntry(t) ==
  /\ LastOf(tabs.log) < LsMax /\ t <= acted /\ (leading > 0 => t = leading)
  /\ \A i \in DOMAIN tabs.log.terms : tabs.log.terms[i] <= t
  /\ Issue("append", [tabs EXCEPT !.log.terms = Append(@, t)])
  /\ prog' = [prog EXCEPT !.start = StartAfter(t, LastOf(tabs.log) + 1)]
  /\ UNCHANGED <<tabs, safe, acted, leading, agreed, done, waiter, crashes>>

(* truncate: a follower's, of entries not committed. *)
TruncateFrom(i) ==
  /\ leading = 0 /\ i > Highest(agreed, tabs.log.from) /\ i <= LastOf(tabs.log)
  /\ Issue("truncate", [tabs EXCEPT !.log = Contract!Cut(@, i)])
  /\ UNCHANGED <<tabs, safe, prog, acted, leading, agreed, done, waiter, crashes>>

(* One batch removes the entries and records the purge point. *)
PurgeBatch(i) == [tabs EXCEPT !.log = Contract!Drop(@, i), !.purged = i]

(* purge: of entries applied. *)
PurgeTo(i) ==
  /\ i > tabs.log.from /\ i <= KlLeast(done, LastOf(tabs.log))
  /\ Issue("purge", PurgeBatch(i))
  /\ UNCHANGED <<tabs, safe, prog, acted, leading, agreed, done, waiter, crashes>>

SaveVote(t) ==
  /\ t > tabs.vote /\ Issue("vote", [tabs EXCEPT !.vote = t]) /\ leading' = 0
  /\ UNCHANGED <<tabs, safe, prog, acted, agreed, done, waiter, crashes>>

(* save_committed: noted before the commit, which is not synced. *)
SaveCommitted ==
  /\ agreed > tabs.committed /\ Issue("committed", [tabs EXCEPT !.committed = agreed])
  /\ prog' = [prog EXCEPT !.committed = Highest(@, agreed)]
  /\ UNCHANGED <<tabs, safe, acted, leading, agreed, done, waiter, crashes>>

----------------------------------------------------------------------------
\* The engine's commit, and the part after it.

(* Mutant of Synced: purges are not synced either. *)
LazyPurgeMutant(kind) == kind \notin {"committed", "purge"}

(* Only save_committed leaves sync off; a later synced commit carries it.  *)
Synced(kind) == kind # "committed"

EngineCommit ==
  /\ op.pc = "commit" /\ op' = [op EXCEPT !.pc = "return"]
  /\ tabs' = op.next /\ safe' = (IF Synced(op.kind) THEN op.next ELSE safe)
  /\ UNCHANGED <<prog, acted, leading, agreed, done, waiter, crashes>>

(* Mutant of RaisedWhen: the append raises it before its fsync. *)
EarlyMutant == "commit"

(* last_durable rises once the commit returned. *)
RaisedWhen == "return"

(* Woken by durable_changed.notify_waiters(). *)
Woken == [waiter EXCEPT !.woken = waiter.pc # "off"]

RaiseDurable ==
  /\ op.kind = "append" /\ op.pc = RaisedWhen /\ prog.durable < LastOf(op.next.log)
  /\ prog' = [prog EXCEPT !.durable = LastOf(op.next.log)] /\ waiter' = Woken
  /\ UNCHANGED <<tabs, safe, op, acted, leading, agreed, done, crashes>>

(* append returns (callback.log_io_completed). *)
AppendReturns ==
  /\ op.kind = "append" /\ op.pc = "return" /\ prog.durable >= LastOf(op.next.log) /\ op' = NoOp
  /\ UNCHANGED <<tabs, safe, prog, acted, leading, agreed, done, waiter, crashes>>

(* truncate forgets the start of a term it removed. *)
StartKept(i) == IF prog.start[2] > i THEN <<0, 0>> ELSE prog.start

TruncateReturns ==
  /\ op.kind = "truncate" /\ op.pc = "return" /\ op' = NoOp
  /\ prog' = [prog EXCEPT !.durable = KlLeast(@, LastOf(tabs.log)), !.start = StartKept(LastOf(tabs.log))]
  /\ UNCHANGED <<tabs, safe, acted, leading, agreed, done, waiter, crashes>>

(* save_vote notes the term before it returns; openraft then acts on it,   *)
(* and may be elected in it.                                               *)
VoteReturns ==
  /\ op.kind = "vote" /\ op.pc = "return" /\ op' = NoOp
  /\ prog' = [prog EXCEPT !.vote = Highest(@, op.next.vote)] /\ acted' = op.next.vote
  /\ leading' \in {0, op.next.vote}
  /\ UNCHANGED <<tabs, safe, agreed, done, waiter, crashes>>

OtherReturns ==
  /\ op.kind \in {"purge", "committed"} /\ op.pc = "return" /\ op' = NoOp
  /\ UNCHANGED <<tabs, safe, prog, acted, leading, agreed, done, waiter, crashes>>

----------------------------------------------------------------------------
\* A quorum commits, possibly before this member's own fsync; the state
\* machine applies what is committed once it is durable here.

(* The newest entry of a leader's term that it has or is writing. *)
QuorumCommits ==
  LET log == IF op.kind = "append" THEN op.next.log ELSE tabs.log IN
  /\ agreed < LastOf(log) /\ (leading > 0 => TermAt(log, LastOf(log)) = leading)
  /\ op.kind # "truncate" /\ agreed' = LastOf(log)
  /\ UNCHANGED <<tabs, safe, op, prog, acted, leading, done, waiter, crashes>>

(* wait_durable: register, then look, then sleep until woken. *)
WaitRegister ==
  /\ waiter.pc = "off" /\ done < agreed /\ waiter' = [pc |-> "look", woken |-> FALSE]
  /\ UNCHANGED <<tabs, safe, op, prog, acted, leading, agreed, done, crashes>>

(* Mutant of WokenSince: a wake-up before the look is not kept. *)
LateRegisterMutant == FALSE

(* enable() before the look: a wake-up since is kept. *)
WokenSince == waiter.woken

WaitLook ==
  /\ waiter.pc = "look"
  /\ \/ /\ prog.durable > done /\ done' = done + 1 /\ waiter' = [pc |-> "off", woken |-> FALSE]
     \/ /\ prog.durable <= done /\ waiter' = [pc |-> "decide", woken |-> waiter.woken] /\ UNCHANGED done
  /\ UNCHANGED <<tabs, safe, op, prog, acted, leading, agreed, crashes>>

WaitSleep ==
  /\ waiter.pc = "decide" /\ waiter' = [pc |-> "sleep", woken |-> WokenSince]
  /\ UNCHANGED <<tabs, safe, op, prog, acted, leading, agreed, done, crashes>>

WaitWake ==
  /\ waiter.pc = "sleep" /\ waiter.woken /\ waiter' = [pc |-> "look", woken |-> FALSE]
  /\ UNCHANGED <<tabs, safe, op, prog, acted, leading, agreed, done, crashes>>

----------------------------------------------------------------------------
\* Crash and restart.

(* read_vote notes what it reads. *)
BootVote(t) == t

(* The process dies: the engine's tables are what was made durable, or the *)
(* commit in flight too; read_vote, read_committed and get_log_state then  *)
(* fill LogProgress again. What the state machine applied is durable with  *)
(* it (checkpoints) or is applied again.                                   *)
CrashRestart ==
  /\ crashes < MaxCrashes /\ crashes' = crashes + 1
  /\ \E t \in {safe} \cup {tabs} \cup (IF op.pc = "commit" THEN {op.next} ELSE {}) :
       /\ tabs' = t /\ safe' = t
       /\ prog' = [committed |-> t.committed, durable |-> LastOf(t.log), vote |-> BootVote(t.vote), start |-> <<0, 0>>]
       /\ agreed' = Highest(done, KlLeast(agreed, LastOf(t.log)))
  /\ op' = NoOp /\ leading' = 0 /\ waiter' = [pc |-> "off", woken |-> FALSE]
  /\ UNCHANGED <<acted, done>>

----------------------------------------------------------------------------
KlInit ==
  /\ tabs = Blank /\ safe = Blank /\ op = NoOp /\ prog = Fresh /\ acted = 0 /\ leading = 0
  /\ agreed = 0 /\ done = 0 /\ waiter = [pc |-> "off", woken |-> FALSE] /\ crashes = 0

CallSteps == EngineCommit \/ RaiseDurable \/ AppendReturns \/ TruncateReturns \/ VoteReturns \/ OtherReturns
WaitSteps == WaitRegister \/ WaitLook \/ WaitSleep \/ WaitWake

KlNext ==
  \/ CallSteps \/ WaitSteps \/ SaveCommitted \/ QuorumCommits \/ CrashRestart
  \/ \E t \in LsTerms : AppendEntry(t) \/ SaveVote(t)
  \/ \E i \in 1..LsMax : TruncateFrom(i) \/ PurgeTo(i)

(* A call in flight ends and the state machine's task runs; nothing is     *)
(* assumed of openraft's calls, of the quorum or of crashes.               *)
KlSafe == KlInit /\ [][KlNext]_klVars
KlSpec == KlSafe /\ WF_klVars(CallSteps) /\ WF_klVars(WaitSteps)

----------------------------------------------------------------------------
\* Properties.

(* The types; and openraft's contract: the log has no hole above what was  *)
(* purged, and its terms never fall.                                       *)
KlTypeOK ==
  /\ op.pc \in {"idle", "commit", "return"} /\ waiter.pc \in {"off", "look", "decide", "sleep"}
  /\ \A t \in {tabs, safe} : /\ t.log.from = t.purged /\ LastOf(t.log) \in 0..LsMax
                             /\ \A i, j \in DOMAIN t.log.terms : i <= j => t.log.terms[i] <= t.log.terms[j]

(* Nothing is applied that this member's log could lose in a crash, though *)
(* an entry may be committed before its own fsync returns (wait_durable).  *)
AppliedIsDurable == done <= LastOf(safe.log)

(* No vote of a higher term was granted or acted on than LogProgress says, *)
(* and none that a crash forgets, restarts included (save_vote, read_vote, *)
(* saved_vote_term).                                                       *)
VoteIsKnown == acted <= prog.vote /\ acted <= safe.vote

(* A leader's read index is never below its term's first entry: where      *)
(* term_start knows the term it leads, it names the first entry of the     *)
(* term in the log, truncations and appends of older terms included.       *)
TermStartRight ==
  leading > 0 /\ prog.start[1] = leading
    => LET log == IF op.kind = "append" THEN op.next.log ELSE tabs.log IN
       /\ prog.start[2] <= LastOf(log)
       /\ \A i \in (log.from + 1)..LastOf(log) : TermAt(log, i) = leading => prog.start[2] <= i

(* An entry that is durable and committed does not wait for ever: no       *)
(* wake-up is lost between the look and the sleep (wait_durable).          *)
DurableIsApplied == ~<>[](prog.durable > done /\ agreed > done)

(* The store implements the log store openraft expects: what is visible    *)
(* changes only by its operations, a crash included.                       *)
KlContract == Contract!LsSpec

(* What openraft and the readers of LogProgress rely on, crashes included: *)
(* a well-formed log, nothing applied or voted that a crash forgets, and   *)
(* the start of the term a leader leads (append, truncate, purge,          *)
(* save_vote, wait_durable, note_appended).                                *)
KlRight == KlTypeOK /\ AppliedIsDurable /\ VoteIsKnown /\ TermStartRight
=============================================================================
