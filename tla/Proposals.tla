------------------------------ MODULE Proposals ------------------------------
(***************************************************************************)
(* The write path of one member between a client's call and the raft log: *)
(*   - the leader's checks before a write is proposed (raft/precheck.rs);  *)
(*   - the proposer, which queues writes and proposes what queued as one   *)
(*     Batch entry, one batch in flight (raft/proposer.rs), and the gate   *)
(*     that lets it batch only once every member can read a Batch;         *)
(*   - a write forwarded to the new leader (server/state.rs, propose);     *)
(*   - a member added or promoted past the batch guard                     *)
(*     (server/batch_guard.rs, server/cluster.rs);                         *)
(*   - a leader transfer, which holds the proposer (raft/leader_transfer). *)
(* openraft is external: `log' is the log of the current leadership, of    *)
(* which this member holds all while it leads.  A caller is one write; the *)
(* writes are puts that name one lease, and a revoke of that lease.        *)
(***************************************************************************)
EXTENDS Integers, Sequences, FiniteSets, SequencesExt, FiniteSetsExt

CONSTANTS
    Callers,         \* the writes, one per caller
    Revokes,         \* the callers whose write revokes the lease; the others put with it
    Sizes,           \* their encoded sizes
    MaxBatch,        \* MAX_BATCH
    MaxBatchBytes,   \* MAX_BATCH_BYTES
    Peers,           \* the other members at the start
    Joiners,         \* the members that may be added
    Old,             \* the members older than 1.10, which cannot read a Batch
    MaxTransfers,    \* leader transfers begun
    PropScenes           \* what may happen beside the writes: sets of "join", "move",
                     \* "fault" and "revoke"

ASSUME ProposalsAssumption ==
    /\ Revokes \subseteq Callers
    /\ Sizes \in [Callers -> Nat]
    /\ MaxBatch \in Nat \ {0} /\ MaxBatchBytes \in Nat /\ MaxTransfers \in Nat
    /\ Old \subseteq Peers \cup Joiners
    /\ PropScenes \subseteq SUBSET {"join", "move", "fault", "revoke"}

VARIABLES
    call,       \* what each caller waits for, or its answer
    from,       \* the committed index when the caller's check began (0 once checked)
    pq,         \* the proposer's channel
    carry,      \* a proposal that did not fit the last batch
    ppc,        \* where the proposer's loop is: "recv", "hold", "permit"
    first,      \* the proposals it holds meanwhile
    judged,     \* the log's length when the gate was found open for `first'
    busy,       \* IN_FLIGHT: the one permit is taken
    tasks,      \* submissions spawned and not yet taken by RaftCore
    plog,        \* the raft log: writes and membership changes
    committed,
    applied,
    shownKey,   \* the membership entry that openraft's metrics show
    gate,       \* BatchGate: open, checked, and what a probe in flight asked
    leads,      \* this member is the leader
    stopped,    \* openraft has stopped on a fatal error
    joiner,     \* how far each MemberAdd or MemberPromote is
    tpc,        \* how far a leader transfer is
    tlast,      \* the last log id it looked at
    matched,    \* the log the transfer's target is known to hold
    transfers,  \* leader transfers begun
    scene       \* the member of Scenes this behaviour is about

pvars == <<call, from, pq, carry, ppc, first, judged, busy, tasks, plog, committed, applied,
           shownKey, gate, leads, stopped, joiner, tpc, tlast, matched, transfers, scene>>

queueVars == <<pq, carry, ppc, first, judged, busy, tasks>>
raftVars == <<plog, committed, applied, shownKey, leads, stopped>>
joinVars == <<joiner, scene>>
moveVars == <<tpc, tlast, matched, transfers>>

NoProbe == [key |-> 0, left |-> {}]
Out == [st |-> "out", seen |-> 0, votes |-> FALSE]

(* A log entry: the writes it carries, or the member it adds as a learner  *)
(* or makes a voter.  `permit': it holds the proposer's permit; `judged':  *)
(* the log's length when the gate let it be batched; `seen': what was      *)
(* applied when the batch guard let the member in.                         *)
Writes(ids, permit, at) ==
    [ids |-> ids, adds |-> {}, votes |-> FALSE, permit |-> permit, judged |-> at, seen |-> 0]
Adds(m, votes, seen) ==
    [ids |-> <<>>, adds |-> {m}, votes |-> votes, permit |-> FALSE, judged |-> 0, seen |-> seen]

IsBatch(e) == Len(e.ids) > 1

(* The index of the newest membership entry of the log's first n entries.  *)
Newest(n) == Max({0} \cup {i \in 1..n : plog[i].adds # {}})

MembersAt(n) == Peers \cup UNION {plog[i].adds : i \in 1..n}

(* The lease after the first n entries: granted before all of them (the    *)
(* entry 1 of Init), it is there unless a revoke is among them.            *)
LeaseAt(n) == n >= 1 /\ \A i \in 1..n : ToSet(plog[i].ids) \cap Revokes = {}

(* find: what the leader's checks see in this member's applied state.      *)
Refuses(c) == c \notin Revokes /\ ~LeaseAt(applied)

HasBatched == \E i \in 1..applied : IsBatch(plog[i])

-----------------------------------------------------------------------------
(* ServerState::propose, up to the proposer.                               *)

Enqueue(c) ==
    /\ pq' = Append(pq, c)
    /\ call' = [call EXCEPT ![c] = "queued"]
    /\ from' = [from EXCEPT ![c] = 0]

(* Called on a member that believes it leads, it checks; on another one it *)
(* goes to the proposer at once, whose client_write is then refused.       *)
Propose(c) ==
    /\ call[c] = "idle"
    /\ c \in Revokes => "revoke" \in scene
    /\ IF leads /\ Refuses(c)
       THEN /\ call' = [call EXCEPT ![c] = "barrier"]
            /\ from' = [from EXCEPT ![c] = committed]
            /\ UNCHANGED pq
       ELSE Enqueue(c)
    /\ UNCHANGED <<carry, ppc, first, judged, busy, tasks, raftVars, gate, joinVars, moveVars>>

(* The read barrier a refused write runs: it returns once everything       *)
(* committed when it began is applied, or fails when leadership is gone.   *)
CheckBarrier(c) ==
    /\ call[c] = "barrier"
    /\ \/ /\ leads /\ applied >= from[c]
          /\ call' = [call EXCEPT ![c] = "again"] /\ UNCHANGED from
       \/ /\ ~leads
          /\ call' = [call EXCEPT ![c] = "failed"] /\ from' = [from EXCEPT ![c] = 0]
    /\ UNCHANGED <<queueVars, raftVars, gate, joinVars, moveVars>>

CheckAgain(c) ==
    /\ call[c] = "again"
    /\ IF Refuses(c)
       THEN /\ call' = [call EXCEPT ![c] = "refused"]
            /\ from' = [from EXCEPT ![c] = 0]
            /\ UNCHANGED pq
       ELSE Enqueue(c)
    /\ UNCHANGED <<carry, ppc, first, judged, busy, tasks, raftVars, gate, joinVars, moveVars>>

-----------------------------------------------------------------------------
(* BatchGate.                                                              *)

(* The membership, None while a membership entry has been appended that    *)
(* metrics do not show yet.                                                *)
KeyIsShown == shownKey >= Newest(Len(plog))

GateOpen == KeyIsShown /\ gate.open /\ gate.checked = shownKey

(* is_open: open for the membership shown, or closed, and then a probe of  *)
(* its members is started unless one runs.  No member but this one: open.  *)
(* The pace of the probes (PROBE_EVERY) is left out.                       *)
Judge ==
    IF GateOpen \/ ~KeyIsShown THEN gate
    ELSE IF MembersAt(shownKey) = {} THEN [gate EXCEPT !.open = TRUE, !.checked = shownKey]
    ELSE [gate EXCEPT !.open = FALSE,
                      !.probe = IF gate.probing THEN @ ELSE [key |-> shownKey,
                                                             left |-> MembersAt(shownKey)],
                      !.probing = TRUE]

(* start_probe: a member asked answers, is older, or does not answer; the  *)
(* last answer opens the gate if the membership is still the one asked.    *)
ProbeAnswer(m) ==
    /\ gate.probing /\ m \in gate.probe.left
    /\ \E answers \in {TRUE, FALSE} :
         /\ m \in Old => ~answers
         /\ gate' =
              IF ~answers THEN [gate EXCEPT !.probing = FALSE, !.probe = NoProbe]
              ELSE IF gate.probe.left # {m} THEN [gate EXCEPT !.probe.left = @ \ {m}]
              ELSE IF KeyIsShown /\ shownKey = gate.probe.key
                   THEN [open |-> TRUE, checked |-> shownKey, probing |-> FALSE, probe |-> NoProbe]
                   ELSE [gate EXCEPT !.probing = FALSE, !.probe = NoProbe]
    /\ UNCHANGED <<call, from, queueVars, raftVars, joinVars, moveVars>>

-----------------------------------------------------------------------------
(* The proposer's loop, `run'.                                             *)

ReceiveProposal ==
    /\ ppc = "recv"
    /\ \/ carry # <<>> /\ first' = carry /\ carry' = <<>> /\ UNCHANGED pq
       \/ carry = <<>> /\ pq # <<>> /\ first' = <<Head(pq)>> /\ pq' = Tail(pq) /\ UNCHANGED carry
    /\ ppc' = "hold"
    /\ UNCHANGED <<call, from, judged, busy, tasks, raftVars, gate, joinVars, moveVars>>

Held == tpc # "none"

(* Past the hold, the gate is judged: closed, the proposal is its own      *)
(* client_write in a task of its own; open, it waits for the permit.       *)
PassHold ==
    /\ ppc = "hold" /\ ~Held
    /\ gate' = Judge
    /\ IF KeyIsShown /\ Judge.open
       THEN /\ ppc' = "permit" /\ judged' = Len(plog)
            /\ UNCHANGED <<first, tasks>>
       ELSE /\ ppc' = "recv" /\ first' = <<>> /\ judged' = 0
            /\ tasks' = tasks \cup {Writes(first, FALSE, 0)}
    /\ UNCHANGED <<call, from, pq, carry, busy, raftVars, joinVars, moveVars>>

SizeOf(ids) == MapThenSumSet(LAMBDA c : Sizes[c], ToSet(ids))

(* The longest prefix of what queued that fits with `first' in a batch.    *)
Fits(n) == /\ n + 1 <= MaxBatch
           /\ SizeOf(first \o SubSeq(pq, 1, n)) <= MaxBatchBytes

Carried(n) == IF n < Len(pq) /\ n + 1 < MaxBatch THEN <<pq[n + 1]>> ELSE <<>>

TakePermit ==
    /\ ppc = "permit" /\ ~busy
    /\ LET n == Max({0} \cup {k \in 1..Len(pq) : \A j \in 1..k : Fits(j)})
       IN  /\ tasks' = tasks \cup {Writes(first \o SubSeq(pq, 1, n), TRUE, judged)}
           /\ carry' = Carried(n)
           /\ pq' = SubSeq(pq, n + Len(Carried(n)) + 1, Len(pq))
    /\ busy' = TRUE
    /\ ppc' = "recv" /\ first' = <<>> /\ judged' = 0
    /\ UNCHANGED <<call, from, raftVars, gate, joinVars, moveVars>>

(* `submit' drops the permit after its answer, whatever the answer is.     *)
FreedBy(e) == busy /\ ~e.permit

Answered(ids, answer) == [c \in Callers |-> IF c \in ToSet(ids) THEN answer ELSE call[c]]

(* submit: client_write appends on the leader; elsewhere it is refused     *)
(* with ForwardToLeader, and with an error once openraft has stopped.      *)
Submit(t) ==
    /\ t \in tasks
    /\ tasks' = tasks \ {t}
    /\ \/ /\ leads
          /\ plog' = Append(plog, t)
          /\ call' = Answered(t.ids, "logged")
          /\ UNCHANGED busy
       \/ /\ ~leads
          /\ call' = Answered(t.ids, IF stopped THEN "failed" ELSE "forward")
          /\ busy' = FreedBy(t)
          /\ UNCHANGED plog
    /\ UNCHANGED <<from, pq, carry, ppc, first, judged, committed, applied, shownKey, leads, stopped,
                   gate, joinVars, moveVars>>

-----------------------------------------------------------------------------
(* openraft (external).                                                    *)

CommitNext ==
    /\ committed < Len(plog)
    /\ committed' = committed + 1
    /\ UNCHANGED <<call, from, queueVars, plog, applied, shownKey, leads, stopped, gate, joinVars,
                   moveVars>>

(* An entry is applied and answered: the n-th caller of a batch gets the   *)
(* n-th response, and the permit is freed.                                 *)
ApplyEntry ==
    /\ applied < committed /\ ~stopped
    /\ applied' = applied + 1
    /\ LET e == plog[applied + 1]
       IN  /\ call' = [c \in Callers |->
                         IF c \in ToSet(e.ids) /\ call[c] \in {"logged", "forwarded"} THEN "ok"
                         ELSE call[c]]
           /\ busy' = FreedBy(e)
    /\ UNCHANGED <<from, pq, carry, ppc, first, judged, tasks, plog, committed, shownKey, leads,
                   stopped, gate, joinVars, moveVars>>

PublishMembership ==
    /\ shownKey < Newest(Len(plog))
    /\ shownKey' = Newest(Len(plog))
    /\ UNCHANGED <<call, from, queueVars, plog, committed, applied, leads, stopped, gate, joinVars,
                   moveVars>>

(* Another member is elected; this one's log is cut to what that leader    *)
(* holds, which is all that was committed, and the callers whose entries   *)
(* went are told to forward.  A transfer's target holds what it was asked  *)
(* to hold.                                                                *)
Cut(k) ==
    LET gone == UNION {ToSet(plog[i].ids) : i \in (k + 1)..Len(plog)}
    IN  /\ plog' = SubSeq(plog, 1, k)
        /\ shownKey' = Newest(k)
        /\ matched' = Min({matched, k})
        /\ leads' = FALSE
        /\ call' = [c \in Callers |-> IF c \in gone /\ call[c] = "logged" THEN "forward"
                                      ELSE call[c]]
        /\ busy' = (busy /\ \A i \in (k + 1)..Len(plog) : ~plog[i].permit)

LoseLead ==
    /\ "fault" \in scene /\ leads
    /\ \E k \in committed..Len(plog) : Cut(k)
    /\ UNCHANGED <<from, pq, carry, ppc, first, judged, tasks, committed, applied, stopped, gate,
                   joinVars, tpc, tlast, transfers>>

(* openraft stops: whoever waits for it gets an error; what it appended    *)
(* may still be committed by the others.                                   *)
StopRaft ==
    /\ "fault" \in scene /\ leads
    /\ leads' = FALSE /\ stopped' = TRUE
    /\ call' = [c \in Callers |-> IF call[c] = "logged" THEN "failed" ELSE call[c]]
    /\ busy' = (busy /\ \E t \in tasks : t.permit)
    /\ UNCHANGED <<from, pq, carry, ppc, first, judged, tasks, plog, committed, applied, shownKey,
                   gate, joinVars, moveVars>>

(* ServerState::propose's forward: only a write that client_write answered *)
(* with ForwardToLeader goes to the leader, once.                          *)
ForwardAllMutant(c) == call[c] \in {"forward", "failed"}

ToForward(c) == call[c] = "forward"

Forward(c) ==
    /\ ToForward(c) /\ ~leads
    /\ \/ /\ call' = [call EXCEPT ![c] = "forwarded"]
          /\ plog' = Append(plog, Writes(<<c>>, FALSE, 0))
       \/ /\ call' = [call EXCEPT ![c] = "unavailable"]
          /\ \/ UNCHANGED plog
             \/ plog' = Append(plog, Writes(<<c>>, FALSE, 0))
    /\ UNCHANGED <<from, queueVars, committed, applied, shownKey, leads, stopped, gate, joinVars,
                   moveVars>>

-----------------------------------------------------------------------------
(* MemberAdd and MemberPromote, past the batch guard.                      *)

(* member_version: a member answers with its version, or does not answer.  *)
Answers(m) == {IF m \in Old THEN "older" ELSE "reads", "unreachable"}

(* guard_add lets a member in that does not answer yet, as a learner;      *)
(* guard_voter, and MemberAdd of a voter, need an answer.                  *)
GuardPasses(answer, votes) == ~HasBatched \/ answer = "reads" \/ (answer = "unreachable" /\ ~votes)

JoinCheck(m, votes) ==
    /\ "join" \in scene /\ leads /\ joiner[m] = Out
    /\ \E answer \in Answers(m) : GuardPasses(answer, votes)
    /\ joiner' = [joiner EXCEPT ![m] = [st |-> "checked", seen |-> applied, votes |-> votes]]
    /\ UNCHANGED <<call, from, queueVars, raftVars, gate, scene, moveVars>>

(* add_learner; MemberAdd of a voter goes on to change_membership.         *)
JoinAppend(m) ==
    /\ joiner[m].st = "checked" /\ leads
    /\ plog' = Append(plog, Adds(m, FALSE, joiner[m].seen))
    /\ joiner' = [joiner EXCEPT ![m].st = IF joiner[m].votes THEN "promoting" ELSE "learner"]
    /\ UNCHANGED <<call, from, queueVars, committed, applied, shownKey, leads, stopped, gate, scene, moveVars>>

PromoteCheck(m) ==
    /\ joiner[m].st = "learner" /\ leads
    /\ \E answer \in Answers(m) : GuardPasses(answer, TRUE)
    /\ joiner' = [joiner EXCEPT ![m] = [st |-> "promoting", seen |-> applied, votes |-> TRUE]]
    /\ UNCHANGED <<call, from, queueVars, raftVars, gate, scene, moveVars>>

Promote(m) ==
    /\ joiner[m].st = "promoting" /\ leads
    /\ plog' = Append(plog, Adds(m, TRUE, joiner[m].seen))
    /\ joiner' = [joiner EXCEPT ![m] = [Out EXCEPT !.st = "voter"]]
    /\ UNCHANGED <<call, from, queueVars, committed, applied, shownKey, leads, stopped, gate, scene, moveVars>>

-----------------------------------------------------------------------------
(* move_leader, to a voter.                                                *)

moveOnly == <<call, from, queueVars, raftVars, gate, joinVars>>

TransferBegin ==
    /\ "move" \in scene /\ tpc = "none" /\ leads /\ Peers # {} /\ transfers < MaxTransfers
    /\ tpc' = "held" /\ tlast' = 0 /\ matched' = 0
    /\ transfers' = transfers + 1
    /\ UNCHANGED moveOnly

(* Whatever ends a transfer drops the hold: the target leads, too few      *)
(* members accepted, this member is not the leader any more, time is out.  *)
KeepsHoldMutant == tpc' = "kept" /\ tlast' = 0 /\ matched' = 0

EndTransfer == tpc' = "none" /\ tlast' = 0 /\ matched' = 0

TransferLook ==
    /\ tpc = "held"
    /\ IF leads THEN tpc' = "wait" /\ tlast' = Len(plog) /\ UNCHANGED matched ELSE EndTransfer
    /\ UNCHANGED <<moveOnly, transfers>>

Replicate ==
    /\ tpc = "wait" /\ leads /\ matched < tlast
    /\ matched' = Len(plog)
    /\ UNCHANGED <<moveOnly, tpc, tlast, transfers>>

(* The target holds what was looked at: look again, for what was in        *)
(* flight when proposals were held.                                        *)
TransferAgain ==
    /\ tpc = "wait" /\ matched >= tlast
    /\ tpc' = IF Len(plog) = tlast THEN "ask" ELSE "held"
    /\ UNCHANGED <<moveOnly, tlast, matched, transfers>>

(* The voters asked, with the target and this member: a quorum must accept *)
(* before the target is asked to elect.                                    *)
TransferAsk ==
    /\ tpc = "ask"
    /\ \E accepted \in 0..(Cardinality(Peers) - 1) :
         IF leads /\ 2 * (accepted + 2) > Cardinality(Peers) + 1
         THEN tpc' = "elect" /\ UNCHANGED <<tlast, matched>>
         ELSE EndTransfer
    /\ UNCHANGED <<moveOnly, transfers>>

TransferElect ==
    /\ tpc = "elect" /\ leads
    /\ \E k \in Max({committed, tlast})..Len(plog) : Cut(k)
    /\ UNCHANGED <<from, pq, carry, ppc, first, judged, tasks, committed, applied, stopped, gate,
                   joinVars, tpc, tlast, transfers>>

TransferEnds ==
    /\ tpc # "none"
    /\ EndTransfer
    /\ UNCHANGED <<moveOnly, transfers>>

-----------------------------------------------------------------------------
(* The leader starts with one committed entry it may not have applied: the *)
(* grant of the lease.  Its gate is closed, or earlier writes opened it.   *)
PropInit ==
    /\ call = [c \in Callers |-> "idle"] /\ from = [c \in Callers |-> 0]
    /\ pq = <<>> /\ carry = <<>> /\ ppc = "recv" /\ first = <<>> /\ judged = 0
    /\ busy = FALSE /\ tasks = {}
    /\ plog = <<Writes(<<>>, FALSE, 0)>> /\ committed = 1 /\ applied = 0 /\ shownKey = 0
    /\ leads = TRUE /\ stopped = FALSE
    /\ \E open \in {FALSE, Peers \cap Old = {}} :
         gate = [open |-> open, checked |-> 0, probing |-> FALSE, probe |-> NoProbe]
    /\ joiner = [m \in Joiners |-> Out]
    /\ tpc = "none" /\ tlast = 0 /\ matched = 0 /\ transfers = 0
    /\ scene \in PropScenes

PropNext ==
    \/ \E c \in Callers : Propose(c) \/ CheckBarrier(c) \/ CheckAgain(c) \/ Forward(c)
    \/ \E m \in Peers \cup Joiners : ProbeAnswer(m)
    \/ ReceiveProposal \/ PassHold \/ TakePermit
    \/ \E t \in tasks : Submit(t)
    \/ CommitNext \/ ApplyEntry \/ PublishMembership \/ LoseLead \/ StopRaft
    \/ \E m \in Joiners, votes \in BOOLEAN : JoinCheck(m, votes)
    \/ \E m \in Joiners : JoinAppend(m) \/ PromoteCheck(m) \/ Promote(m)
    \/ TransferBegin \/ TransferLook \/ Replicate \/ TransferAgain \/ TransferAsk
    \/ TransferElect \/ TransferEnds

PropSpec == PropInit /\ [][PropNext]_pvars

(* The proposer's task, its submissions, openraft's commit and apply and   *)
(* the callers' own steps go on; a transfer ends by its deadline.          *)
PropFair ==
    /\ WF_pvars(ReceiveProposal) /\ WF_pvars(PassHold) /\ WF_pvars(TakePermit)
    /\ WF_pvars(\E t \in tasks : Submit(t))
    /\ WF_pvars(CommitNext) /\ WF_pvars(ApplyEntry)
    /\ WF_pvars(TransferEnds)
    /\ \A c \in Callers : WF_pvars(CheckBarrier(c) \/ CheckAgain(c) \/ Forward(c))

PropLive == PropSpec /\ PropFair

-----------------------------------------------------------------------------
Final == {"ok", "refused", "failed", "unavailable"}

PropTypeOK ==
    /\ \A c \in Callers : call[c] \in Final \cup {"idle", "barrier", "again", "queued", "logged",
                                                  "forward", "forwarded"}
    /\ from \in [Callers -> 0..Len(plog)]
    /\ ToSet(pq) \cup ToSet(carry) \cup ToSet(first) \subseteq Callers
    /\ Len(carry) <= 1 /\ Len(first) <= 1 /\ ppc \in {"recv", "hold", "permit"}
    /\ \A t \in tasks : Len(t.ids) \in 1..MaxBatch /\ (Len(t.ids) > 1 => SizeOf(t.ids) <= MaxBatchBytes)
    /\ applied <= committed /\ committed <= Len(plog) /\ shownKey <= Len(plog)
    /\ gate.open \in BOOLEAN /\ gate.probing \in BOOLEAN
    /\ tpc \in {"none", "held", "wait", "ask", "elect"} /\ tlast \in 0..Len(plog)
    /\ busy <=> \/ \E t \in tasks : t.permit
                \/ \E i \in (applied + 1)..Len(plog) : plog[i].permit /\ ~stopped

(* A write is in the log at most once, however it is batched, carried over *)
(* to the next batch, cut from the log with its leader and forwarded; a    *)
(* caller told it succeeded has its write applied, one told it was refused *)
(* has no write in the log (server/state.rs, propose: only ForwardToLeader *)
(* is forwarded; raft/proposer.rs, submit).                                *)
ProposedOnce ==
    \A c \in Callers :
      LET places == {i \in 1..Len(plog) : c \in ToSet(plog[i].ids)}
      IN  /\ Cardinality(places) <= 1
          /\ call[c] = "ok" => \E i \in places : i <= applied
          /\ call[c] \in {"idle", "barrier", "again", "refused", "forward", "queued"} => places = {}

(* A write the leader refuses for a missing lease is refused for a state   *)
(* that was current while the caller waited: a leader that lags what is    *)
(* committed does not refuse a live lease (raft/precheck.rs, check).       *)
RefusedRightly ==
    [][\A c \in Callers : call[c] = "again" /\ call'[c] = "refused" =>
         \E n \in from[c]..committed : ~LeaseAt(n)]_pvars

(* An older member and a batched entry it cannot read meet in the log only *)
(* when they were decided at the same time: the gate was judged before the *)
(* member's entry was appended, and a voter's guard was passed before the  *)
(* batch was applied (raft/proposer.rs BatchGate, server/batch_guard.rs).  *)
MeetOnlyInRace ==
    \A i, j \in 1..Len(plog) :
      IsBatch(plog[i]) /\ plog[j].adds \cap Old # {} =>
        /\ plog[i].judged < j
        /\ plog[j].votes => plog[j].seen < i

(* Every caller is answered: its write is not left in the queue, carried   *)
(* over, held by a leader transfer or waiting for a permit for ever        *)
(* (raft/proposer.rs, run and submit; raft/leader_transfer.rs, the hold).  *)
EveryCallAnswered ==
    \A c \in Callers : ~<>[](call[c] \notin Final \cup {"idle"})

(* Proposals, batched, carried over, forwarded, held and refused: a write  *)
(* is in the log once, a refusal is right, and a batch meets a member that *)
(* cannot read it only in a race (proposer.rs, precheck.rs,                *)
(* batch_guard.rs, state.rs).                                              *)
ProposalsRight == [](PropTypeOK /\ ProposedOnce /\ MeetOnlyInRace) /\ RefusedRightly
=============================================================================
