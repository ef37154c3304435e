----------------------------- MODULE ReadIndex ------------------------------
(***************************************************************************)
(* The read barrier in front of a linearizable read (raft/read_index.rs):  *)
(* a sole voter answers from local state, a leader with other voters asks  *)
(* them for the term of the vote they saved (ConfirmLeader), reads sharing *)
(* rounds, and a read is then served once the state machine has applied    *)
(* the first index of the leader's term.                                   *)
(*                                                                         *)
(* Raft is external: votes are saved one member at a time, an entry is     *)
(* committed by a quorum that has saved no newer vote, the metrics trail   *)
(* the state, and Founder's cluster grows from one voter through a joint   *)
(* membership to all of them.                                              *)
(***************************************************************************)
EXTENDS Integers, FiniteSets, FiniteSetsExt

CONSTANTS
  Voters, Founder,
  Reads,
  NoRead,
  MaxRTerm, MaxIndex    \* bounds on elections and on the log

ASSUME ReadIndexAssumption ==
  /\ IsFiniteSet(Voters) /\ Founder \in Voters
  /\ NoRead \notin Reads
  /\ MaxRTerm \in Nat \ {0} /\ MaxIndex \in Nat \ {0}

Sole == 0
Joint == 1
Uniform == 2

RTerms == 1..MaxRTerm
NoIndex == 0

VARIABLES
  saved,         \* the term of the vote each member saved (LogProgress)
  granted,       \* the candidate whose vote of that term each member granted
  lead,          \* the term each member leads, or 0
  shownTerm, shown,   \* the same, and the membership, as the metrics show them
  config,        \* the newest membership a leader has written
  mark,          \* LogProgress.membership: raised before it is written
  start,         \* LogProgress.term_start: the index of each term's first entry, or NoIndex
  commits,       \* the index each term's leader has committed up to
  done,          \* the index each member has applied up to
  acked,         \* history: the newest write acknowledged to a client
  rounds,        \* each member's Rounds: started, and the last one's number and result
  round,         \* each member's round under way: whose, and who has confirmed
  read           \* each read

riVars == <<saved, granted, lead, shownTerm, shown, config, mark, start, commits, done, acked,
            rounds, round, read>>

riRaft == <<saved, granted, lead, shownTerm, shown, config, mark, start, commits, done, acked>>

Majority(S) == 2 * Cardinality(S) > Cardinality(Voters)
IsQuorum(c, S) == (c \in {Sole, Joint} => Founder \in S) /\ (c \in {Joint, Uniform} => Majority(S))
Committed(t) == Max({0} \cup {commits[u] : u \in 1..t})
NoRound == [by |-> NoRead, term |-> 0, config |-> Sole, confirmed |-> {}, index |-> NoIndex]
NotBegun == [pc |-> "none", at |-> Founder, need |-> 0, arrival |-> 0, index |-> NoIndex]

(* A read that goes through ensure_linearizable instead, and one served with what i shows. *)
ThroughRaft == [NotBegun EXCEPT !.pc = "raft"]
Served(rd, i) == [NotBegun EXCEPT !.pc = "served", !.need = rd.need, !.index = i]
Confirmed(rd, i) == IF i = NoIndex THEN ThroughRaft ELSE [rd EXCEPT !.pc = "apply", !.index = i]

----------------------------------------------------------------------------
(* Raft (external). *)

(* The members of the newest membership vote and campaign.                 *)
(* A member saves its vote before it answers; a leader that does stops leading. *)
Vote(m, n, t) ==
  /\ saved[m] < t /\ (m = n \/ (saved[n] = t /\ granted[n] = n))
  /\ \A v \in Voters : saved[v] = t => granted[v] = n
  /\ config = Sole => {m, n} = {Founder}
  /\ saved' = [saved EXCEPT ![m] = t] /\ granted' = [granted EXCEPT ![m] = n]
  /\ lead' = [lead EXCEPT ![m] = 0]
  /\ UNCHANGED <<shownTerm, shown, config, mark, start, commits, done, acked, rounds, round, read>>

(* A quorum has granted its votes: the leader writes its blank entry after *)
(* everything committed so far.                                            *)
Elected(n) ==
  LET t == saved[n] IN
  /\ t # 0 /\ granted[n] = n /\ start[t] = NoIndex
  /\ IsQuorum(config, {m \in Voters : saved[m] = t /\ granted[m] = n})
  /\ lead' = [lead EXCEPT ![n] = t]
  /\ start' = [start EXCEPT ![t] = Committed(t) + 1]
  /\ mark' = [mark EXCEPT ![n] = config]
  /\ UNCHANGED <<saved, granted, shownTerm, shown, config, commits, done, acked, rounds, round, read>>

(* The leader commits its next entry with a quorum that knows no newer term. *)
CommitEntry(n) ==
  LET t == lead[n] i == Max({Committed(t) + 1, start[t]}) IN
  /\ t # 0 /\ i <= MaxIndex
  /\ \E Q \in SUBSET (IF config = Sole THEN {Founder} ELSE Voters) :
       /\ n \in Q /\ IsQuorum(config, Q)
       /\ \A m \in Q : saved[m] <= t
       /\ saved' = [m \in Voters |-> IF m \in Q THEN t ELSE saved[m]]
       /\ granted' = [m \in Voters |-> IF m \in Q /\ saved[m] < t THEN n ELSE granted[m]]
  /\ lead' = [m \in Voters |-> IF m # n /\ saved'[m] # saved[m] THEN 0 ELSE lead[m]]
  /\ commits' = [commits EXCEPT ![t] = i]
  /\ UNCHANGED <<shownTerm, shown, config, mark, start, done, acked, rounds, round, read>>

(* A membership entry: the log store raises its mark before writing it.    *)
(* The one before it is committed (openraft's ensure_committed), so that a *)
(* quorum of it has saved the vote of this leader.                         *)
ChangeMembership(n) ==
  /\ lead[n] # 0 /\ config < Uniform
  /\ commits[lead[n]] >= start[lead[n]]
  /\ IsQuorum(config, {m \in Voters : saved[m] >= lead[n]})
  /\ config' = config + 1 /\ mark' = [mark EXCEPT ![n] = config + 1]
  /\ UNCHANGED <<saved, granted, lead, shownTerm, shown, start, commits, done, acked, rounds, round, read>>

(* RaftCore publishes its metrics between messages. *)
Publish(n) ==
  /\ <<shownTerm[n], shown[n]>> # <<lead[n], mark[n]>>
  /\ shownTerm' = [shownTerm EXCEPT ![n] = lead[n]] /\ shown' = [shown EXCEPT ![n] = mark[n]]
  /\ UNCHANGED <<saved, granted, lead, config, mark, start, commits, done, acked, rounds, round, read>>

(* A member applies what the term it follows or leads has committed; the   *)
(* leader acknowledges a write once it has applied it.                     *)
ApplyNext(n) ==
  /\ saved[n] # 0 /\ done[n] < commits[saved[n]]
  /\ done' = [done EXCEPT ![n] = @ + 1]
  /\ acked' = IF lead[n] # 0 THEN Max({acked, done[n] + 1}) ELSE acked
  /\ UNCHANGED <<saved, granted, lead, shownTerm, shown, config, mark, start, commits, rounds, round, read>>

----------------------------------------------------------------------------
(* read_barrier. *)

MayLead(n) == shownTerm[n] # 0

(* Mutant of Current: a membership change not shown yet is not looked for. *)
NoMarkMutant(n) == TRUE

(* No membership change is pending that the metrics do not show. *)
Current(n) == shown[n] >= mark[n]

(* sole_voter_read_index. *)
SoleVoter(n) == MayLead(n) /\ Current(n) /\ shown[n] = Sole /\ n = Founder

ReadBegin(r, n) ==
  /\ read[r].pc = "none" /\ MayLead(n)
  /\ read' = [read EXCEPT ![r] =
       IF SoleVoter(n)
       THEN [pc |-> "apply", at |-> n, need |-> acked, arrival |-> 0, index |-> start[shownTerm[n]]]
       ELSE [pc |-> "queue", at |-> n, need |-> acked, arrival |-> rounds[n].started, index |-> NoIndex]]
  /\ UNCHANGED riRaft /\ UNCHANGED <<rounds, round>>

(* A read uses the result of a round that started after it came. *)
Joins(n, arrival) == rounds[n].last > arrival

(* Rounds.last is locked for the whole of a round. *)
RoundsFree(n) == round[n] = NoRound

(* multi_voter_read_index: wait for the round under way, use its result or *)
(* start the next.  A result of none goes through ensure_linearizable.     *)
JoinRound(r) ==
  LET n == read[r].at IN
  /\ read[r].pc = "queue" /\ RoundsFree(n)
  /\ Joins(n, read[r].arrival)
  /\ read' = [read EXCEPT ![r] = Confirmed(@, rounds[n].index)]
  /\ UNCHANGED riRaft /\ UNCHANGED <<rounds, round>>

(* confirm_round: without a read index from local state it is over at once. *)
LocalIndex(n) ==
  IF MayLead(n) /\ Current(n) /\ saved[n] = shownTerm[n] THEN start[shownTerm[n]] ELSE NoIndex

BeginRound(r) ==
  LET n == read[r].at i == LocalIndex(n) IN
  /\ read[r].pc = "queue" /\ RoundsFree(n)
  /\ ~Joins(n, read[r].arrival)
  /\ IF i = NoIndex
     THEN /\ rounds' = [rounds EXCEPT ![n] = [started |-> @.started + 1, last |-> @.started + 1, index |-> NoIndex]]
          /\ read' = [read EXCEPT ![r] = ThroughRaft]
          /\ UNCHANGED round
     ELSE /\ rounds' = [rounds EXCEPT ![n].started = @ + 1]
          /\ round' = [round EXCEPT ![n] = [by |-> r, confirmed |-> {n}, config |-> shown[n],
                                            term |-> shownTerm[n], index |-> i]]
          /\ read' = [read EXCEPT ![r].pc = "round"]
  /\ UNCHANGED riRaft

Confirms(m, t) == saved[m] <= t

(* A member answers with the term of the vote it saved. *)
ConfirmLeader(n, m) ==
  /\ round[n] # NoRound /\ m \notin round[n].confirmed
  /\ Confirms(m, round[n].term)
  /\ round' = [round EXCEPT ![n].confirmed = @ \cup {m}]
  /\ UNCHANGED riRaft /\ UNCHANGED <<rounds, read>>

(* The quorum answered, or the answers ended without one. *)
EndRound(n) ==
  LET rd == round[n]
      index == IF IsQuorum(rd.config, rd.confirmed) /\ saved[n] = rd.term THEN rd.index ELSE NoIndex IN
  /\ rd # NoRound
  /\ rounds' = [rounds EXCEPT ![n].last = rounds[n].started, ![n].index = index]
  /\ round' = [round EXCEPT ![n] = NoRound]
  /\ read' = [read EXCEPT ![rd.by] = Confirmed(@, index)]
  /\ UNCHANGED riRaft

(* Served from the state machine, once it has applied the read index. *)
ServeRead(r) ==
  /\ read[r].pc = "apply" /\ done[read[r].at] >= read[r].index
  /\ read' = [read EXCEPT ![r] = Served(@, done[read[r].at])]
  /\ UNCHANGED riRaft /\ UNCHANGED <<rounds, round>>

(* Not applied in time: through ensure_linearizable, as without a result. *)
GiveUp(r) ==
  /\ read[r].pc = "apply" /\ done[read[r].at] < read[r].index
  /\ read' = [read EXCEPT ![r] = ThroughRaft]
  /\ UNCHANGED riRaft /\ UNCHANGED <<rounds, round>>

(* The founder leads its one-voter cluster and has applied its blank entry. *)
RIInit ==
  /\ saved = [n \in Voters |-> IF n = Founder THEN 1 ELSE 0] /\ granted = [n \in Voters |-> Founder]
  /\ lead = saved /\ shownTerm = saved
  /\ config = Sole /\ shown = [n \in Voters |-> Sole] /\ mark = shown
  /\ start = [t \in RTerms |-> IF t = 1 THEN 1 ELSE NoIndex] /\ commits = start
  /\ done = saved /\ acked = 0
  /\ rounds = [n \in Voters |-> [started |-> 0, last |-> 0, index |-> NoIndex]]
  /\ round = [n \in Voters |-> NoRound]
  /\ read = [r \in Reads |-> NotBegun]

RINext ==
  \/ \E n \in Voters :
       \/ \E m \in Voters : ConfirmLeader(n, m) \/ \E t \in RTerms : Vote(m, n, t)
       \/ Elected(n) \/ CommitEntry(n) \/ ChangeMembership(n) \/ Publish(n) \/ ApplyNext(n)
       \/ EndRound(n)
       \/ \E r \in Reads : ReadBegin(r, n)
  \/ \E r \in Reads : JoinRound(r) \/ BeginRound(r) \/ ServeRead(r) \/ GiveUp(r)

RISpec == RIInit /\ [][RINext]_riVars

----------------------------------------------------------------------------
(* Type correctness; rounds do not overlap on a member. *)
RITypeOK ==
  /\ saved \in [Voters -> 0..MaxRTerm] /\ lead \in [Voters -> 0..MaxRTerm]
  /\ config \in Sole..Uniform /\ acked \in 0..MaxIndex /\ done \in [Voters -> 0..MaxIndex]
  /\ \A n \in Voters : /\ rounds[n].last <= rounds[n].started
                        /\ Cardinality({r \in Reads : read[r].at = n /\ read[r].pc = "round"})
                             = IF round[n] = NoRound THEN 0 ELSE 1

(* A read served through the barrier reflects every write acknowledged     *)
(* before it began, by this leader or by any other (read_index.rs module   *)
(* documentation, "The read index").                                       *)
Linearizable == \A r \in Reads : read[r].pc = "served" => read[r].index >= read[r].need

(* The barrier: rounds do not overlap, and a read served through it        *)
(* reflects every write acknowledged before it began (read_index.rs).      *)
BarrierRight == RITypeOK /\ Linearizable
=============================================================================
