----------------------------- MODULE Membership -----------------------------
(***************************************************************************)
(* The Cluster service (server/cluster.rs) on every member: MemberAdd,     *)
(* MemberRemove, MemberUpdate and MemberPromote as the steps they are made *)
(* of, the map of peer addresses each member dials through, its member     *)
(* directory, the guard that keeps an older member away from a batched log *)
(* (server/batch_guard.rs), and forwarding to the leader (server/state.rs, *)
(* raft/network.rs).  openraft's membership is one configuration the       *)
(* leader changes atomically; a member's metrics may show an older one.    *)
(* The seeds serve the calls and lead; a joiner is only a target here.     *)
(***************************************************************************)
EXTENDS Naturals, FiniteSets

CONSTANTS
  Seeds,          \* the members --initial-cluster names
  MbJoiners,        \* members that may be added
  Older,          \* the joiners that run a version before batched entries
  MaxMbCalls,     \* bound: calls to the service
  MaxMbFaults     \* bound: restarts and changes of leader

VARIABLES
  chief,          \* the leader
  conf,           \* openraft's membership
  shows,          \* the membership each member's metrics show
  peers,          \* PeerEndpoints of each member
  directory,      \* MemberDirectory of each member: who, and whether a learner
  running,        \* the members that are started
  batched,        \* the log holds a batched entry (has_batched)
  mcall,          \* the call in progress at each member
  mspent          \* calls and faults so far

mbVars == <<chief, conf, shows, peers, directory, running, batched, mcall, mspent>>

Everyone == Seeds \cup MbJoiners

NoCall == [pc |-> "idle", op |-> "none", who |-> {}, learner |-> FALSE, set |-> {}]

Conf(v, l) == [voters |-> v, learners |-> l]

Members == conf.voters \cup conf.learners

MbInit ==
  /\ chief \in Seeds
  /\ conf = Conf(Seeds, {}) /\ shows = [n \in Seeds |-> conf]
  /\ peers = [n \in Seeds |-> Seeds \ {n}]
  /\ directory = [n \in Seeds |-> Conf(Seeds, {})]
  /\ running = Seeds /\ batched = FALSE 
  /\ mcall = [n \in Seeds |-> NoCall]
  /\ mspent = [calls |-> 0, faults |-> 0]

Goto(n, p) == mcall' = [mcall EXCEPT ![n].pc = p]

EndCall(n) == mcall' = [mcall EXCEPT ![n] = NoCall]

Begin(n, op, m, learner, p) ==
  /\ mcall[n].pc = "idle" /\ mspent.calls < MaxMbCalls
  /\ mcall' = [mcall EXCEPT ![n] = [pc |-> p, op |-> op, who |-> {m}, learner |-> learner, set |-> {}]]
  /\ mspent' = [mspent EXCEPT !.calls = @ + 1]

Steps(n, p) == mcall[n].pc = p /\ UNCHANGED mspent

Drop(n) == peers' = [peers EXCEPT ![n] = @ \ mcall[n].who]

----------------------------------------------------------------------------
(* batch_guard: what m answers to ConfirmLeader, dialled from n. *)
Version(n, m) ==
  IF m \notin running \cap (peers[n] \cup {n}) THEN "unreachable"
  ELSE IF m \in Older THEN "older" ELSE "reads"

Who(n) == CHOOSE m \in mcall[n].who : TRUE

(* guard_add. *)
GuardAdd(n) == ~batched \/ Version(n, Who(n)) # "older"

(* guard_voter. *)
GuardVoter(n) == ~batched \/ Version(n, Who(n)) = "reads"

----------------------------------------------------------------------------
(* MemberAdd: the address is registered here, before anything else. *)
AddRegister(n, m, learner) ==
  /\ Begin(n, "add", m, learner, "guard")
  /\ peers' = [peers EXCEPT ![n] = @ \cup {m}]
  /\ UNCHANGED <<chief, conf, shows, directory, running, batched>>

(* The guards; a refusal takes the address back. *)
AddGuarded(n) ==
  /\ Steps(n, "guard")
  /\ LET unknown == ~mcall[n].learner /\ batched /\ Version(n, Who(n)) = "unreachable" IN
     IF GuardAdd(n) /\ ~unknown
     THEN Goto(n, "learner") /\ UNCHANGED peers
     ELSE EndCall(n) /\ Drop(n)
  /\ UNCHANGED <<chief, conf, shows, directory, running, batched>>

(* propose_add_learner, here or forwarded: only the leader's openraft acts. *)
AddLearner(n) ==
  /\ Steps(n, "learner")
  /\ conf' = Conf(conf.voters, conf.learners \cup (mcall[n].who \ conf.voters))
  /\ Goto(n, IF mcall[n].learner THEN "listed" ELSE "read")
  /\ UNCHANGED <<chief, shows, peers, directory, running, batched>>

(* current_voter_set: what this member's metrics show. *)
ReadVoters(n) ==
  /\ Steps(n, "read")
  /\ LET v == shows[n].voters
         w == mcall[n].who
     IN CASE mcall[n].op = "remove" /\ v \cap w = {} ->
               Goto(n, "listed")
          [] mcall[n].op = "promote" /\ w \subseteq v ->
               EndCall(n)
          [] OTHER ->
               mcall' = [mcall EXCEPT ![n].pc = "set",
                                      ![n].set = IF mcall[n].op = "remove" THEN v \ w ELSE v \cup w]
  /\ UNCHANGED <<chief, conf, shows, peers, directory, running, batched>>

(* Mutant of VotersSet: a promoted learner stays in both sets. *)
StaysLearnerMutant(set) == Conf(set, conf.learners)

(* change_membership(set, retain = false): voters left out leave the cluster. *)
VotersSet(set) == Conf(set, conf.learners \ set)

(* propose_set_voters, here or forwarded; a voter must be known to openraft. *)
SetVoters(n) ==
  /\ Steps(n, "set")
  /\ mcall[n].set \subseteq Members /\ mcall[n].set # {}
  /\ conf' = VotersSet(mcall[n].set)
  /\ Goto(n, "listed")
  /\ chief' \in (IF chief \in mcall[n].set THEN {chief} ELSE mcall[n].set \cap Seeds)
  /\ UNCHANGED <<shows, peers, directory, running, batched>>

(* openraft or the forwarding fails: the call returns, and what it did stays. *)
ChangeFails(n) ==
  /\ mcall[n].pc \in {"learner", "set"} /\ UNCHANGED mspent
  /\ EndCall(n)
  /\ UNCHANGED <<chief, conf, shows, peers, directory, running, batched>>

(* The directory, and for a removal the address, are updated on this member. *)
Listed(d, call) ==
  IF call.op = "remove" THEN Conf(d.voters \ call.who, d.learners \ call.who)
  ELSE IF call.op = "promote"
       THEN Conf(d.voters \cup (d.learners \cap call.who), d.learners \ call.who)
  ELSE IF call.learner THEN Conf(d.voters \ call.who, d.learners \cup call.who)
  ELSE Conf(d.voters \cup call.who, d.learners \ call.who)

UpdateDirectory(n) ==
  /\ Steps(n, "listed")
  /\ directory' = [directory EXCEPT ![n] = Listed(@, mcall[n])]
  /\ IF mcall[n].op = "remove" THEN Drop(n) ELSE UNCHANGED peers
  /\ EndCall(n)
  /\ UNCHANGED <<chief, conf, shows, running, batched>>

(* MemberRemove: not of the member that is asked. *)
RemoveBegin(n, m) ==
  /\ m # n
  /\ Begin(n, "remove", m, FALSE, "read")
  /\ UNCHANGED <<chief, conf, shows, peers, directory, running, batched>>

(* MemberPromote: the guard first. *)
PromoteBegin(n, m) ==
  /\ Begin(n, "promote", m, FALSE, "promote")
  /\ UNCHANGED <<chief, conf, shows, peers, directory, running, batched>>

PromoteGuarded(n) ==
  /\ Steps(n, "promote")
  /\ IF GuardVoter(n) THEN Goto(n, "read") ELSE EndCall(n)
  /\ UNCHANGED <<chief, conf, shows, peers, directory, running, batched>>

(* MemberUpdate: the address here; neither openraft nor another member hears of it. *)
UpdateAddress(n, m) ==
  /\ mcall[n].pc = "idle" /\ mspent.calls < MaxMbCalls
  /\ mspent' = [mspent EXCEPT !.calls = @ + 1]
  /\ peers' = [peers EXCEPT ![n] = @ \cup {m}]
  /\ UNCHANGED <<chief, conf, shows, directory, running, batched, mcall>>

----------------------------------------------------------------------------
(* The rest of the cluster. *)

MetricsCatchUp(n) ==
  /\ shows[n] # conf /\ shows' = [shows EXCEPT ![n] = conf]
  /\ UNCHANGED <<chief, conf, peers, directory, running, batched, mcall, mspent>>

StartJoiner(m) ==
  /\ m \notin running /\ running' = running \cup {m}
  /\ UNCHANGED <<chief, conf, shows, peers, directory, batched, mcall, mspent>>

(* The proposer batches once every member answers as able to (Proposals). *)
FirstBatch ==
  /\ ~batched /\ \A m \in Members : Version(chief, m) = "reads"
  /\ batched' = TRUE
  /\ UNCHANGED <<chief, conf, shows, peers, directory, running, mcall, mspent>>

NewLeader(n) ==
  /\ mspent.faults < MaxMbFaults /\ n # chief /\ n \in conf.voters
  /\ chief' = n
  /\ mspent' = [mspent EXCEPT !.faults = @ + 1]
  /\ UNCHANGED <<conf, shows, peers, directory, running, batched, mcall>>

(* A restart: the addresses and the directory are --initial-cluster's again. *)
RestartMember(n) ==
  /\ mspent.faults < MaxMbFaults
  /\ peers' = [peers EXCEPT ![n] = Seeds \ {n}]
  /\ directory' = [directory EXCEPT ![n] = Conf(Seeds, {})]
  /\ mcall' = [mcall EXCEPT ![n] = NoCall]
  /\ mspent' = [mspent EXCEPT !.faults = @ + 1]
  /\ UNCHANGED <<chief, conf, shows, running, batched>>

MbNext ==
  \/ \E n \in Seeds :
       \/ \E m \in Everyone :
            \/ \E l \in BOOLEAN : m \in MbJoiners /\ AddRegister(n, m, l)
            \/ RemoveBegin(n, m)
            \/ PromoteBegin(n, m)
            \/ UpdateAddress(n, m)
       \/ AddGuarded(n) \/ AddLearner(n) \/ ReadVoters(n) \/ SetVoters(n) \/ ChangeFails(n)
       \/ UpdateDirectory(n) \/ PromoteGuarded(n)
       \/ MetricsCatchUp(n) \/ NewLeader(n) \/ RestartMember(n)
  \/ \E m \in MbJoiners : StartJoiner(m)
  \/ FirstBatch

MbSpec == MbInit /\ [][MbNext]_mbVars

----------------------------------------------------------------------------

(* Nobody is a voter and a learner at once, in openraft or in a member    *)
(* directory, whatever calls overlap (change_membership, MemberPromote).  *)
MbTypeOK ==
  /\ conf.voters \cap conf.learners = {} /\ Members \subseteq Everyone
  /\ chief \in Seeds
  /\ \A n \in Seeds : directory[n].voters \cap directory[n].learners = {}

=============================================================================
