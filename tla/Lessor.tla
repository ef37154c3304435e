------------------------------- MODULE Lessor -------------------------------
(***************************************************************************)
(* Leases: grants, revokes and logged keep-alives through raft             *)
(* (server/lease.rs, mvcc/store.rs), keep-alives renewed in the leader's   *)
(* RAM (raft/lessor.rs) and the leader's expiry sweeper (lease_expiry.rs), *)
(* for one lease id.                                                       *)
(*                                                                         *)
(* Time is counted down, never up: a deadline is the time left until it,   *)
(* a stamp the time since it (up to MaxTtl), and Tick moves them all, so   *)
(* the clock needs no bound.  Raft is external: terms with one elected     *)
(* leader each, a committed log every member applies in order, and a       *)
(* member that may not yet know it was deposed.                            *)
(***************************************************************************)
EXTENDS Integers, Sequences, FiniteSets, FiniteSetsExt, SequencesExt, TLC

CONSTANTS
  Servers, Nobody,
  Ttls,          \* the TTLs clients ask for; a grant raises one <= 0 to the minimum
  MinTtl,        \* MIN_LEASE_TTL_SECS
  AllAtLeast,    \* whether every member runs 1.23 or later (MembersAtLeast)
  MaxTerm, MaxEntries,   \* bounds on elections and on proposals
  Regrants,      \* whether clients grant an id that was granted before
  CallsSpanTerms \* whether a member may be elected again while a call of its earlier term goes on

NoLease == 0
Never == -1
MaxTtl == Max(Ttls \cup {MinTtl})

VARIABLES
  term,          \* the newest term with a leader
  leadsIn,       \* the term each member believes it leads, or 0
  lqueue,         \* the committed entries each member has yet to apply
  need,          \* how many of them precede the term the member leads
  table,         \* each member's lease record: its TTL, or NoLease
  age,           \* lease_applied: time since the grant or keep-alive was applied, or Never
  ramTerm, ram,  \* Ram: the term promoted for, and the time left, or Never
  renewal,       \* the keep-alive in progress, and the member it is at
  sweep,         \* each member's sweep in progress
  promise,       \* history: how long the answers given so far keep the lease
  proposed       \* history: proposals so far

lVars == <<term, leadsIn, lqueue, need, table, age, ramTerm, ram, renewal, sweep, promise, proposed>>

Idle == [pc |-> "none", term |-> 0, ttl |-> NoLease]
NoRenewal == Idle @@ [at |-> Nobody, since |-> 0]
Renewing(n, pc) == renewal.pc = pc /\ renewal.at = n

LLead(n) == leadsIn[n] # 0
(* Raft commits only what the newest term's leader proposes. *)
Commits(n) == LLead(n) /\ leadsIn[n] = term
Older(t, by) == Max({t - by, 0})
Aged(t) == Min({t + 1, MaxTtl})

LCommitted(e) == lqueue' = [m \in Servers |-> Append(lqueue[m], e)]

(* client_write: committed for every member to apply. *)
LPropose(n, e) ==
  /\ Commits(n)
  /\ proposed < MaxEntries
  /\ proposed' = proposed + 1
  /\ LCommitted(e)

----------------------------------------------------------------------------
(* Requests that go through raft. *)

(* lease_grant: a TTL <= 0 is raised to the minimum before it is proposed. *)
GrantTtl(t) == IF t <= 0 THEN MinTtl ELSE t

LGrant(n, t) ==
  /\ Regrants \/ proposed = 0
  /\ LPropose(n, [op |-> "grant", ttl |-> GrantTtl(t)])
  /\ promise' = GrantTtl(t)
  /\ UNCHANGED <<term, leadsIn, need, table, age, ramTerm, ram, renewal, sweep>>

(* A keep-alive while a member is older than 1.23. *)
LKeepAlive(n) ==
  /\ ~AllAtLeast
  /\ LPropose(n, [op |-> "keepalive", ttl |-> NoLease])
  /\ UNCHANGED <<term, leadsIn, need, table, age, ramTerm, ram, renewal, sweep, promise>>

(* lease_revoke. *)
LRevoke(n) ==
  /\ table[n] # NoLease
  /\ LPropose(n, [op |-> "revoke", ttl |-> NoLease])
  /\ promise' = Never
  /\ UNCHANGED <<term, leadsIn, need, table, age, ramTerm, ram, renewal, sweep>>

(* apply_lease_grant, apply_lease_keepalive, apply_lease_revoke.  A grant  *)
(* of an id that exists replaces its record; a keep-alive of one that does *)
(* not is refused.                                                         *)
LApply(n) ==
  /\ lqueue[n] # << >>
  /\ LET e == Head(lqueue[n]) IN
       /\ table' = [table EXCEPT ![n] = CASE e.op = "grant" /\ e.ttl > 0 -> e.ttl
                                          [] e.op \in {"revoke", "expire"} -> NoLease
                                          [] OTHER -> @]
       /\ age' = [age EXCEPT ![n] = IF e.op \in {"revoke", "expire"} THEN Never
                                    ELSE IF e.op = "keepalive" /\ table[n] = NoLease THEN @
                                    ELSE 0]
       \* the leader answers once it has applied; the lease is kept from then on
       /\ promise' = IF Commits(n) /\ table'[n] # NoLease
                     THEN Max({promise, table'[n]}) ELSE promise
  /\ lqueue' = [lqueue EXCEPT ![n] = Tail(@)]
  /\ need' = [need EXCEPT ![n] = Older(@, 1)]
  /\ UNCHANGED <<term, leadsIn, ramTerm, ram, renewal, sweep, proposed>>

----------------------------------------------------------------------------
(* The lessor. *)

(* Mutant of Promoted: the new leader starts from the stamps alone. *)
NoPromoteMutant(n, t) == Never

(* promote: the first time this member acts as leader in a term, every     *)
(* lease gets a full TTL from now.                                         *)
Promoted(n, t) == IF t = NoLease THEN Never ELSE t

(* effective_deadline: the time left of the later of the RAM deadline and  *)
(* the TTL from the stamp; without a RAM deadline, from the stamp or now.  *)
FromStamp(n, t) == IF age[n] = Never THEN Never ELSE Older(t, age[n])
HeldFor(n, t) == IF ram[n] # Never THEN ram[n] ELSE IF age[n] # Never THEN FromStamp(n, t) ELSE t
Effective(n, t) == Max({HeldFor(n, t), FromStamp(n, t)})

(* promote reads the term and, unless it was promoted for already, the     *)
(* records; it takes the lock a step later.                                *)
PromoteRead(n, job) ==
  IF ramTerm[n] = leadsIn[n] THEN [job EXCEPT !.pc = "lookup"]
  ELSE [job EXCEPT !.pc = "promote", !.term = leadsIn[n], !.ttl = table[n]]

Promotion(job) == [job EXCEPT !.pc = "lookup", !.term = 0, !.ttl = NoLease]

PromoteLock(n, job) ==
  IF ramTerm[n] = job.term THEN UNCHANGED <<ram, ramTerm>>
  ELSE /\ ram' = [ram EXCEPT ![n] = Promoted(n, job.ttl)]
       /\ ramTerm' = [ramTerm EXCEPT ![n] = job.term]

(* renew.  The read barrier confirms no newer leader as of its start, and  *)
(* waits until every entry before this term is applied.                    *)
RenewBegin(n) ==
  /\ renewal = NoRenewal /\ AllAtLeast
  /\ Commits(n)
  /\ renewal' = [renewal EXCEPT !.pc = "barrier", !.at = n]
  /\ UNCHANGED <<term, leadsIn, lqueue, need, table, age, ramTerm, ram, sweep, promise, proposed>>

RenewBarrier(n) ==
  /\ Renewing(n, "barrier") /\ need[n] = 0
  /\ renewal' = IF LLead(n) THEN PromoteRead(n, renewal) ELSE NoRenewal
  /\ UNCHANGED <<term, leadsIn, lqueue, need, table, age, ramTerm, ram, sweep, promise, proposed>>

RenewPromote(n) ==
  /\ Renewing(n, "promote")
  /\ PromoteLock(n, renewal)
  /\ renewal' = Promotion(renewal)
  /\ UNCHANGED <<term, leadsIn, lqueue, need, table, age, sweep, promise, proposed>>

(* The lease's record; none is NotFound. *)
RenewLookup(n) ==
  /\ Renewing(n, "lookup")
  /\ renewal' = IF table[n] = NoLease THEN NoRenewal ELSE [renewal EXCEPT !.pc = "insert", !.ttl = table[n]]
  /\ UNCHANGED <<term, leadsIn, lqueue, need, table, age, ramTerm, ram, sweep, promise, proposed>>

StillLive(n, t) == Effective(n, t) > 0

(* Past its deadline it is NotFound; otherwise its TTL starts again, and   *)
(* the answer keeps the lease for a TTL from when the request came.        *)
RenewInsert(n) ==
  /\ Renewing(n, "insert")
  /\ LET t == renewal.ttl live == StillLive(n, t) IN
       /\ ram' = [ram EXCEPT ![n] = IF live THEN t ELSE HeldFor(n, t)]
       /\ promise' = IF live THEN Max({promise, t - renewal.since}) ELSE promise
  /\ renewal' = NoRenewal
  /\ UNCHANGED <<term, leadsIn, lqueue, need, table, age, ramTerm, sweep, proposed>>

----------------------------------------------------------------------------
(* sweep_once and expired, on the leader. *)

SweepBegin(n) ==
  /\ sweep[n].pc = "none" /\ LLead(n)
  /\ sweep' = [sweep EXCEPT ![n] = PromoteRead(n, @)]
  /\ UNCHANGED <<term, leadsIn, lqueue, need, table, age, ramTerm, ram, renewal, promise, proposed>>

SweepPromote(n) ==
  /\ sweep[n].pc = "promote"
  /\ PromoteLock(n, sweep[n])
  /\ sweep' = [sweep EXCEPT ![n] = Promotion(@)]
  /\ UNCHANGED <<term, leadsIn, lqueue, need, table, age, renewal, promise, proposed>>

(* Mutant of Expired: off by one at the deadline. *)
PastMutant(n, t) == Effective(n, t) < 0

Expired(n, t) == Effective(n, t) <= 0

(* The RAM deadline of a lease that is gone is dropped. *)
SweepLook(n) ==
  /\ sweep[n].pc = "lookup"
  /\ LET t == table[n] IN
       /\ ram' = [ram EXCEPT ![n] = IF t = NoLease THEN Never ELSE HeldFor(n, t)]
       /\ sweep' = [sweep EXCEPT ![n] = IF t # NoLease /\ Expired(n, t)
                                        THEN [@ EXCEPT !.pc = "revoke"] ELSE Idle]
  /\ UNCHANGED <<term, leadsIn, lqueue, need, table, age, ramTerm, renewal, promise, proposed>>

SweepRevoke(n) ==
  /\ sweep[n].pc = "revoke" /\ Commits(n)
  /\ LCommitted([op |-> "expire", ttl |-> NoLease])
  /\ sweep' = [sweep EXCEPT ![n].pc = "wait"]
  /\ UNCHANGED <<term, leadsIn, need, table, age, ramTerm, ram, renewal, promise, proposed>>

(* The revoke is answered when this member has applied it, or is refused:  *)
(* a newer leader sweeps at its own next tick.                             *)
SweepEnd(n) ==
  /\ \/ sweep[n].pc = "wait" /\ (lqueue[n] = << >> \/ ~Commits(n))
     \/ sweep[n].pc = "revoke" /\ ~Commits(n)
  /\ sweep' = [sweep EXCEPT ![n] = Idle]
  /\ UNCHANGED <<term, leadsIn, lqueue, need, table, age, ramTerm, ram, renewal, promise, proposed>>

----------------------------------------------------------------------------
(* Raft and time (external). *)

LElect(n) ==
  /\ term < MaxTerm
  /\ CallsSpanTerms \/ (renewal.at # n /\ sweep[n] = Idle)
  /\ term' = term + 1
  /\ leadsIn' = [leadsIn EXCEPT ![n] = term + 1]
  /\ need' = [need EXCEPT ![n] = Len(lqueue[n])]
  /\ UNCHANGED <<lqueue, table, age, ramTerm, ram, renewal, sweep, promise, proposed>>

LDeposed(n) ==
  /\ LLead(n) /\ ~Commits(n)
  /\ leadsIn' = [leadsIn EXCEPT ![n] = 0]
  /\ UNCHANGED <<term, lqueue, need, table, age, ramTerm, ram, renewal, sweep, promise, proposed>>

(* A restart forgets the stamps, the RAM deadlines and what was under way. *)
LRestart(n) ==
  /\ term < MaxTerm
  /\ leadsIn' = [leadsIn EXCEPT ![n] = 0]
  /\ age' = [age EXCEPT ![n] = Never]
  /\ ramTerm' = [ramTerm EXCEPT ![n] = 0] /\ ram' = [ram EXCEPT ![n] = Never]
  /\ renewal' = (IF renewal.at = n THEN NoRenewal ELSE renewal) /\ sweep' = [sweep EXCEPT ![n] = Idle]
  /\ UNCHANGED <<term, lqueue, need, table, promise, proposed>>

LTick ==
  /\ age' = [n \in Servers |-> IF age[n] = Never THEN Never ELSE Aged(age[n])]
  /\ ram' = [n \in Servers |-> IF ram[n] = Never THEN Never ELSE Older(ram[n], 1)]
  /\ renewal' = IF renewal = NoRenewal THEN renewal ELSE [renewal EXCEPT !.since = Aged(@)]
  /\ promise' = IF promise = Never THEN Never ELSE Older(promise, 1)
  /\ UNCHANGED <<term, leadsIn, lqueue, need, table, ramTerm, sweep, proposed>>

(* A leader, and no lease yet. *)
LInit ==
  /\ term = 1 /\ proposed = 0 /\ promise = Never
  /\ leadsIn \in {[m \in Servers |-> IF m = n THEN 1 ELSE 0] : n \in Servers} /\ need = [n \in Servers |-> 0]
  /\ lqueue = [n \in Servers |-> << >>]
  /\ table = [n \in Servers |-> NoLease] /\ age = [n \in Servers |-> Never]
  /\ ramTerm = [n \in Servers |-> 0] /\ ram = [n \in Servers |-> Never]
  /\ renewal = NoRenewal /\ sweep = [n \in Servers |-> Idle]

Renew(n) == RenewBarrier(n) \/ RenewPromote(n) \/ RenewLookup(n) \/ RenewInsert(n)
Sweep(n) == SweepBegin(n) \/ SweepPromote(n) \/ SweepLook(n)
            \/ SweepRevoke(n) \/ SweepEnd(n)

LNext ==
  \/ LTick
  \/ \E n \in Servers :
       \/ (\E t \in Ttls : LGrant(n, t)) \/ LKeepAlive(n) \/ LRevoke(n) \/ LApply(n)
       \/ RenewBegin(n) \/ Renew(n) \/ Sweep(n)
       \/ LElect(n) \/ LDeposed(n) \/ LRestart(n)

(* Members apply what is committed, calls go on, the sweeper ticks every   *)
(* second, a deposed leader learns of it, and time passes.                 *)
LFair ==
  /\ WF_lVars(LTick)
  /\ \A n \in Servers : WF_lVars(LApply(n)) /\ WF_lVars(Renew(n)) /\ WF_lVars(Sweep(n))
                         /\ WF_lVars(LDeposed(n))

LSpec == LInit /\ [][LNext]_lVars /\ LFair

----------------------------------------------------------------------------
(* Type correctness; no grant is proposed that the state machine refuses   *)
(* for its TTL (lease_grant raises it first).                              *)
LTypeOK ==
  /\ term \in 0..MaxTerm /\ leadsIn \in [Servers -> 0..MaxTerm] /\ ramTerm \in [Servers -> 0..MaxTerm]
  /\ table \in [Servers -> 0..MaxTtl]
  /\ age \in [Servers -> Never..MaxTtl] /\ ram \in [Servers -> Never..MaxTtl]
  /\ promise \in Never..MaxTtl
  /\ \A n \in Servers : \A e \in Range(lqueue[n]) : e.op = "grant" => e.ttl > 0

(* A lease is not expired while an answer still keeps it: whoever leadsIn,   *)
(* the sweeper proposes no revoke before a TTL has passed since the grant  *)
(* or the last keep-alive answered as renewed was asked for, the renewals  *)
(* having lived only in a leader's RAM (lessor.rs promote).                *)
KeptAlive ==
  [][\A n \in Servers :
       SweepRevoke(n) => promise <= 0]_lVars

(* Under a leader that lasts, a lease nobody keeps alive goes.             *)
LeaseExpires ==
  \A n \in Servers :
    <>[]Commits(n) => []<>(table[n] = NoLease) \/ []<>(promise > 0)

(* Leases across terms: granted for a TTL the state machine accepts, and   *)
(* not revoked while an answer keeps them (lease_grant, promote, sweep).   *)
LeasesKept == []LTypeOK /\ KeptAlive
=============================================================================
