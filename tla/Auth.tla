-------------------------------- MODULE Auth --------------------------------
(***************************************************************************)
(* Replicated auth: every auth change is a raft log entry that each        *)
(* member's state machine checks and applies against its own auth tables   *)
(* (storage/mvcc/auth.rs, plan and AuthEffects), proposed only once the    *)
(* serving member has surveyed that all members hold the same tables       *)
(* (server/auth_sync.rs, AuthGate), or replaces them (Adopt).  The calls   *)
(* are those of the Auth service (server/auth.rs).                         *)
(*                                                                         *)
(* There is one user and one role.  A password hash is the call that made  *)
(* it, since every hash has its own salt; a token is the call that made    *)
(* it.  Keys of permissions are even numbers in byte order, and the bound  *)
(* just past the single key k, its successor k ++ [0], is k + 1.           *)
(***************************************************************************)
EXTENDS Integers, Sequences, FiniteSets, FiniteSetsExt

CONSTANTS
    Members,       \* all members that are ever in the cluster, numbered by their ids
    Leader,        \* the one that leads, whose apply answers a proposal
    Founders,      \* the members at the start, which may hold different tables
    ACalls,        \* the calls
    NoHash,        \* the hash of a user created without a password
    OldHash,       \* the hash of the user some founders hold from before replication
    PermKeys,      \* keys of permissions and requests
    GrantKey,      \* the key at which a granted permission starts
    MaxChanges,    \* restarts, snapshot installs and expiries
    AOps           \* the kinds of call each may be

ASSUME AuthAssumption ==
    /\ Members \subseteq Nat /\ Leader \in Founders /\ Founders \subseteq Members
    /\ \A k \in PermKeys : k \in Nat /\ k % 2 = 0
    /\ MaxChanges \in Nat

VARIABLES
    members,     \* the cluster's members, as metrics show them
    alog,        \* the auth entries of the raft log
    at,          \* how many of them each member has applied or has in its snapshot
    tables,      \* each member's auth tables
    enabled,     \* AuthMemory: the flag the interceptor reads
    tokens,      \* AuthMemory: the tokens
    adoptions,   \* AuthMemory: Adopt entries applied since start
    skipped,     \* entries that came with a snapshot, not by an apply
    confirmed,   \* AuthGate: the members confirmed
    diverged,    \* AuthGate: the last survey's verdict and the adoptions then
    acall,       \* the calls
    changes      \* restarts, installs and expiries so far

avars == <<members, alog, at, tables, enabled, tokens, adoptions, skipped, confirmed, diverged,
           acall, changes>>

memVars == <<at, tables, enabled, tokens, adoptions, skipped>>
gateVars == <<confirmed, diverged>>

-----------------------------------------------------------------------------
(* Tables: the user (`user' holds at most one record), the role, and the flag. *)
Empty == [user |-> {}, role |-> {}, on |-> FALSE]
Before == [user |-> {[hash |-> OldHash, roles |-> {"r"}]}, role |-> {{}}, on |-> TRUE]

(* Permissions a call may grant: one key, a range, or everything from a key. *)
PermsOf == {[key |-> k, kind |-> kind, end |-> 0] : k \in PermKeys, kind \in {"one", "all"}}
           \cup {[key |-> k, kind |-> "to", end |-> e] : k \in PermKeys, e \in PermKeys}

WithoutRole(u) == [u EXCEPT !.roles = {}]

(* RoleDelete drops the role from every user that holds it.                *)
Stripped(t) == {WithoutRole(u) : u \in t.user}

(* plan, by the entry's operation: the one set of tables after it, or none *)
(* when it is refused, which writes nothing.                               *)
Plan(t, e) ==
    LET User(x) == {[t EXCEPT !.user = {x}]}
        Role(x) == {[t EXCEPT !.role = {x}]}
        If(c, after) == IF c THEN after ELSE {}
        user == t.user # {}
        role == t.role # {}
        u == CHOOSE x \in t.user : TRUE
        p == CHOOSE x \in t.role : TRUE
    IN  CASE e.op = "Enable" -> If(user, {[t EXCEPT !.on = TRUE]})
          [] e.op = "Disable" -> {[t EXCEPT !.on = FALSE]}
          [] e.op = "Authenticate" -> If(user /\ u.hash = e.arg /\ u.hash # NoHash, {t})
          [] e.op = "UserAdd" -> If(~user, User([hash |-> e.arg, roles |-> {}]))
          [] e.op = "UserDelete" -> If(user, {[t EXCEPT !.user = {}]})
          [] e.op = "UserChangePassword" -> If(user, User([u EXCEPT !.hash = e.arg]))
          [] e.op = "UserGrantRole" -> If(user /\ role, User([u EXCEPT !.roles = {"r"}]))
          [] e.op = "UserRevokeRole" -> If(user, User([u EXCEPT !.roles = {}]))
          [] e.op = "RoleAdd" -> If(~role, Role({}))
          [] e.op = "RoleDelete" -> If(role, {[t EXCEPT !.role = {}, !.user = Stripped(t)]})
          [] e.op = "RoleGrantPermission" -> If(role, Role(p \cup {e.arg}))
          [] e.op = "RoleRevokePermission" -> If(role, Role(p \ {e.arg}))
          [] e.op = "Adopt" -> {e.arg}

(* AuthEffects: what an applied entry does in memory, given Plan's result. *)
RevokesTokens(after, e) ==
    \/ e.op \in {"UserDelete", "UserChangePassword"}
    \/ e.op = "Adopt" /\ \A t \in after : t.user = {}

TokensAfter(held, after, e) ==
    IF after = {} THEN held
    ELSE IF e.op = "Authenticate" THEN held \cup {e.by}
    ELSE IF RevokesTokens(after, e) THEN {} ELSE held

FlagAfter(flag, after, e) ==
    IF e.op \in {"Enable", "Disable", "Adopt"} /\ after # {} THEN \A t \in after : t.on ELSE flag

(* reload_auth, after a snapshot replaced the tables.                      *)
Reloaded(flag, t) == t.on

(* A member's state machine applies its next entry; the leader's result is *)
(* the answer.                                                             *)
AApply(m) ==
    /\ m \in members /\ at[m] < Len(alog)
    /\ LET e == alog[at[m] + 1]
           after == Plan(tables[m], e)
           answer == IF after = {} THEN "no" ELSE "yes"
       IN  /\ tables' = [tables EXCEPT ![m] = IF after = {} THEN @ ELSE CHOOSE t \in after : TRUE]
           /\ tokens' = [tokens EXCEPT ![m] = TokensAfter(@, after, e)]
           /\ enabled' = [enabled EXCEPT ![m] = FlagAfter(@, after, e)]
           /\ adoptions' = [adoptions EXCEPT ![m] = @ + IF e.op = "Adopt" THEN 1 ELSE 0]
           /\ acall' = IF m = Leader /\ acall[e.by].pc = "logged"
                       THEN [acall EXCEPT ![e.by].pc = answer] ELSE acall
    /\ at' = [at EXCEPT ![m] = @ + 1]
    /\ UNCHANGED <<members, alog, skipped, gateVars, changes>>

(* A member that lags installs the leader's snapshot: the tables and the   *)
(* flag come with it, the tokens are left as they are.                     *)
AInstall(m) ==
    /\ m \in members \ {Leader} /\ at[m] < at[Leader] /\ changes < MaxChanges
    /\ tables' = [tables EXCEPT ![m] = tables[Leader]]
    /\ enabled' = [enabled EXCEPT ![m] = Reloaded(@, tables[Leader])]
    /\ skipped' = [skipped EXCEPT ![m] = @ \cup (at[m] + 1)..at[Leader]]
    /\ at' = [at EXCEPT ![m] = at[Leader]]
    /\ changes' = changes + 1
    /\ UNCHANGED <<members, alog, tokens, adoptions, gateVars, acall>>

-----------------------------------------------------------------------------
(* The Auth service's calls.  What a call carries is chosen when it begins: *)
(* Authenticate checks the password on the serving member, and proposes     *)
(* the hash it checked.                                                     *)
ArgsOf(c, m, op) ==
    CASE op = "Authenticate" -> {u.hash : u \in {x \in tables[m].user : enabled[m] /\ x.hash # NoHash}}
      [] op = "UserAdd" -> {c, NoHash}
      [] op = "UserChangePassword" -> {c}
      [] op \in {"RoleGrantPermission", "RoleRevokePermission"} -> {p \in PermsOf : p.key = GrantKey}
      [] OTHER -> {NoHash}

NoCall == [pc |-> "idle", m |-> Leader, op |-> "Disable", arg |-> NoHash, asked |-> {},
         seen |-> {}, entry |-> 0]

Active == {"gate", "survey", "ready", "logged", "yes", "no"}

Ended(c, how) == acall' = [acall EXCEPT ![c] = [NoCall EXCEPT !.pc = how]]

AuthBegin(c, m, op) ==
    /\ acall[c].pc = "idle" /\ m \in members
    /\ \E arg \in ArgsOf(c, m, op) :
         acall' = [acall EXCEPT ![c] = [NoCall EXCEPT !.pc = "gate", !.m = m, !.op = op, !.arg = arg]]
    /\ UNCHANGED <<members, alog, memVars, gateVars, changes>>

Surveying(m) == \E c \in ACalls : acall[c].m = m /\ acall[c].pc = "survey"

AllConfirmed(m) == members \subseteq confirmed[m]

(* AuthGate::check: every member confirmed already, or a survey of them    *)
(* all, under the gate's lock.  check_upgraded, for Authenticate, and      *)
(* Adopt only need every member to answer.                                 *)
PassGate(c) ==
    LET m == acall[c].m
    IN  /\ acall[c].pc = "gate" /\ ~Surveying(m)
        /\ \/ /\ acall[c].op \notin {"Authenticate", "Adopt"}
              /\ acall' = [acall EXCEPT ![c].asked = members,
                                        ![c].pc = IF AllConfirmed(m) THEN "ready" ELSE "survey"]
           \/ /\ acall[c].op = "Authenticate"
              /\ acall' = [acall EXCEPT ![c].pc = "ready"]
           \/ /\ acall[c].op = "Adopt"
              /\ \E source \in members :
                   acall' = [acall EXCEPT ![c].pc = "ready", ![c].arg = tables[source],
                                         ![c].asked = Members]
    /\ UNCHANGED <<members, alog, memVars, gateVars, changes>>

(* A member cannot be reached, or is older: the call is refused.           *)
Unconfirmed(c) ==
    /\ acall[c].pc \in {"gate", "survey"} /\ ~AllConfirmed(acall[c].m)
    /\ Ended(c, "ended")
    /\ UNCHANGED <<members, alog, memVars, gateVars, changes>>

(* survey: the members are asked one after the other, in the order of      *)
(* their ids; what each answers stands for its digest.                     *)
Asked(c) == {s.id : s \in acall[c].seen}

SurveyMember(c, n) ==
    /\ acall[c].pc = "survey" /\ acall[c].asked # Asked(c) /\ n = Min(acall[c].asked \ Asked(c))
    /\ acall' = [acall EXCEPT ![c].seen = @ \cup {[id |-> n, digest |-> tables[n]]}]
    /\ UNCHANGED <<members, alog, memVars, gateVars, changes>>

SameDigests(c) == \A s, r \in acall[c].seen : s.digest = r.digest

(* All answered: the same digests confirm them; others are asked for again *)
(* until CONVERGE has passed, and are then divergence.                     *)
SurveyEnd(c) ==
    LET m == acall[c].m
    IN  /\ acall[c].pc = "survey" /\ Asked(c) = acall[c].asked
        /\ \/ /\ SameDigests(c)
              /\ confirmed' = [confirmed EXCEPT ![m] = acall[c].asked]
              /\ diverged' = [diverged EXCEPT ![m].is = FALSE]
              /\ acall' = [acall EXCEPT ![c].pc = "ready", ![c].seen = {}]
           \/ /\ ~SameDigests(c)
              /\ acall' = [acall EXCEPT ![c].seen = {}]
              /\ UNCHANGED gateVars
           \/ /\ ~SameDigests(c)
              /\ diverged' = [diverged EXCEPT ![m] = [is |-> TRUE, adoptions |-> adoptions[m]]]
              /\ Ended(c, "ended")
              /\ UNCHANGED confirmed
    /\ UNCHANGED <<members, alog, memVars, changes>>

(* propose_auth: the entry is logged; the leader's apply answers it.       *)
ProposeAuth(c) ==
    /\ acall[c].pc = "ready"
    /\ alog' = Append(alog, [op |-> acall[c].op, arg |-> acall[c].arg, by |-> c,
                             asked |-> acall[c].asked])
    /\ acall' = [acall EXCEPT ![c].pc = "logged", ![c].entry = Len(alog) + 1, ![c].arg = NoHash,
                              ![c].asked = {}]
    /\ UNCHANGED <<members, memVars, gateVars, changes>>

(* The serving member waits until it has applied the entry too.            *)
NoWaitMutant(c) == TRUE

AppliedHere(c) == at[acall[c].m] >= acall[c].entry

AuthAnswer(c) ==
    LET m == acall[c].m
    IN  /\ acall[c].pc \in {"yes", "no"} /\ AppliedHere(c)
        /\ Ended(c, IF acall[c].pc = "yes" THEN "ok" ELSE "ended")
        /\ confirmed' = IF acall[c].op = "Adopt" /\ acall[c].pc = "yes"
                        THEN [confirmed EXCEPT ![m] = {}] ELSE confirmed
    /\ UNCHANGED <<members, alog, memVars, diverged, changes>>

(* APPLY_WAIT passes.                                                      *)
AuthTimeout(c) ==
    /\ acall[c].pc \in {"yes", "no"} /\ ~AppliedHere(c)
    /\ Ended(c, "ended")
    /\ UNCHANGED <<members, alog, memVars, gateVars, changes>>

-----------------------------------------------------------------------------
(* A member is added, with empty tables; one restarts; a token expires.    *)
AJoin(m) ==
    /\ m \in Members \ members
    /\ members' = members \cup {m}
    /\ UNCHANGED <<alog, memVars, gateVars, acall, changes>>

NotConfirmed == [is |-> FALSE, adoptions |-> 0]

ARestart(m) ==
    /\ m \in members /\ changes < MaxChanges
    /\ tokens' = [tokens EXCEPT ![m] = {}]
    /\ enabled' = [enabled EXCEPT ![m] = Reloaded(FALSE, tables[m])]
    /\ adoptions' = [adoptions EXCEPT ![m] = 0]
    /\ confirmed' = [confirmed EXCEPT ![m] = {}]
    /\ diverged' = [diverged EXCEPT ![m] = NotConfirmed]
    /\ acall' = [c \in ACalls |-> IF acall[c].m = m /\ acall[c].pc \in Active
                                  THEN [NoCall EXCEPT !.pc = "ended"] ELSE acall[c]]
    /\ changes' = changes + 1
    /\ UNCHANGED <<members, alog, at, tables, skipped>>

TokenExpires(m, token) ==
    /\ token \in tokens[m] /\ acall[token].pc \in {"ok", "ended"} /\ changes < MaxChanges
    /\ tokens' = [tokens EXCEPT ![m] = @ \ {token}]
    /\ changes' = changes + 1
    /\ UNCHANGED <<members, alog, at, tables, enabled, adoptions, skipped, gateVars, acall>>

-----------------------------------------------------------------------------
AuthInit ==
    /\ members = Founders /\ alog = <<>> /\ at = [m \in Members |-> 0]
    /\ \E had \in SUBSET Founders :
         /\ tables = [m \in Members |-> IF m \in had THEN Before ELSE Empty]
         /\ enabled = [m \in Members |-> m \in had]
    /\ tokens = [m \in Members |-> {}] /\ adoptions = [m \in Members |-> 0]
    /\ skipped = [m \in Members |-> {}]
    /\ confirmed = [m \in Members |-> {}] /\ diverged = [m \in Members |-> NotConfirmed]
    /\ acall = [c \in ACalls |-> NoCall] /\ changes = 0

AuthNext ==
    \/ \E c \in ACalls :
         \/ \E m \in Members, op \in AOps[c] : AuthBegin(c, m, op)
         \/ PassGate(c) \/ Unconfirmed(c) \/ SurveyEnd(c) \/ ProposeAuth(c) \/ AuthAnswer(c)
         \/ AuthTimeout(c)
         \/ \E n \in Members : SurveyMember(c, n)
    \/ \E m \in Members :
         \/ AApply(m) \/ AInstall(m) \/ AJoin(m) \/ ARestart(m)
         \/ \E token \in ACalls : TokenExpires(m, token)

AuthSpec == AuthInit /\ [][AuthNext]_avars

-----------------------------------------------------------------------------
(* authz: the bounds of a key range, as positions in byte order.           *)
Top == Max({0} \cup PermKeys) + 2

HighOf(r) == CASE r.kind = "one" -> r.key + 1 [] r.kind = "all" -> Top [] r.kind = "to" -> r.end

(* perm_covers: the request's range fits within the permission's.          *)
PermCovers(p, r) ==
    /\ p.key <= r.key
    /\ p.kind = "all" \/ (r.kind # "all" /\ HighOf(p) >= HighOf(r))

(* authorize_all, for one access of a user that is not root.               *)
Authorized(m, r) ==
    ~enabled[m] \/ \E u \in tables[m].user :
                     /\ u.roles # {}
                     /\ \E role \in tables[m].role : \E p \in role : PermCovers(p, r)

(* StoredPermission::covers, for a single key.                             *)
Covers(p, k) == IF p.kind = "one" THEN k = p.key
                ELSE k >= p.key /\ (p.kind = "to" => k < p.end)

-----------------------------------------------------------------------------
(* Types; and the flag the interceptor reads is the one in the tables,     *)
(* after applies, snapshots and restarts (mvcc/auth.rs AuthEffects,        *)
(* mvcc/store.rs reload_auth).                                             *)
AuthTypeOK ==
    /\ Founders \subseteq members /\ members \subseteq Members
    /\ \A m \in Members :
         /\ at[m] \in 0..Len(alog) /\ tokens[m] \subseteq ACalls /\ confirmed[m] \subseteq Members
         /\ Cardinality(tables[m].user) <= 1 /\ Cardinality(tables[m].role) <= 1
         /\ enabled[m] = tables[m].on
    /\ \A c \in ACalls : acall[c].pc \in Active \cup {"idle", "ok", "ended"}

(* Once an auth change is in the log, the members its gate asked hold the  *)
(* same tables wherever they have applied the same entries, although they  *)
(* may have started from different ones and were asked one by one while    *)
(* entries were applied; after an Adopt all members do (auth_sync.rs,      *)
(* AuthGate::check, auth_adopt).                                           *)
GatedAgree ==
    \A i \in 1..Len(alog) : \A m, n \in alog[i].asked \cap members :
      at[m] = at[n] /\ at[m] >= i => tables[m] = tables[n]

(* A user that logged in has a token that works on the member that issued  *)
(* it, unless a later entry revoked it there or the login's entry came to  *)
(* that member inside a snapshot (auth_sync.rs, propose_auth).             *)
LoginWorks ==
    [][\A c \in ACalls :
         LET m == acall[c].m
             i == acall[c].entry
         IN  acall[c].pc = "yes" /\ acall'[c].pc = "ok" /\ alog[i].op = "Authenticate" =>
               \/ c \in tokens[m] \/ i \in skipped[m]
               \/ \E j \in (i + 1)..at[m] : alog[j].op \in {"UserDelete", "UserChangePassword", "Adopt"}
      ]_avars

(* No user holds a role that does not exist, on any member: RoleDelete     *)
(* strips it from its holders and a later RoleAdd of the same name finds   *)
(* none (mvcc/auth.rs, plan).                                              *)
NoDanglingRole ==
    \A m \in Members : \A u \in tables[m].user : u.roles # {} => tables[m].role # {}

(* A request is authorized exactly when every key it reaches is covered by *)
(* one permission of the user's role; on single keys the two definitions   *)
(* of coverage agree (server/authz.rs perm_covers, bounds_for;             *)
(* mvcc/auth.rs covers).                                                   *)
CoverExact ==
    \A m \in Members : enabled[m] =>
      \A r \in PermsOf :
        LET Reach(p) == {k \in 0..Top : p.key <= k /\ k < HighOf(p)}
            perms == UNION {x \in tables[m].role : \E u \in tables[m].user : u.roles # {}}
        IN  /\ Reach(r) # {} => (Authorized(m, r) <=> \E p \in perms : Reach(r) \subseteq Reach(p))
            /\ r.kind = "one" => (Authorized(m, r) <=> \E p \in perms : Covers(p, r.key))

(* Auth on every member: tables that agree where the gate asked, no role   *)
(* that does not exist, the permission check exact, and a login that works *)
(* where it was answered (auth_sync.rs, mvcc/auth.rs, authz.rs).           *)
AuthRight == [](AuthTypeOK /\ GatedAgree /\ NoDanglingRole /\ CoverExact) /\ LoginWorks
=============================================================================
