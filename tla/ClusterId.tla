----------------------------- MODULE ClusterId -----------------------------
(***************************************************************************)
(* The cluster id members report to clients (server/cluster_id.rs,         *)
(* apply_cluster_id of storage/mvcc/store.rs).  Each member starts with an *)
(* id of its own: the --cluster-id flag, the one its store holds, or a new *)
(* one.  Once every member can read the entry a leader proposes its own;   *)
(* the first entry applied is the cluster's id, and every member takes it  *)
(* over, or stops when its flag says otherwise.  An applied entry is       *)
(* durable only later, so a crash may take it back; the log has it still.  *)
(***************************************************************************)
EXTENDS Integers, Sequences, FiniteSets

CONSTANTS CiNodes,
          CiIds,      \* the ids members start with
          CiLogMax,   \* entries proposed, at most
          CiFaults    \* crashes and failed writes, at most

VARIABLES entries,  \* the ClusterId entries of the log
          node,     \* what each member has, on disk and in memory
          heads,    \* the leader
          cileft    \* faults left

civars == <<entries, node, heads, cileft>>

NoId == 0

(* choose: the flag, else the store's own, else a new one. *)
Chosen(flag, kept, new) == IF flag # NoId THEN flag ELSE IF kept # NoId THEN kept ELSE new

(* An explicit --cluster-id that is not the cluster's. *)
Contradicts(n, c) == c # NoId /\ n.flag # NoId /\ n.flag # c

(* applied, durable: entries applied and how many of them a crash leaves;  *)
(* the store's replicated id is the first of them.                         *)
CiInit ==
  /\ entries = << >>
  /\ node \in [CiNodes -> [flag : {NoId} \cup CiIds, kept : {NoId}, own : {NoId}, up : {FALSE},
                           new : BOOLEAN, applied : {0}, durable : {0}]]
  /\ heads \in CiNodes
  /\ cileft = CiFaults

(* Mutant of Replicated: the last entry applied wins. *)
LastWinsMutant(k) == IF k = 0 THEN NoId ELSE entries[k]

(* apply_cluster_id: the first applied wins. *)
Replicated(k) == IF k = 0 THEN NoId ELSE entries[1]

(* resolve and then reconcile, before serving.  A contradicting flag stops *)
(* the start, with its id already the store's own.                         *)
StartNode(m) ==
  /\ ~node[m].up
  /\ \E new \in CiIds :
       LET n == node[m]
           own == Chosen(n.flag, n.kept, new)
           c == Replicated(n.applied)
           id == IF c = NoId THEN own ELSE c
       IN  IF Contradicts(n, c)
             THEN node' = [node EXCEPT ![m].kept = own]
             ELSE node' = [node EXCEPT ![m] = [n EXCEPT !.up = TRUE, !.own = id, !.kept = id]]
  /\ UNCHANGED <<entries, heads, cileft>>

(* The version gate: every member answers and can read the entry. *)
IdGateOpen == \A m \in CiNodes : node[m].up /\ node[m].new

(* follow's proposer, at a tick of the leader; its own id as it is now. *)
ProposeId ==
  /\ node[heads].up /\ Replicated(node[heads].applied) = NoId
  /\ IdGateOpen /\ Len(entries) < CiLogMax
  /\ entries' = Append(entries, node[heads].own)
  /\ UNCHANGED <<node, heads, cileft>>

(* The log is applied, entry by entry or in a snapshot. *)
ApplyIds(m) ==
  /\ node[m].up
  /\ \E k \in (node[m].applied + 1)..Len(entries) : node' = [node EXCEPT ![m].applied = k]
  /\ UNCHANGED <<entries, heads, cileft>>

(* What was applied becomes durable. *)
MakeDurable(m) ==
  /\ node[m].durable < node[m].applied
  /\ node' = [node EXCEPT ![m].durable = node[m].applied]
  /\ UNCHANGED <<entries, heads, cileft>>

(* follow's watcher takes the cluster's id over, and persists it, which    *)
(* may fail.  The commit makes what was applied before it durable.         *)
Adopted(n, c, ok) ==
  IF ok THEN [n EXCEPT !.own = c, !.kept = c, !.durable = n.applied] ELSE [n EXCEPT !.own = c]

FollowId(m, ok) ==
  LET n == node[m]
      c == Replicated(n.applied)
  IN  /\ n.up /\ c # NoId /\ c # n.own
      /\ ok \/ cileft > 0
      /\ cileft' = IF ok THEN cileft ELSE cileft - 1
      /\ node' = [node EXCEPT ![m] = IF Contradicts(n, c) THEN [n EXCEPT !.up = FALSE, !.own = NoId]
                                     ELSE Adopted(n, c, ok)]
      /\ UNCHANGED <<entries, heads>>

CrashNode(m) ==
  /\ cileft > 0 /\ node[m].up /\ cileft' = cileft - 1
  /\ node' = [node EXCEPT ![m] = [@ EXCEPT !.up = FALSE, !.own = NoId, !.applied = node[m].durable]]
  /\ UNCHANGED <<entries, heads>>

(* A member is started with a newer binary; another member leads. *)
UpgradeNode(m) ==
  /\ ~node[m].up /\ ~node[m].new
  /\ node' = [node EXCEPT ![m].new = TRUE]
  /\ UNCHANGED <<entries, heads, cileft>>

StopToUpgrade(m) ==
  /\ node[m].up /\ ~node[m].new
  /\ node' = [node EXCEPT ![m] = [@ EXCEPT !.up = FALSE, !.own = NoId, !.durable = node[m].applied]]
  /\ UNCHANGED <<entries, heads, cileft>>

OtherLeads ==
  /\ cileft > 0 /\ cileft' = cileft - 1
  /\ heads' \in CiNodes \ {heads}
  /\ UNCHANGED <<entries, node>>

CiNext ==
  \/ ProposeId \/ OtherLeads
  \/ \E m \in CiNodes :
       \/ StartNode(m) \/ ApplyIds(m) \/ MakeDurable(m) \/ CrashNode(m)
       \/ UpgradeNode(m) \/ StopToUpgrade(m) \/ \E ok \in BOOLEAN : FollowId(m, ok)

(* The tasks run, the upgrade is finished, the log is applied. *)
CiSpec ==
  CiInit /\ [][CiNext]_civars /\ WF_civars(ProposeId)
    /\ \A m \in CiNodes :
         /\ WF_civars(StartNode(m)) /\ WF_civars(ApplyIds(m)) /\ WF_civars(FollowId(m, TRUE))
         /\ WF_civars(UpgradeNode(m)) /\ WF_civars(StopToUpgrade(m))

(***************************************************************************)
(* Properties.                                                             *)
(***************************************************************************)

(* A member that serves has an id; the flag's unless the cluster has one.  *)
CiTypeOK ==
  /\ entries \in Seq(CiIds) /\ Len(entries) <= CiLogMax /\ cileft \in 0..CiFaults
  /\ \A m \in CiNodes :
       LET n == node[m]
       IN  /\ n.up <=> n.own \in CiIds
           /\ 0 <= n.durable /\ n.durable <= n.applied /\ n.applied <= Len(entries)
           /\ n.up /\ n.flag # NoId => n.own = n.flag

(* IdStays: a member whose store holds the cluster's id as its own reports *)
(* no other id again: not after a crash that takes the entry back, not under  *)
(* another leader's later proposal (follow, reconcile, apply_cluster_id).  *)
IdStays ==
  [][\A m \in CiNodes :
       LET c == IF entries = << >> THEN NoId ELSE entries[1]
       IN  c # NoId /\ node[m].kept = c
             => node'[m].own \in {NoId, c} /\ node'[m].kept = c]_civars

(* IdAgreed: once an id is in the log, every member reports it at last,    *)
(* and always again after a crash, unless its flag forbids: that one has   *)
(* stopped (follow, reconcile).                                            *)
IdAgreed ==
  \A m \in CiNodes :
    ~<>[](/\ entries # << >> /\ node[m].own # Replicated(Len(entries))
          /\ ~(Contradicts(node[m], Replicated(Len(entries))) /\ ~node[m].up))

(* The cluster's id: members come to report the one in the log and never   *)
(* another again (choose, follow, reconcile, apply_cluster_id).            *)
IdSettles == []CiTypeOK /\ IdStays /\ IdAgreed
=============================================================================
