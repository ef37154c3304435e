------------------------------- MODULE MCNode -------------------------------
(***************************************************************************)
(* The rest of a node, for TLC: the proposer (Proposals), membership       *)
(* (Membership), disk space (Space), the snapshot policy (SnapPolicy), the *)
(* segmented WAL (RaftWal) and the migration tool (Migrate).  They share   *)
(* no state: `part' says which one a behaviour is of.                      *)
(***************************************************************************)
EXTENDS Proposals, Membership, Space, SnapPolicy, RaftWal, Migrate, TLC

CONSTANTS put1, put2, revoke, n1

VARIABLE part

(* Two puts that fit a batch and a revoke that fills one. *)
MCSizes == put1 :> 1 @@ put2 :> 1 @@ revoke :> 2

MCMgLeases == {1}

MCInit ==
  /\ part \in {"proposals", "members", "space", "policy", "wal", "migrate"}
  /\ PropInit /\ MbInit /\ SpaceInit /\ PolicyInit /\ RwInit /\ MgInit
  /\ part # "proposals" => scene = {"join"} /\ ~gate.open
  /\ part # "members" => chief = n1
  /\ part # "space" => leadsHere
  /\ part # "policy" => keep = 0
  /\ part # "migrate" => source.leases = {}

MCNext ==
  /\ UNCHANGED part
  /\ \/ part = "proposals" /\ PropNext /\ UNCHANGED <<mbVars, spVars, polVars, rwVars, mgvars>>
     \/ part = "members" /\ MbNext /\ UNCHANGED <<pvars, spVars, polVars, rwVars, mgvars>>
     \/ part = "space" /\ SpaceNext /\ UNCHANGED <<pvars, mbVars, polVars, rwVars, mgvars>>
     \/ part = "policy" /\ PolicyNext /\ UNCHANGED <<pvars, mbVars, spVars, rwVars, mgvars>>
     \/ part = "wal" /\ RwNext /\ UNCHANGED <<pvars, mbVars, spVars, polVars, mgvars>>
     \/ part = "migrate" /\ MgNext /\ UNCHANGED <<pvars, mbVars, spVars, polVars, rwVars>>

MCSpec == MCInit /\ [][MCNext]_<<part, pvars, mbVars, spVars, polVars, rwVars, mgvars>>

=============================================================================
