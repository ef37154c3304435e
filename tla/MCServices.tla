----------------------------- MODULE MCServices -----------------------------
(***************************************************************************)
(* What a call meets before it is served, for TLC: the auth service and    *)
(* its gate (Auth), the read barrier (ReadIndex), and the merge of the     *)
(* write-behind layers a read goes through (LayerReads).  They share no    *)
(* state: `part' says which one a behaviour is of.                         *)
(***************************************************************************)
EXTENDS Auth, ReadIndex, LayerReads, TLC

CONSTANTS c1, c2

VARIABLE part

(* One call of any kind beside one of those that race with the others. *)
MCAOps ==
  c1 :> {"Enable", "Disable", "Authenticate", "UserAdd", "UserDelete", "UserChangePassword",
         "UserGrantRole", "UserRevokeRole", "RoleAdd", "RoleDelete", "RoleGrantPermission",
         "RoleRevokePermission", "Adopt"}
  @@ c2 :> {"Authenticate", "RoleDelete", "UserGrantRole"}

MCLyKeys == 1..3
MCLyVals == {1}

MCInit ==
  /\ part \in {"auth", "reads", "merge"} /\ AuthInit /\ RIInit /\ LyInit
  /\ part # "merge" => engine = [k \in LyKeys |-> Gone]
  /\ part # "auth" => \A m \in Members : tables[m] = Empty

MCNext ==
  /\ UNCHANGED part
  /\ \/ part = "auth" /\ AuthNext /\ UNCHANGED <<riVars, lyvars>>
     \/ part = "reads" /\ RINext /\ UNCHANGED <<avars, lyvars>>
     \/ part = "merge" /\ LyNext /\ UNCHANGED <<avars, riVars>>

MCSpec == MCInit /\ [][MCNext]_<<part, avars, riVars, lyvars>>

(* Reads are followed while one at the founder goes on; two of them, once  *)
(* the membership is final and until one is served: which one is served    *)
(* first makes no difference to the other.                                 *)
ReadsGoOn ==
  part = "reads" =>
    /\ \E r \in Reads : read[r].at = Founder /\ read[r].pc \notin {"served", "raft"}
    /\ (\A r \in Reads : read[r].pc # "none") =>
         config = Uniform /\ \A r \in Reads : read[r].pc # "served"

(* Where the layers are read: every range, page by page, and the last key  *)
(* of every range are those of the contents the layers stand for           *)
(* (write_behind.rs, OverlaySnapshot::range, count and last).              *)
MergeRight == LyTypeOK /\ (part = "merge" => RangesRight /\ LastRight)

Symmetry == Permutations(Reads) \cup Permutations(Voters \ {Founder})
=============================================================================
