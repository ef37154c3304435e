------------------------------ MODULE MCEngine ------------------------------
(***************************************************************************)
(* Under the raft log, for TLC: the state machine with its snapshot store  *)
(* (StateMachine) and the redb engine (RedbEngine).  They share no state:  *)
(* `part' says which one a behaviour is of.                                *)
(***************************************************************************)
EXTENDS StateMachine, RedbEngine, TLC

VARIABLE part

MCLog == << [kind |-> "member", subs |-> << >>],
            [kind |-> "batch", subs |-> <<"put", "put", "lease", "read">>] >>
MCBudget == [snapshots |-> 2, faults |-> 1]
MCRBatches == {[k \in {x} |-> v] : x \in RKeys, v \in RVals \cup {RAbsent}}
MCSymmetry == Permutations(Members) \cup Permutations(Clients)

MCInit == part \in {"sm", "redb"} /\ SMInit /\ RedbInit

MCNext ==
  /\ UNCHANGED part
  /\ \/ part = "sm" /\ SMNext /\ UNCHANGED redbVars
     \/ part = "redb" /\ RedbNext /\ UNCHANGED smVars

MCSpec == MCInit /\ [][MCNext]_<<part, smVars, redbVars>>
=============================================================================
