----------------------------- MODULE MCRaftLog ------------------------------
(***************************************************************************)
(* The raft log for TLC: its writer, crashes and checkpoints (WalLogStore) *)
(* and what reads of it return (LogReads).  The two share no state: `part' *)
(* says which one a behaviour is of.                                       *)
(***************************************************************************)
EXTENDS WalLogStore, LogReads

VARIABLE part

Indexes == 1..3

Most(appends, votes, truncates, purges, installs, losses, kills, failures) ==
  [append |-> appends, vote |-> votes, truncate |-> truncates, purge |-> purges,
   install |-> installs, loss |-> losses, kill |-> kills, failure |-> failures]

(* A log that is truncated and purged, or voted in; a failing disk; a      *)
(* snapshot installed; a process that is killed; each with a power failure.  *)
MCBudgets == {Most(2, 0, 1, 1, 0, 1, 0, 0), Most(2, 1, 1, 0, 0, 1, 0, 0),
              Most(2, 0, 1, 0, 0, 1, 0, 1), Most(1, 1, 0, 1, 0, 1, 0, 1),
              Most(2, 0, 0, 1, 1, 1, 0, 0), Most(2, 0, 0, 1, 0, 1, 1, 0), Most(1, 0, 1, 0, 1, 0, 1, 0)}

(* A snapshot installed past what is written. *)
AheadBudget == {Most(2, 0, 0, 1, 1, 0, 0, 0)}

MCInit ==
  /\ part \in {"wal", "reads"} /\ Init /\ LrInit
  /\ part = "reads" => calls["vote"].most = 1 /\ calls["truncate"].most = 1

MCNext ==
  /\ UNCHANGED part
  /\ \/ part = "wal" /\ Next /\ UNCHANGED lrVars
     \/ part = "reads" /\ LrNext /\ UNCHANGED vars

MCSpec == MCInit /\ [][MCNext]_<<part, vars, lrVars>>
=============================================================================
