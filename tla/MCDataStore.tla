---------------------------- MODULE MCDataStore -----------------------------
(***************************************************************************)
(* What holds the data, for TLC: the write-behind layers (WriteBehind),    *)
(* reads beside writes (ReadView) and the data directory from start to     *)
(* start (DataDir).  They share no state: `part' says which one a          *)
(* behaviour is of.                                                        *)
(***************************************************************************)
EXTENDS MCWriteBehind, ReadView, DataDir

CONSTANTS self, other

VARIABLE part

MCNamed == {self}

(* A data directory that is new, or was left by one of two old versions:   *)
(* one that kept neither its applied position nor its membership, and one  *)
(* that kept only the first.                                               *)
MCFirstFiles ==
  {NoFile,
   File(TRUE, 1, 0, {}, Log(1, 2, NoMent, 1), FALSE, 0, "none"),
   File(TRUE, 1, 2, {}, Log(1, 2, [at |-> 2, set |-> {self, other}], 1), FALSE, 0, "none")}

(* A start or a recovery that is interrupted, a backup that is rotten when *)
(* it is needed.                                                           *)
MCDdBudgets == {[stops |-> s, cuts |-> 1 - s, rots |-> 1 - s] : s \in 0..1}

MCInit ==
  /\ part \in {"layers", "reads", "dir"} /\ Init /\ RvInit /\ DdInit
  /\ part # "dir" => data = NoFile /\ budget.most.stops = 0

MCNext ==
  /\ UNCHANGED part
  /\ \/ part = "layers" /\ Next /\ UNCHANGED <<rvVars, ddVars>>
     \/ part = "reads" /\ RvNext /\ UNCHANGED <<vars, ddVars>>
     \/ part = "dir" /\ DdNext /\ UNCHANGED <<vars, rvVars>>

MCSpec == MCInit /\ [][MCNext]_<<part, vars, rvVars, ddVars>>
=============================================================================
