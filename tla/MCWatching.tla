----------------------------- MODULE MCWatching -----------------------------
(***************************************************************************)
(* Watches, the locks and elections that wait for events, and the leases   *)
(* locks are held by, for TLC.  Watch, Concurrency and Lessor share no     *)
(* state: `part' says which one a behaviour is of.  A watch behaviour has  *)
(* compactions and installs, or a progress request, not both.              *)
(***************************************************************************)
EXTENDS Watch, Concurrency, Lessor, TLC

CONSTANTS a, b, c, s1, s2

VARIABLE part

(* Three calls; two, and a client that goes away; two, and an observer. *)
MCScenes == {[lease |-> {a, b, c}, observed |-> FALSE, drops |-> 0],
             [lease |-> {a, b}, observed |-> FALSE, drops |-> 1],
             [lease |-> {a, b}, observed |-> TRUE, drops |-> 0]}
MCKindOf == a :> "lock" @@ b :> "campaign" @@ c :> "lock"

(* The servers are alike: the first one leads first. *)
MCInit ==
  /\ part \in {"watch", "progress", "locks", "leases"} /\ Init /\ ConInit /\ LInit
  /\ part # "locks" => lease = {a, b, c}
  /\ leadsIn[s1] = 1

MCNext ==
  /\ UNCHANGED part
  /\ \/ /\ part \in {"watch", "progress"} /\ Next /\ UNCHANGED <<conVars, lVars>>
        /\ IF part = "watch" THEN asks' = 0 ELSE installs' + compactions' = 0
     \/ part = "locks" /\ ConNext /\ UNCHANGED <<vars, lVars>>
     \/ part = "leases" /\ LNext /\ UNCHANGED <<vars, conVars>>

MCSpec == MCInit /\ [][MCNext]_<<part, vars, conVars, lVars>>

Symmetry == Permutations(Clients)
=============================================================================
