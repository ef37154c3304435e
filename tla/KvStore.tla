------------------------------ MODULE KvStore ------------------------------
(***************************************************************************)
(* What an engine behind the KvStore trait promises (storage/kvstore.rs):  *)
(* commits are atomic and totally ordered, a durable commit or a sync      *)
(* raises how much of that order survives, and a crash loses only a suffix *)
(* of it.  WriteBehind is shown to implement this for one writer.          *)
(***************************************************************************)
EXTENDS Naturals, Sequences

CONSTANT Contents    \* the possible contents of the store

VARIABLES hist,      \* hist[n]: the contents after n-1 commits since the start
          floor      \* the first `floor' states of hist are durable

kvars == <<hist, floor>>

Now == hist[Len(hist)]

Init == /\ hist \in {<<m>> : m \in Contents}
        /\ floor = 1

(* commit with sync = false: visible at once, durable later. *)
Commit == /\ \E m \in Contents : hist' = Append(hist, m)
          /\ UNCHANGED floor

(* sync, or the durability a commit with sync = true brings. *)
Persist == /\ \E n \in floor..Len(hist) : floor' = n
           /\ UNCHANGED hist

(* commit with sync = true: visible and durable when it returns. *)
CommitDurable == \E m \in Contents : /\ hist' = Append(hist, m)
                                     /\ floor' = Len(hist) + 1

(* A crash may lose non-sync commits, but only a suffix of them. *)
Crash == /\ \E n \in floor..Len(hist) : hist' = <<hist[n]>>
         /\ floor' = 1

Next == Commit \/ Persist \/ CommitDurable \/ Crash

Spec == Init /\ [][Next]_kvars
=============================================================================
