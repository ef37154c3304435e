----------------------------- MODULE WalRecords -----------------------------
(***************************************************************************)
(* The records of the raft write-ahead log (storage/raft_wal.rs) and what  *)
(* they mean: a log's contents are its entries, by index, and the latest   *)
(* purge, vote and committed id.  0 stands for "none".                     *)
(***************************************************************************)
EXTENDS Naturals

CONSTANTS Index, Val      \* log indexes; entries, votes and committed ids

ASSUME IndexAssumption == Index \subseteq Nat \ {0}

Kinds == {"entry", "truncate", "purge", "vote", "committed"}

Record == [kind : Kinds, index : Index \cup {0}, val : Val \cup {0}]

Contents == [entries : UNION {[D -> Val] : D \in SUBSET Index},
             purge : Index \cup {0}, vote : Val \cup {0}, committed : Index \cup {0}]

Empty == [entries |-> [i \in {} |-> 0], purge |-> 0, vote |-> 0, committed |-> 0]

EntryRec(i, v) == [kind |-> "entry", index |-> i, val |-> v]

TruncateRec(i) == [kind |-> "truncate", index |-> i, val |-> 0]

PurgeRec(i) == [kind |-> "purge", index |-> i, val |-> 0]

VoteRec(v) == [kind |-> "vote", index |-> 0, val |-> v]

CommittedRec(i) == [kind |-> "committed", index |-> i, val |-> 0]

(* Every record of those kinds but the last. *)
AllRecords == {EntryRec(i, v) : i \in Index, v \in Val} \cup {TruncateRec(i) : i \in Index}
                \cup {PurgeRec(i) : i \in Index} \cup {VoteRec(v) : v \in Val}

(* The entries below i, and above i. *)
BelowIndex(es, i) == [j \in {k \in DOMAIN es : k < i} |-> es[j]]

AboveIndex(es, i) == [j \in {k \in DOMAIN es : k > i} |-> es[j]]

(* An entry replaces what was at its index and after it. *)
PutEntry(es, i, v) == [j \in {k \in DOMAIN es : k < i} \cup {i} |-> IF j = i THEN v ELSE es[j]]

(* What a record does to the contents, as Wal::open replays it. *)
ReplayRecord(c, r) ==
  CASE r.kind = "entry" -> [c EXCEPT !.entries = IF r.index > c.purge THEN PutEntry(@, r.index, r.val)
                                                 ELSE BelowIndex(@, r.index)]
    [] r.kind = "truncate" -> [c EXCEPT !.entries = BelowIndex(@, r.index)]
    [] r.kind = "purge" -> [c EXCEPT !.entries = AboveIndex(@, r.index), !.purge = r.index]
    [] r.kind = "vote" -> [c EXCEPT !.vote = r.val]
    [] OTHER -> [c EXCEPT !.committed = r.index]
=============================================================================
