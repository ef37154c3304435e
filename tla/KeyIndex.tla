------------------------------ MODULE KeyIndex ------------------------------
(***************************************************************************)
(* A key's MVCC index (storage/mvcc/record.rs): the generations of the     *)
(* key, each the revisions of its puts and the delete that closed it.      *)
(*                                                                         *)
(* A revision is a pair <<main, sub>>.  The code's vectors are in          *)
(* revision order, so they are sets here: the last generation is the one   *)
(* created last, and a generation's version is its number of puts.  Reads  *)
(* and compactions are at <<m, i64::MAX>>, so only `main' is compared.     *)
(***************************************************************************)
EXTENDS Naturals, FiniteSets

CONSTANT NoRev    \* Option::None of a revision

Revision == Nat \X Nat

ASSUME NoRevAssumption == NoRev \notin Revision

Main(r) == r[1]

Precedes(p, q) == p[1] < q[1] \/ (p[1] = q[1] /\ p[2] < q[2])

Newest(S) == CHOOSE r \in S : \A q \in S : ~Precedes(r, q)

Generation == [created : Revision, revs : SUBSET Revision, tombstone : Revision \cup {NoRev}]

IsOpen(g) == g.tombstone = NoRev

LastOf(gens) == CHOOSE g \in gens : \A h \in gens : ~Precedes(g.created, h.created)

IsLive(gens) == gens # {} /\ IsOpen(LastOf(gens))

(* KeyIndex::current, of a live key. *)
Current(gens) == Newest(LastOf(gens).revs)

----------------------------------------------------------------------------
RecordPut(gens, r) ==
  IF IsLive(gens)
  THEN (gens \ {LastOf(gens)}) \cup {[LastOf(gens) EXCEPT !.revs = @ \cup {r}]}
  ELSE gens \cup {[created |-> r, revs |-> {r}, tombstone |-> NoRev]}

(* What record_put returns: the put's version and create revision. *)
PutVersion(gens) == Cardinality(LastOf(gens).revs)
PutCreated(gens) == LastOf(gens).created

(* record_delete of a live key. *)
RecordDelete(gens, r) ==
  (gens \ {LastOf(gens)}) \cup {[LastOf(gens) EXCEPT !.tombstone = r]}

(* Generation::latest_at_or_before: its candidates at main revision m. *)
AtOrBefore(g, m) ==
  {r \in g.revs : Main(r) <= m} \cup
  {t \in {g.tombstone} : ~IsOpen(g) /\ Main(t) <= m}

RevisionAt(gens, m) ==
  LET reached == {g \in gens : Main(g.created) <= m /\ AtOrBefore(g, m) # {}}
      g       == LastOf(reached)
      r       == Newest(AtOrBefore(g, m))
  IN  IF reached = {} \/ r = g.tombstone THEN NoRev ELSE r

----------------------------------------------------------------------------
(* Compaction at main revision m. *)

(* Mutant of Expired: a revision too far. *)
ExpiredEarlyMutant(g, m) == ~IsOpen(g) /\ Main(g.tombstone) <= m + 1

Expired(g, m) == ~IsOpen(g) /\ Main(g.tombstone) <= m

Below(g, m) == {r \in g.revs : Main(r) <= m}

(* The puts older than the newest one at or below m. *)
Superseded(g, m) == {r \in Below(g, m) : Precedes(r, Newest(Below(g, m)))}

(* KeyIndex::compact: what stays of the index, and the revisions dropped.  *)
Compacted(gens, m) ==
  {[g EXCEPT !.revs = @ \ Superseded(g, m)] : g \in {h \in gens : ~Expired(h, m)}}

Dropped(gens, m) ==
  UNION {IF Expired(g, m) THEN g.revs \cup {g.tombstone} ELSE Superseded(g, m) : g \in gens}

(* compaction_changes: the test compact uses to copy only some keys.       *)
CompactionChanges(gens, m) ==
  \E g \in gens : \/ Expired(g, m)
                  \/ \E q, r \in g.revs : Precedes(q, r) /\ Main(r) <= m

(* previous_live_record: the newest put, of any generation, before r. *)
PreviousPut(gens, r) ==
  LET puts == {q \in UNION {g.revs : g \in gens} : Precedes(q, r)}
  IN  IF puts = {} THEN NoRev ELSE Newest(puts)

----------------------------------------------------------------------------
(* g's tombstone comes before h's create-put. *)
EndsBefore(g, h) == ~IsOpen(g) /\ Precedes(g.tombstone, h.created)

(* The generations follow each other, each from its create-put through its *)
(* puts to its tombstone; only the last can be open.                       *)
WellFormed(gens) ==
  /\ gens \subseteq Generation
  /\ \A g \in gens :
       /\ g.revs # {}
       /\ \A r \in g.revs : ~Precedes(r, g.created) /\ (IsOpen(g) \/ Precedes(r, g.tombstone))
  /\ \A g, h \in gens : g # h => EndsBefore(g, h) \/ EndsBefore(h, g)

(* Every revision of the index comes before r. *)
AllBefore(gens, r) ==
  \A g \in gens : /\ \A q \in g.revs : Precedes(q, r)
                  /\ IsOpen(g) \/ Precedes(g.tombstone, r)

(* Vectors are finite: some number bounds every revision's parts. *)
Bounded(gens) ==
  \E b \in Nat : \A g \in gens : {g.created} \cup g.revs \subseteq (0..b) \X (0..b)
=============================================================================
