--------------------------- MODULE KeyIndexProofs ---------------------------
(***************************************************************************)
(* For every well-formed key index: reads at or above a compacted revision *)
(* return what they returned before the compaction and need no revision    *)
(* it drops; puts, deletes and compactions keep the index well-formed; and *)
(* what a read finds after a put or a delete.                              *)
(***************************************************************************)
EXTENDS KeyIndex, WellFoundedInduction, TLAPS

(* A bounded non-empty set of naturals has a largest element. *)
LEMMA MaxNat ==
  ASSUME NEW b \in Nat, NEW S, S \subseteq 0..b, S # {}
  PROVE  \E x \in S : \A y \in S : y <= x
<1> DEFINE T == {b - x : x \in S}
<1>0. \A x \in S : x \in Nat /\ b - x \in Nat
  OBVIOUS
<1>1. T \subseteq Nat /\ T # {}
  BY <1>0, Zenon
<1>2. \E t \in T : \A u \in T : ~(<<u, t>> \in OpToRel(<, Nat))
  BY <1>1, NatLessThanWellFounded, WFMin, Zenon
<1>3. PICK t \in T : \A u \in T : ~(<<u, t>> \in OpToRel(<, Nat))
  BY <1>2, Zenon
<1>4. \A u \in T : ~(u < t)
  BY <1>1, <1>3, Zenon DEF OpToRel
<1>5. PICK x \in S : t = b - x
  OBVIOUS
<1>6. \A y \in S : ~(b - y < b - x)
  BY <1>4, <1>5, Zenon
<1>7. \A y \in S : y <= x
  BY <1>0, <1>6
<1> QED
  BY <1>7

(* Revisions are totally ordered. *)
LEMMA Order ==
  ASSUME NEW p \in Revision, NEW q \in Revision
  PROVE  /\ Precedes(p, q) \/ Precedes(q, p) \/ p = q
         /\ ~(Precedes(p, q) /\ Precedes(q, p))
         /\ ~Precedes(p, p)
         /\ \A r \in Revision : Precedes(p, q) /\ Precedes(q, r) => Precedes(p, r)
BY DEF Revision, Precedes

(* The newest of a bounded non-empty set of revisions is in it, after every *)
(* other.                                                                   *)
LEMMA NewestExists ==
  ASSUME NEW b \in Nat, NEW S, S \subseteq (0..b) \X (0..b), S # {}
  PROVE  /\ Newest(S) \in S
         /\ \A q \in S : ~Precedes(Newest(S), q)
<1> DEFINE M == {r[1] : r \in S}
<1>1. M \subseteq 0..b /\ M # {}
  OBVIOUS
<1>2. PICK m \in M : \A y \in M : y <= m
  BY <1>1, MaxNat, Zenon
<1> DEFINE U == {r[2] : r \in {q \in S : q[1] = m}}
<1>3. U \subseteq 0..b /\ U # {}
  OBVIOUS
<1>4. PICK u \in U : \A y \in U : y <= u
  BY <1>3, MaxNat, Zenon
<1>5. PICK r \in S : r[1] = m /\ r[2] = u
  OBVIOUS
<1>6. \A q \in S : ~Precedes(r, q)
  <2> TAKE q \in S
  <2>1. q[1] <= m /\ (q[1] = m => q[2] <= u) /\ q[1] \in Nat /\ q[2] \in Nat
    BY <1>2, <1>4
  <2>2. m \in Nat /\ u \in Nat
    BY <1>1, <1>3
  <2> QED
    BY <2>1, <2>2, <1>5 DEF Precedes
<1> QED
  BY <1>6 DEF Newest

(* Whatever is in a set of revisions, after every other, is its newest. *)
LEMMA NewestIs ==
  ASSUME NEW S, S \subseteq Revision, NEW r \in S, \A q \in S : ~Precedes(r, q)
  PROVE  Newest(S) = r
<1>1. Newest(S) \in S /\ \A q \in S : ~Precedes(Newest(S), q)
  BY DEF Newest
<1> QED
  BY <1>1, Order
(* The last of a non-empty set of generations is in it, created after      *)
(* every other.                                                            *)
LEMMA LastOfExists ==
  ASSUME NEW gens, WellFormed(gens), Bounded(gens), NEW S, S \subseteq gens, S # {}
  PROVE  /\ LastOf(S) \in S
         /\ \A h \in S : ~Precedes(LastOf(S).created, h.created)
<1>1. PICK b \in Nat : \A g \in gens : {g.created} \cup g.revs \subseteq (0..b) \X (0..b)
  BY DEF Bounded
<1> DEFINE C == {g.created : g \in S}
<1>2. C \subseteq (0..b) \X (0..b) /\ C # {}
  BY <1>1
<1>3. Newest(C) \in C /\ \A q \in C : ~Precedes(Newest(C), q)
  BY <1>2, NewestExists, Zenon
<1>4. \E g \in S : \A h \in S : ~Precedes(g.created, h.created)
  BY <1>3, Zenon
<1> QED
  BY <1>4 DEF LastOf

(* Of two generations, one is closed and ends before the other begins. *)
LEMMA Apart ==
  ASSUME NEW gens, WellFormed(gens), NEW g \in gens, NEW h \in gens, g # h,
         ~Precedes(g.created, h.created)
  PROVE  ~IsOpen(h) /\ Precedes(h.tombstone, g.created) /\ Precedes(h.created, g.created)
<1>1. EndsBefore(g, h) \/ EndsBefore(h, g)
  BY DEF WellFormed
<1>2. \A x \in gens : ~IsOpen(x) => /\ x.created \in Revision /\ x.tombstone \in Revision
                                     /\ Precedes(x.created, x.tombstone)
  <2> SUFFICES ASSUME NEW x \in gens, ~IsOpen(x)
               PROVE  /\ x.created \in Revision /\ x.tombstone \in Revision
                      /\ Precedes(x.created, x.tombstone)
    OBVIOUS
  <2>1. x \in Generation
    BY DEF WellFormed
  <2>2. x.created \in Revision /\ x.revs \subseteq Revision /\ x.tombstone \in Revision
    BY <2>1 DEF Generation, IsOpen
  <2>3. PICK r \in x.revs : ~Precedes(r, x.created) /\ Precedes(r, x.tombstone)
    BY DEF WellFormed
  <2> QED
    BY <2>2, <2>3, Order
<1>3. g.created \in Revision /\ h.created \in Revision
  BY DEF WellFormed, Generation
<1>4. ~EndsBefore(g, h)
  BY <1>2, <1>3, Order DEF EndsBefore
<1> QED
  BY <1>1, <1>2, <1>3, <1>4, Order DEF EndsBefore

(* A generation created after every other is the last. *)
LEMMA LastOfIs ==
  ASSUME NEW gens, WellFormed(gens), NEW S, S \subseteq gens, NEW g \in S,
         \A h \in S : ~Precedes(g.created, h.created)
  PROVE  LastOf(S) = g
<1>1. LastOf(S) \in S /\ \A h \in S : ~Precedes(LastOf(S).created, h.created)
  BY DEF LastOf
<1>2. ASSUME LastOf(S) # g PROVE FALSE
  <2>1. Precedes(g.created, LastOf(S).created)
    BY <1>1, <1>2, Apart
  <2> QED
    BY <2>1, <1>1
<1> QED
  BY <1>2

(* What compaction makes of a generation it keeps. *)
Trimmed(g, m) == [g EXCEPT !.revs = @ \ Superseded(g, m)]

(* A read at or above the compacted revision finds the same revision in a  *)
(* generation that compaction keeps.                                       *)
LEMMA TrimmedReads ==
  ASSUME NEW gens, WellFormed(gens), Bounded(gens), NEW g \in gens,
         NEW m \in Nat, NEW n \in Nat, m <= n
  PROVE  /\ Trimmed(g, m).created = g.created
         /\ Trimmed(g, m).tombstone = g.tombstone
         /\ Trimmed(g, m).revs = g.revs \ Superseded(g, m)
         /\ AtOrBefore(Trimmed(g, m), n) \subseteq AtOrBefore(g, n)
         /\ AtOrBefore(g, n) # {} =>
              /\ AtOrBefore(Trimmed(g, m), n) # {}
              /\ Newest(AtOrBefore(Trimmed(g, m), n)) = Newest(AtOrBefore(g, n))
<1> DEFINE t == Trimmed(g, m)
           A == AtOrBefore(g, n)
           B == AtOrBefore(t, n)
<1>1. g \in Generation
  BY DEF WellFormed
<1>2. g.revs \subseteq Revision /\ (~IsOpen(g) => g.tombstone \in Revision)
  BY <1>1 DEF Generation, IsOpen
<1>3. t.created = g.created /\ t.tombstone = g.tombstone /\ t.revs = g.revs \ Superseded(g, m)
  BY <1>1 DEF Trimmed, Generation
<1>4. B \subseteq A
  BY <1>3 DEF AtOrBefore, IsOpen
<1>5. ASSUME A # {} PROVE B # {} /\ Newest(B) = Newest(A)
  <2>1. A \subseteq Revision
    BY <1>2 DEF AtOrBefore
  <2>2. PICK b \in Nat : A \subseteq (0..b) \X (0..b)
    <3>1. PICK c \in Nat : g.revs \subseteq (0..c) \X (0..c)
      BY DEF Bounded
    <3>2. CASE IsOpen(g)
      BY <3>1, <3>2 DEF AtOrBefore
    <3>3. CASE ~IsOpen(g)
      <4>1. PICK d \in Nat : c <= d /\ g.tombstone[1] <= d /\ g.tombstone[2] <= d
        <5>1. c + g.tombstone[1] + g.tombstone[2] \in Nat
          BY <1>2, <3>3 DEF Revision
        <5> QED
          BY <5>1, <1>2, <3>3 DEF Revision
      <4>2. g.tombstone \in (0..d) \X (0..d)
        BY <4>1, <1>2, <3>3 DEF Revision
      <4>3. g.revs \subseteq (0..d) \X (0..d)
        BY <4>1, <3>1
      <4> QED
        BY <4>2, <4>3 DEF AtOrBefore
    <3> QED
      BY <3>2, <3>3
  <2>3. Newest(A) \in A /\ \A q \in A : ~Precedes(Newest(A), q)
    BY <1>5, <2>2, NewestExists
  <2>4. Newest(A) \notin Superseded(g, m)
    <3> SUFFICES ASSUME Newest(A) \in Superseded(g, m) PROVE FALSE
      OBVIOUS
    <3>1. PICK c \in Nat : g.revs \subseteq (0..c) \X (0..c)
      BY DEF Bounded
    <3>2. Below(g, m) # {} /\ Below(g, m) \subseteq (0..c) \X (0..c)
      BY <3>1 DEF Superseded, Below
    <3>3. Newest(Below(g, m)) \in Below(g, m)
      BY <3>2, NewestExists
    <3>4. Below(g, m) \subseteq A
      BY <1>2 DEF Below, AtOrBefore, Main, Revision
    <3> QED
      BY <2>3, <3>3, <3>4 DEF Superseded
  <2>5. Newest(A) \in B
    BY <2>3, <2>4, <1>3 DEF AtOrBefore, IsOpen
  <2>6. Newest(B) = Newest(A)
    BY <2>1, <2>3, <2>5, <1>4, NewestIs
  <2> QED
    BY <2>5, <2>6
<1> QED
  BY <1>3, <1>4, <1>5
(* The generations a read at main revision n reaches. *)
Reached(gens, n) == {g \in gens : Main(g.created) <= n /\ AtOrBefore(g, n) # {}}

(* In an expired generation a read at or above the compacted revision      *)
(* finds the tombstone.                                                    *)
LEMMA ExpiredReads ==
  ASSUME NEW gens, WellFormed(gens), NEW g \in gens,
         NEW m \in Nat, NEW n \in Nat, m <= n, Expired(g, m)
  PROVE  AtOrBefore(g, n) # {} /\ Newest(AtOrBefore(g, n)) = g.tombstone
<1>1. g \in Generation /\ ~IsOpen(g) /\ Main(g.tombstone) <= m
  BY DEF WellFormed, Expired
<1>2. g.revs \subseteq Revision /\ g.tombstone \in Revision
  BY <1>1 DEF Generation, IsOpen
<1>3. Main(g.tombstone) <= n
  BY <1>1, <1>2 DEF Main, Revision
<1>4. g.tombstone \in AtOrBefore(g, n) /\ AtOrBefore(g, n) \subseteq g.revs \cup {g.tombstone}
  BY <1>1, <1>3 DEF AtOrBefore
<1>5. \A q \in AtOrBefore(g, n) : ~Precedes(g.tombstone, q)
  BY <1>1, <1>2, <1>4, Order DEF WellFormed
<1>6. AtOrBefore(g, n) \subseteq Revision
  BY <1>2, <1>4
<1> QED
  BY <1>4, <1>5, <1>6, NewestIs

(* KeyIndex::compact: a Range at or above the compacted revision reads the *)
(* revision it read before, of every key, whatever its history.            *)
THEOREM CompactKeepsReads ==
  ASSUME NEW gens, WellFormed(gens), Bounded(gens), NEW m \in Nat, NEW n \in Nat, m <= n
  PROVE  RevisionAt(Compacted(gens, m), n) = RevisionAt(gens, n)
<1> DEFINE R == Reached(gens, n)
           C == Compacted(gens, m)
           Q == Reached(C, n)
           L == LastOf(R)
<1>1. C = {Trimmed(g, m) : g \in {h \in gens : ~Expired(h, m)}}
  BY DEF Compacted, Trimmed
<1>2. \A t \in Q : \E g \in R : t = Trimmed(g, m) /\ ~Expired(g, m)
  <2> TAKE t \in Q
  <2>1. PICK g \in gens : t = Trimmed(g, m) /\ ~Expired(g, m)
    BY <1>1 DEF Reached
  <2>2. t.created = g.created /\ AtOrBefore(t, n) \subseteq AtOrBefore(g, n)
    BY <2>1, TrimmedReads
  <2>3. g \in R
    BY <2>2 DEF Reached
  <2> QED
    BY <2>1, <2>3
<1>3. CASE R = {}
  <2>1. Q = {}
    BY <1>2, <1>3
  <2> QED
    BY <1>3, <2>1 DEF RevisionAt, Reached
<1>4. CASE R # {}
  <2>1. R \subseteq gens
    BY DEF Reached
  <2>2. L \in R /\ \A h \in R : ~Precedes(L.created, h.created)
    BY <1>4, <2>1, LastOfExists
  <2>3. CASE Expired(L, m)
    <3>1. Newest(AtOrBefore(L, n)) = L.tombstone
      BY <2>1, <2>2, <2>3, ExpiredReads
    <3>2. RevisionAt(gens, n) = NoRev
      BY <3>1 DEF RevisionAt, Reached
    <3>3. \A g \in R : Expired(g, m)
      <4> SUFFICES ASSUME NEW g \in R, g # L PROVE Expired(g, m)
        BY <2>3
      <4>1. ~IsOpen(g) /\ Precedes(g.tombstone, L.created)
        BY <2>1, <2>2, Apart
      <4>2. L \in gens /\ g \in gens
        BY <2>1, <2>2
      <4>3. L.created \in Revision /\ L.revs \subseteq Revision /\ L.tombstone \in Revision
            /\ g.tombstone \in Revision
        BY <4>1, <4>2, <2>3 DEF WellFormed, Generation, Expired, IsOpen
      <4>4. PICK r \in L.revs : ~Precedes(r, L.created) /\ Precedes(r, L.tombstone)
        BY <4>2, <2>3 DEF WellFormed, Expired
      <4>5. Precedes(g.tombstone, L.tombstone)
        BY <4>1, <4>3, <4>4, Order
      <4>6. Main(L.tombstone) <= m
        BY <2>3 DEF Expired
      <4> QED
        BY <4>1, <4>3, <4>5, <4>6 DEF Expired, Precedes, Main, Revision
    <3>4. Q = {}
      BY <1>2, <3>3
    <3>5. RevisionAt(C, n) = NoRev
      BY <3>4 DEF RevisionAt, Reached
    <3> QED
      BY <3>2, <3>5
  <2>4. CASE ~Expired(L, m)
    <3> DEFINE K == Trimmed(L, m)
    <3>1. /\ K.created = L.created /\ K.tombstone = L.tombstone
          /\ AtOrBefore(K, n) # {} /\ Newest(AtOrBefore(K, n)) = Newest(AtOrBefore(L, n))
      BY <2>1, <2>2, TrimmedReads, Zenon DEF Reached
    <3>2. K \in Q
      BY <1>1, <2>1, <2>2, <2>4, <3>1, Zenon DEF Reached
    <3>3. \A t \in Q : ~Precedes(K.created, t.created) /\ (t.created = K.created => t = K)
      <4> TAKE t \in Q
      <4>1. PICK g \in R : t = Trimmed(g, m)
        BY <1>2
      <4>2. t.created = g.created
        BY <2>1, <4>1, TrimmedReads
      <4>3. g.created = L.created => g = L
        <5> SUFFICES ASSUME g.created = L.created, g # L PROVE FALSE
          OBVIOUS
        <5>1. Precedes(g.created, L.created)
          BY <2>1, <2>2, Apart
        <5>2. L.created \in Revision
          BY <2>1, <2>2 DEF WellFormed, Generation
        <5> QED
          BY <5>1, <5>2, Order
      <4> QED
        BY <2>2, <3>1, <4>1, <4>2, <4>3
    <3>4. LastOf(Q) = K
      <4>1. LastOf(Q) \in Q /\ \A h \in Q : ~Precedes(LastOf(Q).created, h.created)
        BY <3>2, <3>3 DEF LastOf
      <4>2. \A t \in Q : t.created \in Revision
        BY <1>2, <2>1, TrimmedReads DEF WellFormed, Generation
      <4>3. LastOf(Q).created = K.created
        BY <3>2, <3>3, <4>1, <4>2, Order
      <4> QED
        BY <3>3, <4>1, <4>3
    <3>5. RevisionAt(C, n) = IF Newest(AtOrBefore(K, n)) = K.tombstone
                             THEN NoRev ELSE Newest(AtOrBefore(K, n))
      BY <3>2, <3>4 DEF RevisionAt, Reached
    <3>6. RevisionAt(gens, n) = IF Newest(AtOrBefore(L, n)) = L.tombstone
                                THEN NoRev ELSE Newest(AtOrBefore(L, n))
      BY <1>4 DEF RevisionAt, Reached
    <3> QED
      BY <3>1, <3>5, <3>6
  <2> QED
    BY <2>3, <2>4
<1> QED
  BY <1>3, <1>4
(* A live key's last generation is its only open one. *)
LEMMA LiveLast ==
  ASSUME NEW gens, WellFormed(gens), Bounded(gens), IsLive(gens)
  PROVE  /\ LastOf(gens) \in gens /\ IsOpen(LastOf(gens))
         /\ \A h \in gens \ {LastOf(gens)} : EndsBefore(h, LastOf(gens))
<1>1. LastOf(gens) \in gens /\ \A h \in gens : ~Precedes(LastOf(gens).created, h.created)
  BY LastOfExists DEF IsLive
<1>2. IsOpen(LastOf(gens))
  BY DEF IsLive
<1> QED
  BY <1>1, <1>2 DEF WellFormed, EndsBefore

(* A key that is not live has only closed generations. *)
LEMMA NotLiveClosed ==
  ASSUME NEW gens, WellFormed(gens), Bounded(gens), ~IsLive(gens)
  PROVE  \A g \in gens : ~IsOpen(g)
<1> SUFFICES ASSUME NEW g \in gens, IsOpen(g) PROVE FALSE
  OBVIOUS
<1>1. LastOf(gens) \in gens /\ \A h \in gens : ~Precedes(LastOf(gens).created, h.created)
  BY LastOfExists
<1>2. g # LastOf(gens)
  BY DEF IsLive
<1> QED
  BY <1>1, <1>2, Apart

(* record_put at a revision after all of the key's: the index stays        *)
(* well-formed, whether the put continues a generation or starts one.      *)
THEOREM PutKeepsWellFormed ==
  ASSUME NEW gens, WellFormed(gens), Bounded(gens), NEW r \in Revision, AllBefore(gens, r)
  PROVE  WellFormed(RecordPut(gens, r)) /\ Bounded(RecordPut(gens, r))
<1> DEFINE P == RecordPut(gens, r)
<1>1. PICK b \in Nat : \A g \in gens : {g.created} \cup g.revs \subseteq (0..b) \X (0..b)
  BY DEF Bounded
<1>2. PICK d \in Nat : b <= d /\ r[1] <= d /\ r[2] <= d
  <2>1. b + r[1] + r[2] \in Nat
    BY DEF Revision
  <2> QED
    BY <2>1 DEF Revision
<1>3. r \in (0..d) \X (0..d) /\ (0..b) \X (0..b) \subseteq (0..d) \X (0..d)
  BY <1>2 DEF Revision
<1>4. CASE IsLive(gens)
  <2> DEFINE L == LastOf(gens)
             N == [L EXCEPT !.revs = @ \cup {r}]
  <2>1. L \in gens /\ IsOpen(L) /\ \A h \in gens \ {L} : EndsBefore(h, L)
    BY <1>4, LiveLast
  <2>2. P = (gens \ {L}) \cup {N}
    BY <1>4 DEF RecordPut
  <2>3. L \in Generation
    BY <2>1 DEF WellFormed
  <2>4. /\ N \in Generation /\ N.created = L.created /\ N.revs = L.revs \cup {r}
        /\ N.tombstone = L.tombstone /\ IsOpen(N)
    BY <2>1, <2>3 DEF Generation, IsOpen
  <2>5. ~Precedes(r, L.created)
    <3>1. PICK q \in L.revs : ~Precedes(q, L.created)
      BY <2>1 DEF WellFormed
    <3>2. Precedes(q, r)
      BY <2>1 DEF AllBefore
    <3>3. q \in Revision /\ L.created \in Revision
      BY <2>3 DEF Generation
    <3> QED
      BY <3>1, <3>2, <3>3, Order
  <2>6. \A h \in gens \ {L} : EndsBefore(h, N)
    BY <2>1, <2>4 DEF EndsBefore
  <2>7. WellFormed(P)
    BY <2>1, <2>2, <2>4, <2>5, <2>6, Zenon DEF WellFormed
  <2>8. \A g \in P : {g.created} \cup g.revs \subseteq (0..d) \X (0..d)
    BY <1>1, <1>3, <2>1, <2>2, <2>4, Zenon
  <2> QED
    BY <2>7, <2>8 DEF Bounded
<1>5. CASE ~IsLive(gens)
  <2> DEFINE N == [created |-> r, revs |-> {r}, tombstone |-> NoRev]
  <2>1. P = gens \cup {N}
    BY <1>5 DEF RecordPut
  <2>2. \A g \in gens : EndsBefore(g, N)
    BY <1>5, NotLiveClosed DEF AllBefore, EndsBefore
  <2>3. N \in Generation /\ IsOpen(N) /\ ~Precedes(r, r)
    BY Order DEF Generation, IsOpen
  <2>4. WellFormed(P)
    <3>1. P \subseteq Generation
      BY <2>1, <2>3, Zenon DEF WellFormed
    <3>2. \A g \in P : g.revs # {} /\ \A q \in g.revs :
            ~Precedes(q, g.created) /\ (IsOpen(g) \/ Precedes(q, g.tombstone))
      <4>1. N.revs # {} /\ \A q \in N.revs : ~Precedes(q, N.created)
        BY <2>3
      <4> QED
        BY <2>1, <2>3, <4>1 DEF WellFormed
    <3>3. \A g, h \in P : g # h => EndsBefore(g, h) \/ EndsBefore(h, g)
      BY <2>1, <2>2, Zenon DEF WellFormed
    <3> QED
      BY <3>1, <3>2, <3>3 DEF WellFormed
  <2>5. \A g \in P : {g.created} \cup g.revs \subseteq (0..d) \X (0..d)
    BY <1>1, <1>3, <2>1
  <2> QED
    BY <2>4, <2>5 DEF Bounded
<1> QED
  BY <1>4, <1>5

(* record_delete of a live key at a later revision: well-formed still. *)
THEOREM DeleteKeepsWellFormed ==
  ASSUME NEW gens, WellFormed(gens), Bounded(gens), IsLive(gens),
         NEW r \in Revision, AllBefore(gens, r)
  PROVE  WellFormed(RecordDelete(gens, r)) /\ Bounded(RecordDelete(gens, r))
<1> DEFINE D == RecordDelete(gens, r)
           L == LastOf(gens)
           N == [L EXCEPT !.tombstone = r]
<1>1. L \in gens /\ IsOpen(L) /\ \A h \in gens \ {L} : EndsBefore(h, L)
  BY LiveLast
<1>2. D = (gens \ {L}) \cup {N}
  BY DEF RecordDelete
<1>3. L \in Generation
  BY <1>1 DEF WellFormed
<1>4. /\ N \in Generation /\ N.created = L.created /\ N.revs = L.revs /\ N.tombstone = r
  BY <1>3 DEF Generation
<1>5. \A h \in gens \ {L} : EndsBefore(h, N)
  BY <1>1, <1>4 DEF EndsBefore
<1>6. \A q \in N.revs : ~Precedes(q, N.created) /\ Precedes(q, N.tombstone)
  BY <1>1, <1>4 DEF WellFormed, AllBefore
<1>7. N.revs # {}
  BY <1>1, <1>4 DEF WellFormed
<1>8. WellFormed(D)
  BY <1>2, <1>4, <1>5, <1>6, <1>7, Zenon DEF WellFormed
<1>9. Bounded(D)
  BY <1>1, <1>2, <1>4, Zenon DEF Bounded
<1> QED
  BY <1>8, <1>9

(* compact keeps the index well-formed: in particular the generation it    *)
(* trims keeps a put, the "impossible" empty open generation of the code.  *)
THEOREM CompactKeepsWellFormed ==
  ASSUME NEW gens, WellFormed(gens), Bounded(gens), NEW m \in Nat
  PROVE  WellFormed(Compacted(gens, m)) /\ Bounded(Compacted(gens, m))
<1> DEFINE C == Compacted(gens, m)
<1>1. C = {Trimmed(g, m) : g \in {h \in gens : ~Expired(h, m)}}
  BY DEF Compacted, Trimmed
<1>2. ASSUME NEW g \in gens
      PROVE  /\ Trimmed(g, m) \in Generation
             /\ Trimmed(g, m).created = g.created /\ Trimmed(g, m).tombstone = g.tombstone
             /\ Trimmed(g, m).revs \subseteq g.revs /\ Trimmed(g, m).revs # {}
  <2>1. g \in Generation /\ g.revs # {}
    BY DEF WellFormed
  <2>2. /\ Trimmed(g, m) \in Generation
        /\ Trimmed(g, m).created = g.created /\ Trimmed(g, m).tombstone = g.tombstone
        /\ Trimmed(g, m).revs = g.revs \ Superseded(g, m)
    BY <2>1 DEF Trimmed, Generation
  <2>3. g.revs \ Superseded(g, m) # {}
    <3>1. CASE Below(g, m) = {}
      BY <2>1, <3>1 DEF Superseded
    <3>2. CASE Below(g, m) # {}
      <4>1. PICK b \in Nat : g.revs \subseteq (0..b) \X (0..b)
        BY DEF Bounded
      <4>2. Newest(Below(g, m)) \in Below(g, m)
        BY <3>2, <4>1, NewestExists DEF Below
      <4>3. Newest(Below(g, m)) \in Revision
        BY <2>1, <4>2 DEF Below, Generation
      <4> QED
        BY <4>2, <4>3, Order DEF Superseded, Below
    <3> QED
      BY <3>1, <3>2
  <2> QED
    BY <2>2, <2>3
<1>3. WellFormed(C)
  <2>1. C \subseteq Generation
    BY <1>1, <1>2
  <2>2. \A t \in C : t.revs # {} /\ \A r \in t.revs :
          ~Precedes(r, t.created) /\ (IsOpen(t) \/ Precedes(r, t.tombstone))
    BY <1>1, <1>2 DEF WellFormed, IsOpen
  <2>3. \A t, u \in C : t # u => EndsBefore(t, u) \/ EndsBefore(u, t)
    BY <1>1, <1>2 DEF WellFormed, EndsBefore, IsOpen
  <2> QED
    BY <2>1, <2>2, <2>3 DEF WellFormed
<1>4. Bounded(C)
  <2>1. PICK b \in Nat : \A g \in gens : {g.created} \cup g.revs \subseteq (0..b) \X (0..b)
    BY DEF Bounded
  <2>2. \A t \in C : {t.created} \cup t.revs \subseteq (0..b) \X (0..b)
    BY <1>1, <1>2, <2>1
  <2> QED
    BY <2>2 DEF Bounded
<1> QED
  BY <1>3, <1>4

----------------------------------------------------------------------------
(* What reads find after each operation. *)

(* The candidates of a read in a generation have a newest one. *)
LEMMA AtOrBeforeNewest ==
  ASSUME NEW gens, WellFormed(gens), Bounded(gens), NEW g \in gens, NEW n \in Nat,
         AtOrBefore(g, n) # {}
  PROVE  /\ AtOrBefore(g, n) \subseteq Revision
         /\ Newest(AtOrBefore(g, n)) \in AtOrBefore(g, n)
         /\ \A q \in AtOrBefore(g, n) : ~Precedes(Newest(AtOrBefore(g, n)), q)
<1> DEFINE A == AtOrBefore(g, n)
<1>1. g \in Generation
  BY DEF WellFormed
<1>2. g.revs \subseteq Revision /\ (~IsOpen(g) => g.tombstone \in Revision)
  BY <1>1 DEF Generation, IsOpen
<1>3. A \subseteq Revision
  BY <1>2 DEF AtOrBefore
<1>4. PICK c \in Nat : g.revs \subseteq (0..c) \X (0..c)
  BY DEF Bounded
<1>5. PICK d \in Nat : c <= d /\ (~IsOpen(g) => g.tombstone[1] <= d /\ g.tombstone[2] <= d)
  <2>1. CASE IsOpen(g)
    BY <2>1
  <2>2. CASE ~IsOpen(g)
    <3>1. c + g.tombstone[1] + g.tombstone[2] \in Nat
      BY <1>2, <2>2 DEF Revision
    <3> QED
      BY <3>1, <1>2, <2>2 DEF Revision
  <2> QED
    BY <2>1, <2>2
<1>6. ~IsOpen(g) => g.tombstone \in (0..d) \X (0..d)
  BY <1>2, <1>5 DEF Revision
<1>7. g.revs \subseteq (0..d) \X (0..d)
  BY <1>4, <1>5
<1>8. A \subseteq (0..d) \X (0..d)
  BY <1>6, <1>7 DEF AtOrBefore
<1> QED
  BY <1>3, <1>8, NewestExists

(* The last generation a read reaches decides it. *)
LEMMA ReadDecided ==
  ASSUME NEW gens, WellFormed(gens), NEW n \in Nat, NEW g \in Reached(gens, n),
         \A h \in Reached(gens, n) : ~Precedes(g.created, h.created)
  PROVE  RevisionAt(gens, n) = IF Newest(AtOrBefore(g, n)) = g.tombstone
                               THEN NoRev ELSE Newest(AtOrBefore(g, n))
<1>1. LastOf(Reached(gens, n)) = g
  <2>1. Reached(gens, n) \subseteq gens
    BY DEF Reached
  <2> QED
    BY <2>1, LastOfIs
<1> QED
  BY <1>1 DEF RevisionAt, Reached

(* What a read finds is a put of one of the generations, the newest it     *)
(* reaches there, and not a tombstone.                                     *)
LEMMA ReadFinds ==
  ASSUME NEW gens, WellFormed(gens), Bounded(gens), NEW n \in Nat, RevisionAt(gens, n) # NoRev
  PROVE  \E g \in gens :
           /\ RevisionAt(gens, n) \in g.revs
           /\ RevisionAt(gens, n) # g.tombstone
           /\ RevisionAt(gens, n) = Newest(AtOrBefore(g, n))
           /\ RevisionAt(gens, n) \in Revision
           /\ \A q \in AtOrBefore(g, n) : ~Precedes(RevisionAt(gens, n), q)
<1> DEFINE R == Reached(gens, n)
           L == LastOf(R)
<1>1. R # {} /\ R \subseteq gens
  BY DEF RevisionAt, Reached
<1>2. L \in R /\ \A h \in R : ~Precedes(L.created, h.created)
  BY <1>1, LastOfExists
<1>3. L \in gens /\ AtOrBefore(L, n) # {}
  BY <1>2 DEF Reached
<1>4. /\ Newest(AtOrBefore(L, n)) \in AtOrBefore(L, n)
      /\ AtOrBefore(L, n) \subseteq Revision
      /\ \A q \in AtOrBefore(L, n) : ~Precedes(Newest(AtOrBefore(L, n)), q)
  BY <1>3, AtOrBeforeNewest
<1>5. RevisionAt(gens, n) = IF Newest(AtOrBefore(L, n)) = L.tombstone
                            THEN NoRev ELSE Newest(AtOrBefore(L, n))
  BY <1>2, ReadDecided
<1>6. RevisionAt(gens, n) = Newest(AtOrBefore(L, n)) /\ Newest(AtOrBefore(L, n)) # L.tombstone
  BY <1>5
<1>7. Newest(AtOrBefore(L, n)) \in L.revs
  BY <1>4, <1>6 DEF AtOrBefore
<1> QED
  BY <1>3, <1>4, <1>6, <1>7

(* A revision belongs to one generation. *)
LEMMA OneGeneration ==
  ASSUME NEW gens, WellFormed(gens), NEW g \in gens, NEW h \in gens, g # h, NEW r \in g.revs
  PROVE  r \notin h.revs /\ r # h.tombstone
<1>1. g \in Generation /\ h \in Generation
  BY DEF WellFormed
<1>2. /\ g.revs \subseteq Revision /\ h.revs \subseteq Revision
      /\ g.created \in Revision /\ h.created \in Revision
      /\ (~IsOpen(g) => g.tombstone \in Revision) /\ (~IsOpen(h) => h.tombstone \in Revision)
  BY <1>1 DEF Generation, IsOpen
<1>3. CASE IsOpen(h)
  <2>1. r # h.tombstone
    BY <1>2, <1>3, NoRevAssumption DEF IsOpen
  <2>2. EndsBefore(g, h)
    BY <1>3 DEF WellFormed, EndsBefore
  <2>3. Precedes(r, g.tombstone) /\ Precedes(g.tombstone, h.created) /\ ~IsOpen(g)
    BY <2>2 DEF WellFormed, EndsBefore
  <2>4. Precedes(r, h.created)
    BY <1>2, <2>3, Order
  <2> QED
    BY <2>1, <2>4 DEF WellFormed
<1>4. CASE ~IsOpen(h)
  <2>0. PICK q \in h.revs : ~Precedes(q, h.created) /\ Precedes(q, h.tombstone)
    BY <1>4 DEF WellFormed
  <2>1. CASE EndsBefore(g, h)
    <3>1. Precedes(r, g.tombstone) /\ Precedes(g.tombstone, h.created) /\ ~IsOpen(g)
      BY <2>1 DEF WellFormed, EndsBefore
    <3>2. Precedes(r, h.created)
      BY <1>2, <3>1, Order
    <3>3. Precedes(h.created, h.tombstone)
      BY <1>2, <1>4, <2>0, Order
    <3> QED
      BY <1>2, <1>4, <3>2, <3>3, Order DEF WellFormed
  <2>2. CASE EndsBefore(h, g)
    <3>1. Precedes(h.tombstone, g.created) /\ ~Precedes(r, g.created)
      BY <2>2 DEF WellFormed, EndsBefore
    <3>2. Precedes(h.tombstone, r)
      BY <1>2, <1>4, <3>1, Order
    <3> QED
      BY <1>2, <1>4, <3>2, Order DEF WellFormed
  <2> QED
    BY <2>1, <2>2 DEF WellFormed
<1> QED
  BY <1>3, <1>4

(* KeyIndex::compact drops no revision that a Range at or above the        *)
(* compacted one reads: the records it deletes are not needed.             *)
THEOREM ReadsNotDropped ==
  ASSUME NEW gens, WellFormed(gens), Bounded(gens), NEW m \in Nat, NEW n \in Nat, m <= n,
         RevisionAt(gens, n) # NoRev
  PROVE  RevisionAt(gens, n) \notin Dropped(gens, m)
<1> DEFINE r == RevisionAt(gens, n)
<1>1. PICK g \in gens : /\ r \in g.revs /\ r # g.tombstone /\ r = Newest(AtOrBefore(g, n))
                        /\ \A q \in AtOrBefore(g, n) : ~Precedes(r, q)
  BY ReadFinds
<1> HIDE DEF r
<1>2. ASSUME NEW h \in gens, Expired(h, m), r \in h.revs \cup {h.tombstone} PROVE FALSE
  <2>1. h = g
    BY <1>1, <1>2, OneGeneration
  <2> QED
    BY <1>1, <1>2, <2>1, ExpiredReads
<1>3. ASSUME NEW h \in gens, r \in Superseded(h, m) PROVE FALSE
  <2>1. h = g
    BY <1>1, <1>3, OneGeneration DEF Superseded, Below
  <2>2. PICK c \in Nat : g.revs \subseteq (0..c) \X (0..c)
    BY DEF Bounded
  <2>3. Below(g, m) # {} /\ Below(g, m) \subseteq (0..c) \X (0..c)
    BY <1>3, <2>1, <2>2 DEF Superseded, Below
  <2>4. Newest(Below(g, m)) \in Below(g, m)
    BY <2>3, NewestExists
  <2>5. Below(g, m) \subseteq AtOrBefore(g, n)
    <3>1. g.revs \subseteq Revision
      BY DEF WellFormed, Generation
    <3> QED
      BY <3>1 DEF Below, AtOrBefore, Main, Revision
  <2> QED
    BY <1>1, <1>3, <2>1, <2>4, <2>5 DEF Superseded
<1>4. r \notin Dropped(gens, m)
  BY <1>2, <1>3 DEF Dropped
<1> QED
  BY <1>4 DEF r

(* A read past every revision of the index reads the newest state. *)
LEMMA ReadsPastAll ==
  ASSUME NEW gens, WellFormed(gens), Bounded(gens), NEW c \in Nat,
         AllBefore(gens, <<c + 1, 0>>), NEW n \in Nat, c <= n
  PROVE  RevisionAt(gens, n) = RevisionAt(gens, c)
<1>1. ASSUME NEW g \in gens
      PROVE  /\ Main(g.created) <= c /\ Main(g.created) <= n
             /\ AtOrBefore(g, n) = AtOrBefore(g, c)
  <2>1. g \in Generation /\ g.revs # {}
    BY DEF WellFormed
  <2>2. g.revs \subseteq Revision /\ g.created \in Revision /\ (~IsOpen(g) => g.tombstone \in Revision)
    BY <2>1 DEF Generation, IsOpen
  <2>3. \A q \in g.revs : Main(q) <= c
    BY <2>2 DEF AllBefore, Precedes, Main, Revision
  <2>4. ~IsOpen(g) => Main(g.tombstone) <= c
    BY <2>2 DEF AllBefore, Precedes, Main, Revision
  <2>5. PICK first \in g.revs : ~Precedes(first, g.created)
    BY <2>1 DEF WellFormed
  <2>6. Main(g.created) <= c
    BY <2>2, <2>3, <2>5 DEF Precedes, Main, Revision
  <2>7. \A q \in Revision : Main(q) <= c => Main(q) <= n
    BY DEF Main, Revision
  <2>8. AtOrBefore(g, n) = AtOrBefore(g, c)
    BY <2>2, <2>3, <2>4, <2>7 DEF AtOrBefore
  <2> QED
    BY <2>2, <2>6, <2>7, <2>8
<1>2. Reached(gens, n) = Reached(gens, c)
  BY <1>1 DEF Reached
<1>3. CASE Reached(gens, c) = {}
  BY <1>2, <1>3 DEF RevisionAt, Reached
<1>4. CASE Reached(gens, c) # {}
  <2> DEFINE L == LastOf(Reached(gens, c))
  <2>1. Reached(gens, c) \subseteq gens
    BY DEF Reached
  <2>2. L \in Reached(gens, c) /\ \A h \in Reached(gens, c) : ~Precedes(L.created, h.created)
    BY <1>4, <2>1, LastOfExists
  <2> HIDE DEF L
  <2>3. L \in gens /\ AtOrBefore(L, n) = AtOrBefore(L, c)
    BY <1>1, <2>1, <2>2
  <2>4. RevisionAt(gens, c) = IF Newest(AtOrBefore(L, c)) = L.tombstone
                              THEN NoRev ELSE Newest(AtOrBefore(L, c))
    BY <2>2, ReadDecided
  <2>5. RevisionAt(gens, n) = IF Newest(AtOrBefore(L, n)) = L.tombstone
                              THEN NoRev ELSE Newest(AtOrBefore(L, n))
    BY <1>2, <2>2, ReadDecided
  <2> QED
    BY <2>3, <2>4, <2>5
<1> QED
  BY <1>3, <1>4

(* Changing the last generation by something a read does not reach changes *)
(* nothing it reads.                                                       *)
LEMMA ReplacedReads ==
  ASSUME NEW gens, WellFormed(gens), Bounded(gens), NEW G \in gens, NEW N,
         NEW H, H = (gens \ {G}) \cup {N}, WellFormed(H),
         N.created = G.created, NEW n \in Nat, AtOrBefore(N, n) = AtOrBefore(G, n),
         N.tombstone \notin AtOrBefore(G, n), G.tombstone \notin AtOrBefore(G, n)
  PROVE  RevisionAt(H, n) = RevisionAt(gens, n)
<1> DEFINE R == Reached(gens, n)
           Q == Reached(H, n)
           L == LastOf(R)
<1>1. \A g : g \in Q <=> (g \in R /\ g # G) \/ (g = N /\ G \in R)
  BY DEF Reached
<1>2. CASE R = {}
  <2>1. Q = {}
    BY <1>1, <1>2
  <2> QED
    BY <1>2, <2>1 DEF RevisionAt, Reached
<1>3. CASE R # {}
  <2>1. R \subseteq gens
    BY DEF Reached
  <2>2. L \in R /\ \A h \in R : ~Precedes(L.created, h.created)
    BY <1>3, <2>1, LastOfExists
  <2>3. RevisionAt(gens, n) = IF Newest(AtOrBefore(L, n)) = L.tombstone
                              THEN NoRev ELSE Newest(AtOrBefore(L, n))
    BY <2>2, ReadDecided
  <2> HIDE DEF L, R, Q
  <2>4. CASE L = G
    <3>1. N \in Q /\ \A h \in Q : ~Precedes(N.created, h.created)
      <4>1. ~Precedes(G.created, G.created)
        BY <2>2, <2>4
      <4> QED
        BY <1>1, <2>2, <2>4, <4>1
    <3>2. RevisionAt(H, n) = IF Newest(AtOrBefore(N, n)) = N.tombstone
                             THEN NoRev ELSE Newest(AtOrBefore(N, n))
      BY <3>1, ReadDecided DEF Q
    <3>3. Newest(AtOrBefore(G, n)) \in AtOrBefore(G, n)
      <4>1. AtOrBefore(G, n) # {}
        BY <2>2, <2>4 DEF R, Reached
      <4> QED
        BY <4>1, AtOrBeforeNewest
    <3> QED
      BY <2>3, <2>4, <3>2, <3>3
  <2>5. CASE L # G
    <3>1. L \in Q /\ \A h \in Q : ~Precedes(L.created, h.created)
      BY <1>1, <2>2, <2>5
    <3>2. RevisionAt(H, n) = IF Newest(AtOrBefore(L, n)) = L.tombstone
                             THEN NoRev ELSE Newest(AtOrBefore(L, n))
      BY <3>1, ReadDecided DEF Q
    <3> QED
      BY <2>3, <3>2
  <2> QED
    BY <2>4, <2>5
<1> QED
  BY <1>2, <1>3

(* record_put at a later revision: reads from it on find the put, earlier  *)
(* ones what they found.                                                   *)
THEOREM PutReads ==
  ASSUME NEW gens, WellFormed(gens), Bounded(gens), NEW r \in Revision, AllBefore(gens, r),
         NEW n \in Nat
  PROVE  RevisionAt(RecordPut(gens, r), n) = IF Main(r) <= n THEN r ELSE RevisionAt(gens, n)
<1> DEFINE P == RecordPut(gens, r)
<1>1. WellFormed(P) /\ Bounded(P)
  BY PutKeepsWellFormed
<1>2. ASSUME NEW N \in P, r \in N.revs, IsOpen(N), \A h \in P \ {N} : EndsBefore(h, N),
             \A q \in N.revs : ~Precedes(r, q), Main(r) <= n
      PROVE  RevisionAt(P, n) = r
  <2>1. P \subseteq Generation
    BY <1>1 DEF WellFormed
  <2>2. \A g \in P : g.created \in Revision /\ g.revs \subseteq Revision
    BY <2>1 DEF Generation
  <2>3. Main(N.created) <= n
    <3>1. ~Precedes(r, N.created)
      BY <1>1, <1>2 DEF WellFormed
    <3> QED
      BY <1>2, <2>2, <3>1 DEF Precedes, Main, Revision
  <2>4. r \in AtOrBefore(N, n) /\ AtOrBefore(N, n) \subseteq N.revs
    BY <1>2 DEF AtOrBefore
  <2>5. N \in Reached(P, n)
    BY <2>3, <2>4 DEF Reached
  <2>6. ASSUME NEW h \in P PROVE ~Precedes(N.created, h.created)
    <3>1. CASE h = N
      BY <2>2, <3>1, Order
    <3>2. CASE h # N
      <4>1. Precedes(h.tombstone, N.created) /\ ~IsOpen(h)
        BY <1>2, <3>2 DEF EndsBefore
      <4>2. h.tombstone \in Revision
        BY <2>1, <4>1 DEF Generation, IsOpen
      <4>3. PICK q \in h.revs : ~Precedes(q, h.created) /\ Precedes(q, h.tombstone)
        BY <1>1, <4>1 DEF WellFormed
      <4>4. Precedes(h.created, h.tombstone)
        BY <2>2, <4>2, <4>3, Order
      <4>5. Precedes(h.created, N.created)
        BY <2>2, <4>1, <4>2, <4>4, Order
      <4> QED
        BY <2>2, <4>5, Order
    <3> QED
      BY <3>1, <3>2
  <2>7. RevisionAt(P, n) = IF Newest(AtOrBefore(N, n)) = N.tombstone
                           THEN NoRev ELSE Newest(AtOrBefore(N, n))
    <3>1. \A h \in Reached(P, n) : ~Precedes(N.created, h.created)
      BY <2>6 DEF Reached
    <3> HIDE DEF P
    <3> QED
      BY <1>1, <2>5, <3>1, ReadDecided
  <2>8. Newest(AtOrBefore(N, n)) = r
    <3>1. AtOrBefore(N, n) \subseteq Revision
      BY <2>2, <2>4
    <3>2. \A q \in AtOrBefore(N, n) : ~Precedes(r, q)
      BY <1>2, <2>4
    <3> QED
      BY <2>4, <3>1, <3>2, NewestIs
  <2> QED
    BY <1>2, <2>7, <2>8, NoRevAssumption DEF IsOpen
<1>3. CASE IsLive(gens)
  <2> DEFINE G == LastOf(gens)
             N == [G EXCEPT !.revs = @ \cup {r}]
  <2>1. G \in gens /\ IsOpen(G) /\ \A h \in gens \ {G} : EndsBefore(h, G)
    BY <1>3, LiveLast
  <2>2. P = (gens \ {G}) \cup {N}
    BY <1>3 DEF RecordPut
  <2>3. G \in Generation
    BY <2>1 DEF WellFormed
  <2>4. /\ N.created = G.created /\ N.revs = G.revs \cup {r}
        /\ N.tombstone = G.tombstone /\ IsOpen(N)
    BY <2>1, <2>3 DEF Generation, IsOpen
  <2> HIDE DEF P, N, G
  <2>5. \A h \in P \ {N} : EndsBefore(h, N)
    BY <2>1, <2>2, <2>4 DEF EndsBefore
  <2>6. \A q \in N.revs : ~Precedes(r, q)
    <3>1. \A q \in G.revs : Precedes(q, r) /\ q \in Revision
      BY <2>1, <2>3 DEF AllBefore, Generation
    <3> QED
      BY <2>4, <3>1, Order
  <2>7. CASE Main(r) <= n
    BY <1>2, <2>2, <2>4, <2>5, <2>6, <2>7 DEF P
  <2>8. CASE ~(Main(r) <= n)
    <3>1. AtOrBefore(N, n) = AtOrBefore(G, n)
      BY <2>1, <2>4, <2>8 DEF AtOrBefore
    <3>2. N.tombstone \notin AtOrBefore(G, n) /\ G.tombstone \notin AtOrBefore(G, n)
      BY <2>1, <2>3, <2>4, NoRevAssumption DEF AtOrBefore, IsOpen, Generation
    <3>3. RevisionAt(P, n) = RevisionAt(gens, n)
      BY <1>1, <2>1, <2>2, <2>4, <3>1, <3>2, ReplacedReads
    <3> QED
      BY <2>8, <3>3 DEF P
  <2> QED
    BY <2>7, <2>8
<1>4. CASE ~IsLive(gens)
  <2> DEFINE N == [created |-> r, revs |-> {r}, tombstone |-> NoRev]
  <2>1. P = gens \cup {N}
    BY <1>4 DEF RecordPut
  <2>2. \A g \in gens : EndsBefore(g, N)
    BY <1>4, NotLiveClosed DEF AllBefore, EndsBefore
  <2>3. N.created = r /\ N.revs = {r} /\ IsOpen(N) /\ ~Precedes(r, r)
    BY Order DEF IsOpen
  <2> HIDE DEF P, N
  <2>4. CASE Main(r) <= n
    BY <1>2, <2>1, <2>2, <2>3, <2>4 DEF P
  <2>5. CASE ~(Main(r) <= n)
    <3>1. Reached(P, n) = Reached(gens, n)
      BY <2>1, <2>3, <2>5 DEF Reached
    <3>2. RevisionAt(P, n) = RevisionAt(gens, n)
      BY <3>1 DEF RevisionAt, Reached
    <3> QED
      BY <2>5, <3>2 DEF P
  <2> QED
    BY <2>4, <2>5
<1> QED
  BY <1>3, <1>4

(* record_delete at a later revision: reads from it on find no key,        *)
(* earlier ones what they found.                                           *)
THEOREM DeleteReads ==
  ASSUME NEW gens, WellFormed(gens), Bounded(gens), IsLive(gens), NEW r \in Revision,
         AllBefore(gens, r), NEW n \in Nat
  PROVE  RevisionAt(RecordDelete(gens, r), n) = IF Main(r) <= n THEN NoRev ELSE RevisionAt(gens, n)
<1> DEFINE D == RecordDelete(gens, r)
           G == LastOf(gens)
           N == [G EXCEPT !.tombstone = r]
<1>1. WellFormed(D) /\ Bounded(D)
  BY DeleteKeepsWellFormed
<1>2. G \in gens /\ IsOpen(G) /\ \A h \in gens \ {G} : EndsBefore(h, G)
  BY LiveLast
<1>3. D = (gens \ {G}) \cup {N}
  BY DEF RecordDelete
<1>4. G \in Generation
  BY <1>2 DEF WellFormed
<1>5. /\ N.created = G.created /\ N.revs = G.revs /\ N.tombstone = r /\ ~IsOpen(N)
      /\ G.created \in Revision /\ G.revs \subseteq Revision
  BY <1>4, NoRevAssumption DEF Generation, IsOpen
<1>6. \A q \in G.revs : Precedes(q, r)
  BY <1>2 DEF AllBefore
<1> HIDE DEF D, N, G
<1>7. CASE ~(Main(r) <= n)
  <2>1. AtOrBefore(N, n) = AtOrBefore(G, n)
    BY <1>2, <1>5, <1>7 DEF AtOrBefore
  <2>2. G.tombstone \notin AtOrBefore(G, n)
    BY <1>2, <1>5, NoRevAssumption DEF AtOrBefore, IsOpen
  <2>3. N.tombstone \notin AtOrBefore(G, n)
    BY <1>2, <1>5, <1>7 DEF AtOrBefore
  <2>4. RevisionAt(D, n) = RevisionAt(gens, n)
    BY <1>1, <1>2, <1>3, <1>5, <2>1, <2>2, <2>3, ReplacedReads
  <2> QED
    BY <1>7, <2>4 DEF D
<1>8. CASE Main(r) <= n
  <2>1. N \in D /\ ~IsOpen(N) /\ Expired(N, n)
    BY <1>3, <1>5, <1>8 DEF Expired
  <2>2. Newest(AtOrBefore(N, n)) = N.tombstone
    BY <1>1, <2>1, ExpiredReads
  <2>3. Main(N.created) <= n
    <3>1. PICK q \in G.revs : ~Precedes(q, G.created)
      BY <1>2 DEF WellFormed
    <3>2. Precedes(q, r)
      BY <1>6
    <3> QED
      BY <1>5, <1>8, <3>1, <3>2 DEF Precedes, Main, Revision
  <2>4. r \in AtOrBefore(N, n)
    BY <1>5, <1>8 DEF AtOrBefore
  <2>5. N \in Reached(D, n)
    BY <2>1, <2>3, <2>4 DEF Reached
  <2>6. ASSUME NEW h \in D PROVE ~Precedes(N.created, h.created)
    <3>1. CASE h = N
      BY <1>5, <3>1, Order
    <3>2. CASE h # N
      <4>1. h \in gens /\ h \in Generation /\ Precedes(h.tombstone, G.created) /\ ~IsOpen(h)
        BY <1>2, <1>3, <3>2 DEF EndsBefore, WellFormed
      <4>2. h.tombstone \in Revision /\ h.created \in Revision /\ h.revs \subseteq Revision
        BY <4>1 DEF Generation, IsOpen
      <4>3. PICK q \in h.revs : ~Precedes(q, h.created) /\ Precedes(q, h.tombstone)
        BY <4>1 DEF WellFormed
      <4>4. Precedes(h.created, h.tombstone)
        BY <4>2, <4>3, Order
      <4>5. Precedes(h.created, N.created)
        BY <1>5, <4>1, <4>2, <4>4, Order
      <4> QED
        BY <1>5, <4>2, <4>5, Order
    <3> QED
      BY <3>1, <3>2
  <2>7. \A h \in Reached(D, n) : ~Precedes(N.created, h.created)
    BY <2>6 DEF Reached
  <2>8. RevisionAt(D, n) = NoRev
    BY <1>1, <2>2, <2>5, <2>7, ReadDecided
  <2> QED
    BY <1>8, <2>8 DEF D
<1> QED
  BY <1>7, <1>8

(* record_put keeps every revision of the index below the next one. *)
LEMMA PutAllBefore ==
  ASSUME NEW gens, WellFormed(gens), Bounded(gens), NEW r \in Revision, AllBefore(gens, r),
         NEW s \in Revision, Precedes(r, s)
  PROVE  AllBefore(RecordPut(gens, r), s) /\ AllBefore(gens, s)
<1>1. \A g \in gens : g.revs \subseteq Revision /\ (~IsOpen(g) => g.tombstone \in Revision)
  BY DEF WellFormed, Generation, IsOpen
<1>2. AllBefore(gens, s)
  BY <1>1, Order DEF AllBefore
<1>3. CASE IsLive(gens)
  <2> DEFINE G == LastOf(gens)
             N == [G EXCEPT !.revs = @ \cup {r}]
  <2>0. G \in gens /\ IsOpen(G)
    BY <1>3, LiveLast
  <2>1. G \in gens /\ G \in Generation /\ IsOpen(G)
    BY <2>0 DEF WellFormed
  <2>2. N.revs = G.revs \cup {r} /\ N.tombstone = G.tombstone
    BY <2>1 DEF Generation
  <2>3. RecordPut(gens, r) = (gens \ {G}) \cup {N}
    BY <1>3 DEF RecordPut
  <2> HIDE DEF G, N
  <2> QED
    BY <1>2, <2>1, <2>2, <2>3 DEF AllBefore, IsOpen
<1>4. CASE ~IsLive(gens)
  <2> DEFINE N == [created |-> r, revs |-> {r}, tombstone |-> NoRev]
  <2>1. RecordPut(gens, r) = gens \cup {N}
    BY <1>4 DEF RecordPut
  <2>2. N.revs = {r} /\ IsOpen(N)
    BY DEF IsOpen
  <2> HIDE DEF N
  <2> QED
    BY <1>2, <2>1, <2>2 DEF AllBefore
<1> QED
  BY <1>2, <1>3, <1>4

(* So does record_delete ... *)
LEMMA DeleteAllBefore ==
  ASSUME NEW gens, WellFormed(gens), Bounded(gens), IsLive(gens), NEW r \in Revision,
         AllBefore(gens, r), NEW s \in Revision, Precedes(r, s)
  PROVE  AllBefore(RecordDelete(gens, r), s)
<1> DEFINE G == LastOf(gens)
           N == [G EXCEPT !.tombstone = r]
<1>1. AllBefore(gens, s)
  BY PutAllBefore
<1>0. G \in gens
  BY LiveLast
<1>2. G \in gens /\ G \in Generation
  BY <1>0 DEF WellFormed
<1>3. N.revs = G.revs /\ N.tombstone = r
  BY <1>2 DEF Generation
<1>4. RecordDelete(gens, r) = (gens \ {G}) \cup {N}
  BY DEF RecordDelete
<1> HIDE DEF G, N
<1> QED
  BY <1>1, <1>2, <1>3, <1>4 DEF AllBefore

(* ... and compact. *)
LEMMA CompactAllBefore ==
  ASSUME NEW gens, WellFormed(gens), NEW s, AllBefore(gens, s), NEW m
  PROVE  AllBefore(Compacted(gens, m), s)
<1>1. ASSUME NEW g \in gens
      PROVE  /\ [g EXCEPT !.revs = @ \ Superseded(g, m)].revs \subseteq g.revs
             /\ [g EXCEPT !.revs = @ \ Superseded(g, m)].tombstone = g.tombstone
  <2>1. g \in Generation
    BY DEF WellFormed
  <2> QED
    BY <2>1 DEF Generation
<1>2. ASSUME NEW t \in Compacted(gens, m)
      PROVE  (\A q \in t.revs : Precedes(q, s)) /\ (IsOpen(t) \/ Precedes(t.tombstone, s))
  <2>1. PICK g \in gens : t = [g EXCEPT !.revs = @ \ Superseded(g, m)]
    BY DEF Compacted
  <2>2. t.revs \subseteq g.revs /\ t.tombstone = g.tombstone
    BY <1>1, <2>1
  <2> QED
    BY <2>2 DEF AllBefore, IsOpen
<1> QED
  BY <1>2 DEF AllBefore
=============================================================================
