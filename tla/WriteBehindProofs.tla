------------------------- MODULE WriteBehindProofs -------------------------
(***************************************************************************)
(* Proofs about WriteBehind, for any keys, values, batches, writers,       *)
(* readers and bounds: the view is always the committed contents, every    *)
(* snapshot is one of its states, and what survives a crash is, for each   *)
(* writer, a state of its own commits past its last durable one; with a    *)
(* single writer, the contract KvStore.                                    *)
(***************************************************************************)
EXTENDS WriteBehind, Integers, WellFoundedInduction, TLAPS

(***************************************************************************)
(* Sequences.                                                              *)
(***************************************************************************)
(* A sequence is a function on the positions up to its length. *)
LEMMA LenProperties ==
  ASSUME NEW S, NEW s \in Seq(S)
  PROVE  Len(s) \in Nat /\ s \in [1..Len(s) -> S] /\ DOMAIN s = 1..Len(s)
OBVIOUS

(* Its elements. *)
LEMMA ElementOfSeq ==
  ASSUME NEW S, NEW s \in Seq(S), NEW i \in 1..Len(s)
  PROVE  s[i] \in S
OBVIOUS

(* The empty sequence. *)
LEMMA EmptySeq ==
  ASSUME NEW S
  PROVE  /\ <<>> \in Seq(S) /\ Len(<<>>) = 0
         /\ \A s \in Seq(S) : s # <<>> => Len(s) \in Nat \ {0}
OBVIOUS

(* An element appended. *)
LEMMA AppendProperties ==
  ASSUME NEW S, NEW s \in Seq(S), NEW e \in S
  PROVE  /\ Append(s, e) \in Seq(S) /\ Append(s, e) # <<>>
         /\ Len(Append(s, e)) = Len(s) + 1 /\ Len(s) \in Nat
         /\ \A i \in 1..Len(s) : Append(s, e)[i] = s[i]
         /\ Append(s, e)[Len(s) + 1] = e
OBVIOUS

(* Appending keeps the older elements. *)
LEMMA AppendKeeps ==
  ASSUME NEW S, NEW s \in Seq(S), NEW e \in S
  PROVE  /\ Len(Append(s, e)) = Len(s) + 1 /\ Len(s) \in Nat
         /\ \A i \in 1..Len(s) : Append(s, e)[i] = s[i]
         /\ Append(s, e)[Len(s) + 1] = e
BY AppendProperties

(* A part of a sequence. *)
LEMMA SubSeqProperties ==
  ASSUME NEW S, NEW s, NEW m \in Int, NEW n \in Int, \A i \in m..n : s[i] \in S
  PROVE  /\ SubSeq(s, m, n) \in Seq(S)
         /\ Len(SubSeq(s, m, n)) = IF m <= n THEN n - m + 1 ELSE 0
         /\ \A i \in 1..(n - m + 1) : SubSeq(s, m, n)[i] = s[m + i - 1]
OBVIOUS

NatLess == {ss \in Nat \X Nat : ss[1] < ss[2]}

(* The order on the naturals is well founded. *)
LEMMA NatLessWellFounded == IsWellFoundedOn(NatLess, Nat)
BY NatLessThanWellFounded, Zenon DEF OpToRel, NatLess

(* A non-empty set of positions has a largest one. *)
LEMMA LargestExists ==
  ASSUME NEW n \in Nat, NEW T, T \subseteq 1..n, T # {}
  PROVE  \E x \in T : \A y \in T : y <= x
<1> DEFINE D == {n - x : x \in T}
<1>1. D \subseteq Nat /\ D # {}
  <2>1. PICK t \in T : TRUE
    BY Zenon
  <2>2. n - t \in D
    BY Zenon
  <2>3. \A x \in T : n - x \in Nat
    OBVIOUS
  <2> QED BY <2>2, <2>3, Zenon
<1>2. PICK d \in D : \A e \in D : ~(<<e, d>> \in NatLess)
  <2> HIDE DEF D
  <2> QED BY NatLessWellFounded, <1>1, WFMin, Zenon
<1>3. PICK x \in T : d = n - x
  BY <1>2, Zenon
<1>4. ASSUME NEW y \in T PROVE y <= x
  <2>1. n - y \in D
    BY Zenon
  <2>2. ~(n - y < d)
    BY <2>1, <1>1, <1>2, Zenon DEF NatLess
  <2> QED BY <2>2, <1>3
<1> QED BY <1>4, Zenon

(* Latest is the largest element of a set of positions, 0 of none. *)
LEMMA LatestIsLargest ==
  ASSUME NEW n \in Nat, NEW S, S \subseteq 1..n
  PROVE  /\ S = {} => Latest(S) = 0
         /\ S # {} => /\ Latest(S) \in S
                      /\ Latest(S) # 0
                      /\ \A j \in S : j <= Latest(S)
<1>1. CASE S = {}
  BY <1>1, Zenon DEF Latest
<1>2. CASE S # {}
  <2>1. \E x \in S : \A y \in S : y <= x
    BY <1>2, LargestExists, Zenon
  <2>2. Latest(S) = CHOOSE i \in S : \A j \in S : j <= i
    BY <1>2, Zenon DEF Latest
  <2>3. Latest(S) \in S /\ \A j \in S : j <= Latest(S)
    BY <2>1, <2>2, Zenon
  <2>4. \A x \in S : x # 0
    OBVIOUS
  <2> QED BY <2>3, <2>4, <1>2, Zenon
<1> QED BY <1>1, <1>2, Zenon

(* The op that decides a key is the last one of the batch that names it. *)
LEMMA DecidingIsLast ==
  ASSUME NEW b \in Seq(Op), NEW k
  PROVE  /\ Deciding(b, k) = 0 => \A i \in DOMAIN b : k \notin b[i].keys
         /\ Deciding(b, k) # 0 => /\ Deciding(b, k) \in DOMAIN b
                                  /\ k \in b[Deciding(b, k)].keys
<1> DEFINE S == {i \in DOMAIN b : k \in b[i].keys}
<1>1. Len(b) \in Nat /\ S \subseteq 1..Len(b)
  BY LenProperties, Zenon
<1>2. Deciding(b, k) = Latest(S)
  BY Zenon DEF Deciding
<1> QED BY <1>1, <1>2, LatestIsLargest, ZenonT(60)

(* The layer that decides a key is the newest one that touches it. *)
LEMMA TopIsNewest ==
  ASSUME NEW ls, NEW L, ls \in Seq(L), NEW k
  PROVE  /\ Top(ls, k) = 0 => \A i \in 1..Len(ls) : ~Touches(ls[i], k)
         /\ Top(ls, k) # 0 =>
              /\ Top(ls, k) \in 1..Len(ls)
              /\ Touches(ls[Top(ls, k)], k)
              /\ \A j \in 1..Len(ls) : Touches(ls[j], k) => j <= Top(ls, k)
<1> DEFINE S == {i \in DOMAIN ls : Touches(ls[i], k)}
<1>1. Len(ls) \in Nat /\ S \subseteq 1..Len(ls) /\ DOMAIN ls = 1..Len(ls)
  BY LenProperties, Zenon
<1>2. Top(ls, k) = Latest(S)
  BY Zenon DEF Top
<1>3. /\ S = {} => Latest(S) = 0
      /\ S # {} => Latest(S) \in S /\ Latest(S) # 0 /\ \A j \in S : j <= Latest(S)
  <2> HIDE DEF S
  <2> QED BY <1>1, LatestIsLargest, Zenon
<1>4. \A i \in 1..Len(ls) : i \in S <=> Touches(ls[i], k)
  BY <1>1, Zenon
<1> HIDE DEF S
<1> QED BY <1>1, <1>2, <1>3, <1>4, Zenon

(* A position that touches a key with no later one that does is its Top. *)
LEMMA TopUnique ==
  ASSUME NEW ls, NEW L, ls \in Seq(L), NEW k, NEW i \in 1..Len(ls),
         Touches(ls[i], k), \A j \in 1..Len(ls) : Touches(ls[j], k) => j <= i
  PROVE  Top(ls, k) = i
<1>1. Top(ls, k) # 0 /\ Top(ls, k) \in 1..Len(ls) /\ Touches(ls[Top(ls, k)], k)
      /\ i <= Top(ls, k)
  BY TopIsNewest, Zenon
<1>2. Top(ls, k) <= i
  BY <1>1, Zenon
<1>3. Len(ls) \in Nat
  BY LenProperties, Zenon
<1> QED BY <1>1, <1>2, <1>3

(* No layer touches a key iff its Top is 0. *)
LEMMA TopNone ==
  ASSUME NEW ls, NEW L, ls \in Seq(L), NEW k, \A i \in 1..Len(ls) : ~Touches(ls[i], k)
  PROVE  Top(ls, k) = 0
BY TopIsNewest, Zenon

(* Layer::from_batch loses nothing: the layer touches the keys the batch   *)
(* names and says of each what applying the batch in order would leave.    *)
LEMMA FromBatchFaithful ==
  ASSUME NEW b \in Seq(Op), NEW k \in Keys
  PROVE  /\ Touches(FromBatch(b), k) <=> Deciding(b, k) # 0
         /\ Deciding(b, k) # 0 => Says(FromBatch(b), k) = b[Deciding(b, k)].val
<1> DEFINE d == Deciding(b, k)
           E == {x \in Keys : Deciding(b, x) # 0 /\ ~b[Deciding(b, x)].range}
           R == UNION {b[i].keys : i \in {j \in DOMAIN b : b[j].range}}
<1>1. /\ FromBatch(b).entries = [x \in E |-> b[Deciding(b, x)].val]
      /\ FromBatch(b).dels = R
  BY Zenon DEF FromBatch
<1>2. DOMAIN FromBatch(b).entries = E
  BY <1>1, Zenon
<1>3. k \in R => d # 0
  BY DecidingIsLast
<1>4. d # 0 => (k \in E <=> ~b[d].range)
  BY Zenon
<1>5. d # 0 => d \in DOMAIN b /\ k \in b[d].keys /\ b[d] \in Op
  BY DecidingIsLast, ElementOfSeq, LenProperties, ZenonT(30)
<1>6. d # 0 /\ b[d].range => k \in R /\ b[d].val = Absent
  BY <1>5, Zenon DEF Op
<1>7. Touches(FromBatch(b), k) <=> (k \in E \/ k \in R)
  BY <1>1, <1>2, Zenon DEF Touches
<1>8. Touches(FromBatch(b), k) <=> d # 0
  <2>1. k \in E => d # 0
    BY Zenon
  <2> HIDE DEF E, R, d
  <2> QED BY <2>1, <1>3, <1>4, <1>5, <1>6, <1>7, Zenon
<1>9. d # 0 => Says(FromBatch(b), k) = b[d].val
  <2>1. CASE k \in E
    BY <2>1, <1>1, <1>2, Zenon DEF Says
  <2>2. CASE k \notin E
    BY <2>2, <1>2, <1>4, <1>5, <1>6, Zenon DEF Says, Op
  <2> QED BY <2>1, <2>2, Zenon
<1> QED BY <1>8, <1>9, Zenon

(* The first n layers of ls. *)
IsPrefixOf(pre, ls) ==
  Len(pre) <= Len(ls) /\ \A i \in 1..Len(pre) : pre[i] = ls[i]

(* A pushed layer reads as its batch applied to what was there. *)
LEMMA OverlayPush ==
  ASSUME NEW m, NEW L, NEW ls \in Seq(L), NEW b \in Seq(Op), FromBatch(b) \in L
  PROVE  Overlay(m, Append(ls, FromBatch(b))) = ApplyBatch(Overlay(m, ls), b)
<1> DEFINE l == FromBatch(b)
           as == Append(ls, l)
<1>1. /\ as \in Seq(L) /\ Len(ls) \in Nat /\ Len(as) = Len(ls) + 1
      /\ as[Len(ls) + 1] = l
      /\ \A i \in 1..Len(ls) : as[i] = ls[i]
  BY AppendProperties, LenProperties
<1>2. ASSUME NEW k \in Keys
      PROVE  Overlay(m, as)[k] = ApplyBatch(Overlay(m, ls), b)[k]
  <2>1. CASE Deciding(b, k) # 0
    <3>1. Touches(l, k) /\ Says(l, k) = b[Deciding(b, k)].val
      BY <2>1, FromBatchFaithful, Zenon
    <3>2. Top(as, k) = Len(ls) + 1
      <4> HIDE DEF as, l
      <4>1. Len(ls) + 1 \in 1..Len(as)
        BY <1>1
      <4>2. \A j \in 1..Len(as) : j <= Len(ls) + 1
        BY <1>1
      <4> QED BY <4>1, <4>2, <3>1, <1>1, TopUnique, Zenon
    <3>3. Top(as, k) # 0
      BY <3>2, <1>1
    <3>4. Overlay(m, as)[k] = Says(l, k)
      BY <3>2, <3>3, <1>1, Zenon DEF Overlay
    <3> QED BY <3>1, <3>4, <2>1, Zenon DEF ApplyBatch
  <2>2. CASE Deciding(b, k) = 0
    <3>1. ~Touches(l, k)
      BY <2>2, FromBatchFaithful, Zenon
    <3>2. Top(as, k) = Top(ls, k)
      <4> HIDE DEF as, l
      <4>1. CASE Top(ls, k) = 0
        <5>1. ASSUME NEW i \in 1..Len(as) PROVE ~Touches(as[i], k)
          <6>1. i \in 1..Len(ls) \/ i = Len(ls) + 1
            BY <1>1
          <6>2. \A j \in 1..Len(ls) : ~Touches(ls[j], k)
            BY <4>1, TopIsNewest, Zenon
          <6> QED BY <6>1, <6>2, <3>1, <1>1, Zenon
        <5> QED BY <5>1, <4>1, <1>1, TopNone, Zenon
      <4>2. CASE Top(ls, k) # 0
        <5>1. /\ Top(ls, k) \in 1..Len(as)
              /\ Touches(as[Top(ls, k)], k)
              /\ \A j \in 1..Len(as) : Touches(as[j], k) => j <= Top(ls, k)
          <6>1. /\ Top(ls, k) \in 1..Len(ls)
                /\ Touches(ls[Top(ls, k)], k)
                /\ \A j \in 1..Len(ls) : Touches(ls[j], k) => j <= Top(ls, k)
            BY <4>2, TopIsNewest, Zenon
          <6>2. \A j \in 1..Len(as) : j \in 1..Len(ls) \/ j = Len(ls) + 1
            BY <1>1
          <6>3. Top(ls, k) \in 1..Len(as)
            BY <6>1, <1>1
          <6> QED BY <6>1, <6>2, <6>3, <3>1, <1>1, Zenon
        <5> QED BY <5>1, <1>1, TopUnique, Zenon
      <4> QED BY <4>1, <4>2, Zenon
    <3>3. Top(ls, k) # 0 => as[Top(ls, k)] = ls[Top(ls, k)]
      BY <1>1, TopIsNewest, Zenon
    <3>4. Overlay(m, as)[k] = Overlay(m, ls)[k]
      BY <3>2, <3>3, Zenon DEF Overlay
    <3> QED BY <3>4, <2>2, Zenon DEF ApplyBatch
  <2> QED BY <2>1, <2>2, Zenon
<1> QED BY <1>2, Zenon DEF Overlay, ApplyBatch

(* Writing a prefix of the layers into the base changes nothing over them. *)
LEMMA OverlayAbsorb ==
  ASSUME NEW m, NEW L, NEW ls \in Seq(L), NEW pre \in Seq(L), IsPrefixOf(pre, ls)
  PROVE  Overlay(Overlay(m, pre), ls) = Overlay(m, ls)
<1>1. Len(ls) \in Nat /\ Len(pre) \in Nat
  BY LenProperties, Zenon
<1>2. ASSUME NEW k \in Keys
      PROVE  Overlay(Overlay(m, pre), ls)[k] = Overlay(m, ls)[k]
  <2>1. CASE Top(ls, k) # 0
    BY <2>1, Zenon DEF Overlay
  <2>2. CASE Top(ls, k) = 0
    <3>1. \A i \in 1..Len(pre) : ~Touches(pre[i], k)
      BY <2>2, <1>1, TopIsNewest DEF IsPrefixOf
    <3>2. Top(pre, k) = 0
      BY <3>1, TopNone, Zenon
    <3> QED BY <2>2, <3>2, Zenon DEF Overlay
  <2> QED BY <2>1, <2>2, Zenon
<1> QED BY <1>2, Zenon DEF Overlay

(* m already says what the layers ls say. *)
Holds(m, ls) == \A k \in Keys : Top(ls, k) # 0 => m[k] = Says(ls[Top(ls, k)], k)

(* Once the base holds a prefix of the layers, that prefix can go. *)
LEMMA OverlayDrop ==
  ASSUME NEW m, NEW L, NEW ls \in Seq(L), NEW pre \in Seq(L), IsPrefixOf(pre, ls),
         Holds(m, pre)
  PROVE  Overlay(m, SubSeq(ls, Len(pre) + 1, Len(ls))) = Overlay(m, ls)
<1> DEFINE rest == SubSeq(ls, Len(pre) + 1, Len(ls))
<1>1. Len(ls) \in Nat /\ Len(pre) \in Nat /\ Len(pre) <= Len(ls)
  BY LenProperties, Zenon DEF IsPrefixOf
<1>2. /\ rest \in Seq(L) /\ Len(rest) = Len(ls) - Len(pre)
      /\ \A i \in 1..(Len(ls) - Len(pre)) : rest[i] = ls[Len(pre) + i]
  <2>1. \A i \in 1..Len(ls) : ls[i] \in L
    BY ElementOfSeq, Zenon
  <2> QED BY <1>1, <2>1, SubSeqProperties
<1>3. ASSUME NEW k \in Keys
      PROVE  Overlay(m, rest)[k] = Overlay(m, ls)[k]
  <2> DEFINE t == Top(ls, k)
  <2> HIDE DEF rest
  <2>1. CASE t = 0
    <3>1. \A i \in 1..Len(rest) : ~Touches(rest[i], k)
      <4>1. \A i \in 1..Len(rest) : Len(pre) + i \in 1..Len(ls) /\ rest[i] = ls[Len(pre) + i]
        BY <1>1, <1>2
      <4>2. \A j \in 1..Len(ls) : ~Touches(ls[j], k)
        BY <2>1, TopIsNewest, Zenon
      <4> QED BY <4>1, <4>2, Zenon
    <3>2. Top(rest, k) = 0
      BY <3>1, <1>2, TopNone, Zenon
    <3> QED BY <2>1, <3>2, Zenon DEF Overlay
  <2>2. CASE t # 0 /\ t > Len(pre)
    <3>1. /\ t \in 1..Len(ls) /\ Touches(ls[t], k)
          /\ \A j \in 1..Len(ls) : Touches(ls[j], k) => j <= t
      BY <2>2, TopIsNewest, Zenon
    <3> DEFINE u == t - Len(pre)
    <3>2. u \in 1..Len(rest) /\ rest[u] = ls[t] /\ u # 0
      BY <3>1, <2>2, <1>1, <1>2, SMTT(30)
    <3>3. ASSUME NEW j \in 1..Len(rest), Touches(rest[j], k)
          PROVE  j <= u
      <4>1. Len(pre) + j \in 1..Len(ls) /\ rest[j] = ls[Len(pre) + j]
        BY <1>1, <1>2
      <4>2. Len(pre) + j <= t
        BY <4>1, <3>1, <3>3, Zenon
      <4> QED BY <4>2, <3>1, <1>1, <1>2
    <3>4. Top(rest, k) = u
      BY <3>1, <3>2, <3>3, <1>2, TopUnique, Zenon
    <3> QED BY <3>2, <3>4, <2>2, Zenon DEF Overlay
  <2>3. CASE t # 0 /\ t <= Len(pre)
    <3>1. /\ t \in 1..Len(ls) /\ Touches(ls[t], k)
          /\ \A j \in 1..Len(ls) : Touches(ls[j], k) => j <= t
      BY <2>3, TopIsNewest, Zenon
    <3>2. ASSUME NEW i \in 1..Len(rest) PROVE ~Touches(rest[i], k)
      <4>1. Len(pre) + i \in 1..Len(ls) /\ rest[i] = ls[Len(pre) + i]
        BY <1>1, <1>2
      <4>2. ~(Len(pre) + i <= t)
        BY <4>1, <3>1, <2>3, <1>1, <1>2
      <4> QED BY <4>1, <4>2, <3>1, Zenon
    <3>3. Top(rest, k) = 0
      BY <3>2, <1>2, TopNone, Zenon
    <3>4. t \in 1..Len(pre) /\ pre[t] = ls[t]
      BY <3>1, <2>3, <1>1 DEF IsPrefixOf
    <3>5. Top(pre, k) = t
      <4>1. \A j \in 1..Len(pre) : Touches(pre[j], k) => j <= t
        BY <3>1, <1>1 DEF IsPrefixOf
      <4> QED BY <4>1, <3>1, <3>4, TopUnique, Zenon
    <3>6. m[k] = Says(ls[t], k)
      BY <3>4, <3>5, <2>3, Zenon DEF Holds
    <3> QED BY <3>3, <3>6, <2>3, Zenon DEF Overlay
  <2>4. t # 0 => t \in 1..Len(ls)
    BY TopIsNewest, Zenon
  <2> QED BY <2>1, <2>2, <2>3, <2>4, <1>1
<1> QED BY <1>3, Zenon DEF Overlay

(* A batch goes under layers that touch none of its keys. *)
LEMMA OverlayUnder ==
  ASSUME NEW m, NEW L, NEW ls \in Seq(L), NEW b,
         \A k \in Keys : Deciding(b, k) # 0 => \A i \in 1..Len(ls) : ~Touches(ls[i], k)
  PROVE  Overlay(ApplyBatch(m, b), ls) = ApplyBatch(Overlay(m, ls), b)
<1>1. ASSUME NEW k \in Keys
      PROVE  Overlay(ApplyBatch(m, b), ls)[k] = ApplyBatch(Overlay(m, ls), b)[k]
  <2>1. CASE Deciding(b, k) = 0
    BY <2>1, Zenon DEF Overlay, ApplyBatch
  <2>2. CASE Deciding(b, k) # 0
    <3>1. Top(ls, k) = 0
      BY <2>2, TopNone, Zenon
    <3> QED BY <2>2, <3>1, Zenon DEF Overlay, ApplyBatch
  <2> QED BY <2>1, <2>2, Zenon
<1> QED BY <1>1, Zenon DEF Overlay, ApplyBatch

(* What a flush has written, the base holds. *)
LEMMA OverlayHolds ==
  ASSUME NEW m, NEW ls
  PROVE  Holds(Overlay(m, ls), ls)
BY Zenon DEF Holds, Overlay

(* No layers, nothing changed. *)
LEMMA OverlayEmpty ==
  ASSUME NEW m \in Contents
  PROVE  Overlay(m, <<>>) = m
<1>1. ASSUME NEW k PROVE Top(<<>>, k) = 0
  <2>1. <<>> \in Seq({}) /\ Len(<<>>) = 0
    OBVIOUS
  <2>2. \A i \in 1..Len(<<>>) : ~Touches(<<>>[i], k)
    BY <2>1
  <2> QED BY <2>1, <2>2, TopNone, Zenon
<1> QED BY <1>1, Zenon DEF Overlay, Contents

----------------------------------------------------------------------------
(* The inductive invariant: what a flush relies on at each of its steps.   *)

(* The list being flushed is still the oldest part of the layers; once     *)
(* written, the base holds it; and while a durable commit waits for its    *)
(* flush, every layer pushed since is another writer's.                    *)
FlushInv ==
  /\ flush.who = Nobody <=> flush.step = "free"
  /\ flush.who # Nobody => pc[flush.who] \in {"flush", "durable"}
  /\ flush.step \in {"write", "drop"} => IsPrefixOf(flush.list, layers)
  /\ flush.step = "drop" => Holds(base, flush.list)
  /\ flush.step = "done" => flush.list = <<>>
  /\ \A w \in Writers : pc[w] = "durable" => batch[w] \in BatchesOf(w)
  /\ \A w \in Writers :
       w = flush.who /\ pc[w] = "durable" /\ flush.step \in {"write", "drop", "done"} =>
         \A i \in 1..Len(layers) : \A k \in KeysOf[w] :
           Len(flush.list) < i => ~Touches(layers[i], k)

IInv == TypeOK /\ FlushInv /\ ViewIsCommitted /\ SnapshotConsistent

FlushRecord ==
  [who : Procs \cup {Nobody}, step : {"free", "read", "write", "drop", "done"},
   list : Seq(Layer)]

(* A flush state is a record, and a record of a held lock a flush state. *)
LEMMA FlushStateRecord ==
  /\ FlushState \subseteq FlushRecord
  /\ NoFlush \in FlushState
  /\ \A f \in FlushRecord : f.who # Nobody /\ f.step # "free" => f \in FlushState
<1>1. NoFlush \in FlushRecord
  BY EmptySeq, Zenon DEF NoFlush, FlushRecord
<1>2. [who : Procs, step : {"read", "write", "drop", "done"}, list : Seq(Layer)]
        \subseteq FlushRecord
  BY Zenon DEF FlushRecord
<1>3. ASSUME NEW f \in FlushRecord, f.who # Nobody, f.step # "free"
      PROVE  f \in FlushState
  BY <1>3, Zenon DEF FlushRecord, FlushState
<1> QED BY <1>1, <1>2, <1>3, Zenon DEF FlushState

(* Every layer's values are values of the store. *)
LEMMA LayerSays ==
  ASSUME NEW l \in Layer, NEW k \in Keys, Touches(l, k)
  PROVE  Says(l, k) \in Vals \cup {Absent}
<1>1. PICK b \in Batches : l = FromBatch(b)
  BY Zenon DEF Layer
<1>2. b \in Seq(Op)
  BY <1>1, BatchAssumption, Zenon
<1>3. Deciding(b, k) # 0 /\ Says(l, k) = b[Deciding(b, k)].val
  BY <1>1, <1>2, FromBatchFaithful, Zenon
<1>4. b[Deciding(b, k)] \in Op
  BY <1>2, <1>3, DecidingIsLast, ElementOfSeq, LenProperties, Zenon
<1> QED BY <1>3, <1>4, Zenon DEF Op

(* Overlay and ApplyBatch stay within the contents. *)
LEMMA OverlayType ==
  ASSUME NEW m \in Contents, NEW ls \in Seq(Layer)
  PROVE  Overlay(m, ls) \in Contents
<1>1. ASSUME NEW k \in Keys, Top(ls, k) # 0
      PROVE  Says(ls[Top(ls, k)], k) \in Vals \cup {Absent}
  <2>1. Top(ls, k) \in 1..Len(ls) /\ Touches(ls[Top(ls, k)], k)
    BY <1>1, TopIsNewest, Zenon
  <2>2. ls[Top(ls, k)] \in Layer
    BY <2>1, ElementOfSeq, Zenon
  <2> QED BY <2>1, <2>2, LayerSays, Zenon
<1> QED BY <1>1, Zenon DEF Overlay, Contents

(* A batch's values are values of the store as well. *)
LEMMA ApplyBatchType ==
  ASSUME NEW m \in Contents, NEW b \in Seq(Op)
  PROVE  ApplyBatch(m, b) \in Contents
<1>1. ASSUME NEW k \in Keys, Deciding(b, k) # 0
      PROVE  b[Deciding(b, k)].val \in Vals \cup {Absent}
  <2>1. b[Deciding(b, k)] \in Op
    BY <1>1, DecidingIsLast, ElementOfSeq, LenProperties, Zenon
  <2> QED BY <2>1, Zenon DEF Op
<1> QED BY <1>1, Zenon DEF ApplyBatch, Contents

(* A writer's batches are op lists that decide only its own keys, and so   *)
(* do the layers made of them.                                             *)
LEMMA OwnKeys ==
  ASSUME NEW w \in Writers, NEW b \in BatchesOf(w), NEW k \in Keys
  PROVE  /\ b \in Seq(Op) /\ b \in Batches /\ FromBatch(b) \in Layer
         /\ Deciding(b, k) # 0 => k \in KeysOf[w]
         /\ Touches(FromBatch(b), k) => k \in KeysOf[w]
<1>1. b \in Batches /\ b \in Seq(Op) /\ \A i \in DOMAIN b : b[i].keys \subseteq KeysOf[w]
  BY BatchAssumption, Zenon DEF BatchesOf
<1>2. FromBatch(b) \in Layer
  BY <1>1, Zenon DEF Layer
<1>3. Deciding(b, k) # 0 => k \in KeysOf[w]
  BY <1>1, DecidingIsLast, Zenon
<1> QED BY <1>1, <1>2, <1>3, FromBatchFaithful, Zenon

(* The initial state satisfies the invariant. *)
LEMMA InitIInv == Init => IInv
<1> SUFFICES ASSUME Init PROVE IInv
  BY Zenon
<1>1. Empty \in Contents
  BY Zenon DEF Empty, Contents
<1>2. TypeOK
  <2>1. NoFlush \in FlushState
    BY FlushStateRecord, Zenon
  <2> QED BY <1>1, <2>1 DEF Init, TypeOK, Procs
<1>3. FlushInv
  BY NameAssumption, Zenon DEF Init, FlushInv, NoFlush, Procs
<1>4. ViewIsCommitted
  BY <1>1, OverlayEmpty, Zenon DEF Init, ViewIsCommitted, Now
<1>5. SnapshotConsistent
  BY Zenon DEF Init, SnapshotConsistent
<1> QED BY <1>2, <1>3, <1>4, <1>5, Zenon DEF IInv

(* A pushed layer keeps the invariant: it lands on top of any list being   *)
(* flushed, and a durable commit in progress is another writer's.          *)
LEMMA CommitLayerIInv ==
  ASSUME IInv, NEW u \in Writers, NEW b \in BatchesOf(u), CommitLayer(u, b)
  PROVE  IInv'
<1> USE DEF CommitLayer
<1>1. TypeOK /\ FlushInv /\ ViewIsCommitted /\ SnapshotConsistent
  BY Zenon DEF IInv
<1>2. b \in Seq(Op) /\ FromBatch(b) \in Layer
  BY BatchAssumption, Zenon DEF BatchesOf, Layer
<1>3. /\ layers \in Seq(Layer) /\ layers' \in Seq(Layer)
      /\ Len(layers) \in Nat /\ Len(layers') = Len(layers) + 1
      /\ layers'[Len(layers) + 1] = FromBatch(b)
      /\ \A i \in 1..Len(layers) : layers'[i] = layers[i]
  BY <1>1, <1>2, AppendProperties, LenProperties DEF TypeOK
<1>4. /\ hist \in Seq(Contents) /\ Len(hist) \in Nat /\ hist # <<>>
      /\ Len(hist) \in 1..Len(hist) /\ Now \in Contents
  BY <1>1, LenProperties, EmptySeq, ElementOfSeq, SMTT(60) DEF TypeOK, Now
<1>5. /\ ApplyBatch(Now, b) \in Contents
      /\ hist' \in Seq(Contents) /\ hist' # <<>> /\ Now' = ApplyBatch(Now, b)
  BY <1>2, <1>4, ApplyBatchType, AppendProperties, SMTT(60) DEF Now
<1>6. TypeOK'
  <2>1. pc' \in [Procs -> {"idle", "flush", "presync", "durable"}]
    BY <1>1, Zenon DEF TypeOK
  <2> QED BY <1>1, <1>3, <1>5, <2>1, Zenon DEF TypeOK
<1>7. FlushInv'
  <2>1. pc[u] = "idle" /\ u \in Procs /\ u # flush.who
    BY <1>1, NameAssumption, Zenon DEF FlushInv, Procs
  <2>2. \A p \in Procs : p # u => pc'[p] = pc[p]
    BY <1>1, Zenon DEF TypeOK
  <2>3. pc'[u] # "durable"
    BY <2>1, <1>1, ZenonT(30) DEF TypeOK
  <2>4. flush.step \in {"write", "drop"} => IsPrefixOf(flush.list, layers')
    <3>1. flush.list \in Seq(Layer) /\ Len(flush.list) \in Nat
      BY <1>1, LenProperties, FlushStateRecord, Zenon DEF TypeOK, FlushRecord
    <3> HIDE DEF CommitLayer
    <3>2. flush.step \in {"write", "drop"} => IsPrefixOf(flush.list, layers)
      BY <1>1, Zenon DEF FlushInv
    <3> QED BY <1>3, <3>1, <3>2 DEF IsPrefixOf
  <2>5. ASSUME NEW w \in Writers, w = flush.who, pc'[w] = "durable",
               flush.step \in {"write", "drop", "done"},
               NEW i \in 1..Len(layers'), NEW k \in KeysOf[w], Len(flush.list) < i
        PROVE  ~Touches(layers'[i], k)
    <3>1. w # u /\ pc[w] = "durable" /\ k \in Keys /\ k \notin KeysOf[u]
      BY <2>1, <2>2, <2>5, WriterAssumption, Zenon DEF Procs
    <3>2. CASE i \in 1..Len(layers)
      BY <3>1, <3>2, <2>5, <1>1, <1>3, ZenonT(30) DEF FlushInv
    <3>3. CASE i = Len(layers) + 1
      BY <3>1, <3>3, <1>3, OwnKeys, ZenonT(30)
    <3> HIDE DEF CommitLayer
    <3> QED BY <3>2, <3>3, <1>3
  <2>6. flush.who # Nobody => pc'[flush.who] \in {"flush", "durable"}
    BY <1>1, <2>1, <2>2, SMTT(60) DEF FlushInv, TypeOK
  <2>7. \A w \in Writers : pc'[w] = "durable" => batch'[w] \in BatchesOf(w)
    BY <1>1, <2>2, <2>3, Zenon DEF FlushInv, Procs
  <2>8. UNCHANGED <<flush, base>>
    BY Zenon
  <2> QED BY <1>1, <2>4, <2>5, <2>6, <2>7, <2>8, ZenonT(30) DEF FlushInv
<1>8. ViewIsCommitted'
  <2>1. Overlay(base, layers') = ApplyBatch(Overlay(base, layers), b)
    BY <1>2, <1>3, OverlayPush, Zenon
  <2> QED BY <2>1, <1>1, <1>5, Zenon DEF ViewIsCommitted
<1>9. SnapshotConsistent'
  BY Zenon DEF SnapshotConsistent, WriteLockFree
<1> QED BY <1>6, <1>7, <1>8, <1>9, Zenon DEF IInv

(* Calls that only begin, or end between two flushes, keep the invariant:  *)
(* the process does not hold the flush lock.                                           *)
LEMMA BeginIInv ==
  ASSUME IInv, NEW p \in Procs, pc[p] = "idle" \/ pc[p] = "presync",
         NEW s \in {"flush", "durable", "idle"}, pc' = [pc EXCEPT ![p] = s],
         began' \in [Procs -> Nat],
         \/ p \notin Writers /\ batch' = batch
         \/ p \in Writers /\ s = "durable" /\ \E b \in BatchesOf(p) : batch' = [batch EXCEPT ![p] = b],
         UNCHANGED <<base, durable, layers, flush, snapping, snap, hist, floor, seen>>
  PROVE  IInv'
<1>1. TypeOK /\ FlushInv /\ ViewIsCommitted /\ SnapshotConsistent
  BY Zenon DEF IInv
<1>2. TypeOK'
  <2>1. pc' \in [Procs -> {"idle", "flush", "presync", "durable"}]
    BY <1>1, Zenon DEF TypeOK
  <2>2. batch' \in [Writers -> Batches \cup {<<>>}]
    BY <1>1, Zenon DEF TypeOK, BatchesOf
  <2> QED BY <1>1, <2>1, <2>2, Zenon DEF TypeOK
<1>3. FlushInv'
  <2>1. p # flush.who
    BY <1>1, NameAssumption, Zenon DEF FlushInv
  <2>2. \A q \in Procs : q # p => pc'[q] = pc[q]
    BY <1>1, Zenon DEF TypeOK
  <2>3. \A w \in Writers : pc'[w] = "durable" => batch'[w] \in BatchesOf(w)
    BY <1>1, <2>2, ZenonT(30) DEF FlushInv, Procs, TypeOK
  <2>4. flush.who # Nobody => flush.who \in Procs /\ pc'[flush.who] = pc[flush.who]
    BY <1>1, <2>1, <2>2, FlushStateRecord, Zenon DEF TypeOK, FlushRecord
  <2>5. \A w \in Writers : w = flush.who => pc'[w] = pc[w]
    BY <2>1, <2>2, Zenon DEF Procs
  <2>6. UNCHANGED <<flush, base, layers>>
    BY Zenon
  <2> QED BY <1>1, <2>3, <2>4, <2>5, <2>6, ZenonT(30) DEF FlushInv
<1>4. ViewIsCommitted' /\ SnapshotConsistent'
  BY <1>1, Zenon DEF ViewIsCommitted, SnapshotConsistent, Now
<1> QED BY <1>2, <1>3, <1>4, Zenon DEF IInv

(* Taking the flush lock and reading the list. *)
LEMMA LockFlushIInv ==
  ASSUME IInv, NEW p \in Procs, LockFlush(p)
  PROVE  IInv'
<1>1. TypeOK /\ FlushInv /\ ViewIsCommitted /\ SnapshotConsistent
  BY Zenon DEF IInv
<1>2. TypeOK'
  <2>1. flush' \in FlushState
    BY EmptySeq, Zenon DEF FlushState, LockFlush
  <2> QED BY <1>1, <2>1, Zenon DEF TypeOK, LockFlush
<1>3. FlushInv'
  BY <1>1, NameAssumption, Zenon DEF FlushInv, LockFlush
<1>4. ViewIsCommitted' /\ SnapshotConsistent'
  BY <1>1, Zenon DEF ViewIsCommitted, SnapshotConsistent, Now, LockFlush
<1> QED BY <1>2, <1>3, <1>4, Zenon DEF IInv

(* The list a flush reads is a prefix of the layers: all of them. *)
LEMMA FlushReadIInv ==
  ASSUME IInv, FlushRead
  PROVE  IInv'
<1> USE DEF FlushRead
<1>1. TypeOK /\ FlushInv /\ ViewIsCommitted /\ SnapshotConsistent
  BY Zenon DEF IInv
<1>2. AfterRead \in {"write", "done"} /\ (AfterRead = "done" => layers = <<>>)
  BY Zenon DEF AfterRead
<1>3. TypeOK'
  <2>1. flush \in FlushRecord /\ flush.who # Nobody
    BY <1>1, FlushStateRecord, Zenon DEF TypeOK, FlushInv
  <2>2. flush' \in FlushRecord /\ flush'.who # Nobody /\ flush'.step # "free"
    BY <1>1, <1>2, <2>1, Zenon DEF FlushRecord, TypeOK
  <2>3. flush' \in FlushState
    BY <2>2, FlushStateRecord, Zenon
  <2> QED BY <1>1, <2>3, Zenon DEF TypeOK
<1>4. flush'.list = layers /\ flush'.step = AfterRead /\ flush'.who = flush.who
  BY <1>1 DEF TypeOK
<1>5. FlushInv'
  <2>1. IsPrefixOf(layers, layers)
    BY <1>1, LenProperties DEF IsPrefixOf, TypeOK
  <2>2. Len(layers) \in Nat
    BY <1>1, LenProperties, Zenon DEF TypeOK
  <2>3. \A i \in 1..Len(layers) : ~(Len(layers) < i)
    BY <2>2
  <2> QED BY <1>1, <1>2, <1>4, <2>1, <2>3, Zenon DEF FlushInv
<1>6. ViewIsCommitted' /\ SnapshotConsistent'
  BY <1>1, Zenon DEF ViewIsCommitted, SnapshotConsistent, Now
<1> QED BY <1>3, <1>5, <1>6, Zenon DEF IInv

(* The engine commit of a flush: readers keep seeing the same contents.    *)
LEMMA FlushWriteIInv ==
  ASSUME IInv, FlushWrite
  PROVE  IInv'
<1> USE DEF FlushWrite
<1>1. TypeOK /\ FlushInv /\ ViewIsCommitted /\ SnapshotConsistent
  BY Zenon DEF IInv
<1>2. flush'.list = flush.list /\ flush'.step = "drop" /\ flush'.who = flush.who
  BY <1>1 DEF TypeOK
<1>3. flush.list \in Seq(Layer) /\ layers \in Seq(Layer) /\ base \in Contents
  BY <1>1, FlushStateRecord, Zenon DEF TypeOK, FlushRecord
<1>4. TypeOK'
  <2>1. base' \in Contents
    BY <1>3, OverlayType, Zenon
  <2>2. flush' \in FlushState
    <3>1. flush \in FlushRecord /\ flush.who # Nobody
      BY <1>1, FlushStateRecord, Zenon DEF TypeOK, FlushInv
    <3>2. flush' \in FlushRecord
      BY <3>1, Zenon DEF FlushRecord
    <3> QED BY <1>2, <3>1, <3>2, FlushStateRecord, Zenon
  <2> QED BY <1>1, <2>1, <2>2, Zenon DEF TypeOK
<1>5. FlushInv'
  <2>1. Holds(base', flush.list)
    BY OverlayHolds, Zenon
  <2> QED BY <1>1, <1>2, <2>1, Zenon DEF FlushInv
<1>6. ViewIsCommitted'
  <2>1. IsPrefixOf(flush.list, layers)
    BY <1>1, Zenon DEF FlushInv
  <2>2. Overlay(base', layers) = Overlay(base, layers)
    BY <1>3, <2>1, OverlayAbsorb, Zenon
  <2> QED BY <1>1, <2>2, Zenon DEF ViewIsCommitted, Now
<1>7. SnapshotConsistent'
  BY <1>1, Zenon DEF SnapshotConsistent
<1> QED BY <1>4, <1>5, <1>6, <1>7, Zenon DEF IInv

(* Dropping the flushed layers, once the base holds them. *)
LEMMA FlushDropIInv ==
  ASSUME IInv, FlushDrop
  PROVE  IInv'
<1> USE DEF FlushDrop
<1>1. TypeOK /\ FlushInv /\ ViewIsCommitted /\ SnapshotConsistent
  BY Zenon DEF IInv
<1>2. flush'.list = <<>> /\ flush'.step = "done" /\ flush'.who = flush.who
  BY <1>1 DEF TypeOK
<1>3. /\ flush.list \in Seq(Layer) /\ layers \in Seq(Layer)
      /\ IsPrefixOf(flush.list, layers) /\ Holds(base, flush.list)
  BY <1>1, FlushStateRecord, Zenon DEF TypeOK, FlushInv, FlushRecord
<1>4. /\ Len(layers) \in Nat /\ Len(flush.list) \in Nat
      /\ Len(flush.list) <= Len(layers)
  BY <1>3, LenProperties, Zenon DEF IsPrefixOf
<1>5. /\ layers' \in Seq(Layer) /\ Len(layers') = Len(layers) - Len(flush.list)
      /\ \A i \in 1..(Len(layers) - Len(flush.list)) :
           layers'[i] = layers[Len(flush.list) + i]
  <2>1. \A i \in 1..Len(layers) : layers[i] \in Layer
    BY <1>3, ElementOfSeq, Zenon
  <2> DEFINE m == Len(flush.list) + 1
             n == Len(layers)
  <2>2. m \in Int /\ n \in Int /\ m \in Nat \ {0} /\ n \in Nat /\ m <= n + 1
    BY <1>4
  <2>3. layers' = SubSeq(layers, m, n)
    BY Zenon DEF Unflushed
  <2>4. n - m + 1 = Len(layers) - Len(flush.list)
    BY <1>4
  <2>6. \A i \in 1..(n - m + 1) : m + i - 1 = Len(flush.list) + i
    BY <1>4
  <2>7. \A i \in m..n : layers[i] \in Layer
    BY <2>1, <2>2
  <2> HIDE DEF m, n
  <2>8. /\ layers' \in Seq(Layer)
        /\ Len(layers') = IF m <= n THEN n - m + 1 ELSE 0
        /\ \A i \in 1..(n - m + 1) : layers'[i] = layers[m + i - 1]
    BY <2>2, <2>3, <2>7, SubSeqProperties, SMTT(60)
  <2>9. Len(layers') = n - m + 1
    BY <2>2, <2>8
  <2> QED BY <2>4, <2>6, <2>8, <2>9, Zenon
<1>6. TypeOK'
  <2>1. flush' \in FlushState
    <3>1. flush \in FlushRecord /\ flush.who # Nobody
      BY <1>1, FlushStateRecord, Zenon DEF TypeOK, FlushInv
    <3>2. flush' \in FlushRecord
      BY <3>1, EmptySeq, Zenon DEF FlushRecord
    <3> QED BY <1>2, <3>1, <3>2, FlushStateRecord, Zenon
  <2> QED BY <1>1, <1>5, <2>1, Zenon DEF TypeOK
<1>7. FlushInv'
  <2>1. ASSUME NEW w \in Writers, w = flush.who, pc[w] = "durable",
               NEW i \in 1..Len(layers'), NEW k \in KeysOf[w]
        PROVE  ~Touches(layers'[i], k)
    <3>1. /\ Len(flush.list) + i \in 1..Len(layers) /\ Len(flush.list) < Len(flush.list) + i
          /\ layers'[i] = layers[Len(flush.list) + i]
      <4> HIDE DEF FlushDrop
      <4> QED BY <1>4, <1>5
    <3> QED BY <3>1, <2>1, <1>1, Zenon DEF FlushInv
  <2> QED BY <1>1, <1>2, <2>1, Zenon DEF FlushInv
<1>8. ViewIsCommitted'
  <2>1. Overlay(base, layers') = Overlay(base, layers)
    BY <1>3, OverlayDrop, Zenon DEF Unflushed
  <2> QED BY <1>1, <2>1, Zenon DEF ViewIsCommitted, Now
<1>9. SnapshotConsistent'
  BY Zenon DEF SnapshotConsistent, WriteLockFree
<1> QED BY <1>6, <1>7, <1>8, <1>9, Zenon DEF IInv

(* A return frees the lock and keeps the other callers' calls. *)
LEMMA ReturnKeeps ==
  ASSUME TypeOK, FlushInv, flush.step # "free",
         NEW next \in {"idle", "presync"}, Return(next)
  PROVE  /\ FlushInv'
         /\ flush' \in FlushState
         /\ pc' \in [Procs -> {"idle", "flush", "presync", "durable"}]
         /\ batch' \in [Writers -> Batches \cup {<<>>}]
         /\ began' \in [Procs -> Nat]
<1>1. flush' = [who |-> Nobody, step |-> "free", list |-> <<>>]
  BY Zenon DEF Return, NoFlush
<1>2. flush' \in FlushState
  BY <1>1, FlushStateRecord, Zenon DEF NoFlush
<1>3. /\ pc' \in [Procs -> {"idle", "flush", "presync", "durable"}]
      /\ batch' \in [Writers -> Batches \cup {<<>>}]
  BY Zenon DEF Return, TypeOK
<1>4. began' \in [Procs -> Nat]
  <2>1. flush.who \in Procs
    BY FlushStateRecord, Zenon DEF FlushInv, TypeOK, FlushRecord
  <2> QED BY <2>1, Zenon DEF Return, TypeOK
<1>5. ASSUME NEW w \in Writers, pc'[w] = "durable"
      PROVE  batch'[w] \in BatchesOf(w)
  <2>1. w \in Procs /\ w # flush.who
    BY <1>5, Zenon DEF Return, Procs, TypeOK
  <2>2. pc[w] = "durable" /\ batch'[w] = batch[w]
    BY <1>5, <2>1, ZenonT(30) DEF Return, TypeOK
  <2> QED BY <2>2, Zenon DEF FlushInv
<1>6. FlushInv'
  BY <1>1, <1>5, Zenon DEF FlushInv
<1> QED BY <1>2, <1>3, <1>4, <1>6, Zenon

(* Returning from a flush, with or without an error. *)
LEMMA FlushReturnIInv ==
  ASSUME IInv, FlushReturn \/ EngineError
  PROVE  IInv'
<1>1. TypeOK /\ FlushInv /\ ViewIsCommitted /\ SnapshotConsistent
  BY Zenon DEF IInv
<1>2. PICK next \in {"idle", "presync"} : Return(next)
  BY Zenon DEF FlushReturn, EngineError
<1>3. flush.step # "free"
  BY Zenon DEF FlushReturn, EngineError
<1>4. UNCHANGED <<base, durable, layers, snapping, snap, hist, floor, seen>>
  BY Zenon DEF FlushReturn, EngineError
<1>5. TypeOK' /\ FlushInv'
  BY <1>1, <1>2, <1>3, <1>4, ReturnKeeps, ZenonT(30) DEF TypeOK
<1>6. ViewIsCommitted' /\ SnapshotConsistent'
  BY <1>1, <1>4, Zenon DEF ViewIsCommitted, SnapshotConsistent, Now
<1> QED BY <1>5, <1>6, Zenon DEF IInv

(* The durable commit goes under the layers pushed since its flush, which  *)
(* touch none of its keys, and a snapshot being taken keeps its own base.  *)
LEMMA CommitBaseIInv ==
  ASSUME IInv, CommitBase
  PROVE  IInv'
<1> DEFINE w == flush.who
           b == batch[w]
<1>1. TypeOK /\ FlushInv /\ ViewIsCommitted /\ SnapshotConsistent
  BY Zenon DEF IInv
<1>2. /\ w \in Writers /\ pc[w] = "durable" /\ flush.step = "done" /\ Return("idle")
      /\ base' = ApplyBatch(base, b) /\ durable' = base'
      /\ hist' = Append(hist, ApplyBatch(Now, b))
      /\ floor' = [AtLeast(floor, began[w]) EXCEPT ![w] = Len(hist) + 1]
      /\ UNCHANGED <<layers, snapping, snap, seen>>
  BY ZenonT(60) DEF CommitBase
<1>3. b \in BatchesOf(w)
  BY <1>1, <1>2, Zenon DEF FlushInv
<1> HIDE DEF w, b
<1>4. b \in Seq(Op)
  BY <1>3, BatchAssumption, Zenon DEF BatchesOf
<1>5. /\ hist \in Seq(Contents) /\ hist # <<>> /\ Len(hist) \in Nat /\ Len(hist) > 0
      /\ Now \in Contents
  <2>1. hist \in Seq(Contents) /\ hist # <<>>
    BY <1>1, Zenon DEF TypeOK
  <2>2. Len(hist) \in Nat /\ Len(hist) > 0
    BY <2>1, EmptySeq, SMTT(60)
  <2> QED BY <2>1, <2>2, ElementOfSeq DEF Now
<1>6. ApplyBatch(Now, b) \in Contents /\ base' \in Contents
  BY <1>1, <1>2, <1>4, <1>5, ApplyBatchType, ZenonT(30) DEF TypeOK
<1>7. hist' \in Seq(Contents) /\ hist' # <<>> /\ Now' = ApplyBatch(Now, b)
  BY <1>2, <1>5, <1>6, AppendProperties, SMTT(60) DEF Now
<1>8. floor' \in [Writers -> Nat]
  <2>1. floor \in [Writers -> Nat] /\ began \in [Procs -> Nat] /\ w \in Procs
    BY <1>1, <1>2, Zenon DEF TypeOK, Procs
  <2>2. began[w] \in Nat
    BY <2>1, Zenon
  <2>3. AtLeast(floor, began[w]) \in [Writers -> Nat]
    BY <2>1, <2>2, Zenon DEF AtLeast
  <2> QED BY <1>2, <1>5, <2>3, SMTT(60)
<1>9. TypeOK' /\ FlushInv'
  <2>1. flush.step # "free"
    BY <1>2, Zenon
  <2> QED BY <1>1, <1>2, <1>6, <1>7, <1>8, <2>1, ReturnKeeps, ZenonT(30) DEF TypeOK
<1>10. ViewIsCommitted'
  <2>1. ASSUME NEW k \in Keys, Deciding(b, k) # 0, NEW i \in 1..Len(layers)
        PROVE  ~Touches(layers[i], k)
    <3>1. k \in KeysOf[w]
      BY <1>2, <1>3, <2>1, OwnKeys, ZenonT(60)
    <3>2. Len(flush.list) = 0
      BY <1>1, <1>2 DEF FlushInv
    <3>3. 0 < i
      BY <2>1, <1>1, LenProperties DEF TypeOK
    <3> QED BY <1>1, <1>2, <2>1, <3>1, <3>2, <3>3, ZenonT(30) DEF FlushInv, w
  <2>2. layers \in Seq(Layer)
    BY <1>1, Zenon DEF TypeOK
  <2>3. Overlay(ApplyBatch(base, b), layers) = ApplyBatch(Overlay(base, layers), b)
    BY <2>1, <2>2, OverlayUnder, SMTT(60)
  <2> QED BY <1>1, <1>2, <1>7, <2>3, ZenonT(30) DEF ViewIsCommitted
<1>11. SnapshotConsistent'
  BY <1>1, <1>2, Zenon DEF SnapshotConsistent
<1> QED BY <1>9, <1>10, <1>11, Zenon DEF IInv

(* The checkpoint's fsync changes nothing readers see. *)
LEMMA SyncBaseIInv ==
  ASSUME IInv, SyncBase
  PROVE  IInv'
<1> DEFINE p == flush.who
<1>1. TypeOK /\ FlushInv /\ ViewIsCommitted /\ SnapshotConsistent
  BY Zenon DEF IInv
<1>2. /\ p \in Procs /\ flush.step # "free" /\ Return("idle")
      /\ durable' = base /\ floor' = AtLeast(floor, began[p])
      /\ UNCHANGED <<base, layers, snapping, snap, hist, seen>>
  BY Zenon DEF SyncBase, Procs
<1> HIDE DEF p
<1>3. floor' \in [Writers -> Nat]
  <2>1. floor \in [Writers -> Nat] /\ began[p] \in Nat
    BY <1>1, <1>2, Zenon DEF TypeOK
  <2> QED BY <1>2, <2>1, Zenon DEF AtLeast
<1>4. TypeOK' /\ FlushInv'
  BY <1>1, <1>2, <1>3, ReturnKeeps, Zenon DEF TypeOK
<1>5. ViewIsCommitted' /\ SnapshotConsistent'
  BY <1>1, <1>2, Zenon DEF ViewIsCommitted, SnapshotConsistent, Now
<1> QED BY <1>4, <1>5, Zenon DEF IInv

(* A snapshot begins: its base under the list it would read now is the     *)
(* current contents, by ViewIsCommitted.                                   *)
LEMMA SnapshotIInv ==
  ASSUME IInv, NEW r \in Readers, SnapshotBase(r) \/ SnapshotList(r)
  PROVE  IInv'
<1>1. TypeOK /\ FlushInv /\ ViewIsCommitted /\ SnapshotConsistent
  BY Zenon DEF IInv
<1>2. Empty \in Contents /\ Now \in Contents
  <2>1. hist \in Seq(Contents) /\ hist # <<>>
    BY <1>1, Zenon DEF TypeOK
  <2>2. Len(hist) \in Nat /\ Len(hist) > 0
    BY <2>1, EmptySeq, SMTT(60)
  <2> QED BY <2>1, <2>2, ElementOfSeq, SMTT(60) DEF Now, Empty, Contents
<1>3. TypeOK'
  <2>1. base \in Contents
    BY <1>1, Zenon DEF TypeOK
  <2>2. /\ snap' \in [Readers -> Contents] /\ seen' \in [Readers -> Contents]
        /\ snapping' \subseteq Readers
    <3>1. /\ snap \in [Readers -> Contents] /\ seen \in [Readers -> Contents]
          /\ snapping \subseteq Readers
      BY <1>1, Zenon DEF TypeOK
    <3>2. PICK m \in Contents, n \in Contents :
             snap' = [snap EXCEPT ![r] = m] /\ seen' = [seen EXCEPT ![r] = n]
      BY <1>2, <2>1, Zenon DEF SnapshotBase, SnapshotList
    <3>3. snapping' \subseteq Readers
      BY <3>1, Zenon DEF SnapshotBase, SnapshotList
    <3> QED BY <3>1, <3>2, <3>3, Zenon
  <2>3. UNCHANGED <<base, durable, layers, flush, pc, batch, hist, floor, began>>
    BY ZenonT(30) DEF SnapshotBase, SnapshotList
  <2> QED BY <1>1, <2>2, <2>3, Zenon DEF TypeOK
<1>4. FlushInv'
  <2>1. UNCHANGED <<base, layers, flush, pc, batch>>
    BY Zenon DEF SnapshotBase, SnapshotList
  <2> QED BY <1>1, <2>1, Zenon DEF FlushInv
<1>5. ViewIsCommitted'
  BY <1>1, ZenonT(30) DEF ViewIsCommitted, Now, SnapshotBase, SnapshotList
<1>6. SnapshotConsistent'
  BY <1>1 DEF SnapshotConsistent, ViewIsCommitted, TypeOK, SnapshotBase, SnapshotList
<1> QED BY <1>3, <1>4, <1>5, <1>6, Zenon DEF IInv

(* After a restart the base alone is the committed state. *)
LEMMA CrashIInv ==
  ASSUME IInv, Crash
  PROVE  IInv'
<1> USE DEF Crash
<1>1. durable \in Contents /\ Empty \in Contents
  BY Zenon DEF IInv, TypeOK, Empty, Contents
<1>2. /\ <<durable>> \in Seq(Contents) /\ <<durable>> # <<>>
      /\ Len(<<durable>>) = 1 /\ <<durable>>[1] = durable
  BY <1>1, SMTT(60)
<1>3. flush' = [who |-> Nobody, step |-> "free", list |-> <<>>]
  BY Zenon DEF NoFlush
<1>4. <<>> \in Seq(Layer)
  BY EmptySeq, Zenon
<1>5. TypeOK'
  <2>1. /\ flush' \in FlushState
        /\ layers' \in Seq(Layer)
    BY <1>3, <1>4, FlushStateRecord, Zenon DEF NoFlush
  <2>2. hist' \in Seq(Contents) /\ hist' # <<>>
    BY <1>2, Zenon
  <2>3. /\ pc' \in [Procs -> {"idle", "flush", "presync", "durable"}]
        /\ batch' \in [Writers -> Batches \cup {<<>>}]
        /\ floor' \in [Writers -> Nat] /\ began' \in [Procs -> Nat]
        /\ snapping' \subseteq Readers
    BY Zenon
  <2>4. /\ base' \in Contents /\ durable' \in Contents
        /\ snap' \in [Readers -> Contents] /\ seen' \in [Readers -> Contents]
    BY <1>1, ZenonT(30)
  <2> QED BY <2>1, <2>2, <2>3, <2>4, Zenon DEF TypeOK
<1>6. FlushInv'
  <2>1. \A w \in Writers : w \in Procs
    BY Zenon DEF Procs
  <2> QED BY <1>3, <2>1 DEF FlushInv
<1>7. ViewIsCommitted'
  BY <1>1, <1>2, OverlayEmpty, Zenon DEF ViewIsCommitted, Now
<1>8. SnapshotConsistent'
  BY Zenon DEF SnapshotConsistent
<1> QED BY <1>5, <1>6, <1>7, <1>8, ZenonT(30) DEF IInv

(* Every step keeps the inductive invariant. *)
LEMMA NextIInv == IInv /\ [Next]_vars => IInv'
<1> SUFFICES ASSUME IInv, [Next]_vars PROVE IInv'
  BY Zenon
<1>1. ASSUME NEW w \in Writers, NEW b \in BatchesOf(w), CommitLayer(w, b)
      PROVE  IInv'
  BY <1>1, CommitLayerIInv, Zenon
<1>2. ASSUME NEW w \in Writers, NEW b \in BatchesOf(w), CommitSync(w, b)
      PROVE  IInv'
  <2>1. began' \in [Procs -> Nat]
    BY <1>2, LenProperties, Zenon DEF CommitSync, IInv, TypeOK
  <2>2. w \in Procs /\ w \in Writers
    BY Zenon DEF Procs
  <2> QED BY <1>2, <2>1, <2>2, BeginIInv, Zenon DEF CommitSync
<1>3. ASSUME NEW p \in Syncers \cup Defraggers, SyncBegin(p) \/ Presync(p) \/ DefragmentBegin(p)
      PROVE  IInv'
  <2>1. began' \in [Procs -> Nat]
    BY <1>3, LenProperties DEF SyncBegin, Presync, DefragmentBegin, IInv, TypeOK
  <2>2. p \in Procs /\ p \notin Writers
    BY NameAssumption, Zenon DEF Procs
  <2>3. PICK s \in {"flush", "durable", "idle"} : pc' = [pc EXCEPT ![p] = s]
    BY <1>3, Zenon DEF SyncBegin, Presync, DefragmentBegin
  <2>4. /\ pc[p] = "idle" \/ pc[p] = "presync"
        /\ UNCHANGED <<base, durable, layers, flush, snapping, snap, hist, floor, seen>>
        /\ batch' = batch
    BY <1>3, Zenon DEF SyncBegin, Presync, DefragmentBegin
  <2> QED BY <2>1, <2>2, <2>3, <2>4, BeginIInv, ZenonT(30)
<1>4. ASSUME NEW p \in Procs, LockFlush(p)
      PROVE  IInv'
  BY <1>4, LockFlushIInv, Zenon
<1>5. CASE FlushStep \/ EngineError
  BY <1>5, FlushReadIInv, FlushWriteIInv, FlushDropIInv, FlushReturnIInv,
     CommitBaseIInv, SyncBaseIInv, Zenon DEF FlushStep
<1>6. ASSUME NEW r \in Readers, SnapshotBase(r) \/ SnapshotList(r)
      PROVE  IInv'
  BY <1>6, SnapshotIInv, Zenon
<1>7. CASE Crash
  BY <1>7, CrashIInv, Zenon
<1>8. CASE UNCHANGED vars
  BY <1>8, Zenon DEF vars, IInv, TypeOK, FlushInv, ViewIsCommitted, SnapshotConsistent, Now
<1> QED BY <1>1, <1>2, <1>3, <1>4, <1>5, <1>6, <1>7, <1>8, ZenonT(30) DEF Next

(* The write-behind state keeps its types. *)
THEOREM TypeCorrect == Spec => []TypeOK
<1>1. IInv => TypeOK
  BY Zenon DEF IInv
<1> QED BY <1>1, InitIInv, NextIInv, PTL DEF Spec

(* For any number of writers, readers, keys and layers, the base under the *)
(* layers reads as every commit so far, at every step of every flush       *)
(* (write_behind.rs flush_locked, commit).                                 *)
THEOREM ViewCorrect == Spec => []ViewIsCommitted
<1>1. IInv => ViewIsCommitted
  BY Zenon DEF IInv
<1> QED BY <1>1, InitIInv, NextIInv, PTL DEF Spec

(* A snapshot's base and list always agree (write_behind.rs snapshot).     *)
THEOREM SnapshotCorrect == Spec => []SnapshotConsistent
<1>1. IInv => SnapshotConsistent
  BY Zenon DEF IInv
<1> QED BY <1>1, InitIInv, NextIInv, PTL DEF Spec

(***************************************************************************)
(* What survives a crash.                                                  *)
(***************************************************************************)

(* Every call in progress began at a state of the history; for each writer *)
(* the base, and what a crash would leave, is one of its states past its   *)
(* floor.                                                                  *)
Floored ==
  /\ \A w \in Writers : floor[w] >= 1
  /\ \A p \in Procs : began[p] \in 1..Len(hist)
  /\ \A w \in Writers : \E n \in floor[w]..Len(hist) : SameFor(w, base, hist[n])
  /\ SyncedSurvives

(* What a flush leaves in the base is, for each writer, a state that is    *)
(* also no older than the call that flushes.                               *)
Flushing ==
  flush.step \in {"write", "drop", "done"} =>
    \A w \in Writers : \E n \in floor[w]..Len(hist) :
      began[flush.who] <= n /\ SameFor(w, Overlay(base, flush.list), hist[n])

(* A key that no writer writes never changes.                              *)
Unowned ==
  \A k \in Keys : (\A w \in Writers : k \notin KeysOf[w]) =>
    /\ durable[k] = base[k]
    /\ \A i \in 1..Len(hist) : hist[i][k] = base[k]
    /\ \A i \in 1..Len(layers) : ~Touches(layers[i], k)
    /\ \A i \in 1..Len(flush.list) : ~Touches(flush.list[i], k)

Survival == Floored /\ Flushing /\ Unowned

(* The types the proofs below need, unfolded. *)
LEMMA SurvivalTypes ==
  ASSUME IInv
  PROVE  /\ base \in Contents /\ durable \in Contents /\ layers \in Seq(Layer)
         /\ hist \in Seq(Contents) /\ Len(hist) \in Nat /\ Len(hist) >= 1
         /\ \A i \in 1..Len(hist) : hist[i] \in Contents
         /\ \A w \in Writers : floor[w] \in Nat
         /\ \A w \in Writers : w \in Procs /\ KeysOf[w] \subseteq Keys
         /\ flush \in FlushRecord /\ flush.list \in Seq(Layer)
<1>1. TypeOK
  BY Zenon DEF IInv
<1>2. hist \in Seq(Contents) /\ hist # <<>>
  BY <1>1, Zenon DEF TypeOK
<1>3. Len(hist) \in Nat /\ Len(hist) >= 1
  BY <1>2, EmptySeq
<1>4. \A i \in 1..Len(hist) : hist[i] \in Contents
  BY <1>2, ElementOfSeq, Zenon
<1>5. flush \in FlushRecord
  BY <1>1, FlushStateRecord, Zenon DEF TypeOK
<1>6. flush.list \in Seq(Layer)
  BY <1>5, Zenon DEF FlushRecord
<1>7. \A w \in Writers : w \in Procs /\ KeysOf[w] \subseteq Keys
  BY WriterAssumption, Zenon DEF Procs
<1> QED BY <1>1, <1>2, <1>3, <1>4, <1>5, <1>6, <1>7, ZenonT(30) DEF TypeOK

(* Overlaying a list twice is overlaying it once. *)
LEMMA OverlayTwice ==
  ASSUME NEW m, NEW ls \in Seq(Layer)
  PROVE  Overlay(Overlay(m, ls), ls) = Overlay(m, ls)
<1>1. IsPrefixOf(ls, ls)
  BY LenProperties DEF IsPrefixOf
<1> QED BY <1>1, OverlayAbsorb, Zenon

(* A base that holds a list reads the same under it. *)
LEMMA OverlayHeld ==
  ASSUME NEW m \in Contents, NEW ls, Holds(m, ls)
  PROVE  Overlay(m, ls) = m
BY Zenon DEF Overlay, Holds, Contents

(* The elements of a list's end. *)
LEMMA SuffixElements ==
  ASSUME NEW ls \in Seq(Layer), NEW c \in 0..Len(ls)
  PROVE  LET rest == SubSeq(ls, c + 1, Len(ls)) IN
         /\ Len(rest) = Len(ls) - c
         /\ \A i \in 1..Len(rest) : c + i \in 1..Len(ls) /\ rest[i] = ls[c + i]
<1> DEFINE m == c + 1
           n == Len(ls)
           rest == SubSeq(ls, m, n)
<1>1. m \in Int /\ n \in Int /\ m \in Nat \ {0} /\ n \in Nat /\ m <= n + 1 /\ c \in Nat
  BY LenProperties
<1>2. \A i \in m..n : ls[i] \in Layer
  BY <1>1, ElementOfSeq
<1>3. m + 0 = c + 1
  BY <1>1, SMTT(30)
<1> HIDE DEF m, n
<1>4. /\ Len(rest) = IF m <= n THEN n - m + 1 ELSE 0
      /\ \A i \in 1..(n - m + 1) : rest[i] = ls[m + i - 1]
  BY <1>1, <1>2, SubSeqProperties, SMTT(60)
<1>5. Len(rest) = n - m + 1
  BY <1>1, <1>4
<1>6. n - m + 1 = n - c
  BY <1>1 DEF m
<1>7. \A i \in 1..(n - m + 1) : m + i - 1 = c + i /\ c + i \in 1..n
  BY <1>1, SMTT(30) DEF m
<1> HIDE DEF rest
<1>8. /\ Len(rest) = n - c
      /\ \A i \in 1..Len(rest) : c + i \in 1..n /\ rest[i] = ls[c + i]
  BY <1>4, <1>5, <1>6, <1>7, Zenon
<1> QED BY <1>8, Zenon DEF rest, m, n

(* A step that moves no data: a call begins, takes the lock or gives it up *)
(* again.                                                                  *)
LEMMA QuietSurvival ==
  ASSUME IInv, Survival, UNCHANGED <<base, durable, layers, hist, floor>>,
         \A p \in Procs : began'[p] \in 1..Len(hist),
         \/ flush' = flush /\ (flush.who # Nobody => began'[flush.who] = began[flush.who])
         \/ flush'.step \notin {"write", "drop", "done"} /\ flush'.list = <<>>
  PROVE  Survival'
<1>1. Floored'
  BY DEF Survival, Floored, SyncedSurvives, SameFor
<1>2. Flushing'
  <2>1. CASE flush'.step \notin {"write", "drop", "done"}
    BY <2>1, Zenon DEF Flushing
  <2>2. CASE flush' = flush /\ (flush.who # Nobody => began'[flush.who] = began[flush.who])
    <3>1. flush.step \in {"write", "drop", "done"} => flush.who # Nobody
      BY Zenon DEF IInv, FlushInv
    <3> QED BY <2>2, <3>1, ZenonT(30) DEF Survival, Flushing, SameFor
  <2> QED BY <2>1, <2>2, Zenon
<1>3. Unowned'
  <2>1. Len(<<>>) = 0
    BY Zenon
  <2>2. flush'.list = flush.list \/ flush'.list = <<>>
    BY Zenon
  <2>3. ASSUME NEW k \in Keys, \A w \in Writers : k \notin KeysOf[w],
               NEW i \in 1..Len(flush'.list)
        PROVE  ~Touches(flush'.list[i], k)
    BY <2>1, <2>2, <2>3, SMTT(30) DEF Survival, Unowned
  <2> QED BY <2>3, Zenon DEF Survival, Unowned
<1> QED BY <1>1, <1>2, <1>3, Zenon DEF Survival

(* The newest state of the history. *)
LEMMA NowIs ==
  ASSUME IInv
  PROVE  Len(hist) \in 1..Len(hist) /\ Now \in Contents
<1>1. Len(hist) \in Nat /\ Len(hist) >= 1 /\ \A i \in 1..Len(hist) : hist[i] \in Contents
  BY SurvivalTypes, Zenon
<1>2. Len(hist) \in 1..Len(hist)
  BY <1>1, SMTT(30)
<1> QED BY <1>1, <1>2, Zenon DEF Now

(* A new state of the history keeps the older ones. *)
LEMMA CommitLayerSurvival ==
  ASSUME IInv, Survival, NEW u \in Writers, NEW b \in BatchesOf(u), CommitLayer(u, b)
  PROVE  Survival'
<1>1. /\ layers' = Append(layers, FromBatch(b)) /\ hist' = Append(hist, ApplyBatch(Now, b))
      /\ UNCHANGED <<base, durable, flush, floor, began>>
  BY Zenon DEF CommitLayer
<1>2. b \in Seq(Op) /\ FromBatch(b) \in Layer
  BY BatchAssumption, Zenon DEF BatchesOf, Layer
<1>3. Now \in Contents /\ ApplyBatch(Now, b) \in Contents
  BY <1>2, NowIs, ApplyBatchType, Zenon
<1>4. /\ Len(hist') = Len(hist) + 1
      /\ \A i \in 1..Len(hist) : hist'[i] = hist[i]
      /\ hist'[Len(hist) + 1] = ApplyBatch(Now, b)
  <2>1. hist' = Append(hist, ApplyBatch(Now, b)) /\ hist \in Seq(Contents)
    BY <1>1, SurvivalTypes, Zenon
  <2> QED BY <1>3, <2>1, AppendKeeps, ZenonT(30)
<1>5. /\ Len(layers') = Len(layers) + 1 /\ Len(layers) \in Nat
      /\ \A i \in 1..Len(layers) : layers'[i] = layers[i]
      /\ layers'[Len(layers) + 1] = FromBatch(b)
  <2>1. layers' = Append(layers, FromBatch(b)) /\ layers \in Seq(Layer)
    BY <1>1, SurvivalTypes, Zenon
  <2> QED BY <1>2, <2>1, AppendKeeps, ZenonT(30)
<1>6. ASSUME NEW w \in Writers, NEW n \in floor[w]..Len(hist)
      PROVE  n \in floor'[w]..Len(hist') /\ hist'[n] = hist[n]
  <2>1. floor[w] \in Nat /\ floor[w] >= 1 /\ Len(hist) \in Nat
    BY SurvivalTypes, Zenon DEF Survival, Floored
  <2>2. n \in 1..Len(hist) /\ n \in floor[w]..(Len(hist) + 1)
    BY <2>1
  <2>3. floor'[w] = floor[w]
    BY <1>1, Zenon
  <2> QED BY <1>4, <2>2, <2>3, ZenonT(30)
<1>7. Floored'
  <2>1. \A p \in Procs : began'[p] \in 1..Len(hist')
    <3>1. \A p \in Procs : began'[p] \in 1..Len(hist)
      BY <1>1, Zenon DEF Survival, Floored
    <3>2. Len(hist) \in Nat
      BY SurvivalTypes, Zenon
    <3>3. \A i \in 1..Len(hist) : i \in 1..(Len(hist) + 1)
      BY <3>2
    <3> QED BY <1>4, <3>1, <3>3, Zenon
  <2>2. \A w \in Writers : floor'[w] >= 1
    BY <1>1, Zenon DEF Survival, Floored
  <2>3. ASSUME NEW w \in Writers
        PROVE  \E n \in floor'[w]..Len(hist') : SameFor(w, base', hist'[n])
    <3>1. PICK n \in floor[w]..Len(hist) : SameFor(w, base, hist[n])
      BY Zenon DEF Survival, Floored
    <3> QED BY Zenon, <1>1, <1>6, <3>1
  <2>4. ASSUME NEW w \in Writers
        PROVE  \E n \in floor'[w]..Len(hist') : SameFor(w, durable', hist'[n])
    <3>1. PICK n \in floor[w]..Len(hist) : SameFor(w, durable, hist[n])
      BY Zenon DEF Survival, Floored, SyncedSurvives
    <3> QED BY Zenon, <1>1, <1>6, <3>1
  <2>5. SyncedSurvives'
    BY <2>4, Zenon DEF SyncedSurvives
  <2> QED BY <2>1, <2>2, <2>3, <2>5, ZenonT(30) DEF Floored
<1>8. Flushing'
  <2> SUFFICES ASSUME flush'.step \in {"write", "drop", "done"}, NEW w \in Writers
               PROVE  \E n \in floor'[w]..Len(hist') :
                        /\ began'[flush'.who] <= n
                        /\ SameFor(w, Overlay(base', flush'.list), hist'[n])
    BY Zenon DEF Flushing
  <2>1. PICK n \in floor[w]..Len(hist) :
          began[flush.who] <= n /\ SameFor(w, Overlay(base, flush.list), hist[n])
    BY <1>1, Zenon DEF Survival, Flushing
  <2> QED BY ZenonT(60), <1>1, <1>6, <2>1
<1>9. Unowned'
  <2> SUFFICES ASSUME NEW k \in Keys, \A w \in Writers : k \notin KeysOf[w]
               PROVE  /\ durable'[k] = base'[k]
                      /\ \A i \in 1..Len(hist') : hist'[i][k] = base'[k]
                      /\ \A i \in 1..Len(layers') : ~Touches(layers'[i], k)
                      /\ \A i \in 1..Len(flush'.list) : ~Touches(flush'.list[i], k)
    BY Zenon DEF Unowned
  <2>1. /\ durable[k] = base[k]
        /\ \A i \in 1..Len(hist) : hist[i][k] = base[k]
        /\ \A i \in 1..Len(layers) : ~Touches(layers[i], k)
        /\ \A i \in 1..Len(flush.list) : ~Touches(flush.list[i], k)
    BY Zenon DEF Survival, Unowned
  <2>2. Deciding(b, k) = 0 /\ ~Touches(FromBatch(b), k)
    BY OwnKeys, Zenon
  <2>3. ApplyBatch(Now, b)[k] = base[k]
    BY <2>1, <2>2, NowIs, Zenon DEF ApplyBatch, Now
  <2>4. \A i \in 1..Len(hist') : i \in 1..Len(hist) \/ i = Len(hist) + 1
    BY <1>4, SurvivalTypes, SMTT(30)
  <2>5. \A i \in 1..Len(layers') : i \in 1..Len(layers) \/ i = Len(layers) + 1
    BY <1>5
  <2> QED BY ZenonT(60), <1>1, <1>4, <1>5, <2>1, <2>2, <2>3, <2>4, <2>5
<1> QED BY <1>7, <1>8, <1>9, Zenon DEF Survival

(* A flush of the whole list would leave the present contents. *)
LEMMA FlushReadSurvival ==
  ASSUME IInv, Survival, FlushRead
  PROVE  Survival'
<1>1. /\ flush'.list = layers /\ flush'.who = flush.who /\ flush.who \in Procs
      /\ UNCHANGED <<base, durable, layers, hist, floor, began>>
  BY SurvivalTypes, NameAssumption, Zenon DEF FlushRead, IInv, FlushInv, FlushRecord
<1>2. Floored'
  BY <1>1, ZenonT(60) DEF Survival, Floored, SyncedSurvives, SameFor
<1>3. Flushing'
  <2> SUFFICES ASSUME NEW w \in Writers
               PROVE  \E n \in floor[w]..Len(hist) :
                        /\ began[flush.who] <= n
                        /\ SameFor(w, Overlay(base, layers), hist[n])
    BY <1>1, Zenon DEF Flushing, SameFor
  <2>1. floor[w] <= Len(hist)
    BY SurvivalTypes, SMTT(30) DEF Survival, Floored
  <2>2. Len(hist) \in floor[w]..Len(hist) /\ began[flush.who] <= Len(hist)
    BY <1>1, <2>1, SurvivalTypes, SMTT(30) DEF Survival, Floored
  <2>3. SameFor(w, Overlay(base, layers), hist[Len(hist)])
    BY Zenon DEF SameFor, IInv, ViewIsCommitted, Now
  <2> QED BY <2>2, <2>3, Zenon
<1>4. Unowned'
  BY <1>1, Zenon DEF Survival, Unowned
<1> QED BY <1>2, <1>3, <1>4, Zenon DEF Survival

(* The flush's commit moves the base to that state, not the durable        *)
(* contents.                                                               *)
LEMMA FlushWriteSurvival ==
  ASSUME IInv, Survival, FlushWrite
  PROVE  Survival'
<1>1. /\ base' = Overlay(base, flush.list) /\ flush'.list = flush.list /\ flush'.who = flush.who
      /\ flush.step = "write" /\ UNCHANGED <<durable, layers, hist, floor, began>>
  BY SurvivalTypes, Zenon DEF FlushWrite, FlushRecord
<1>2. Overlay(base', flush.list) = Overlay(base, flush.list)
  BY <1>1, OverlayTwice, SurvivalTypes, Zenon
<1>3. \A w \in Writers : \E n \in floor[w]..Len(hist) :
        began[flush.who] <= n /\ SameFor(w, Overlay(base, flush.list), hist[n])
  BY <1>1, Zenon DEF Survival, Flushing
<1>4. Floored'
  <2>1. \A w \in Writers : \E n \in floor'[w]..Len(hist') : SameFor(w, base', hist'[n])
    BY <1>1, <1>3, Zenon
  <2> QED BY <1>1, <2>1, ZenonT(30) DEF Survival, Floored, SyncedSurvives, SameFor
<1>5. Flushing'
  BY <1>1, <1>2, <1>3, ZenonT(30) DEF Flushing
<1>6. Unowned'
  <2>1. ASSUME NEW k \in Keys, \A w \in Writers : k \notin KeysOf[w]
        PROVE  base'[k] = base[k]
    <3>1. Top(flush.list, k) = 0
      BY <2>1, TopNone, SurvivalTypes, Zenon DEF Survival, Unowned
    <3> QED BY <1>1, <3>1, Zenon DEF Overlay
  <2> QED BY <1>1, <2>1, Zenon DEF Survival, Unowned
<1> QED BY <1>4, <1>5, <1>6, Zenon DEF Survival

(* The base holds the dropped layers. *)
LEMMA FlushDropSurvival ==
  ASSUME IInv, Survival, FlushDrop
  PROVE  Survival'
<1>1. /\ flush.step = "drop" /\ flush'.list = <<>> /\ flush'.who = flush.who
      /\ layers' = SubSeq(layers, Len(flush.list) + 1, Len(layers))
      /\ UNCHANGED <<base, durable, hist, floor, began>>
  BY SurvivalTypes, ZenonT(30) DEF FlushDrop, Unflushed, FlushRecord
<1>2. Holds(base, flush.list) /\ Len(flush.list) \in 0..Len(layers)
  BY <1>1, SurvivalTypes, LenProperties, SMTT(60) DEF IInv, FlushInv, IsPrefixOf
<1>3. Overlay(base, flush.list) = base /\ Overlay(base, <<>>) = base
  BY <1>2, OverlayHeld, OverlayEmpty, SurvivalTypes, Zenon
<1>4. Floored'
  BY <1>1, ZenonT(30) DEF Survival, Floored, SyncedSurvives, SameFor
<1>5. Flushing'
  BY <1>1, <1>3, Zenon DEF Survival, Flushing
<1>6. Unowned'
  <2>1. \A i \in 1..Len(layers') : \E j \in 1..Len(layers) : layers'[i] = layers[j]
    BY <1>1, <1>2, SuffixElements, SurvivalTypes, Zenon
  <2>2. Len(flush'.list) = 0
    BY <1>1
  <2>3. \A i \in 1..Len(flush'.list) : FALSE
    BY <2>2
  <2> QED BY <1>1, <2>1, <2>3, ZenonT(30) DEF Survival, Unowned
<1> QED BY <1>4, <1>5, <1>6, Zenon DEF Survival

(* A return frees the lock; the calls in progress began in the history. *)
LEMMA ReturnBegan ==
  ASSUME IInv, Survival, NEW next \in {"idle", "presync"}, Return(next)
  PROVE  /\ flush'.step = "free" /\ flush'.list = <<>>
         /\ \A p \in Procs : began'[p] \in 1..Len(hist)
<1>1. flush' = [who |-> Nobody, step |-> "free", list |-> <<>>]
  BY Zenon DEF Return, NoFlush
<1>2. ASSUME NEW p \in Procs PROVE began'[p] \in 1..Len(hist)
  <2>1. began \in [Procs -> Nat] /\ began[p] \in 1..Len(hist) /\ 1 \in 1..Len(hist)
    BY SurvivalTypes, SMTT(30) DEF IInv, TypeOK, Survival, Floored
  <2> QED BY <2>1, ZenonT(30) DEF Return
<1> QED BY <1>1, <1>2, ZenonT(30)

(* A durable commit: its own writer's state is the new one, and the others'*)
(* is one its flush reached.                                               *)
LEMMA CommitBaseSurvival ==
  ASSUME IInv, Survival, CommitBase
  PROVE  Survival'
<1> DEFINE w == flush.who
           b == batch[w]
<1>1. /\ w \in Writers /\ pc[w] = "durable" /\ flush.step = "done" /\ Return("idle")
      /\ base' = ApplyBatch(base, b) /\ durable' = base'
      /\ hist' = Append(hist, ApplyBatch(Now, b))
      /\ floor' = [AtLeast(floor, began[w]) EXCEPT ![w] = Len(hist) + 1]
      /\ UNCHANGED layers
  BY Zenon DEF CommitBase
<1>2. b \in BatchesOf(w) /\ flush.list = <<>>
  BY <1>1, ZenonT(60) DEF IInv, FlushInv
<1>3. /\ \A i \in 1..Len(layers) : \A k \in KeysOf[w] : ~Touches(layers[i], k)
      /\ Overlay(base, layers) = Now
  <2>1. Len(flush.list) = 0 /\ Len(layers) \in Nat
    BY <1>2, SurvivalTypes, LenProperties, Zenon
  <2>2. \A i \in 1..Len(layers) : Len(flush.list) < i
    BY SMTT(60), <2>1
  <2> QED BY <1>1, <2>2, ZenonT(30) DEF IInv, FlushInv, ViewIsCommitted
<1>4. \A u \in Writers : \E n \in floor[u]..Len(hist) :
        began[w] <= n /\ SameFor(u, base, hist[n])
  <2>1. Overlay(base, flush.list) = base
    BY <1>2, OverlayEmpty, SurvivalTypes, ZenonT(30)
  <2> QED BY <1>1, <2>1, Zenon DEF Survival, Flushing
<1>5. /\ flush'.step = "free" /\ flush'.list = <<>>
      /\ \A p \in Procs : began'[p] \in 1..Len(hist)
  BY <1>1, ReturnBegan, Zenon
<1> HIDE DEF w, b
<1>6. b \in Seq(Op)
  BY <1>2, BatchAssumption, Zenon DEF BatchesOf
<1>7. Now \in Contents /\ ApplyBatch(Now, b) \in Contents
  BY <1>6, NowIs, ApplyBatchType, Zenon
<1>8. /\ Len(hist') = Len(hist) + 1
      /\ \A i \in 1..Len(hist) : hist'[i] = hist[i]
      /\ hist'[Len(hist) + 1] = ApplyBatch(Now, b)
  <2>1. hist' = Append(hist, ApplyBatch(Now, b))
    BY <1>1, Zenon
  <2>2. hist \in Seq(Contents)
    BY SurvivalTypes, Zenon
  <2> QED BY <1>7, <2>1, <2>2, AppendKeeps, ZenonT(30)
<1>9. ASSUME NEW u \in Writers
      PROVE  /\ floor'[u] >= 1
             /\ \E n \in floor'[u]..Len(hist') : SameFor(u, base', hist'[n])
  <2>1. CASE u = w
    <3>1. floor'[u] = Len(hist) + 1 /\ Len(hist) + 1 \in floor'[u]..Len(hist')
      BY <1>1, <1>8, <2>1, SurvivalTypes, SMTT(60) DEF AtLeast
    <3>2. ASSUME NEW k \in KeysOf[w] PROVE base'[k] = ApplyBatch(Now, b)[k]
      <4>1. k \in Keys
        BY <1>1, <3>2, SurvivalTypes, Zenon
      <4>2. Top(layers, k) = 0
        BY <1>3, <3>2, TopNone, SurvivalTypes, Zenon
      <4>3. base[k] = Now[k]
        BY <1>3, <4>1, <4>2, Zenon DEF Overlay
      <4> QED BY <1>1, <4>1, <4>3, Zenon DEF ApplyBatch
    <3>3. SameFor(u, base', hist'[Len(hist) + 1])
      BY <1>8, <2>1, <3>2, ZenonT(30) DEF SameFor
    <3>4. Len(hist) + 1 >= 1
      BY SurvivalTypes
    <3> QED BY <3>1, <3>3, <3>4, Zenon
  <2>2. CASE u # w
    <3>1. PICK n \in floor[u]..Len(hist) : began[w] <= n /\ SameFor(u, base, hist[n])
      BY <1>4, ZenonT(30)
    <3>2. floor'[u] = IF floor[u] < began[w] THEN began[w] ELSE floor[u]
      BY <1>1, <2>2, Zenon DEF AtLeast
    <3>3. floor[u] \in Nat /\ floor[u] >= 1 /\ Len(hist) \in Nat /\ began[w] \in Nat
      BY <1>1, SurvivalTypes, ZenonT(60) DEF Survival, Floored, IInv, TypeOK
    <3>4. floor'[u] >= 1 /\ n \in floor'[u]..Len(hist') /\ hist'[n] = hist[n]
      BY <1>8, <3>1, <3>2, <3>3, SMTT(30)
    <3>5. ASSUME NEW k \in KeysOf[u] PROVE base'[k] = base[k]
      <4>1. k \in Keys /\ k \notin KeysOf[w]
        BY <1>1, <2>2, <3>5, WriterAssumption, Zenon
      <4>2. Deciding(b, k) = 0
        BY <1>1, <1>2, <4>1, OwnKeys, Zenon
      <4> QED BY <1>1, <4>1, <4>2, Zenon DEF ApplyBatch
    <3>6. SameFor(u, base', hist'[n])
      BY <3>1, <3>4, <3>5, Zenon DEF SameFor
    <3> QED BY <3>4, <3>6, Zenon
  <2> QED BY <2>1, <2>2, ZenonT(30)
<1>10. Floored'
  <2>1. \A p \in Procs : began'[p] \in 1..Len(hist')
    BY SMTT(60), <1>5, <1>8, SurvivalTypes
  <2>2. SyncedSurvives'
    BY <1>1, <1>9, ZenonT(60) DEF SyncedSurvives
  <2> QED BY <1>9, <2>1, <2>2, ZenonT(30) DEF Floored
<1>11. Flushing'
  BY <1>5, Zenon DEF Flushing
<1>12. Unowned'
  <2> SUFFICES ASSUME NEW k \in Keys, \A u \in Writers : k \notin KeysOf[u]
               PROVE  /\ durable'[k] = base'[k]
                      /\ \A i \in 1..Len(hist') : hist'[i][k] = base'[k]
                      /\ \A i \in 1..Len(layers') : ~Touches(layers'[i], k)
                      /\ \A i \in 1..Len(flush'.list) : ~Touches(flush'.list[i], k)
    BY ZenonT(30) DEF Unowned
  <2>1. /\ \A i \in 1..Len(hist) : hist[i][k] = base[k]
        /\ \A i \in 1..Len(layers) : ~Touches(layers[i], k)
    BY Zenon DEF Survival, Unowned
  <2>2. Deciding(b, k) = 0
    BY <1>1, <1>2, OwnKeys, ZenonT(30)
  <2>3. base'[k] = base[k] /\ ApplyBatch(Now, b)[k] = base[k]
    BY <1>1, <2>1, <2>2, SurvivalTypes, SMTT(60) DEF ApplyBatch, Now
  <2>4. \A i \in 1..Len(hist') : i \in 1..Len(hist) \/ i = Len(hist) + 1
    BY <1>8, SurvivalTypes, SMTT(30)
  <2>5. \A i \in 1..Len(flush'.list) : FALSE
    BY SMTT(60), <1>5
  <2> QED BY <1>1, <1>8, <2>1, <2>3, <2>4, <2>5, ZenonT(30)
<1> QED BY <1>10, <1>11, <1>12, Zenon DEF Survival

(* A sync or a defragment: what its flush reached becomes durable. *)
LEMMA SyncBaseSurvival ==
  ASSUME IInv, Survival, SyncBase
  PROVE  Survival'
<1> DEFINE p == flush.who
<1>1. /\ p \in Procs /\ flush.step = "done" /\ Return("idle")
      /\ durable' = base /\ floor' = AtLeast(floor, began[p])
      /\ UNCHANGED <<base, layers, hist>>
  BY Zenon DEF SyncBase, Procs
<1>2. flush.list = <<>>
  BY <1>1, ZenonT(30) DEF IInv, FlushInv
<1>3. \A u \in Writers : \E n \in floor[u]..Len(hist) :
        began[p] <= n /\ SameFor(u, base, hist[n])
  <2>1. Overlay(base, flush.list) = base
    BY <1>2, OverlayEmpty, SurvivalTypes, Zenon
  <2> QED BY <1>1, <2>1, Zenon DEF Survival, Flushing
<1>4. /\ flush'.step = "free" /\ flush'.list = <<>>
      /\ \A q \in Procs : began'[q] \in 1..Len(hist)
  BY <1>1, ReturnBegan, Zenon
<1> HIDE DEF p
<1>5. ASSUME NEW u \in Writers
      PROVE  /\ floor'[u] >= 1
             /\ \E n \in floor'[u]..Len(hist') : SameFor(u, base, hist'[n])
  <2>1. PICK n \in floor[u]..Len(hist) : began[p] <= n /\ SameFor(u, base, hist[n])
    BY <1>3, Zenon
  <2>2. floor'[u] = IF floor[u] < began[p] THEN began[p] ELSE floor[u]
    BY <1>1, Zenon DEF AtLeast
  <2>3. floor[u] \in Nat /\ floor[u] >= 1 /\ Len(hist) \in Nat /\ began[p] \in Nat
    BY <1>1, SurvivalTypes, ZenonT(30) DEF Survival, Floored, IInv, TypeOK
  <2>4. floor'[u] >= 1 /\ n \in floor'[u]..Len(hist')
    BY SMTT(60), <1>1, <2>1, <2>2, <2>3
  <2> QED BY <1>1, <2>1, <2>4, ZenonT(30)
<1>6. Floored'
  BY <1>1, <1>4, <1>5, ZenonT(30) DEF Floored, SyncedSurvives
<1>7. Flushing'
  BY <1>4, Zenon DEF Flushing
<1>8. Unowned'
  <2>1. \A i \in 1..Len(flush'.list) : FALSE
    BY SMTT(60), <1>4
  <2> QED BY <1>1, <2>1, Zenon DEF Survival, Unowned
<1> QED BY <1>6, <1>7, <1>8, Zenon DEF Survival

(* A restart begins a history of its own. *)
LEMMA CrashSurvival ==
  ASSUME IInv, Survival, Crash
  PROVE  Survival'
<1>1. /\ base' = durable /\ durable' = durable /\ layers' = <<>> /\ hist' = <<durable>>
      /\ flush'.step = "free" /\ flush'.list = <<>>
      /\ \A w \in Writers : floor'[w] = 1
      /\ \A p \in Procs : began'[p] = 1
  BY Zenon DEF Crash, NoFlush
<1>2. Len(hist') = 1 /\ hist'[1] = durable /\ Len(<<>>) = 0
  BY <1>1, Zenon
<1>3. \A w \in Writers : 1 \in floor'[w]..Len(hist') /\ SameFor(w, durable, hist'[1])
  <2>1. 1 \in 1..1
    BY SMTT(30)
  <2> QED BY <1>1, <1>2, <2>1, Zenon DEF SameFor
<1>4. Floored'
  BY <1>1, <1>2, <1>3, SMTT(60) DEF Floored, SyncedSurvives
<1>5. Flushing'
  BY <1>1, ZenonT(30) DEF Flushing
<1>6. Unowned'
  BY <1>1, <1>2 DEF Unowned
<1> QED BY <1>4, <1>5, <1>6, Zenon DEF Survival

(* It holds of the first state. *)
LEMMA InitSurvival == Init => Survival
<1> SUFFICES ASSUME Init PROVE Survival
  BY Zenon
<1>1. /\ durable = base /\ layers = <<>> /\ hist = <<base>>
      /\ flush.step = "free" /\ flush.list = <<>>
      /\ \A w \in Writers : floor[w] = 1
      /\ \A p \in Procs : began[p] = 1
  BY Zenon DEF Init, NoFlush
<1>2. Len(hist) = 1 /\ hist[1] = base /\ Len(<<>>) = 0
  BY <1>1, Zenon
<1>3. \A w \in Writers : 1 \in floor[w]..Len(hist) /\ SameFor(w, base, hist[1])
  <2>1. 1 \in 1..1
    BY SMTT(30)
  <2> QED BY <1>1, <1>2, <2>1, ZenonT(30) DEF SameFor
<1>4. Floored
  BY <1>1, <1>2, <1>3 DEF Floored, SyncedSurvives
<1>5. Flushing
  BY <1>1, ZenonT(30) DEF Flushing
<1>6. Unowned
  BY <1>1, <1>2 DEF Unowned
<1> QED BY <1>4, <1>5, <1>6, ZenonT(30) DEF Survival

(* Every step keeps what a crash would leave within bounds. *)
LEMMA NextSurvival == IInv /\ Survival /\ [Next]_vars => Survival'
<1> SUFFICES ASSUME IInv, Survival, [Next]_vars PROVE Survival'
  BY ZenonT(30)
<1>0. /\ \A p \in Procs : began[p] \in 1..Len(hist)
      /\ began \in [Procs -> Nat] /\ Len(hist) \in 1..Len(hist) /\ 1 \in 1..Len(hist)
  BY SurvivalTypes DEF Survival, Floored, IInv, TypeOK
<1>1. ASSUME NEW w \in Writers, NEW b \in BatchesOf(w), CommitLayer(w, b)
      PROVE  Survival'
  BY <1>1, CommitLayerSurvival, ZenonT(30)
<1>2. ASSUME NEW p \in Procs, pc[p] \in {"idle", "presync"},
             NEW n \in 1..Len(hist), began' = [began EXCEPT ![p] = n],
             UNCHANGED <<base, durable, layers, flush, hist, floor>>
      PROVE  Survival'
  <2>1. p # flush.who
    BY <1>2, NameAssumption, ZenonT(30) DEF IInv, FlushInv
  <2>2. \A q \in Procs : began'[q] \in 1..Len(hist)
    BY <1>0, <1>2, Zenon
  <2>3. flush.who # Nobody => began'[flush.who] = began[flush.who]
    BY <1>0, <1>2, <2>1, SurvivalTypes, ZenonT(60) DEF FlushRecord
  <2> QED BY <1>2, <2>2, <2>3, QuietSurvival, Zenon
<1>3. ASSUME NEW w \in Writers, NEW b \in BatchesOf(w), CommitSync(w, b)
      PROVE  Survival'
  BY <1>0, <1>2, <1>3, SurvivalTypes, Zenon DEF CommitSync
<1>4. ASSUME NEW p \in Syncers \cup Defraggers, SyncBegin(p) \/ DefragmentBegin(p)
      PROVE  Survival'
  BY <1>0, <1>2, <1>4, Zenon DEF SyncBegin, DefragmentBegin, Procs
<1>5. ASSUME NEW p \in Syncers, Presync(p)
      PROVE  Survival'
  <2>1. p \in Procs /\ pc[p] = "presync" /\ UNCHANGED <<base, durable, layers, flush, hist, floor>>
    BY <1>5, Zenon DEF Presync, Procs
  <2>2. PICK n \in {1, began[p]} : began' = [began EXCEPT ![p] = n]
    BY <1>5, ZenonT(60) DEF Presync
  <2> QED BY ZenonT(30), <1>0, <1>2, <2>1, <2>2
<1>6. ASSUME NEW p \in Procs, LockFlush(p)
      PROVE  Survival'
  BY <1>0, <1>6, QuietSurvival, Zenon DEF LockFlush
<1>7. CASE FlushReturn \/ EngineError
  <2>1. PICK next \in {"idle", "presync"} : Return(next)
    BY <1>7, Zenon DEF FlushReturn, EngineError
  <2>2. UNCHANGED <<base, durable, layers, hist, floor>>
    BY <1>7, Zenon DEF FlushReturn, EngineError
  <2> QED BY <2>1, <2>2, ReturnBegan, QuietSurvival, ZenonT(30)
<1>8. CASE FlushStep
  BY <1>7, <1>8, FlushReadSurvival, FlushWriteSurvival, FlushDropSurvival,
     CommitBaseSurvival, SyncBaseSurvival, ZenonT(30) DEF FlushStep
<1>9. ASSUME NEW r \in Readers, SnapshotBase(r) \/ SnapshotList(r)
      PROVE  Survival'
  BY <1>0, <1>9, QuietSurvival, Zenon DEF SnapshotBase, SnapshotList
<1>10. CASE Crash
  BY <1>10, CrashSurvival, ZenonT(30)
<1>11. CASE UNCHANGED vars
  BY <1>0, <1>11, QuietSurvival, Zenon DEF vars
<1> QED BY <1>1, <1>3, <1>4, <1>5, <1>6, <1>7, <1>8, <1>9, <1>10, <1>11, ZenonT(30) DEF Next

(* What a crash keeps is, for every writer, a state of its own commits no  *)
(* older than the last durable commit, sync or defragment that returned    *)
(* (write_behind.rs sync, commit and flush_locked), whatever the others do *)
(* meanwhile.                                                              *)
THEOREM SyncedCorrect == Spec => []SyncedSurvives
<1>1. Survival => SyncedSurvives
  BY Zenon DEF Survival, Floored
<1> QED BY <1>1, InitIInv, NextIInv, InitSurvival, NextSurvival, PTL DEF Spec

(* A single writer's store is a KvStore: its durable contents are the      *)
(* contents of a state of the history, not just the writer's part of it.   *)
LEMMA OneWriterDurable ==
  ASSUME IInv, Survival, NEW w, Writers = {w}
  PROVE  \E n \in floor[w]..Len(hist) : durable = hist[n]
<1>1. PICK n \in floor[w]..Len(hist) : SameFor(w, durable, hist[n])
  BY ZenonT(30) DEF Survival, Floored, SyncedSurvives
<1>2. n \in 1..Len(hist)
  BY <1>1, SurvivalTypes DEF Survival, Floored
<1>3. ASSUME NEW k \in Keys PROVE durable[k] = hist[n][k]
  <2>1. CASE k \in KeysOf[w]
    BY <1>1, <2>1, Zenon DEF SameFor
  <2>2. CASE k \notin KeysOf[w]
    BY <1>2, <2>2, ZenonT(30) DEF Survival, Unowned
  <2> QED BY <2>1, <2>2, Zenon
<1>4. durable \in Contents /\ hist[n] \in Contents
  BY <1>2, SurvivalTypes, Zenon
<1> QED BY <1>1, <1>3, <1>4 DEF Contents

(* With one writer, the layers over the base implement the KvStore trait's *)
(* contract (kvstore.rs KvStore, WriteOptions), crashes included.          *)
THEOREM ImplementsKvStore ==
  ASSUME NEW w, Writers = {w}
  PROVE  Spec => OneWriterContract
<1>0. TheWriter = w
  BY ZenonT(30) DEF TheWriter
<1>1. Init => Contract!Init
  <2>1. Empty \in Contents
    BY Zenon DEF Empty, Contents
  <2> QED BY <1>0, <2>1, Zenon DEF Init, Contract!Init
<1>2. ASSUME IInv, Survival, [Next]_vars
      PROVE  [Contract!Next]_(Contract!kvars)
  <2> USE <1>0 DEF Contract!kvars
  <2>0. /\ floor[w] \in Nat /\ floor[w] >= 1 /\ Len(hist) \in Nat /\ floor[w] <= Len(hist)
        /\ hist \in Seq(Contents) /\ Now \in Contents
    BY <1>2, SurvivalTypes DEF Survival, Floored, Now
  <2>1. CASE UNCHANGED <<hist, floor>>
    BY <2>1, Zenon
  <2>2. ASSUME NEW b \in BatchesOf(w), CommitLayer(w, b)
        PROVE  Contract!Next
    <3>1. ApplyBatch(Now, b) \in Contents
      BY <2>0, ApplyBatchType, BatchAssumption, Zenon DEF BatchesOf
    <3> QED BY <2>2, <3>1, Zenon DEF CommitLayer, Contract!Next, Contract!Commit
  <2>3. CASE CommitBase
    <3>1. flush.who = w /\ flush.step = "done" /\ pc[w] = "durable"
      BY <2>3, Zenon DEF CommitBase
    <3>2. batch[w] \in BatchesOf(w)
      BY <1>2, <3>1, ZenonT(30) DEF IInv, FlushInv
    <3>3. ApplyBatch(Now, batch[w]) \in Contents
      BY <2>0, <3>2, ApplyBatchType, BatchAssumption, ZenonT(30) DEF BatchesOf
    <3>4. floor'[w] = Len(hist) + 1 /\ hist' = Append(hist, ApplyBatch(Now, batch[w]))
      BY <2>3, <3>1, ZenonT(30) DEF CommitBase, AtLeast
    <3> QED BY <3>3, <3>4, Zenon DEF Contract!Next, Contract!CommitDurable
  <2>4. CASE SyncBase
    <3>1. flush.who \in Procs /\ floor'[w] = AtLeast(floor, began[flush.who])[w] /\ hist' = hist
      BY <2>4, ZenonT(60) DEF SyncBase, Procs
    <3>2. began[flush.who] \in 1..Len(hist)
      BY <1>2, <3>1, ZenonT(30) DEF Survival, Floored
    <3>3. floor'[w] \in floor[w]..Len(hist)
      BY <2>0, <3>1, <3>2, SMTT(30) DEF AtLeast
    <3> QED BY <3>1, <3>3, Zenon DEF Contract!Next, Contract!Persist
  <2>5. CASE Crash
    <3>1. PICK n \in floor[w]..Len(hist) : durable = hist[n]
      BY <1>2, OneWriterDurable, Zenon
    <3>2. hist' = <<durable>> /\ floor'[w] = 1
      BY <2>5, Zenon DEF Crash
    <3> QED BY <3>1, <3>2, Zenon DEF Contract!Next, Contract!Crash
  <2>6. ASSUME NEW u \in Writers, NEW b \in BatchesOf(u), CommitSync(u, b)
        PROVE  UNCHANGED <<hist, floor>>
    BY <2>6, ZenonT(30) DEF CommitSync
  <2>7. ASSUME NEW p, \/ SyncBegin(p) \/ Presync(p) \/ DefragmentBegin(p) \/ LockFlush(p)
                      \/ SnapshotBase(p) \/ SnapshotList(p)
        PROVE  UNCHANGED <<hist, floor>>
    BY <2>7, Zenon DEF SyncBegin, Presync, DefragmentBegin, LockFlush, SnapshotBase, SnapshotList
  <2>8. CASE FlushRead \/ FlushWrite \/ FlushDrop \/ FlushReturn \/ EngineError
    BY <2>1, <2>8, Zenon DEF FlushRead, FlushWrite, FlushDrop, FlushReturn, EngineError
  <2>9. CASE UNCHANGED vars
    BY <2>1, <2>9, Zenon DEF vars
  <2> QED BY <1>2, <2>1, <2>2, <2>3, <2>4, <2>5, <2>6, <2>7, <2>8, <2>9, ZenonT(30) DEF Next, FlushStep
<1> QED BY <1>1, <1>2, InitIInv, NextIInv, InitSurvival, NextSurvival, PTL
        DEF Spec, OneWriterContract, Contract!Spec
=============================================================================
