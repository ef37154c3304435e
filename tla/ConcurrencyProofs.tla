------------------------- MODULE ConcurrencyProofs -------------------------
(***************************************************************************)
(* For any sessions, kinds of call, channel capacity and bounds: two       *)
(* sessions never both hold a lock or an election, and an observer is told *)
(* of leaders only.                                                        *)
(***************************************************************************)
EXTENDS Concurrency, SequenceTheorems, WellFoundedInduction, TLAPS

NatLess == {ss \in Nat \X Nat : ss[1] < ss[2]}

(* The order on the naturals is well founded. *)
LEMMA NatLessWellFounded == IsWellFoundedOn(NatLess, Nat)
BY NatLessThanWellFounded, Zenon DEF OpToRel, NatLess

(* A non-empty set of revisions has an oldest one, which OldestOf picks. *)
LEMMA OldestIs ==
  ASSUME NEW T, T \subseteq Nat, T # {}
  PROVE  OldestOf(T) \in T /\ \A q \in T : q >= OldestOf(T)
<1>1. PICK x \in T : \A y \in T : ~(<<y, x>> \in NatLess)
  BY NatLessWellFounded, WFMin, Zenon
<1>2. ASSUME NEW y \in T PROVE y >= x
  <2>1. x \in Nat /\ y \in Nat
    BY Zenon
  <2>2. ~(y < x)
    BY <1>1, <2>1, Zenon DEF NatLess
  <2> QED BY <2>1, <2>2
<1> QED BY <1>2, Zenon DEF OldestOf

(* And one of bounded revisions a newest one. *)
LEMMA NewestIs ==
  ASSUME NEW n \in Nat, NEW T, T \subseteq 1..n, T # {}
  PROVE  NewestOf(T) \in T /\ \A q \in T : q <= NewestOf(T)
<1> DEFINE D == {n - x : x \in T}
<1>1. D \subseteq Nat /\ D # {}
  <2>1. PICK t \in T : TRUE
    BY Zenon
  <2>2. n - t \in D
    OBVIOUS
  <2>3. \A x \in T : n - x \in Nat
    OBVIOUS
  <2> QED BY <2>2, <2>3
<1>2. OldestOf(D) \in D /\ \A q \in D : q >= OldestOf(D)
  <2> HIDE DEF D
  <2> QED BY <1>1, OldestIs, Zenon
<1>3. PICK x \in T : OldestOf(D) = n - x
  BY <1>2, Zenon
<1>4. ASSUME NEW y \in T PROVE y <= x
  <2>1. n - y \in D
    OBVIOUS
  <2>2. n - y >= n - x
    BY <2>1, <1>2, <1>3, Zenon
  <2> QED BY <2>2
<1> QED BY <1>4, Zenon DEF NewestOf

(***************************************************************************)
(* What the committed log says of a key.                                   *)
(***************************************************************************)

Event == [kind : {"put", "delete"}, key : Sessions]

Logged == evs \in Seq(Event)

Deletes(k, r) == evs[r].key = k /\ evs[r].kind = "delete"

(* Revision c put k when it was not there, and it was not deleted since. *)
Opens(k, c, i) ==
  /\ c \in 1..i /\ evs[c].key = k
  /\ \A r \in c..i : ~Deletes(k, r)
  /\ \A r \in 1..(c - 1) : evs[r].key = k => \E d \in r..(c - 1) : Deletes(k, d)

(* The keys that are there, and since when, by the log alone. *)
Opened ==
  \A i \in 0..Top : \A k \in Sessions :
    /\ k \in There(i) => Opens(k, CreatedAt(k, i), i)
    /\ \A c \in 1..i : Opens(k, c, i) => k \in There(i) /\ c = CreatedAt(k, i)

(* A key is created once between two deletes. *)
LEMMA OpensOnce ==
  ASSUME NEW i \in Nat, NEW k, NEW c, NEW d, Opens(k, c, i), Opens(k, d, i)
  PROVE  c = d
<1>1. ASSUME NEW x, NEW y, Opens(k, x, i), Opens(k, y, i), x < y PROVE FALSE
  <2>1. x \in 1..i /\ y \in 1..i /\ evs[x].key = k
    BY <1>1 DEF Opens
  <2>2. x \in 1..(y - 1)
    BY <1>1, <2>1
  <2>3. PICK e \in x..(y - 1) : Deletes(k, e)
    BY <1>1, <2>1, <2>2, Zenon DEF Opens
  <2>4. e \in x..i
    BY <2>1, <2>3
  <2> QED BY <1>1, <2>3, <2>4, Zenon DEF Opens
<1>2. c \in 1..i /\ d \in 1..i
  BY DEF Opens
<1>3. ~(c < d) /\ ~(d < c)
  BY <1>1, Zenon
<1> QED BY <1>2, <1>3

(* The state a read sees, from the log (the store's index: created, and    *)
(* closed by a delete).                                                    *)
LEMMA LogOpened == Logged => Opened
<1> SUFFICES ASSUME Logged, NEW i \in 0..Top, NEW k \in Sessions
             PROVE  /\ k \in There(i) => Opens(k, CreatedAt(k, i), i)
                    /\ \A c \in 1..i : Opens(k, c, i) => k \in There(i) /\ c = CreatedAt(k, i)
  BY Zenon DEF Opened
<1>1. i \in Nat /\ \A r \in 1..i : evs[r] \in Event
  BY DEF Logged, Top
<1> DEFINE T == Touches(k, 1, i)
           d == LastDelete(k, i)
           S == Touches(k, d + 1, i)
<1>2. T \subseteq 1..i
  BY DEF Touches
<1>3. T # {} => NewestOf(T) \in T /\ \A q \in T : q <= NewestOf(T)
  <2> HIDE DEF T
  <2> QED BY <1>1, <1>2, NewestIs, Zenon
<1>4. /\ d \in 0..i
      /\ d > 0 => Deletes(k, d)
      /\ \A r \in (d + 1)..i : ~Deletes(k, r)
  <2> DEFINE D == {r \in T : evs[r].kind = "delete"}
  <2>1. CASE D = {}
    <3>1. d = 0
      BY <2>1, Zenon DEF LastDelete
    <3>2. \A r \in 1..i : ~Deletes(k, r)
      BY <2>1, Zenon DEF Deletes, Touches
    <3> QED BY <1>1, <3>1, <3>2
  <2>2. CASE D # {}
    <3>1. d = NewestOf(D)
      BY <2>2, Zenon DEF LastDelete
    <3>2. D \subseteq 1..i
      BY <1>2
    <3>3. d \in D /\ \A q \in D : q <= d
      <4> HIDE DEF D, d
      <4> QED BY <1>1, <2>2, <3>1, <3>2, NewestIs, Zenon
    <3>4. Deletes(k, d) /\ d \in 1..i
      BY <3>2, <3>3 DEF Deletes, Touches
    <3>5. ASSUME NEW r \in (d + 1)..i, Deletes(k, r) PROVE FALSE
      <4>1. r \in 1..i
        BY <1>1, <3>4
      <4>2. r \in D
        BY <3>5, <4>1, Zenon DEF Deletes, Touches
      <4>3. r <= d
        BY <3>3, <4>2, Zenon
      <4> HIDE DEF d
      <4> QED BY <1>1, <3>4, <4>3
    <3> QED BY <1>1, <3>4, <3>5
  <2> QED BY <2>1, <2>2
<1> HIDE DEF T, d
<1>5. ASSUME k \in There(i) PROVE Opens(k, CreatedAt(k, i), i)
  <2>1. T # {} /\ evs[NewestOf(T)].kind = "put"
    BY <1>5, Zenon DEF There, T
  <2>2. NewestOf(T) \in 1..i /\ evs[NewestOf(T)].key = k
    BY <1>2, <1>3, <2>1 DEF T, Touches
  <2>3. d < NewestOf(T)
    <3>1. ASSUME d > 0 PROVE d \in T
      BY <1>1, <1>4, <3>1 DEF T, Touches, Deletes
    <3>2. d > 0 => d <= NewestOf(T) /\ d # NewestOf(T)
      <4>1. d > 0 => d <= NewestOf(T)
        BY <1>3, <2>1, <3>1, Zenon
      <4>2. d > 0 => evs[d].kind = "delete"
        BY <1>4 DEF Deletes
      <4> QED BY <2>1, <4>1, <4>2
    <3> QED BY <1>4, <2>2, <3>2
  <2>4. NewestOf(T) \in S
    BY <1>1, <1>4, <2>2, <2>3 DEF Touches
  <2>5. S \subseteq Nat /\ S # {}
    BY <1>1, <1>4, <2>4 DEF Touches
  <2>6. OldestOf(S) \in S /\ \A q \in S : q >= OldestOf(S)
    <3> HIDE DEF S
    <3> QED BY <2>5, OldestIs, Zenon
  <2>7. CreatedAt(k, i) = OldestOf(S)
    BY DEF CreatedAt, d
  <2> DEFINE c == OldestOf(S)
  <2>8. c \in (d + 1)..i /\ evs[c].key = k
    BY <2>6 DEF Touches
  <2> HIDE DEF c
  <2>9. c \in 1..i /\ \A r \in c..i : ~Deletes(k, r)
    BY <1>1, <1>4, <2>8
  <2>10. ASSUME NEW r \in 1..(c - 1), evs[r].key = k PROVE \E e \in r..(c - 1) : Deletes(k, e)
    <3>1. r \notin (d + 1)..i
      <4>1. r \in S => r >= c
        BY <2>6, Zenon DEF c
      <4>2. ~(r >= c)
        BY <1>1, <2>8, <2>9
      <4> QED BY <2>10, <4>1, <4>2 DEF Touches
    <3>2. d > 0 /\ d \in r..(c - 1)
      BY <1>1, <1>4, <2>8, <2>9, <3>1
    <3> QED BY <1>4, <3>2
  <2> QED BY <2>7, <2>8, <2>9, <2>10, Zenon DEF Opens, c
<1>6. ASSUME NEW c \in 1..i, Opens(k, c, i) PROVE k \in There(i)
  <2>1. c \in T
    BY <1>6, Zenon DEF Opens, T, Touches
  <2>2. NewestOf(T) \in c..i /\ evs[NewestOf(T)].key = k
    <3>1. NewestOf(T) \in T /\ c <= NewestOf(T)
      BY <1>3, <2>1, Zenon
    <3>2. NewestOf(T) \in 1..i /\ evs[NewestOf(T)].key = k
      BY <3>1 DEF T, Touches
    <3> QED BY <1>1, <3>1, <3>2
  <2>3. evs[NewestOf(T)].kind # "delete"
    BY <1>6, <2>2, Zenon DEF Opens, Deletes
  <2>4. evs[NewestOf(T)] \in Event
    BY <1>1, <2>2
  <2>5. evs[NewestOf(T)].kind = "put"
    BY <2>3, <2>4 DEF Event
  <2> QED BY <2>1, <2>5 DEF There, T
<1> QED BY <1>1, <1>5, <1>6, OpensOnce

LEMMA LogOpenedNext == Logged' => Opened'
BY LogOpened, PTL

(* From one revision to the next: a key that is not deleted stays as it    *)
(* is; a key is new only by its own put, and is then the newest; a deleted *)
(* key is gone.                                                            *)
Steps(k, i) ==
  /\ k \in There(i) /\ ~Deletes(k, i + 1) =>
       k \in There(i + 1) /\ CreatedAt(k, i + 1) = CreatedAt(k, i)
  /\ k \in There(i + 1) =>
       \/ k \in There(i) /\ CreatedAt(k, i + 1) = CreatedAt(k, i)
       \/ /\ k \notin There(i) /\ CreatedAt(k, i + 1) = i + 1
          /\ evs[i + 1] = [kind |-> "put", key |-> k]
  /\ Deletes(k, i + 1) => k \notin There(i + 1)
  /\ evs[i + 1] = [kind |-> "put", key |-> k] => k \in There(i + 1)

Stepped == \A i \in 0..Top : i + 1 <= Top => \A k \in Sessions : Steps(k, i)

(* The log steps so. *)
LEMMA LogStepped == Logged => Stepped
<1> SUFFICES ASSUME Logged, NEW i \in 0..Top, i + 1 <= Top, NEW k \in Sessions PROVE Steps(k, i)
  BY Zenon DEF Stepped
<1>1. i \in Nat /\ Top \in Nat /\ i + 1 \in 0..Top /\ \A r \in 1..(i + 1) : evs[r] \in Event
  BY DEF Logged, Top
<1>2. /\ k \in There(i) => Opens(k, CreatedAt(k, i), i)
      /\ \A c \in 1..i : Opens(k, c, i) => k \in There(i) /\ c = CreatedAt(k, i)
  BY LogOpened, Zenon DEF Opened
<1>3. /\ k \in There(i + 1) => Opens(k, CreatedAt(k, i + 1), i + 1)
      /\ \A c \in 1..(i + 1) : Opens(k, c, i + 1) => k \in There(i + 1) /\ c = CreatedAt(k, i + 1)
  BY <1>1, LogOpened, Zenon DEF Opened
<1>4. ASSUME k \in There(i), ~Deletes(k, i + 1)
      PROVE  k \in There(i + 1) /\ CreatedAt(k, i + 1) = CreatedAt(k, i)
  <2> DEFINE c == CreatedAt(k, i)
  <2>1. Opens(k, c, i)
    BY <1>2, <1>4
  <2> HIDE DEF c
  <2>2. c \in 1..i
    BY <2>1 DEF Opens
  <2>3. \A r \in c..(i + 1) : r \in c..i \/ r = i + 1
    BY <1>1, <2>2
  <2>4. c \in 1..(i + 1)
    BY <1>1, <2>2
  <2>5. Opens(k, c, i + 1)
    BY <1>4, <2>1, <2>3, <2>4, Zenon DEF Opens
  <2> QED BY <1>3, <2>4, <2>5, Zenon DEF c
<1>5. ASSUME k \in There(i + 1), CreatedAt(k, i + 1) # i + 1
      PROVE  k \in There(i) /\ CreatedAt(k, i + 1) = CreatedAt(k, i)
  <2> DEFINE c == CreatedAt(k, i + 1)
  <2>1. Opens(k, c, i + 1) /\ c # i + 1
    BY <1>3, <1>5
  <2> HIDE DEF c
  <2>2. c \in 1..(i + 1)
    BY <2>1 DEF Opens
  <2>3. c \in 1..i /\ \A r \in c..i : r \in c..(i + 1)
    BY <1>1, <2>1, <2>2
  <2>4. Opens(k, c, i)
    BY <2>1, <2>3, Zenon DEF Opens
  <2> QED BY <1>2, <2>3, <2>4, Zenon DEF c
<1>6. ASSUME k \in There(i + 1) PROVE ~Deletes(k, i + 1)
  <2> DEFINE c == CreatedAt(k, i + 1)
  <2>1. Opens(k, c, i + 1)
    BY <1>3, <1>6
  <2> HIDE DEF c
  <2>2. i + 1 \in c..(i + 1)
    BY <1>1, <2>1 DEF Opens
  <2> QED BY <2>1, <2>2, Zenon DEF Opens
<1>7. ASSUME k \in There(i + 1), CreatedAt(k, i + 1) = i + 1
      PROVE  k \notin There(i) /\ evs[i + 1] = [kind |-> "put", key |-> k]
  <2>1. evs[i + 1].key = k
    BY <1>3, <1>7, Zenon DEF Opens
  <2>2. evs[i + 1] \in Event /\ ~Deletes(k, i + 1)
    BY <1>1, <1>6, <1>7
  <2>3. evs[i + 1] = [kind |-> "put", key |-> k]
    BY <2>1, <2>2 DEF Event, Deletes
  <2>4. k \in There(i) => i + 1 = CreatedAt(k, i)
    BY <1>4, <1>7, <2>2
  <2>5. k \in There(i) => CreatedAt(k, i) \in 1..i
    BY <1>2, Zenon DEF Opens
  <2> QED BY <1>1, <2>3, <2>4, <2>5
<1>8. ASSUME evs[i + 1] = [kind |-> "put", key |-> k], k \notin There(i) PROVE k \in There(i + 1)
  <2>1. ~Deletes(k, i + 1) /\ evs[i + 1].key = k
    BY <1>8 DEF Deletes
  <2>2. ASSUME NEW r \in 1..i, evs[r].key = k PROVE \E d \in r..i : Deletes(k, d)
    <3> DEFINE T == Touches(k, 1, i)
               n == NewestOf(T)
    <3>1. T \subseteq 1..i /\ r \in T
      BY <2>2 DEF Touches
    <3>2. n \in T /\ r <= n
      <4> HIDE DEF T
      <4> QED BY <1>1, <3>1, NewestIs, Zenon
    <3>3. n \in 1..i /\ evs[n].key = k
      BY <3>2 DEF Touches
    <3>4. evs[n].kind # "put"
      BY <1>8, <3>1, Zenon DEF There
    <3>5. evs[n] \in Event
      BY <1>1, <3>3
    <3> HIDE DEF n
    <3>6. Deletes(k, n)
      BY <3>3, <3>4, <3>5 DEF Deletes, Event
    <3> QED BY <1>1, <3>2, <3>3, <3>6
  <2>3. i + 1 \in 1..(i + 1) /\ (i + 1) - 1 = i /\ \A r \in (i + 1)..(i + 1) : r = i + 1
    BY <1>1
  <2>4. Opens(k, i + 1, i + 1)
    BY <2>1, <2>2, <2>3, Zenon DEF Opens
  <2> QED BY <1>3, <2>3, <2>4, Zenon
<1>9. evs[i + 1] = [kind |-> "put", key |-> k] => ~Deletes(k, i + 1)
  BY DEF Deletes
<1> QED BY <1>4, <1>5, <1>6, <1>7, <1>8, <1>9, Zenon DEF Steps

LEMMA LogSteppedNext == Logged' => Stepped'
BY LogStepped, PTL

(* What is there at the end of the next log. *)
LEMMA TopNext ==
  ASSUME NEW n, Top' = n
  PROVE  There(Top)' = There(n)' /\ \A k : CreatedAt(k, Top)' = CreatedAt(k, n)'
BY Zenon DEF There, Touches, CreatedAt, LastDelete

(* A commit leaves the state at earlier revisions alone. *)
LEMMA Kept ==
  ASSUME Logged, NEW e \in Event, evs' = Append(evs, e)
  PROVE  /\ Logged' /\ Top \in Nat /\ Top' = Top + 1 /\ evs'[Top + 1] = e
         /\ \A i \in 0..Top : There(i)' = There(i) /\ \A k \in There(i) : CreatedAt(k, i)' = CreatedAt(k, i)
<1>1. Logged' /\ Top \in Nat /\ Top' = Top + 1 /\ evs'[Top + 1] = e /\ \A r \in 1..Top : evs'[r] = evs[r]
  BY DEF Logged, Top
<1>2. Opened /\ Opened'
  BY <1>1, LogOpened, LogOpenedNext
<1>3. ASSUME NEW i \in 0..Top, NEW k \in Sessions
      PROVE  /\ k \in There(i) => k \in There(i)' /\ CreatedAt(k, i)' = CreatedAt(k, i)
             /\ k \in There(i)' => k \in There(i)
  <2>1. i \in 0..Top' /\ i \in Nat /\ \A r \in 1..i : evs'[r] = evs[r]
    <3>1. i \in Nat /\ i \in 0..(Top + 1) /\ \A r \in 1..i : r \in 1..Top
      BY <1>1
    <3> QED BY <1>1, <3>1, Zenon
  <2>2. \A c \in 1..i : Opens(k, c, i)' <=> Opens(k, c, i)
    <3> SUFFICES ASSUME NEW c \in 1..i PROVE Opens(k, c, i)' <=> Opens(k, c, i)
      OBVIOUS
    <3>1. \A r \in c..i : r \in 1..i
      BY <2>1
    <3>2. \A r \in 1..(c - 1) : r \in 1..i /\ \A d \in r..(c - 1) : d \in 1..i
      BY <2>1
    <3>3. \A r \in 1..i : Deletes(k, r)' <=> Deletes(k, r)
      BY <2>1, Zenon DEF Deletes
    <3>4. (\A r \in c..i : ~Deletes(k, r))' <=> (\A r \in c..i : ~Deletes(k, r))
      BY <3>1, <3>3, Zenon
    <3>5. evs'[c] = evs[c]
      BY <2>1, Zenon
    <3>6. (\A r \in 1..(c - 1) : evs[r].key = k => \E d \in r..(c - 1) : Deletes(k, d))'
           <=> (\A r \in 1..(c - 1) : evs[r].key = k => \E d \in r..(c - 1) : Deletes(k, d))
      BY <2>1, <3>2, <3>3, Zenon
    <3> QED BY <3>4, <3>5, <3>6, Zenon DEF Opens
  <2>3. /\ k \in There(i) => Opens(k, CreatedAt(k, i), i)
        /\ \A c \in 1..i : Opens(k, c, i) => k \in There(i) /\ c = CreatedAt(k, i)
    BY <1>2, Zenon DEF Opened
  <2>4. /\ k \in There(i)' => Opens(k, CreatedAt(k, i), i)'
        /\ \A c \in 1..i : Opens(k, c, i)' => k \in There(i)' /\ c = CreatedAt(k, i)'
    BY <1>2, <2>1, Zenon DEF Opened
  <2>5. k \in There(i) => CreatedAt(k, i) \in 1..i
    BY <2>3, Zenon DEF Opens
  <2>6. k \in There(i)' => \E c \in 1..i : Opens(k, c, i)'
    BY <2>4, Zenon DEF Opens
  <2> QED BY <2>2, <2>3, <2>4, <2>5, <2>6, Zenon
<1>4. \A i : There(i) \subseteq Sessions /\ There(i)' \subseteq Sessions
  BY DEF There
<1> QED BY <1>1, <1>3, <1>4, Zenon

(* What a commit does to the newest state. *)
LEMMA Grown ==
  ASSUME Logged, NEW e \in Event, evs' = Append(evs, e), NEW k \in Sessions
  PROVE  /\ k \in There(Top) /\ e # [kind |-> "delete", key |-> k] =>
              k \in There(Top)' /\ CreatedAt(k, Top)' = CreatedAt(k, Top)
         /\ k \in There(Top)' =>
              \/ k \in There(Top) /\ CreatedAt(k, Top)' = CreatedAt(k, Top)
              \/ /\ k \notin There(Top) /\ CreatedAt(k, Top)' = Top + 1
                 /\ e = [kind |-> "put", key |-> k]
         /\ e = [kind |-> "delete", key |-> k] => k \notin There(Top)'
         /\ e = [kind |-> "put", key |-> k] => k \in There(Top)'
<1>1. PICK n : n = Top
  OBVIOUS
<1>2. /\ Logged' /\ n \in Nat /\ Top' = n + 1 /\ evs'[n + 1] = e
      /\ \A i \in 0..n : There(i)' = There(i) /\ \A j \in There(i) : CreatedAt(j, i)' = CreatedAt(j, i)
  BY <1>1, Kept, Zenon
<1>3. n \in 0..n /\ n \in 0..(n + 1) /\ n + 1 <= n + 1
  BY <1>2
<1>4. There(Top)' = There(n + 1)' /\ CreatedAt(k, Top)' = CreatedAt(k, n + 1)'
  BY <1>2, TopNext, Zenon
<1>5. There(n)' = There(Top) /\ (k \in There(Top) => CreatedAt(k, n)' = CreatedAt(k, Top))
  BY <1>1, <1>2, <1>3, Zenon
<1>6. Steps(k, n)'
  BY <1>2, <1>3, LogSteppedNext, Zenon DEF Stepped
<1>7. Deletes(k, n + 1)' <=> e = [kind |-> "delete", key |-> k]
  BY <1>2 DEF Deletes, Event
<1> QED BY <1>1, <1>2, <1>4, <1>5, <1>6, <1>7, Zenon DEF Steps

(* Two keys are created at different revisions, both up to now. *)
LEMMA Distinct ==
  ASSUME Logged, NEW i \in 0..Top, NEW j \in There(i), NEW k \in There(i)
  PROVE  /\ CreatedAt(j, i) \in 1..i /\ CreatedAt(k, i) \in 1..i
         /\ j # k => CreatedAt(j, i) # CreatedAt(k, i)
<1>1. j \in Sessions /\ k \in Sessions
  BY DEF There
<1>2. Opens(j, CreatedAt(j, i), i) /\ Opens(k, CreatedAt(k, i), i)
  BY <1>1, LogOpened, Zenon DEF Opened
<1> QED BY <1>2, Zenon DEF Opens

(* When there are keys, one was created first. *)
LEMMA FirstIs ==
  ASSUME Logged, NEW i \in 0..Top, There(i) # {}
  PROVE  FirstCreate(i) # {}
<1> DEFINE C == {CreatedAt(k, i) : k \in There(i)}
<1>1. C \subseteq Nat /\ C # {}
  <2>1. ASSUME NEW k \in There(i) PROVE CreatedAt(k, i) \in Nat
    <3>1. CreatedAt(k, i) \in 1..i
      BY Distinct, Zenon
    <3> QED BY <3>1
  <2> QED BY <2>1
<1>2. OldestOf(C) \in C /\ \A q \in C : q >= OldestOf(C)
  <2> HIDE DEF C
  <2> QED BY <1>1, OldestIs, Zenon
<1>3. PICK k \in There(i) : OldestOf(C) = CreatedAt(k, i)
  BY <1>2, Zenon
<1>4. ASSUME NEW j \in There(i) PROVE CreatedAt(k, i) <= CreatedAt(j, i)
  <2>1. CreatedAt(j, i) \in C
    BY Zenon
  <2>2. CreatedAt(j, i) >= CreatedAt(k, i)
    BY <1>2, <1>3, <2>1, Zenon
  <2>3. CreatedAt(j, i) \in Nat /\ CreatedAt(k, i) \in Nat
    BY <1>1, Zenon
  <2> QED BY <2>2, <2>3
<1> QED BY <1>4 DEF FirstCreate

(***************************************************************************)
(* The inductive invariant.                                                *)
(***************************************************************************)

CallRecord ==
  [pc : {"idle", "sub", "recv", "back"}, rev : Nat, pos : Nat, last : Sessions \cup {NoSession}, readAt : Nat]

ObsRecord ==
  [pc : {"off", "sub", "first", "follow"}, pos : Nat, at : Nat, leader : Sessions \cup {NoSession}]

(* Nothing created before a grant, or before the answer about to be given, *)
(* is left; and a call in flight never waits for its own key.              *)
Clear(s) ==
  /\ locker[s].last # s
  /\ granted[s] \in 0..Top
  /\ granted[s] > 0 => Before(granted[s] - 1, Top) = {}
  /\ locker[s].pc # "idle" => locker[s].rev \in 1..Top /\ s \notin Before(locker[s].rev - 1, Top)
  /\ locker[s].pc = "back" => Before(locker[s].rev - 1, Top) = {}

(* An observer without a leader has passed no key that is still there; one *)
(* with a leader is at a revision that key led at.                         *)
SeenBy(o) ==
  /\ o.pc \in {"first", "follow"} => o.at \in 0..Top /\ o.pos \in 0..here
  /\ o.pc = "first" => There(o.at) = {} /\ (o.pos > o.at => There(o.pos) = {})
  /\ o.pc = "follow" => o.pos <= o.at /\ FirstCreate(o.at) = {o.leader}

Seen == SeenBy(obs)

ConTyped ==
  /\ Logged
  /\ here \in 0..Top /\ lease \subseteq Sessions /\ drops \in 0..MaxDrops
  /\ locker \in [Sessions -> CallRecord] /\ granted \in [Sessions -> Nat]
  /\ dropped \subseteq [key : Sessions, rev : Nat]
  /\ obs \in ObsRecord

ConInv == ConTyped /\ (\A s \in Sessions : Clear(s)) /\ Seen

(* At most one event is committed by a step. *)
Commits == evs' = evs \/ \E e \in Event : evs' = Append(evs, e)

(* The log stays as it is. *)
LEMMA SameLog ==
  ASSUME evs' = evs
  PROVE  /\ Top' = Top
         /\ \A i : There(i)' = There(i) /\ \A k : CreatedAt(k, i)' = CreatedAt(k, i)
         /\ There(Top)' = There(Top) /\ \A k : CreatedAt(k, Top)' = CreatedAt(k, Top)
         /\ \A r : Before(r, Top)' = Before(r, Top)
<1>1. Top' = Top
  BY Zenon DEF Top
<1>2. \A i : There(i)' = There(i)
  BY Zenon DEF There, Touches
<1>3. \A i, k : CreatedAt(k, i)' = CreatedAt(k, i)
  BY Zenon DEF Touches, CreatedAt, LastDelete
<1>4. PICK n : n = Top
  OBVIOUS
<1>5. There(Top)' = There(Top) /\ \A k : CreatedAt(k, Top)' = CreatedAt(k, Top)
  <2>1. There(Top)' = There(n)' /\ \A k : CreatedAt(k, Top)' = CreatedAt(k, n)'
    BY <1>1, <1>4, TopNext, Zenon
  <2>2. There(n)' = There(n) /\ There(n) = There(Top)
    BY <1>2, <1>4, Zenon
  <2>3. ASSUME NEW k PROVE CreatedAt(k, Top)' = CreatedAt(k, Top)
    <3>1. CreatedAt(k, n)' = CreatedAt(k, n)
      BY <1>3, Zenon
    <3>2. CreatedAt(k, n) = CreatedAt(k, Top)
      BY <1>4, Zenon
    <3> QED BY <2>1, <3>1, <3>2, Zenon
  <2> QED BY <2>1, <2>2, <2>3, Zenon
<1>6. ASSUME NEW r PROVE Before(r, Top)' = Before(r, Top)
  <2>1. ASSUME NEW k PROVE k \in Before(r, Top)' <=> k \in Before(r, Top)
    BY <1>5, Zenon DEF Before
  <2> QED BY <2>1, Zenon
<1> QED BY <1>1, <1>2, <1>3, <1>5, <1>6, Zenon

(* A commit brings no key from before, and changes no earlier state. *)
LEMMA Committed ==
  ASSUME Logged, Commits
  PROVE  /\ Logged' /\ Top \in Nat /\ Top' \in Nat /\ Top <= Top'
         /\ \A r \in 0..Top : Before(r, Top)' \subseteq Before(r, Top)
         /\ \A i \in 0..Top : There(i)' = There(i) /\ FirstCreate(i)' = FirstCreate(i)
<1>1. CASE evs' = evs
  <2>1. Top' = Top /\ Top \in Nat /\ Logged'
    BY <1>1 DEF Logged, Top
  <2>2. \A i : There(i)' = There(i) /\ \A k : CreatedAt(k, i)' = CreatedAt(k, i)
    BY <1>1, SameLog, Zenon
  <2>3. \A i : FirstCreate(i)' = FirstCreate(i)
    BY <2>2, Zenon DEF FirstCreate
  <2>4. \A r : Before(r, Top)' = Before(r, Top)
    BY <1>1, SameLog, Zenon
  <2> QED BY <2>1, <2>2, <2>3, <2>4
<1>2. ASSUME NEW e \in Event, evs' = Append(evs, e)
      PROVE  /\ Logged' /\ Top \in Nat /\ Top' \in Nat /\ Top <= Top'
             /\ \A r \in 0..Top : Before(r, Top)' \subseteq Before(r, Top)
             /\ \A i \in 0..Top : There(i)' = There(i) /\ FirstCreate(i)' = FirstCreate(i)
  <2>1. /\ Logged' /\ Top \in Nat /\ Top' = Top + 1
        /\ \A i \in 0..Top : There(i)' = There(i) /\ \A k \in There(i) : CreatedAt(k, i)' = CreatedAt(k, i)
    BY <1>2, Kept, Zenon
  <2>2. ASSUME NEW r \in 0..Top, NEW k \in Before(r, Top)' PROVE k \in Before(r, Top)
    <3>1. k \in Sessions /\ k \in There(Top)' /\ CreatedAt(k, Top)' <= r
      BY <2>2, Zenon DEF Before, There
    <3>2. CreatedAt(k, Top)' # Top + 1
      BY <2>1, <3>1
    <3>3. k \in There(Top) /\ CreatedAt(k, Top)' = CreatedAt(k, Top)
      BY <1>2, <3>1, <3>2, Grown, Zenon
    <3> QED BY <3>1, <3>3, Zenon DEF Before
  <2>3. ASSUME NEW i \in 0..Top PROVE FirstCreate(i)' = FirstCreate(i)
    BY <2>1, Zenon DEF FirstCreate
  <2>4. Top + 1 \in Nat /\ Top <= Top + 1
    BY <2>1
  <2> QED BY <2>1, <2>2, <2>3, <2>4, Zenon
<1> QED BY <1>1, <1>2, Zenon DEF Commits

(* A session that a step leaves alone, or that loses what it held. *)
LEMMA ClearKept ==
  ASSUME Logged, Commits, NEW s \in Sessions, Clear(s), granted[s] \in Nat, locker[s] \in CallRecord,
         locker'[s] = locker[s], granted'[s] = granted[s] \/ granted'[s] = 0
  PROVE  Clear(s)'
<1>1. /\ Top \in Nat /\ Top' \in Nat /\ Top <= Top'
      /\ \A r \in 0..Top : Before(r, Top)' \subseteq Before(r, Top)
  BY Committed, Zenon
<1>2. PICK g, v : g = granted[s] /\ v = locker[s].rev
  OBVIOUS
<1>3. g \in 0..Top /\ (g > 0 => Before(g - 1, Top) = {})
  BY <1>2 DEF Clear
<1>4. g > 0 => Before(g - 1, Top)' = {}
  <2>1. g > 0 => g - 1 \in 0..Top
    BY <1>1, <1>3
  <2> QED BY <1>1, <1>3, <2>1, Zenon
<1>5. granted'[s] > 0 => granted'[s] = g
  BY <1>2
<1>6. granted[s]' > 0 => Before(granted[s] - 1, Top)' = {}
  BY <1>4, <1>5 DEF Before
<1>7. granted'[s] \in 0..Top'
  BY <1>1, <1>2, <1>3
<1>8. locker[s].pc # "idle" => v \in 1..Top /\ s \notin Before(v - 1, Top)
  BY <1>2, Zenon DEF Clear
<1>9. locker[s].pc # "idle" => v \in 1..Top' /\ s \notin Before(v - 1, Top)'
  <2>1. locker[s].pc # "idle" => v - 1 \in 0..Top /\ v \in 1..Top'
    BY <1>1, <1>8
  <2> QED BY <1>1, <1>8, <2>1, Zenon
<1>10. locker[s].pc = "back" => Before(v - 1, Top)' = {}
  <2>1. locker[s].pc = "back" => v - 1 \in 0..Top /\ Before(v - 1, Top) = {}
    BY <1>1, <1>2, <1>8 DEF Clear
  <2> QED BY <1>1, <2>1, Zenon
<1>11. (locker[s].rev)' = v /\ (locker[s].pc)' = locker[s].pc /\ (locker[s].last)' = locker[s].last
  BY <1>2, Zenon
<1>12. Before(locker[s].rev - 1, Top)' = Before(v - 1, Top)'
  BY <1>11, Zenon DEF Before
<1>13. locker[s].last # s
  BY DEF Clear
<1> QED BY <1>6, <1>7, <1>9, <1>10, <1>11, <1>12, <1>13, Zenon DEF Clear

(* An observer that a step leaves alone. *)
LEMMA SeenKept ==
  ASSUME ConTyped, Seen, Commits, here' \in Nat, here <= here', obs' = obs
  PROVE  Seen'
<1>1. /\ Top \in Nat /\ Top' \in Nat /\ Top <= Top'
      /\ \A i \in 0..Top : There(i)' = There(i) /\ FirstCreate(i)' = FirstCreate(i)
  BY Committed, Zenon DEF ConTyped
<1>2. PICK at, pos : at = obs.at /\ pos = obs.pos
  OBVIOUS
<1>3. here \in 0..Top /\ (obs.pc \in {"first", "follow"} => at \in 0..Top /\ pos \in 0..here /\ pos \in 0..Top)
  BY <1>1, <1>2 DEF ConTyped, Seen, SeenBy
<1>4. obs.pc \in {"first", "follow"} => at \in 0..Top' /\ pos \in 0..here'
  BY <1>1, <1>3
<1>5. There(obs.at)' = There(at)' /\ There(obs.pos)' = There(pos)' /\ FirstCreate(obs.at)' = FirstCreate(at)'
  <2>1. (obs.at)' = at /\ (obs.pos)' = pos
    BY <1>2, Zenon
  <2>2. There(obs.at)' = There(at)'
    BY <2>1, Zenon DEF There, Touches
  <2>3. There(obs.pos)' = There(pos)'
    BY <2>1, Zenon DEF There, Touches
  <2>4. \A k : CreatedAt(k, obs.at)' = CreatedAt(k, at)'
    BY <2>1, Zenon DEF CreatedAt, LastDelete, Touches
  <2> QED BY <2>2, <2>3, <2>4, Zenon DEF FirstCreate
<1>6. obs.pc = "first" => There(at) = {} /\ (pos > at => There(pos) = {})
  BY <1>2, Zenon DEF Seen, SeenBy
<1>7. obs.pc = "follow" => pos <= at /\ FirstCreate(at) = {obs.leader}
  BY <1>2, Zenon DEF Seen, SeenBy
<1> QED BY <1>1, <1>2, <1>3, <1>4, <1>5, <1>6, <1>7, Zenon DEF Seen, SeenBy

(***************************************************************************)
(* Lock and Campaign.                                                      *)
(***************************************************************************)

(* What the invariant says of a session. *)
LEMMA OfSession ==
  ASSUME ConInv, NEW s \in Sessions
  PROVE  Logged /\ Clear(s) /\ granted[s] \in Nat /\ locker[s] \in CallRecord /\ NoSession # s
BY ConAssumption DEF ConInv, ConTyped

(* Steps of one session s that keep the observer and the bookkeeping. *)
LEMMA SessionStep ==
  ASSUME ConInv, Commits, NEW s \in Sessions,
         NEW c \in CallRecord, locker' = [locker EXCEPT ![s] = c],
         NEW g \in Nat, granted' = [granted EXCEPT ![s] = g],
         Clear(s)', UNCHANGED <<here, obs>>,
         lease' \subseteq Sessions, drops' \in 0..MaxDrops, dropped' \subseteq [key : Sessions, rev : Nat]
  PROVE  ConInv'
<1>1. ConTyped /\ Seen /\ Logged
  BY DEF ConInv, ConTyped
<1>2. Top \in Nat /\ Top' \in Nat /\ Top <= Top' /\ Logged'
  BY <1>1, Committed, Zenon
<1>3. here' = here /\ here \in 0..Top /\ obs' = obs
  BY <1>1, Zenon DEF ConTyped
<1>4. here' \in Nat /\ here <= here' /\ here' \in 0..Top'
  BY <1>2, <1>3
<1>5. Seen'
  BY <1>1, <1>3, <1>4, SeenKept, Zenon
<1>6. ASSUME NEW t \in Sessions PROVE Clear(t)'
  <2>1. CASE t = s
    BY <2>1, Zenon
  <2>2. CASE t # s
    <3>1. locker'[t] = locker[t] /\ granted'[t] = granted[t]
      BY <1>1, <2>2, Zenon DEF ConTyped
    <3>2. Logged /\ Clear(t) /\ granted[t] \in Nat /\ locker[t] \in CallRecord
      BY OfSession, Zenon
    <3> QED BY <3>1, <3>2, ClearKept, Zenon
  <2> QED BY <2>1, <2>2, Zenon
<1>7. locker' \in [Sessions -> CallRecord] /\ granted' \in [Sessions -> Nat]
  BY <1>1 DEF ConTyped
<1>8. ConTyped'
  BY <1>1, <1>2, <1>3, <1>4, <1>7, Zenon DEF ConTyped
<1> QED BY <1>5, <1>6, <1>8, Zenon DEF ConInv

(* The first txn. *)
LEMMA AcquireInv ==
  ASSUME ConInv, NEW s \in Sessions, Acquire(s)
  PROVE  ConInv'
<1> DEFINE present == s \in There(Top)
           rev == IF present THEN CreatedAt(s, Top) ELSE Top + 1
           mine == FirstCreate(Top) \in {{}, {s}}
           now == KindOf[s] = "lock" /\ mine
           c == [Resting EXCEPT !.pc = "sub", !.rev = rev]
<1>1. /\ locker[s].pc = "idle"
      /\ IF present THEN UNCHANGED evs ELSE Put(s)
      /\ now => granted' = [granted EXCEPT ![s] = rev] /\ locker' = locker
      /\ ~now => locker' = [locker EXCEPT ![s] = c] /\ granted' = granted
      /\ UNCHANGED <<here, lease, dropped, drops, obs>>
  BY Zenon DEF Acquire, Set
<1>2. ConTyped /\ Logged /\ Clear(s) /\ granted[s] \in Nat /\ locker[s] \in CallRecord /\ NoSession # s
  BY OfSession, Zenon DEF ConInv
<1>3. Top \in Nat /\ Top \in 0..Top
  BY <1>2 DEF Logged, Top
<1>4. Commits
  BY <1>1 DEF Commits, Put, Event
<1>5. rev \in 1..Top' /\ rev \in Nat /\ Top' \in Nat
  <2>1. CASE present
    <3>1. CreatedAt(s, Top) \in 1..Top /\ Top' = Top
      BY <1>1, <1>2, <1>3, <2>1, Distinct, Zenon DEF Top
    <3> QED BY <1>3, <2>1, <3>1
  <2>2. CASE ~present
    <3>1. Top' = Top + 1
      BY <1>1, <1>2, <2>2 DEF Logged, Top, Put
    <3> QED BY <1>3, <2>2, <3>1
  <2> QED BY <2>1, <2>2, Zenon
<1>6. ASSUME NEW k \in Sessions, k \in There(Top)', CreatedAt(k, Top)' <= rev - 1
      PROVE  k # s /\ ~mine
  <2>1. CASE present
    <3>1. There(Top)' = There(Top) /\ \A j : CreatedAt(j, Top)' = CreatedAt(j, Top)
      <4>1. evs' = evs
        BY <1>1, <2>1, Zenon
      <4> QED BY <4>1, SameLog, Zenon
    <3>2. k \in There(Top) /\ CreatedAt(k, Top) <= rev - 1 /\ rev = CreatedAt(s, Top)
      BY <1>6, <2>1, <3>1, Zenon
    <3>3. CreatedAt(k, Top) \in 1..Top /\ CreatedAt(s, Top) \in 1..Top
      BY <1>2, <1>3, <2>1, <3>2, Distinct, Zenon
    <3>4. ~(CreatedAt(s, Top) <= CreatedAt(k, Top))
      BY <1>3, <3>2, <3>3
    <3>5. s \notin FirstCreate(Top)
      BY <3>2, <3>4, Zenon DEF FirstCreate
    <3>6. FirstCreate(Top) # {}
      BY <1>2, <1>3, <2>1, FirstIs, Zenon
    <3>7. k # s
      BY <3>2, <3>3
    <3> QED BY <3>5, <3>6, <3>7
  <2>2. CASE ~present
    <3>1. [kind |-> "put", key |-> s] \in Event /\ evs' = Append(evs, [kind |-> "put", key |-> s])
      BY <1>1, <2>2 DEF Put, Event
    <3>2. CreatedAt(k, Top)' # Top + 1
      BY <1>3, <1>6, <2>2
    <3>3. k \in There(Top)
      BY <1>2, <1>6, <3>1, <3>2, Grown, Zenon
    <3>4. FirstCreate(Top) # {} /\ FirstCreate(Top) \subseteq There(Top)
      BY <1>2, <1>3, <3>3, FirstIs, Zenon DEF FirstCreate
    <3> QED BY <2>2, <3>3, <3>4
  <2> QED BY <2>1, <2>2, Zenon
<1> HIDE DEF rev, mine
<1>7. CASE now
  <2>1. granted'[s] = rev /\ locker'[s] = locker[s]
    BY <1>1, <1>2, <1>7 DEF ConTyped
  <2>2. Before(granted[s] - 1, Top)' = {}
    BY <1>6, <1>7, <2>1, Zenon DEF Before, There
  <2>3. Clear(s)'
    <3>1. granted'[s] \in 0..Top'
      BY <1>5, <2>1
    <3>2. locker[s].pc # "back" /\ locker[s].last # s
      BY <1>1, <1>2 DEF Clear
    <3> QED BY <1>1, <2>1, <2>2, <3>1, <3>2, Zenon DEF Clear
  <2>4. locker' = [locker EXCEPT ![s] = locker[s]]
    BY <1>1, <1>2, <1>7 DEF ConTyped
  <2>5. granted' = [granted EXCEPT ![s] = rev]
    BY <1>1, <1>7, Zenon
  <2>6. lease' \subseteq Sessions /\ drops' \in 0..MaxDrops /\ dropped' \subseteq [key : Sessions, rev : Nat]
    BY <1>1, <1>2, Zenon DEF ConTyped
  <2> QED BY <1>1, <1>2, <1>4, <1>5, <2>3, <2>4, <2>5, <2>6, SessionStep, Zenon
<1>8. CASE ~now
  <2>1. granted'[s] = granted[s] /\ locker'[s] = c
    BY <1>1, <1>2, <1>8 DEF ConTyped
  <2>2. c \in CallRecord /\ c.pc = "sub" /\ c.rev = rev /\ c.last = NoSession
    BY <1>5, Zenon DEF Resting, CallRecord
  <2>3. s \notin Before(locker[s].rev - 1, Top)'
    BY <1>6, <2>1, <2>2, Zenon DEF Before
  <2>4. granted'[s] \in 0..Top' /\ (granted'[s] > 0 => Before(granted[s] - 1, Top)' = {})
    <3>1. PICK g : g = granted[s]
      OBVIOUS
    <3>2. g \in 0..Top /\ (g > 0 => Before(g - 1, Top) = {})
      BY <1>2, <3>1, Zenon DEF Clear
    <3>3. Top <= Top' /\ \A r \in 0..Top : Before(r, Top)' \subseteq Before(r, Top)
      BY <1>2, <1>4, Committed, Zenon
    <3>4. g \in 0..Top' /\ (g > 0 => g - 1 \in 0..Top)
      BY <1>3, <1>5, <3>2, <3>3
    <3>5. g > 0 => Before(g - 1, Top)' = {}
      BY <3>2, <3>3, <3>4, Zenon
    <3>6. Before(granted[s] - 1, Top)' = Before(g - 1, Top)'
      BY <2>1, <3>1, Zenon DEF Before
    <3> QED BY <2>1, <3>1, <3>4, <3>5, <3>6, Zenon
  <2>5. Clear(s)'
    BY <1>2, <1>5, <2>1, <2>2, <2>3, <2>4 DEF Clear
  <2>6. granted' = [granted EXCEPT ![s] = granted[s]]
    BY <1>1, <1>2, <1>8 DEF ConTyped
  <2>7. locker' = [locker EXCEPT ![s] = c]
    BY <1>1, <1>8, Zenon
  <2>8. lease' \subseteq Sessions /\ drops' \in 0..MaxDrops /\ dropped' \subseteq [key : Sessions, rev : Nat]
    BY <1>1, <1>2, Zenon DEF ConTyped
  <2> QED BY <1>1, <1>2, <1>4, <2>2, <2>5, <2>6, <2>7, <2>8, SessionStep, Zenon
<1> QED BY <1>7, <1>8, Zenon

(* The last key created at or before a revision is one of them. *)
LEMMA LastBeforeIs ==
  ASSUME Logged, NEW r, Before(r, Top) # {}
  PROVE  LastBefore(r, Top) \in Before(r, Top)
<1> DEFINE B == Before(r, Top)
           C == {CreatedAt(k, Top) : k \in B}
<1>1. Top \in Nat /\ Top \in 0..Top
  BY DEF Logged, Top
<1>2. \A k \in B : CreatedAt(k, Top) \in 1..Top
  BY <1>1, Distinct, Zenon DEF Before
<1>3. C \subseteq 1..Top /\ C # {}
  <2> HIDE DEF B
  <2>1. B # {}
    BY DEF B
  <2> QED BY <1>2, <2>1
<1>4. NewestOf(C) \in C /\ \A q \in C : q <= NewestOf(C)
  <2> HIDE DEF C
  <2> QED BY <1>1, <1>3, NewestIs, Zenon
<1>5. PICK k \in B : NewestOf(C) = CreatedAt(k, Top)
  BY <1>4, Zenon
<1>6. \A j \in B : CreatedAt(j, Top) <= CreatedAt(k, Top)
  BY <1>4, <1>5, Zenon
<1> QED BY <1>6, Zenon DEF LastBefore

(* A step of a call: the log stays, and so does what is granted. *)
LEMMA CallMoves ==
  ASSUME ConInv, NEW s \in Sessions, NEW c \in CallRecord, locker' = [locker EXCEPT ![s] = c],
         UNCHANGED <<evs, here, lease, granted, obs>>,
         drops' \in 0..MaxDrops, dropped' \subseteq [key : Sessions, rev : Nat],
         c.last # s,
         c.pc # "idle" => c.rev = locker[s].rev /\ locker[s].pc # "idle",
         c.pc = "back" => Before(c.rev - 1, Top) = {}
  PROVE  ConInv'
<1>1. ConTyped /\ Logged /\ Clear(s) /\ granted[s] \in Nat
  BY OfSession, Zenon DEF ConInv
<1>2. evs' = evs /\ granted' = granted
  OBVIOUS
<1>3. Top' = Top /\ \A r : Before(r, Top)' = Before(r, Top)
  BY <1>2, SameLog, Zenon
<1>4. locker'[s] = c
  BY <1>1 DEF ConTyped
<1>5. \A x : Before(x - 1, Top)' = Before(x - 1, Top)
  BY <1>3, Zenon
<1>6. Before(locker[s].rev - 1, Top)' = Before(c.rev - 1, Top)'
  BY <1>4, Zenon DEF Before
<1>7. Before(granted[s] - 1, Top)' = Before(granted[s] - 1, Top)
  <2>1. PICK g : g = granted[s]
    OBVIOUS
  <2>2. Before(granted[s] - 1, Top)' = Before(g - 1, Top)'
    BY <1>2, <2>1, Zenon DEF Before
  <2> QED BY <1>5, <2>1, <2>2, Zenon
<1>8. Clear(s)'
  BY <1>1, <1>2, <1>3, <1>4, <1>5, <1>6, <1>7, Zenon DEF Clear
<1>9. granted' = [granted EXCEPT ![s] = granted[s]]
  BY <1>1, <1>2 DEF ConTyped
<1>10. Commits /\ lease' \subseteq Sessions
  BY <1>1, <1>2, Zenon DEF Commits, ConTyped
<1> QED BY <1>1, <1>8, <1>9, <1>10, SessionStep, Zenon

(* The read finds nothing before the session's key, or the key to wait for. *)
LEMMA WaitDeletesInv ==
  ASSUME ConInv, NEW s \in Sessions, WaitDeletes(s)
  PROVE  ConInv'
<1>1. ConTyped /\ Logged /\ Clear(s) /\ locker[s] \in CallRecord
  BY OfSession, Zenon DEF ConInv
<1>2. locker[s].pc = "sub" /\ UNCHANGED <<evs, here, lease, granted, dropped, drops, obs>>
  BY DEF WaitDeletes
<1>3. drops' \in 0..MaxDrops /\ dropped' \subseteq [key : Sessions, rev : Nat]
  BY <1>1, <1>2, Zenon DEF ConTyped
<1>4. Bound(s) = locker[s].rev - 1 /\ locker[s].last # s /\ s \notin Before(locker[s].rev - 1, Top)
  BY <1>1, <1>2 DEF Clear, Bound
<1>5. CASE Before(Bound(s), Top) = {}
  <2> DEFINE c == [locker[s] EXCEPT !.pc = "back"]
  <2>1. locker' = [locker EXCEPT ![s] = c]
    BY <1>5, Zenon DEF WaitDeletes, Set
  <2>2. c \in CallRecord /\ c.last # s /\ c.rev = locker[s].rev
    BY <1>1, <1>4 DEF CallRecord
  <2> HIDE DEF c
  <2> QED BY <1>2, <1>3, <1>4, <1>5, <2>1, <2>2, CallMoves, Zenon
<1>6. CASE Before(Bound(s), Top) # {}
  <2> DEFINE c == [locker[s] EXCEPT !.pc = "recv", !.pos = here, !.last = LastBefore(Bound(s), Top), !.readAt = Top]
  <2>1. locker' = [locker EXCEPT ![s] = c]
    BY <1>6, Zenon DEF WaitDeletes, Set
  <2>2. LastBefore(Bound(s), Top) \in Before(Bound(s), Top)
    BY <1>1, <1>6, LastBeforeIs, Zenon
  <2>3. LastBefore(Bound(s), Top) # s /\ LastBefore(Bound(s), Top) \in Sessions
    BY <1>4, <2>2, Zenon DEF Before, There
  <2>4. here \in Nat /\ Top \in Nat
    BY <1>1 DEF ConTyped, Logged, Top
  <2>5. c \in CallRecord /\ c.last # s /\ c.rev = locker[s].rev /\ c.pc = "recv"
    BY <1>1, <2>3, <2>4, Zenon DEF CallRecord
  <2>6. c.pc # "back"
    BY <2>5
  <2> HIDE DEF c
  <2> QED BY <1>2, <1>3, <2>1, <2>5, <2>6, CallMoves, Zenon
<1> QED BY <1>5, <1>6, Zenon

(* A delete received, another event passed by, or a lag: the call reads    *)
(* again, or goes on.                                                      *)
LEMMA ReceiveInv ==
  ASSUME ConInv, NEW s \in Sessions, ReceiveEvent(s) \/ Lagged(s)
  PROVE  ConInv'
<1>1. ConTyped /\ Logged /\ Clear(s) /\ locker[s] \in CallRecord /\ NoSession # s
  BY OfSession, Zenon DEF ConInv
<1> DEFINE again == [Resting EXCEPT !.pc = "sub", !.rev = locker[s].rev]
           on == [locker[s] EXCEPT !.pos = From(s) + 1]
<1>2. /\ locker[s].pc = "recv" /\ UNCHANGED <<evs, here, lease, granted, dropped, drops, obs>>
      /\ locker' = [locker EXCEPT ![s] = again] \/ locker' = [locker EXCEPT ![s] = on]
  BY DEF ReceiveEvent, Lagged, Set, Reread
<1>3. drops' \in 0..MaxDrops /\ dropped' \subseteq [key : Sessions, rev : Nat]
  BY <1>1, <1>2, Zenon DEF ConTyped
<1>4. again \in CallRecord /\ again.last # s /\ again.rev = locker[s].rev /\ again.pc # "back"
  BY <1>1, Zenon DEF Resting, CallRecord
<1>5. on \in CallRecord /\ on.last # s /\ on.rev = locker[s].rev /\ on.pc # "back"
  BY <1>1, <1>2 DEF From, CallRecord, Clear
<1> HIDE DEF again, on
<1>6. CASE locker' = [locker EXCEPT ![s] = again]
  BY <1>2, <1>3, <1>4, <1>6, CallMoves, Zenon
<1>7. CASE locker' = [locker EXCEPT ![s] = on]
  BY <1>2, <1>3, <1>5, <1>7, CallMoves, Zenon
<1> QED BY <1>2, <1>6, <1>7, Zenon

(* The answer: nothing created before the key was left. *)
LEMMA FinishInv ==
  ASSUME ConInv, NEW s \in Sessions, Finish(s)
  PROVE  ConInv'
<1>1. ConTyped /\ Logged /\ Clear(s) /\ locker[s] \in CallRecord /\ NoSession # s
  BY OfSession, Zenon DEF ConInv
<1> DEFINE g == IF ReadBack(s) THEN locker[s].rev ELSE 0
<1>2. /\ locker[s].pc = "back" /\ granted' = [granted EXCEPT ![s] = g]
      /\ locker' = [locker EXCEPT ![s] = Resting]
      /\ UNCHANGED <<evs, here, lease, dropped, drops, obs>>
  BY Zenon DEF Finish, Set
<1>3. locker[s].rev \in 1..Top /\ Before(locker[s].rev - 1, Top) = {}
  BY <1>1, <1>2 DEF Clear
<1>4. Top \in Nat /\ g \in 0..Top /\ g \in Nat /\ (g > 0 => g = locker[s].rev)
  BY <1>1, <1>3 DEF Logged, Top
<1> HIDE DEF g
<1>5. granted'[s] = g /\ locker'[s] = Resting
  BY <1>1, <1>2 DEF ConTyped
<1>6. Top' = Top /\ \A r : Before(r, Top)' = Before(r, Top)
  BY <1>2, SameLog, Zenon
<1>7. PICK v : v = locker[s].rev
  OBVIOUS
<1>8. g > 0 => Before(granted[s] - 1, Top)' = {}
  <2>1. g > 0 => granted'[s] = v
    BY <1>4, <1>5, <1>7, Zenon
  <2>2. g > 0 => Before(granted[s] - 1, Top)' = Before(v - 1, Top)'
    BY <2>1, Zenon DEF Before
  <2> QED BY <1>3, <1>6, <1>7, <2>2, Zenon
<1>9. Resting.pc = "idle" /\ Resting.last = NoSession /\ Resting \in CallRecord
  BY DEF Resting, CallRecord
<1>10. Clear(s)'
  <2>1. Resting.pc # "back"
    BY DEF Resting
  <2> QED BY <1>1, <1>4, <1>5, <1>6, <1>8, <1>9, <2>1, Zenon DEF Clear
<1>11. Commits /\ lease' \subseteq Sessions /\ drops' \in 0..MaxDrops /\ dropped' \subseteq [key : Sessions, rev : Nat]
  BY <1>1, <1>2, Zenon DEF Commits, ConTyped
<1> QED BY <1>2, <1>4, <1>9, <1>10, <1>11, SessionStep, Zenon

(* A client that goes away leaves its key, to be deleted later. *)
LEMMA ClientGoneInv ==
  ASSUME ConInv, NEW s \in Sessions, ClientGone(s)
  PROVE  ConInv'
<1>1. ConTyped /\ locker[s] \in CallRecord /\ NoSession # s
  BY OfSession, Zenon DEF ConInv
<1>2. /\ locker' = [locker EXCEPT ![s] = Resting]
      /\ UNCHANGED <<evs, here, lease, granted, obs>>
      /\ drops < MaxDrops /\ drops' = drops + 1
      /\ dropped' = dropped \cup {[key |-> s, rev |-> locker[s].rev]}
  BY DEF ClientGone, Set
<1>3. drops' \in 0..MaxDrops
  BY <1>1, <1>2, ConAssumption DEF ConTyped
<1>4. dropped' \subseteq [key : Sessions, rev : Nat]
  BY <1>1, <1>2 DEF ConTyped, CallRecord
<1>5. Resting \in CallRecord /\ Resting.last # s /\ Resting.pc = "idle" /\ Resting.pc # "back"
  BY <1>1 DEF Resting, CallRecord
<1> QED BY <1>2, <1>3, <1>4, <1>5, CallMoves, Zenon

(***************************************************************************)
(* Steps that leave every call where it is.                                *)
(***************************************************************************)

(* A session may lose its grant; everything else stays. *)
LEMMA OthersStep ==
  ASSUME ConInv, Commits, locker' = locker,
         NEW k \in Sessions, granted' = granted \/ granted' = [granted EXCEPT ![k] = 0],
         here' \in Nat, here <= here', here' <= Top', obs' = obs,
         lease' \subseteq Sessions, drops' = drops, dropped' \subseteq dropped
  PROVE  ConInv'
<1>1. ConTyped /\ Seen /\ Logged
  BY DEF ConInv, ConTyped
<1>2. Top' \in Nat /\ Logged'
  BY <1>1, Committed, Zenon
<1>3. here' \in 0..Top'
  BY <1>2
<1>4. Seen'
  BY <1>1, SeenKept, Zenon
<1>5. ASSUME NEW t \in Sessions PROVE Clear(t)'
  <2>1. locker'[t] = locker[t] /\ (granted'[t] = granted[t] \/ granted'[t] = 0)
    BY <1>1 DEF ConTyped
  <2>2. Logged /\ Clear(t) /\ granted[t] \in Nat /\ locker[t] \in CallRecord
    BY OfSession, Zenon
  <2> QED BY <2>1, <2>2, ClearKept, Zenon
<1>6. granted' \in [Sessions -> Nat]
  BY <1>1 DEF ConTyped
<1>7. ConTyped'
  BY <1>1, <1>2, <1>3, <1>6, Zenon DEF ConTyped
<1> QED BY <1>4, <1>5, <1>7, Zenon DEF ConInv

(* What a delete of key k, made or not, does to the log and to the grant. *)
LEMMA Deleted ==
  ASSUME ConInv, NEW k \in Sessions, NEW rev, Delete(k) \/ DeleteIf(k, rev), Forget(k)
  PROVE  Commits /\ (granted' = granted \/ granted' = [granted EXCEPT ![k] = 0])
<1>1. evs' = evs \/ evs' = Append(evs, [kind |-> "delete", key |-> k])
  BY Zenon DEF Delete, DeleteIf
<1>2. [kind |-> "delete", key |-> k] \in Event
  BY DEF Event
<1>3. Commits
  BY <1>1, <1>2, Zenon DEF Commits
<1>4. granted \in [Sessions -> Nat]
  BY DEF ConInv, ConTyped
<1>5. granted' = granted \/ granted' = [granted EXCEPT ![k] = 0]
  BY <1>4, Zenon DEF Forget
<1> QED BY <1>3, <1>5

(* An abandoned call undone, a release, a lease that ends, a Proclaim, and *)
(* an entry applied.                                                       *)
LEMMA OthersInv ==
  ASSUME ConInv,
         \/ \E s \in Sessions : Proclaim(s) \/ Release(s) \/ LeaseEnds(s)
         \/ \E d \in dropped : Undo(d)
         \/ ApplyHere
  PROVE  ConInv'
<1>1. ConTyped /\ Logged /\ here \in 0..Top /\ lease \subseteq Sessions
  BY DEF ConInv, ConTyped
<1>2. Top \in Nat /\ here \in Nat /\ here <= here
  BY <1>1 DEF Logged, Top
<1>3. Commits => here <= Top'
  <2>1. Commits => Top' \in Nat /\ Top <= Top'
    BY <1>1, Committed, Zenon
  <2> QED BY <1>1, <1>2, <2>1
<1>4. ASSUME NEW s \in Sessions, Proclaim(s) PROVE ConInv'
  <2>1. Commits
    BY <1>4 DEF Proclaim, Put, Commits, Event
  <2>2. UNCHANGED <<here, lease, locker, granted, dropped, drops, obs>>
    BY <1>4, Zenon DEF Proclaim
  <2> QED BY <1>1, <1>2, <1>3, <2>1, <2>2, OthersStep, Zenon
<1>5. ASSUME NEW s \in Sessions, Release(s) PROVE ConInv'
  <2>1. (Delete(s) \/ DeleteIf(s, granted[s])) /\ Forget(s) /\ UNCHANGED <<here, lease, locker, dropped, drops, obs>>
    BY <1>5, Zenon DEF Release
  <2>2. Commits /\ (granted' = granted \/ granted' = [granted EXCEPT ![s] = 0])
    BY <2>1, Deleted, Zenon
  <2> QED BY <1>1, <1>2, <1>3, <2>1, <2>2, OthersStep, Zenon
<1>6. ASSUME NEW s \in Sessions, LeaseEnds(s) PROVE ConInv'
  <2>1. Delete(s) /\ Forget(s) /\ lease' = lease \ {s} /\ UNCHANGED <<here, locker, dropped, drops, obs>>
    BY <1>6, Zenon DEF LeaseEnds
  <2>2. Commits /\ (granted' = granted \/ granted' = [granted EXCEPT ![s] = 0])
    BY <2>1, Deleted, Zenon
  <2>3. lease' \subseteq Sessions
    BY <1>1, <2>1
  <2> QED BY <1>2, <1>3, <2>1, <2>2, <2>3, OthersStep, Zenon
<1>7. ASSUME NEW d \in dropped, Undo(d) PROVE ConInv'
  <2>1. d.key \in Sessions
    BY <1>1 DEF ConTyped
  <2>2. /\ (Delete(d.key) \/ DeleteIf(d.key, d.rev)) /\ Forget(d.key)
        /\ dropped' = dropped \ {d} /\ UNCHANGED <<here, lease, locker, drops, obs>>
    BY <1>7, Zenon DEF Undo
  <2>3. Commits /\ (granted' = granted \/ granted' = [granted EXCEPT ![d.key] = 0])
    BY <2>1, <2>2, Deleted, Zenon
  <2>4. dropped' \subseteq dropped
    BY <2>2
  <2> QED BY <1>1, <1>2, <1>3, <2>1, <2>2, <2>3, <2>4, OthersStep, Zenon
<1>8. ASSUME ApplyHere PROVE ConInv'
  <2>1. here < Top /\ here' = here + 1 /\ UNCHANGED <<evs, lease, locker, granted, dropped, drops, obs>>
    BY <1>8, Zenon DEF ApplyHere
  <2>2. Top' = Top /\ Commits
    BY <2>1, Zenon DEF Top, Commits
  <2>3. here' \in Nat /\ here <= here' /\ here' <= Top'
    BY <1>2, <2>1, <2>2
  <2>4. ASSUME Sessions = {} PROVE ConInv'
    <3>1. Seen'
      BY <1>1, <2>1, <2>2, <2>3, SeenKept, Zenon DEF ConInv
    <3>2. here' \in 0..Top' /\ Logged'
      BY <1>1, <1>2, <2>1, <2>2, <2>3, Committed
    <3>3. ConTyped'
      BY <1>1, <2>1, <3>2, Zenon DEF ConTyped
    <3> QED BY <2>4, <3>1, <3>3, Zenon DEF ConInv
  <2>5. ASSUME NEW k \in Sessions PROVE ConInv'
    BY <1>1, <2>1, <2>2, <2>3, OthersStep, Zenon
  <2> QED BY <2>4, <2>5, Zenon
<1> QED BY <1>4, <1>5, <1>6, <1>7, <1>8, Zenon

(***************************************************************************)
(* Observe.                                                                *)
(***************************************************************************)

(* A step of the observer. *)
LEMMA ObserverMoves ==
  ASSUME ConInv, UNCHANGED <<evs, here, lease, locker, granted, dropped, drops>>,
         NEW o \in ObsRecord, obs' = o, SeenBy(o)
  PROVE  ConInv'
<1>1. ConTyped /\ Logged
  BY DEF ConInv, ConTyped
<1>2. /\ Top' = Top
      /\ \A i : There(i)' = There(i) /\ \A k : CreatedAt(k, i)' = CreatedAt(k, i)
  BY SameLog, Zenon
<1>3. Logged' /\ Commits
  BY <1>1, Zenon DEF Logged, Commits
<1>4. ASSUME NEW t \in Sessions PROVE Clear(t)'
  <2>1. Logged /\ Clear(t) /\ granted[t] \in Nat /\ locker[t] \in CallRecord
    BY OfSession, Zenon
  <2> QED BY <1>3, <2>1, ClearKept, Zenon
<1>5. ConTyped'
  BY <1>1, <1>2, <1>3, Zenon DEF ConTyped
<1>6. PICK at, pos : at = o.at /\ pos = o.pos
  OBVIOUS
<1>7. (obs.at)' = at /\ (obs.pos)' = pos
  BY <1>6, Zenon
<1>8. There(obs.at)' = There(at)
  <2>1. There(obs.at)' = There(at)'
    BY <1>7, Zenon DEF There, Touches
  <2> QED BY <1>2, <2>1, Zenon
<1>9. There(obs.pos)' = There(pos)
  <2>1. There(obs.pos)' = There(pos)'
    BY <1>7, Zenon DEF There, Touches
  <2> QED BY <1>2, <2>1, Zenon
<1>10. FirstCreate(obs.at)' = FirstCreate(at)
  <2>1. ASSUME NEW k PROVE CreatedAt(k, obs.at)' = CreatedAt(k, at)
    <3>1. CreatedAt(k, obs.at)' = CreatedAt(k, at)'
      BY <1>7, Zenon DEF CreatedAt, LastDelete, Touches
    <3> QED BY <1>2, <3>1, Zenon
  <2> QED BY <1>8, <2>1, Zenon DEF FirstCreate
<1>11. Seen'
  <2>1. here' = here /\ obs' = o
    OBVIOUS
  <2> QED BY <1>2, <1>6, <1>8, <1>9, <1>10, <2>1, Zenon DEF Seen, SeenBy
<1> QED BY <1>4, <1>5, <1>11, Zenon DEF ConInv

(* Only one key leads. *)
LEMMA OneLeads ==
  ASSUME Logged, NEW i \in 0..Top, NEW k \in FirstCreate(i)
  PROVE  FirstCreate(i) = {k} /\ k \in Sessions
<1>1. k \in There(i) /\ k \in Sessions
  BY DEF FirstCreate, There
<1>2. ASSUME NEW j \in FirstCreate(i) PROVE j = k
  <2>1. j \in There(i) /\ CreatedAt(j, i) <= CreatedAt(k, i) /\ CreatedAt(k, i) <= CreatedAt(j, i)
    BY <1>1, Zenon DEF FirstCreate
  <2>2. /\ CreatedAt(j, i) \in 1..i /\ CreatedAt(k, i) \in 1..i
        /\ j # k => CreatedAt(j, i) # CreatedAt(k, i)
    BY <1>1, <2>1, Distinct, Zenon
  <2>3. i \in Nat
    BY DEF Logged, Top
  <2> QED BY <2>1, <2>2, <2>3
<1> QED BY <1>1, <1>2

(* The read, and a lag. *)
LEMMA ObserveReadInv ==
  ASSUME ConInv, ObserveRead \/ ObserveLagged
  PROVE  ConInv'
<1>1. ConTyped /\ Logged /\ obs \in ObsRecord /\ here \in 0..Top
  BY DEF ConInv, ConTyped
<1>2. UNCHANGED <<evs, here, lease, locker, granted, dropped, drops>>
  BY Zenon DEF ObserveRead, ObserveLagged
<1>3. Top \in Nat /\ Top \in 0..Top /\ here \in Nat /\ here <= Top /\ here \in 0..here /\ ~(here > Top)
  BY <1>1 DEF Logged, Top
<1>4. CASE ObserveRead /\ FirstCreate(Top) = {}
  <2> DEFINE o == [obs EXCEPT !.pc = "first", !.pos = here, !.at = Top]
  <2>1. obs' = o
    BY <1>4, Zenon DEF ObserveRead
  <2>2. o \in ObsRecord /\ o.pc = "first" /\ o.at = Top /\ o.pos = here /\ o.pc # "follow"
    BY <1>1, <1>3, Zenon DEF ObsRecord
  <2>3. There(Top) = {}
    BY <1>1, <1>3, <1>4, FirstIs, Zenon
  <2> HIDE DEF o
  <2>4. SeenBy(o)
    BY <1>3, <2>2, <2>3, Zenon DEF SeenBy
  <2> QED BY <1>2, <2>1, <2>2, <2>4, ObserverMoves, Zenon
<1>5. ASSUME NEW k \in FirstCreate(Top), obs' = [pc |-> "follow", pos |-> here, at |-> Top, leader |-> k]
      PROVE  ConInv'
  <2> DEFINE o == [pc |-> "follow", pos |-> here, at |-> Top, leader |-> k]
  <2>1. FirstCreate(Top) = {k} /\ k \in Sessions
    BY <1>1, <1>3, OneLeads, Zenon
  <2>2. o \in ObsRecord /\ o.pc = "follow" /\ o.at = Top /\ o.pos = here /\ o.leader = k /\ o.pc # "first"
    BY <1>3, <2>1 DEF ObsRecord
  <2> HIDE DEF o
  <2>3. SeenBy(o)
    BY <1>3, <2>1, <2>2, Zenon DEF SeenBy
  <2>4. obs' = o
    BY <1>5 DEF o
  <2> QED BY <1>2, <2>2, <2>3, <2>4, ObserverMoves, Zenon
<1>6. CASE ObserveLagged
  <2>1. obs' = Watching
    BY <1>6, Zenon DEF ObserveLagged
  <2>2. Watching \in ObsRecord /\ Watching.pc = "sub"
    BY DEF Watching, ObsRecord
  <2>3. SeenBy(Watching)
    BY <2>2 DEF SeenBy
  <2> QED BY <1>2, <2>1, <2>2, <2>3, ObserverMoves, Zenon
<1> QED BY <1>4, <1>5, <1>6, Zenon DEF ObserveRead

(* The next event, for an observer with a leader or without. *)
LEMMA ObserveNextInv ==
  ASSUME ConInv, ObserveNext
  PROVE  ConInv'
<1>1. ConTyped /\ Logged /\ obs \in ObsRecord /\ here \in 0..Top /\ SeenBy(obs)
  BY DEF ConInv, ConTyped, Seen
<1> DEFINE i == obs.pos + 1
           e == evs[i]
<1>2. /\ obs.pc \in {"first", "follow"} /\ obs.pos < here
      /\ UNCHANGED <<evs, here, lease, locker, granted, dropped, drops>>
  BY Zenon DEF ObserveNext
<1>3. \/ i <= obs.at /\ obs' = [obs EXCEPT !.pos = i]
      \/ /\ ~(i <= obs.at) /\ obs.pc = "first" /\ e.kind = "put"
         /\ obs' = [obs EXCEPT !.pc = "follow", !.pos = i, !.at = i, !.leader = e.key]
      \/ ~(i <= obs.at) /\ obs.pc = "first" /\ e.kind = "delete" /\ obs' = [obs EXCEPT !.pos = i]
      \/ obs' = Watching
      \/ ~(i <= obs.at) /\ obs.pc = "follow" /\ ~LeaderLeft(e) /\ obs' = [obs EXCEPT !.pos = i, !.at = i]
  BY Zenon DEF ObserveNext
<1>4. obs.at \in 0..Top /\ obs.pos \in 0..here
  BY <1>1, <1>2, Zenon DEF SeenBy
<1>5. PICK at, pos : at = obs.at /\ pos = obs.pos
  OBVIOUS
<1>6. /\ Top \in Nat /\ pos \in Nat /\ at \in Nat /\ pos \in 0..Top
      /\ i = pos + 1 /\ i \in Nat /\ i \in 1..Top /\ i \in 0..Top /\ i \in 0..here /\ pos + 1 <= Top
  BY <1>1, <1>2, <1>4, <1>5 DEF Logged, Top
<1>7. e \in Event
  BY <1>1, <1>6 DEF Logged, Top
<1>8. \A k \in Sessions : Steps(k, pos)
  BY <1>1, <1>6, LogStepped, Zenon DEF Stepped
<1>9. CASE i <= obs.at /\ obs' = [obs EXCEPT !.pos = i]
  <2> DEFINE o == [obs EXCEPT !.pos = i]
  <2>1. o \in ObsRecord /\ o.pc = obs.pc /\ o.at = obs.at /\ o.pos = i /\ o.leader = obs.leader
    BY <1>1, <1>6 DEF ObsRecord
  <2>2. ~(i > obs.at)
    BY <1>5, <1>6, <1>9
  <2>3. obs' = o
    BY <1>9
  <2> HIDE DEF o
  <2>4. SeenBy(o)
    BY <1>1, <1>4, <1>6, <1>9, <2>1, <2>2, Zenon DEF SeenBy
  <2> QED BY <1>2, <2>1, <2>3, <2>4, ObserverMoves, Zenon
<1>10. ASSUME ~(i <= obs.at), obs.pc = "first" PROVE There(pos) = {}
  <2>1. pos > at \/ pos = at
    BY <1>5, <1>6, <1>10
  <2> QED BY <1>1, <1>5, <1>10, <2>1, Zenon DEF SeenBy
<1>11. CASE /\ ~(i <= obs.at) /\ obs.pc = "first" /\ e.kind = "put"
            /\ obs' = [obs EXCEPT !.pc = "follow", !.pos = i, !.at = i, !.leader = e.key]
  <2> DEFINE o == [obs EXCEPT !.pc = "follow", !.pos = i, !.at = i, !.leader = e.key]
  <2>1. PICK k \in Sessions : k = e.key
    BY <1>7 DEF Event
  <2>2. e = [kind |-> "put", key |-> k]
    BY <1>7, <1>11, <2>1 DEF Event
  <2>3. k \in There(pos + 1) /\ evs[pos + 1] = [kind |-> "put", key |-> k]
    BY <1>6, <1>8, <2>2, Zenon DEF Steps
  <2>4. There(pos) = {}
    BY <1>10, <1>11
  <2>5. ASSUME NEW j \in There(pos + 1) PROVE j = k
    <3>1. j \in Sessions
      BY DEF There
    <3>2. evs[pos + 1] = [kind |-> "put", key |-> j]
      BY <1>8, <2>4, <3>1, Zenon DEF Steps
    <3> QED BY <2>3, <3>2
  <2>6. CreatedAt(k, pos + 1) <= CreatedAt(k, pos + 1)
    <3>1. CreatedAt(k, pos + 1) \in 1..(pos + 1)
      BY <1>1, <1>6, <2>3, Distinct, Zenon
    <3> QED BY <1>6, <3>1
  <2>7. FirstCreate(pos + 1) = {k}
    BY <2>3, <2>5, <2>6 DEF FirstCreate
  <2>8. o \in ObsRecord /\ o.pc = "follow" /\ o.pc # "first" /\ o.at = pos + 1 /\ o.pos = pos + 1 /\ o.leader = k
    BY <1>1, <1>6, <2>1, Zenon DEF ObsRecord
  <2>9. obs' = o
    BY <1>11
  <2>10. pos + 1 <= pos + 1 /\ pos + 1 \in 0..Top /\ pos + 1 \in 0..here
    BY <1>6
  <2> HIDE DEF o
  <2>11. SeenBy(o)
    BY <2>7, <2>8, <2>10, Zenon DEF SeenBy
  <2> QED BY <1>2, <2>8, <2>9, <2>11, ObserverMoves, Zenon
<1>12. CASE ~(i <= obs.at) /\ obs.pc = "first" /\ e.kind = "delete" /\ obs' = [obs EXCEPT !.pos = i]
  <2> DEFINE o == [obs EXCEPT !.pos = i]
  <2>1. o \in ObsRecord /\ o.pc = "first" /\ o.pc # "follow" /\ o.at = obs.at /\ o.pos = pos + 1
    BY <1>1, <1>6, <1>12 DEF ObsRecord
  <2>2. There(pos) = {}
    BY <1>10, <1>12
  <2>3. ASSUME NEW j \in There(pos + 1) PROVE FALSE
    <3>1. j \in Sessions
      BY DEF There
    <3>2. evs[pos + 1] = [kind |-> "put", key |-> j]
      BY <1>8, <2>2, <3>1, Zenon DEF Steps
    <3> QED BY <1>6, <1>12, <3>2
  <2>4. There(obs.at) = {}
    BY <1>1, <1>12, Zenon DEF SeenBy
  <2>5. obs' = o
    BY <1>12
  <2>6. There(pos + 1) = {} /\ pos + 1 \in 0..here
    BY <1>6, <2>3
  <2> HIDE DEF o
  <2>7. SeenBy(o)
    BY <1>4, <2>1, <2>4, <2>6, Zenon DEF SeenBy
  <2> QED BY <1>2, <2>1, <2>5, <2>7, ObserverMoves, Zenon
<1>13. CASE obs' = Watching
  <2>1. Watching \in ObsRecord /\ Watching.pc = "sub"
    BY DEF Watching, ObsRecord
  <2>2. SeenBy(Watching)
    BY <2>1 DEF SeenBy
  <2> QED BY <1>2, <1>13, <2>1, <2>2, ObserverMoves, Zenon
<1>14. CASE ~(i <= obs.at) /\ obs.pc = "follow" /\ ~LeaderLeft(e) /\ obs' = [obs EXCEPT !.pos = i, !.at = i]
  <2> DEFINE o == [obs EXCEPT !.pos = i, !.at = i]
             k == obs.leader
  <2>1. pos <= at /\ FirstCreate(at) = {k}
    BY <1>1, <1>5, <1>14, Zenon DEF SeenBy
  <2>2. pos = at
    BY <1>5, <1>6, <1>14, <2>1
  <2>3. k \in Sessions /\ k \in There(pos) /\ \A j \in There(pos) : CreatedAt(k, pos) <= CreatedAt(j, pos)
    BY <2>1, <2>2, Zenon DEF FirstCreate, There
  <2>4. ~Deletes(k, pos + 1)
    BY <1>6, <1>7, <1>14 DEF Deletes, LeaderLeft, Event
  <2>5. k \in There(pos + 1) /\ CreatedAt(k, pos + 1) = CreatedAt(k, pos)
    BY <1>8, <2>3, <2>4, Zenon DEF Steps
  <2>6. CreatedAt(k, pos) \in 1..pos
    BY <1>1, <1>6, <2>3, Distinct, Zenon
  <2>7. ASSUME NEW j \in There(pos + 1) PROVE CreatedAt(k, pos + 1) <= CreatedAt(j, pos + 1)
    <3>1. j \in Sessions
      BY DEF There
    <3>2. \/ j \in There(pos) /\ CreatedAt(j, pos + 1) = CreatedAt(j, pos)
          \/ CreatedAt(j, pos + 1) = pos + 1
      BY <1>8, <3>1, Zenon DEF Steps
    <3>3. CreatedAt(k, pos) <= pos + 1
      BY <1>6, <2>6
    <3> QED BY <2>3, <2>5, <3>2, <3>3, Zenon
  <2>8. FirstCreate(pos + 1) = {k}
    <3>1. k \in FirstCreate(pos + 1) /\ pos + 1 \in 0..Top
      BY <1>6, <2>5, <2>7, Zenon DEF FirstCreate
    <3> QED BY <1>1, <3>1, OneLeads, Zenon
  <2>9. o \in ObsRecord /\ o.pc = "follow" /\ o.pc # "first" /\ o.at = pos + 1 /\ o.pos = pos + 1 /\ o.leader = k
    BY <1>1, <1>6, <1>14, Zenon DEF ObsRecord
  <2>10. obs' = o
    BY <1>14
  <2>11. pos + 1 <= pos + 1 /\ pos + 1 \in 0..Top /\ pos + 1 \in 0..here
    BY <1>6
  <2> HIDE DEF o
  <2>12. SeenBy(o)
    BY <2>8, <2>9, <2>11, Zenon DEF SeenBy
  <2> QED BY <1>2, <2>9, <2>10, <2>12, ObserverMoves, Zenon
<1> QED BY <1>3, <1>9, <1>11, <1>12, <1>13, <1>14, Zenon

(***************************************************************************)
(* The theorem.                                                            *)
(***************************************************************************)

(* The initial states satisfy the invariant. *)
LEMMA ConInitInv == ConInit => ConInv
<1> SUFFICES ASSUME ConInit PROVE ConInv
  OBVIOUS
<1>1. /\ evs = <<>> /\ here = 0 /\ locker = [s \in Sessions |-> Resting]
      /\ granted = [s \in Sessions |-> 0] /\ dropped = {}
  BY Zenon DEF ConInit
<1>2. PICK scene \in Scenes : lease = scene.lease /\ drops = MaxDrops - scene.drops
                 /\ obs = [Watching EXCEPT !.pc = IF scene.observed THEN "sub" ELSE "off"]
  BY Zenon DEF ConInit
<1>3. Logged /\ Top = 0
  BY <1>1 DEF Logged, Top
<1>4. lease \subseteq Sessions /\ drops \in 0..MaxDrops
  BY <1>2, ConAssumption
<1>5. obs \in ObsRecord /\ obs.pc \notin {"first", "follow"}
  BY <1>2 DEF Watching, ObsRecord
<1>6. Resting \in CallRecord /\ Resting.last = NoSession /\ Resting.pc = "idle"
  BY DEF Resting, CallRecord
<1>7. here \in 0..Top
  BY <1>1, <1>3
<1>8. ConTyped
  BY <1>1, <1>3, <1>4, <1>5, <1>6, <1>7 DEF ConTyped
<1>9. Seen
  BY <1>5 DEF Seen, SeenBy
<1>10. ASSUME NEW s \in Sessions PROVE Clear(s)
  <2>1. locker[s] = Resting /\ granted[s] = 0 /\ NoSession # s
    BY <1>1, ConAssumption
  <2> QED BY <1>3, <1>6, <2>1 DEF Clear
<1> QED BY <1>8, <1>9, <1>10 DEF ConInv

(* Every step keeps it. *)
LEMMA ConNextInv == ConInv /\ [ConNext]_conVars => ConInv'
<1> SUFFICES ASSUME ConInv, [ConNext]_conVars PROVE ConInv'
  OBVIOUS
<1>1. ASSUME NEW s \in Sessions, CallStep(s) PROVE ConInv'
  BY <1>1, WaitDeletesInv, ReceiveInv, FinishInv, Zenon DEF CallStep
<1>2. ASSUME ObserverStep PROVE ConInv'
  BY <1>2, ObserveReadInv, ObserveNextInv, Zenon DEF ObserverStep
<1>3. ASSUME UNCHANGED conVars PROVE ConInv'
  <2>1. UNCHANGED <<evs, here, lease, locker, granted, dropped, drops>> /\ obs' = obs
    BY <1>3, Zenon DEF conVars
  <2>2. obs \in ObsRecord /\ SeenBy(obs)
    BY DEF ConInv, ConTyped, Seen
  <2> QED BY <2>1, <2>2, ObserverMoves, Zenon
<1> QED BY <1>1, <1>2, <1>3, AcquireInv, ClientGoneInv, OthersInv, Zenon DEF ConNext

(* It implies the property. *)
LEMMA ConInvRight == ConInv => LocksRight
<1> SUFFICES ASSUME ConInv PROVE LocksRight
  OBVIOUS
<1>1. ConTyped /\ Logged
  BY DEF ConInv, ConTyped
<1>2. ASSUME NEW s \in Sessions
      PROVE  locker[s].pc \in {"idle", "sub", "recv", "back"} /\ locker[s].last # s /\ granted[s] \in 0..Top
  <2>1. locker[s] \in CallRecord /\ Clear(s)
    BY OfSession, Zenon
  <2>2. locker[s].pc \in {"idle", "sub", "recv", "back"}
    BY <2>1 DEF CallRecord
  <2> QED BY <2>1, <2>2, Zenon DEF Clear
<1>3. ConTypeOK
  BY <1>1, <1>2, Zenon DEF ConTypeOK, ConTyped
<1>4. Top \in Nat /\ Top \in 0..Top
  BY <1>1 DEF Logged, Top
<1>5. ASSUME NEW s \in Sessions, NEW t \in Sessions, Holds(s), Holds(t), CreatedAt(s, Top) < CreatedAt(t, Top)
      PROVE  FALSE
  <2>1. s \in There(Top) /\ t \in There(Top) /\ granted[t] > 0 /\ CreatedAt(t, Top) = granted[t]
    BY <1>5, Zenon DEF Holds
  <2>2. CreatedAt(s, Top) \in 1..Top /\ CreatedAt(t, Top) \in 1..Top
    BY <1>1, <1>4, <2>1, Distinct, Zenon
  <2>3. CreatedAt(s, Top) <= granted[t] - 1
    BY <1>4, <1>5, <2>1, <2>2
  <2>4. s \in Before(granted[t] - 1, Top)
    BY <2>1, <2>3, Zenon DEF Before
  <2>5. Clear(t)
    BY OfSession, Zenon
  <2> QED BY <2>1, <2>4, <2>5, Zenon DEF Clear
<1>6. OneHolder
  <2> SUFFICES ASSUME NEW s \in Sessions, NEW t \in Sessions, Holds(s), Holds(t), s # t PROVE FALSE
    BY Zenon DEF OneHolder
  <2>1. s \in There(Top) /\ t \in There(Top)
    BY Zenon DEF Holds
  <2>2. CreatedAt(s, Top) \in 1..Top /\ CreatedAt(t, Top) \in 1..Top /\ CreatedAt(s, Top) # CreatedAt(t, Top)
    BY <1>1, <1>4, <2>1, Distinct, Zenon
  <2>3. CreatedAt(s, Top) < CreatedAt(t, Top) \/ CreatedAt(t, Top) < CreatedAt(s, Top)
    BY <1>4, <2>2
  <2> QED BY <1>5, <2>3, Zenon
<1>7. ObservedLed
  BY Zenon DEF ConInv, Seen, SeenBy, ObservedLed
<1> QED BY <1>3, <1>6, <1>7 DEF LocksRight

(* Two sessions never both hold, and an observer is told of leaders only,  *)
(* whatever is deleted, created, applied late or lost in between (lock,    *)
(* campaign, wait_deletes, observe).                                       *)
THEOREM LocksCorrect == ConSafe => []LocksRight
BY ConInitInv, ConNextInv, ConInvRight, PTL DEF ConSafe
=============================================================================
