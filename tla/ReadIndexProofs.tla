---------------------------- MODULE ReadIndexProofs -------------------------
(***************************************************************************)
(* For any voters, reads, number of terms and length of the log: a read    *)
(* served through the barrier reflects every write acknowledged before it  *)
(* began.                                                                  *)
(***************************************************************************)
EXTENDS ReadIndex, FiniteSetTheorems, WellFoundedInduction, TLAPS

(***************************************************************************)
(* The inductive invariant.                                                *)
(***************************************************************************)

Terms == 0..MaxRTerm
Index == 0..MaxIndex
Memberships == {Sole, Joint, Uniform}

Started == {t \in RTerms : start[t] # NoIndex}

(* The members that know of a term, or of a newer one. *)
Knows(t) == {m \in Voters : saved[m] >= t}

RaftTyped ==
  /\ saved \in [Voters -> Terms] /\ granted \in [Voters -> Voters]
  /\ lead \in [Voters -> Terms] /\ shownTerm \in [Voters -> Terms]
  /\ shown \in [Voters -> Memberships] /\ mark \in [Voters -> Memberships]
  /\ config \in Memberships
  /\ start \in [RTerms -> Nat] /\ commits \in [RTerms -> Index]
  /\ done \in [Voters -> Index] /\ acked \in Index

(* One leader of a term, known by the vote it granted itself; a member     *)
(* whose metrics show the term it saved still leads it.                    *)
Leading ==
  /\ \A v, w \in Voters : saved[v] = saved[w] /\ saved[v] # 0 => granted[v] = granted[w]
  /\ \A n \in Voters :
       /\ lead[n] # 0 => saved[n] = lead[n] /\ granted[n] = n /\ lead[n] \in Started
       /\ shownTerm[n] <= saved[n]
       /\ shownTerm[n] # 0 /\ shownTerm[n] = saved[n] => lead[n] = saved[n]

(* Every quorum of the newest membership has a member that knows of a term *)
(* that was started, but for terms no leader of a joint membership is      *)
(* older than.                                                             *)
Quorums ==
  \A t \in Started :
    /\ config # Uniform => Founder \in Knows(t)
    /\ config = Uniform => Majority(Knows(t))
    /\ config = Joint => Majority(Knows(t)) \/ \A n \in Voters : lead[n] # 0 => lead[n] >= t

(* The log store's mark: while it says the founder is alone, it is. *)
Marks ==
  /\ config = Sole => \A n \in Voters : n # Founder => saved[n] = 0
  /\ \A n \in Voters : shown[n] <= mark[n] /\ mark[n] <= config
  /\ config # Sole => \A n \in Voters : n = Founder \/ lead[n] # 0 => mark[n] # Sole

(* A term starts above everything older terms commit, and what a leader    *)
(* has not applied was acknowledged in an older term or in a newer one.    *)
Logs ==
  /\ \A t \in RTerms : t \notin Started => commits[t] = 0
  /\ \A t \in Started : \A u \in RTerms : u < t => commits[u] < start[t]
  /\ \E t \in RTerms : acked <= commits[t]
  /\ config = Sole => acked <= done[Founder]
  /\ \A n \in Voters : lead[n] # 0 =>
       acked < start[lead[n]] \/ acked <= done[n] \/ \E u \in Started : u > lead[n]

RaftInv == RaftTyped /\ Leading /\ Quorums /\ Marks /\ Logs

Round ==
  [by : Reads \cup {NoRead}, term : Terms, config : Memberships, confirmed : SUBSET Voters, index : Nat]

Read ==
  [pc : {"none", "queue", "round", "apply", "served", "raft"}, at : Voters, need : Index,
   arrival : Nat, index : Nat]

ReadTyped ==
  /\ rounds \in [Voters -> [started : Nat, last : Nat, index : Nat]]
  /\ round \in [Voters -> Round]
  /\ read \in [Reads -> Read]

(* The writes a read must reflect are below an index, or applied already. *)
Reflects(r, i) == read[r].need <= i \/ read[r].need <= done[read[r].at]

(* Members that knew of a newer term when the round began: it cannot have  *)
(* a quorum.                                                               *)
Blocked(rd) ==
  \E H \in SUBSET Voters :
    /\ H \cap rd.confirmed = {} /\ \A m \in H : saved[m] > rd.term
    /\ (rd.config # Uniform /\ Founder \in H) \/ (rd.config # Sole /\ Majority(H))

(* The reads a round is for: its own, and the ones that came before it. *)
Waits(r, n) ==
  /\ read[r].at = n
  /\ read[r].pc = "round" \/ (read[r].pc = "queue" /\ read[r].arrival < rounds[n].started)

Rounded ==
  \A n \in Voters :
    /\ rounds[n].last <= rounds[n].started
    /\ round[n] # NoRound =>
         /\ round[n].by \in Reads /\ read[round[n].by].at = n /\ read[round[n].by].pc = "round"
         /\ \A r \in Reads : Waits(r, n) => Reflects(r, round[n].index) \/ Blocked(round[n])

(* What is known of a read where it is. *)
Held(r) ==
  LET n == read[r].at IN
  /\ read[r].need <= acked
  /\ read[r].pc = "round" => round[n].by = r
  /\ read[r].pc = "queue" => read[r].arrival <= rounds[n].started
  /\ read[r].pc = "queue" /\ Joins(n, read[r].arrival) /\ rounds[n].index # NoIndex
       => Reflects(r, rounds[n].index)
  /\ read[r].pc = "apply" => Reflects(r, read[r].index)
  /\ read[r].pc = "served" => read[r].index >= read[r].need

Waiting == \A r \in Reads : Held(r)

RIInv == RaftInv /\ ReadTyped /\ Rounded /\ Waiting

----------------------------------------------------------------------------
USE DEF Sole, Joint, Uniform, NoIndex

(* The maximum of a bounded set of naturals. *)
LEMMA LargestNat ==
  ASSUME NEW b \in Nat, NEW S, S \subseteq 0..b, S # {}
  PROVE  Max(S) \in S /\ \A y \in S : y <= Max(S)
<1> DEFINE T == {b - x : x \in S}
<1>1. \A x \in S : x \in Nat /\ b - x \in Nat
  OBVIOUS
<1>2. T \in SUBSET Nat /\ T # {}
  BY <1>1, Zenon
<1> HIDE DEF T
<1>3. PICK t \in T : \A u \in T : t <= u
  <2>1. \E t \in T : \A u \in T : ~(<<u, t>> \in OpToRel(<, Nat))
    BY <1>2, NatLessThanWellFounded, WFMin, Zenon
  <2>2. PICK t \in T : \A u \in T : ~(<<u, t>> \in OpToRel(<, Nat))
    BY <2>1, Zenon
  <2>3. \A u \in T : ~(u < t)
    BY <1>2, <2>2, Zenon DEF OpToRel
  <2> QED
    BY <1>2, <2>3
<1>4. PICK x \in S : t = b - x
  BY Zenon DEF T
<1>5. \A y \in S : x >= y
  <2> TAKE y \in S
  <2>1. b - y \in T
    BY Zenon DEF T
  <2> QED
    BY <1>1, <1>3, <1>4, <2>1
<1>6. Max(S) \in S /\ \A y \in S : Max(S) >= y
  BY <1>5, Zenon DEF Max
<1> QED
  BY <1>1, <1>6, Zenon

(* A set with a majority in it has a majority. *)
LEMMA MajorityGrows ==
  ASSUME NEW S \in SUBSET Voters, NEW T \in SUBSET Voters, S \subseteq T, Majority(S)
  PROVE  Majority(T)
<1>1. IsFiniteSet(Voters) /\ IsFiniteSet(T) /\ IsFiniteSet(S)
  BY ReadIndexAssumption, FS_Subset, Zenon
<1>2. Cardinality(S) <= Cardinality(T)
  BY <1>1, FS_Subset, Zenon
<1>3. Cardinality(S) \in Nat /\ Cardinality(T) \in Nat /\ Cardinality(Voters) \in Nat
  BY <1>1, FS_CardinalityType, Zenon
<1> QED
  BY <1>2, <1>3 DEF Majority

(* Two majorities have a member in common. *)
LEMMA MajoritiesMeet ==
  ASSUME NEW S \in SUBSET Voters, NEW T \in SUBSET Voters, Majority(S), Majority(T)
  PROVE  S \cap T # {}
<1>1. IsFiniteSet(Voters) /\ IsFiniteSet(T) /\ IsFiniteSet(S)
  BY ReadIndexAssumption, FS_Subset, Zenon
<1>2. Cardinality(S) \in Nat /\ Cardinality(T) \in Nat /\ Cardinality(Voters) \in Nat
  BY <1>1, FS_CardinalityType, Zenon
<1>3. Cardinality(S) + Cardinality(T) > Cardinality(Voters)
  BY <1>2 DEF Majority
<1> QED
  BY <1>1, <1>3, FS_MajoritiesIntersect, Zenon

(* A quorum of the newest membership has a member that knows of any term   *)
(* started.                                                                *)
LEMMA QuorumKnows ==
  ASSUME RaftTyped, Quorums, NEW t \in Started, NEW Q \in SUBSET Voters, IsQuorum(config, Q)
  PROVE  \E m \in Q : m \in Knows(t)
<1>1. Knows(t) \in SUBSET Voters
  BY Zenon DEF Knows
<1>2. CASE config = Uniform
  BY <1>1, <1>2, MajoritiesMeet, Zenon DEF Quorums, IsQuorum
<1>3. CASE config # Uniform
  BY <1>3, Zenon DEF Quorums, IsQuorum, RaftTyped, Memberships
<1> QED
  BY <1>2, <1>3, Zenon

(* What terms up to t have committed. *)
LEMMA CommittedIs ==
  ASSUME RaftTyped, NEW t \in RTerms
  PROVE  /\ Committed(t) \in Index /\ t \in Nat
         /\ \A u \in RTerms : u <= t => commits[u] <= Committed(t)
         /\ Committed(t) = 0 \/ \E u \in RTerms : u <= t /\ Committed(t) = commits[u]
<1> DEFINE S == {0} \cup {commits[u] : u \in 1..t}
<1>1. t \in Nat /\ (\A u : u \in 1..t <=> u \in RTerms /\ u <= t)
  BY ReadIndexAssumption DEF RTerms
<1>2. S \subseteq 0..MaxIndex /\ S # {} /\ MaxIndex \in Nat
  BY <1>1, ReadIndexAssumption DEF RaftTyped, Index
<1>3. Committed(t) \in S /\ \A y \in S : y <= Committed(t)
  <2>1. Committed(t) = Max(S)
    BY Zenon DEF Committed
  <2> HIDE DEF S
  <2> QED
    BY <1>2, <2>1, LargestNat, Zenon
<1> QED
  BY <1>1, <1>2, <1>3, Zenon DEF Index

(* Votes saved are never taken back, so the members that know of a term    *)
(* keep knowing of it.                                                     *)
LEMMA QuorumsKept ==
  ASSUME RaftTyped, Quorums, config' = config, start' = start,
         \A v \in Voters : saved'[v] \in Nat /\ saved[v] <= saved'[v] /\ lead'[v] \in {0, lead[v]}
  PROVE  Quorums'
<1> SUFFICES ASSUME NEW t \in Started
             PROVE  /\ config # Uniform => Founder \in Knows(t)'
                    /\ config = Uniform => Majority(Knows(t)')
                    /\ config = Joint => Majority(Knows(t)') \/ \A n \in Voters : lead'[n] # 0 => lead'[n] >= t
  BY Zenon DEF Quorums, Started, Majority
<1>1. t \in Nat /\ \A v \in Voters : saved[v] \in Nat
  BY ReadIndexAssumption DEF Started, RTerms, RaftTyped, Terms
<1>2. Knows(t) \subseteq Knows(t)' /\ Knows(t) \in SUBSET Voters /\ Knows(t)' \in SUBSET Voters
  BY <1>1 DEF Knows
<1>3. Majority(Knows(t)) => Majority(Knows(t)')
  BY <1>2, MajorityGrows, Zenon
<1>4. \A n \in Voters : lead'[n] # 0 => lead'[n] = lead[n]
  BY Zenon
<1> QED
  BY <1>2, <1>3, <1>4, Zenon DEF Quorums

(* What no step takes back: votes saved, entries applied and writes        *)
(* acknowledged.                                                           *)
Forward ==
  /\ \A v \in Voters : saved[v] <= saved'[v] /\ done[v] <= done'[v]
  /\ acked <= acked'

(* The numbers of the members' states. *)
LEMMA Numbers ==
  ASSUME RaftTyped
  PROVE  /\ \A v \in Voters : /\ saved[v] \in Nat /\ lead[v] \in Nat /\ shownTerm[v] \in Nat
                              /\ done[v] \in Nat /\ saved[v] <= MaxRTerm
         /\ \A t \in RTerms : t \in Nat /\ t # 0 /\ start[t] \in Nat /\ commits[t] \in Nat
         /\ acked \in Nat
         /\ \A v \in Voters : lead[v] # 0 => lead[v] \in RTerms
         /\ \A v \in Voters : saved[v] # 0 => saved[v] \in RTerms
         /\ MaxRTerm \in Nat /\ MaxIndex \in Nat
<1>1. MaxRTerm \in Nat /\ MaxIndex \in Nat
  BY ReadIndexAssumption, Zenon
<1>2. \A v \in Voters : /\ saved[v] \in Terms /\ lead[v] \in Terms /\ shownTerm[v] \in Terms
                         /\ done[v] \in Index
  BY Zenon DEF RaftTyped
<1>3. \A t \in RTerms : start[t] \in Nat /\ commits[t] \in Index
  BY Zenon DEF RaftTyped
<1>4. \A t \in Terms : t \in Nat /\ t <= MaxRTerm /\ (t # 0 => t \in RTerms)
  BY <1>1 DEF Terms, RTerms
<1>5. \A i \in Index : i \in Nat
  BY <1>1 DEF Index
<1>6. \A t \in RTerms : t \in Nat /\ t # 0
  BY <1>1 DEF RTerms
<1>7. acked \in Index
  BY Zenon DEF RaftTyped
<1> QED
  BY <1>1, <1>2, <1>3, <1>4, <1>5, <1>6, <1>7, Zenon

(* A step that changes none of these goes back on none. *)
LEMMA SameForward ==
  ASSUME RaftTyped, saved' = saved, done' = done, acked' = acked
  PROVE  Forward
<1>1. /\ \A v \in Voters : saved[v] \in Nat /\ done[v] \in Nat
      /\ acked \in Nat
  BY Numbers, Zenon
<1>2. (\A v \in Voters : saved[v] <= saved[v] /\ done[v] <= done[v]) /\ acked <= acked
  BY <1>1
<1> QED
  BY <1>2, Zenon DEF Forward

(* A vote is saved. *)
LEMMA VoteInv ==
  ASSUME RaftInv, NEW m \in Voters, NEW n \in Voters, NEW t \in RTerms, Vote(m, n, t)
  PROVE  RaftInv' /\ Forward
<1>1. RaftTyped /\ Leading /\ Quorums /\ Marks /\ Logs
  BY Zenon DEF RaftInv
<1>2. /\ UNCHANGED <<shownTerm, shown, config, mark, start, commits, done, acked>>
      /\ saved[m] < t /\ t \in Nat /\ t \in Terms
  BY <1>1, Numbers DEF Vote, RTerms, Terms
<1>3. /\ \A v \in Voters : saved'[v] = IF v = m THEN t ELSE saved[v]
      /\ \A v \in Voters : granted'[v] = IF v = m THEN n ELSE granted[v]
      /\ \A v \in Voters : lead'[v] = IF v = m THEN 0 ELSE lead[v]
  BY <1>1, Zenon DEF Vote, RaftTyped
<1>4. RaftTyped'
  <2>1. saved' \in [Voters -> Terms] /\ granted' \in [Voters -> Voters] /\ lead' \in [Voters -> Terms]
    BY <1>1, <1>2, ReadIndexAssumption DEF Vote, RaftTyped, Terms
  <2> QED
    BY <1>1, <1>2, <2>1, Zenon DEF RaftTyped
<1>5. Started' = Started
  BY <1>2, Zenon DEF Started
<1>6. /\ \A v \in Voters : saved'[v] \in Nat /\ saved[v] <= saved'[v] /\ lead'[v] \in {0, lead[v]}
      /\ \A v \in Voters : done[v] <= done'[v]
      /\ acked <= acked'
  BY <1>1, <1>2, <1>3, Numbers
<1>7. Leading'
  <2>1. ASSUME NEW v \in Voters, NEW w \in Voters, saved'[v] = saved'[w], saved'[v] # 0
        PROVE  granted'[v] = granted'[w]
    <3>1. \A x \in Voters : saved[x] = t => granted[x] = n
      BY Zenon DEF Vote
    <3> QED
      BY <1>1, <1>3, <2>1, <3>1 DEF Leading
  <2>2. ASSUME NEW v \in Voters
        PROVE  /\ lead'[v] # 0 => saved'[v] = lead'[v] /\ granted'[v] = v /\ lead'[v] \in Started
               /\ shownTerm[v] <= saved'[v]
               /\ shownTerm[v] # 0 /\ shownTerm[v] = saved'[v] => lead'[v] = saved'[v]
    <3>1. CASE v = m
      BY <1>1, <1>2, <1>3, <3>1, Numbers DEF Leading
    <3>2. CASE v # m
      BY <1>1, <1>3, <3>2, ZenonT(30) DEF Leading
    <3> QED
      BY <3>1, <3>2, Zenon
  <2> QED
    BY <1>2, <1>5, <2>1, <2>2, Zenon DEF Leading
<1>8. Quorums'
  BY <1>1, <1>2, <1>6, QuorumsKept, Zenon
<1>9. Marks'
  <2>1. config = Sole => m = Founder
    BY Zenon DEF Vote
  <2> QED
    BY <1>1, <1>2, <1>3, <2>1, Zenon DEF Marks
<1>10. Logs'
  <2>1. \A v \in Voters : lead'[v] # 0 => lead'[v] = lead[v]
    BY <1>6, Zenon
  <2> QED
    BY <1>1, <1>2, <1>5, <2>1, Zenon DEF Logs
<1> QED
  BY <1>4, <1>6, <1>7, <1>8, <1>9, <1>10, Zenon DEF RaftInv, Forward

(* A term starts after every term that was started before it. *)
LEMMA ElectedInv ==
  ASSUME RaftInv, NEW n \in Voters, Elected(n)
  PROVE  RaftInv' /\ Forward
<1> DEFINE t == saved[n]
           V == {m \in Voters : saved[m] = t /\ granted[m] = n}
<1>1. RaftTyped /\ Leading /\ Quorums /\ Marks /\ Logs
  BY Zenon DEF RaftInv
<1>2. /\ t # 0 /\ granted[n] = n /\ start[t] = NoIndex /\ IsQuorum(config, V)
      /\ lead' = [lead EXCEPT ![n] = t] /\ start' = [start EXCEPT ![t] = Committed(t) + 1]
      /\ mark' = [mark EXCEPT ![n] = config]
      /\ UNCHANGED <<saved, granted, shownTerm, shown, config, commits, done, acked>>
  BY Zenon DEF Elected
<1>3. t \in RTerms /\ t \in Terms /\ t \in Nat /\ V \in SUBSET Voters /\ t \notin Started
  BY <1>1, <1>2, Numbers, Zenon DEF Started, RaftTyped
<1>4. \A m \in V : saved[m] = t
  BY Zenon
<1> HIDE DEF t, V
<1>5. /\ Committed(t) \in Index
      /\ \A u \in RTerms : u <= t => commits[u] <= Committed(t)
      /\ Committed(t) + 1 \in Nat /\ Committed(t) + 1 # 0 /\ Committed(t) \in Nat
  BY <1>1, <1>3, CommittedIs, ReadIndexAssumption DEF Index
<1>6. /\ \A v \in Voters : lead'[v] = IF v = n THEN t ELSE lead[v]
      /\ \A u \in RTerms : start'[u] = IF u = t THEN Committed(t) + 1 ELSE start[u]
      /\ \A v \in Voters : mark'[v] = IF v = n THEN config ELSE mark[v]
      /\ Started' = Started \cup {t}
  BY <1>1, <1>2, <1>3, <1>5 DEF RaftTyped, Started
<1>7. \A u \in Started : u < t
  <2> TAKE u \in Started
  <2>1. PICK m \in V : m \in Knows(u)
    BY <1>1, <1>2, <1>3, QuorumKnows, Zenon
  <2>2. u \in RTerms /\ u <= t
    BY <1>4, <2>1, Zenon DEF Knows, Started
  <2> QED
    BY <1>1, <1>3, <2>2, Numbers
<1>8. RaftTyped'
  BY <1>1, <1>2, <1>3, <1>5, Zenon DEF RaftTyped
<1>9. Leading'
  <2>1. \A v \in Voters : /\ lead'[v] # 0 => saved[v] = lead'[v] /\ granted[v] = v /\ lead'[v] \in Started'
                          /\ shownTerm[v] # 0 /\ shownTerm[v] = saved[v] => lead'[v] = saved[v]
    BY <1>1, <1>2, <1>6 DEF Leading, t
  <2> QED
    BY <1>1, <1>2, <2>1, Zenon DEF Leading
<1>10. V \subseteq Knows(t) /\ Knows(t) \in SUBSET Voters
  BY <1>3, <1>4 DEF Knows
<1>11. Quorums'
  <2> SUFFICES ASSUME NEW u \in Started \cup {t}
               PROVE  /\ config # Uniform => Founder \in Knows(u)
                      /\ config = Uniform => Majority(Knows(u))
                      /\ config = Joint => Majority(Knows(u)) \/ \A v \in Voters : lead'[v] # 0 => lead'[v] >= u
    <3>1. \A u : Knows(u)' = Knows(u)
      BY <1>2, Zenon DEF Knows
    <3> QED
      BY <1>2, <1>6, <3>1, Zenon DEF Quorums, Majority
  <2>1. CASE u = t
    <3>1. config \in {Joint, Uniform} => Majority(Knows(t))
      BY <1>2, <1>3, <1>10, MajorityGrows, Zenon DEF IsQuorum
    <3>2. config \in {Sole, Joint} => Founder \in Knows(t)
      BY <1>2, <1>10, Zenon DEF IsQuorum
    <3> QED
      BY <1>1, <2>1, <3>1, <3>2, Zenon DEF RaftTyped, Memberships
  <2>2. CASE u \in Started
    <3>1. u \in Nat /\ u < t
      BY <1>1, <1>7, <2>2, Numbers, Zenon DEF Started
    <3> QED
      BY <1>1, <1>3, <1>6, <2>2, <3>1 DEF Quorums
  <2> QED
    BY <2>1, <2>2, Zenon
<1>12. Marks'
  <2>1. \A v \in Voters : shown[v] <= mark'[v] /\ mark'[v] <= config
    BY <1>1, <1>6 DEF Marks, RaftTyped, Memberships
  <2>2. config # Sole => \A v \in Voters : v = Founder \/ lead'[v] # 0 => mark'[v] # Sole
    BY <1>1, <1>6, Zenon DEF Marks
  <2> QED
    BY <1>1, <1>2, <2>1, <2>2, Zenon DEF Marks
<1>13. acked <= Committed(t)
  <2>1. PICK u \in RTerms : acked <= commits[u]
    BY <1>1, Zenon DEF Logs
  <2>2. CASE u \in Started
    <3>1. u \in Nat /\ u < t /\ commits[u] \in Nat /\ acked \in Nat
      BY <1>1, <1>7, <2>2, Numbers, Zenon
    <3>2. u <= t
      BY <1>3, <3>1
    <3>3. commits[u] <= Committed(t) /\ Committed(t) \in Nat
      BY <1>5, <3>2, Zenon
    <3> QED
      BY <2>1, <3>1, <3>3
  <2>3. CASE u \notin Started
    BY <1>1, <1>5, <2>1, <2>3, Numbers DEF Logs
  <2> QED
    BY <2>2, <2>3, Zenon
<1>14. Logs'
  <2>1. \A u \in RTerms : u \notin Started' => commits[u] = 0
    BY <1>1, <1>6, Zenon DEF Logs
  <2>2. \A s \in Started' : \A u \in RTerms : u < s => commits[u] < start'[s]
    <3> TAKE s \in Started'
    <3> TAKE u \in RTerms
    <3>1. CASE s = t
      BY <1>1, <1>3, <1>5, <1>6, <3>1, Numbers
    <3>2. CASE s # t
      BY <1>1, <1>6, <3>2, Zenon DEF Logs, Started
    <3> QED
      BY <3>1, <3>2, Zenon
  <2>3. \A v \in Voters : lead'[v] # 0 =>
          acked < start'[lead'[v]] \/ acked <= done[v] \/ \E u \in Started' : u > lead'[v]
    <3> TAKE v \in Voters
    <3>1. CASE v = n
      <4>1. acked < start'[t]
        BY <1>1, <1>3, <1>5, <1>6, <1>13, Numbers
      <4> QED
        BY <1>6, <3>1, <4>1, Zenon
    <3>2. CASE v # n
      <4> SUFFICES ASSUME lead[v] # 0
                   PROVE  acked < start'[lead[v]] \/ acked <= done[v] \/ \E u \in Started' : u > lead[v]
        BY <1>6, <3>2, Zenon
      <4>1. lead[v] \in Started /\ lead[v] \in RTerms
        BY <1>1, Zenon DEF Leading, Started
      <4>2. start'[lead[v]] = start[lead[v]] /\ Started \subseteq Started'
        BY <1>3, <1>6, <4>1, Zenon
      <4> QED
        BY <1>1, <4>2, Zenon DEF Logs
    <3> QED
      BY <3>1, <3>2, Zenon
  <2> QED
    BY <1>1, <1>2, <2>1, <2>2, <2>3, Zenon DEF Logs
<1>15. Forward
  BY <1>1, <1>2, Numbers DEF Forward
<1> QED
  BY <1>8, <1>9, <1>11, <1>12, <1>14, <1>15, Zenon DEF RaftInv

(* A leader commits only while no newer term was started. *)
LEMMA CommitEntryInv ==
  ASSUME RaftInv, NEW n \in Voters, CommitEntry(n)
  PROVE  RaftInv' /\ Forward
<1> DEFINE t == lead[n]
           i == Max({Committed(t) + 1, start[t]})
<1>1. RaftTyped /\ Leading /\ Quorums /\ Marks /\ Logs
  BY Zenon DEF RaftInv
<1>2. /\ t # 0 /\ i <= MaxIndex /\ commits' = [commits EXCEPT ![t] = i]
      /\ lead' = [m \in Voters |-> IF m # n /\ saved'[m] # saved[m] THEN 0 ELSE lead[m]]
      /\ UNCHANGED <<shownTerm, shown, config, mark, start, done, acked>>
  BY Zenon DEF CommitEntry
<1>3. PICK Q \in SUBSET (IF config = Sole THEN {Founder} ELSE Voters) :
        /\ n \in Q /\ IsQuorum(config, Q) /\ \A m \in Q : saved[m] <= t
        /\ saved' = [m \in Voters |-> IF m \in Q THEN t ELSE saved[m]]
        /\ granted' = [m \in Voters |-> IF m \in Q /\ saved[m] < t THEN n ELSE granted[m]]
  BY Zenon DEF CommitEntry
<1>4. /\ t \in RTerms /\ t \in Terms /\ t \in Nat /\ t \in Started /\ saved[n] = t /\ granted[n] = n
      /\ Q \in SUBSET Voters
  BY <1>1, <1>2, <1>3, Numbers, ReadIndexAssumption, ZenonT(30) DEF Leading, RaftTyped
<1>5. i \in Nat /\ i > Committed(t) /\ i >= start[t] /\ i \in Index
  <2>1. Committed(t) + 1 \in Nat /\ start[t] \in Nat /\ Committed(t) \in Nat
    BY <1>1, <1>4, CommittedIs, Numbers, ReadIndexAssumption DEF Index
  <2> DEFINE S == {Committed(t) + 1, start[t]}
             b == Committed(t) + 1 + start[t]
  <2>2. b \in Nat /\ S \subseteq 0..b /\ S # {}
    BY <2>1
  <2>3. i \in S /\ \A y \in S : y <= i
    <3> HIDE DEF S, b
    <3>1. Max(S) \in S /\ \A y \in S : y <= Max(S)
      BY <2>2, LargestNat, Zenon
    <3> QED
      BY <3>1, Zenon DEF S
  <2> QED
    BY <1>2, <2>1, <2>3, ReadIndexAssumption DEF Index
<1> HIDE DEF i
<1>6. \A u \in RTerms : u <= t => commits[u] < i
  <2> TAKE u \in RTerms
  <2> QED
    BY <1>1, <1>4, <1>5, CommittedIs, Numbers, ReadIndexAssumption, SMTT(30) DEF Index
<1>7. \A u \in Started : u <= t
  <2> TAKE u \in Started
  <2>1. PICK m \in Q : m \in Knows(u)
    BY <1>1, <1>3, <1>4, QuorumKnows, Zenon
  <2>2. u <= saved[m] /\ saved[m] <= t /\ saved[m] \in Nat /\ u \in Nat
    BY <1>1, <1>3, <1>4, <2>1, Numbers, Zenon DEF Knows, Started
  <2> QED
    BY <1>4, <2>2
<1> HIDE DEF t
<1>8. /\ \A v \in Voters : saved'[v] = IF v \in Q THEN t ELSE saved[v]
      /\ \A v \in Voters : granted'[v] = IF v \in Q /\ saved[v] < t THEN n ELSE granted[v]
      /\ \A v \in Voters : lead'[v] = IF v # n /\ saved'[v] # saved[v] THEN 0 ELSE lead[v]
      /\ \A u \in RTerms : commits'[u] = IF u = t THEN i ELSE commits[u]
      /\ Started' = Started
  BY <1>1, <1>2, <1>3, ZenonT(30) DEF Started, RaftTyped
<1>9. /\ \A v \in Voters : saved'[v] \in Nat /\ saved[v] <= saved'[v] /\ lead'[v] \in {0, lead[v]}
      /\ \A v \in Voters : done[v] <= done'[v]
      /\ acked <= acked'
  BY <1>1, <1>2, <1>3, <1>4, <1>8, Numbers
<1>10. RaftTyped'
  <2>1. \A v \in Voters : saved[v] \in Terms /\ lead[v] \in Terms /\ granted[v] \in Voters /\ 0 \in Terms
    BY <1>1, ReadIndexAssumption DEF RaftTyped, Terms
  <2>2. saved' \in [Voters -> Terms] /\ granted' \in [Voters -> Voters] /\ lead' \in [Voters -> Terms]
    BY <1>2, <1>3, <1>4, <2>1, Zenon
  <2>3. commits' \in [RTerms -> Index]
    BY <1>1, <1>2, <1>5, ZenonT(30) DEF RaftTyped
  <2> QED
    BY <1>1, <1>2, <2>2, <2>3, Zenon DEF RaftTyped
<1>11. Leading'
  <2>1. \A v \in Voters : saved'[v] = t => granted'[v] = n
    <3> TAKE v \in Voters
    <3>1. saved[v] = t => granted[v] = n
      BY <1>1, <1>4, Numbers, Zenon DEF Leading
    <3>2. v \in Q => saved[v] <= t /\ saved[v] \in Nat
      BY <1>1, <1>3, Numbers, Zenon
    <3> QED
      BY <1>4, <1>8, <3>1, <3>2, SMTT(30)
  <2>2. \A v \in Voters : saved'[v] # t => saved'[v] = saved[v] /\ granted'[v] = granted[v]
    BY <1>8, ZenonT(30)
  <2>3. ASSUME NEW v \in Voters, NEW w \in Voters, saved'[v] = saved'[w], saved'[v] # 0
        PROVE  granted'[v] = granted'[w]
    BY <1>1, <2>1, <2>2, <2>3 DEF Leading
  <2>4. ASSUME NEW v \in Voters
        PROVE  /\ lead'[v] # 0 => saved'[v] = lead'[v] /\ granted'[v] = v /\ lead'[v] \in Started
               /\ shownTerm[v] <= saved'[v]
               /\ shownTerm[v] # 0 /\ shownTerm[v] = saved'[v] => lead'[v] = saved'[v]
    <3>1. CASE saved'[v] = saved[v]
      <4>1. granted'[v] = granted[v] /\ lead'[v] = lead[v]
        BY <1>1, <1>4, <1>8, <3>1, Numbers, SMTT(30)
      <4> QED
        BY <1>1, <3>1, <4>1, Zenon DEF Leading
    <3>2. CASE saved'[v] # saved[v]
      <4>1. v # n /\ lead'[v] = 0 /\ saved[v] < saved'[v]
        BY <1>1, <1>4, <1>8, <1>9, <3>2, Numbers, SMTT(30)
      <4> QED
        BY <1>1, <1>9, <4>1, Numbers, SMTT(30) DEF Leading
    <3> QED
      BY <3>1, <3>2, Zenon
  <2> QED
    BY <1>2, <1>8, <2>3, <2>4, SMTT(30) DEF Leading
<1>12. Quorums'
  BY <1>1, <1>2, <1>9, QuorumsKept, Zenon
<1>13. Marks'
  <2>1. config = Sole => \A v \in Voters : v # Founder => saved'[v] = saved[v]
    BY <1>3, <1>8, Zenon
  <2> QED
    BY <1>1, <1>2, <1>9, <2>1, Zenon DEF Marks
<1>14. Logs'
  <2>1. \A u \in RTerms : u \notin Started => commits'[u] = 0
    BY <1>1, <1>4, <1>8, Zenon DEF Logs
  <2>2. \A s \in Started : \A u \in RTerms : u < s => commits'[u] < start[s]
    <3> TAKE s \in Started
    <3> TAKE u \in RTerms
    <3>1. s <= t /\ s \in Nat /\ u \in Nat
      BY <1>1, <1>7, Numbers, Zenon DEF Started
    <3> QED
      BY <1>1, <1>4, <1>8, <3>1 DEF Logs
  <2>3. \E u \in RTerms : acked <= commits'[u]
    <3>1. PICK u \in RTerms : acked <= commits[u]
      BY <1>1, Zenon DEF Logs
    <3>2. commits[u] <= commits'[u]
      <4>1. commits[u] \in Nat /\ commits[t] \in Nat /\ commits[t] < i
        BY <1>1, <1>4, <1>6, Numbers
      <4> QED
        BY <1>5, <1>8, <4>1
    <3>3. commits'[u] \in Nat
      BY <1>1, <1>5, <1>8, Numbers, Zenon
    <3> QED
      BY <1>1, <3>1, <3>2, <3>3, Numbers
  <2>4. \A v \in Voters : lead'[v] # 0 => lead'[v] = lead[v]
    BY <1>9, ZenonT(30)
  <2> QED
    BY <1>1, <1>2, <1>8, <2>1, <2>2, <2>3, <2>4, ZenonT(30) DEF Logs
<1> QED
  BY <1>9, <1>10, <1>11, <1>12, <1>13, <1>14, Zenon DEF RaftInv, Forward

(* The membership moves on once a quorum of it knows of its leader: by     *)
(* then every term has a majority.                                         *)
LEMMA ChangeMembershipInv ==
  ASSUME RaftInv, NEW n \in Voters, ChangeMembership(n)
  PROVE  RaftInv' /\ Forward
<1>1. RaftTyped /\ Leading /\ Quorums /\ Marks /\ Logs
  BY Zenon DEF RaftInv
<1>2. /\ lead[n] # 0 /\ config < Uniform /\ config' = config + 1 /\ mark' = [mark EXCEPT ![n] = config + 1]
      /\ IsQuorum(config, Knows(lead[n]))
      /\ UNCHANGED <<saved, granted, lead, shownTerm, shown, start, commits, done, acked>>
  BY Zenon DEF ChangeMembership, Knows
<1>3. config \in {Sole, Joint} /\ config' \in {Joint, Uniform} /\ config' \in Memberships
  BY <1>1, <1>2 DEF RaftTyped, Memberships
<1>4. \A v \in Voters : mark'[v] = IF v = n THEN config' ELSE mark[v]
  BY <1>1, <1>2, Zenon DEF RaftTyped
<1>5. Started' = Started /\ \A u : Knows(u)' = Knows(u)
  BY <1>2, Zenon DEF Started, Knows
<1>6. RaftTyped'
  BY <1>1, <1>2, <1>3, Zenon DEF RaftTyped
<1>7. Leading'
  BY <1>1, <1>2, <1>5, Zenon DEF Leading
<1>8. Quorums'
  <2> SUFFICES ASSUME NEW t \in Started
               PROVE  /\ config' # Uniform => Founder \in Knows(t)
                      /\ config' = Uniform => Majority(Knows(t))
                      /\ config' = Joint =>
                           Majority(Knows(t)) \/ \A v \in Voters : lead[v] # 0 => lead[v] >= t
    BY <1>2, <1>5, ZenonT(30) DEF Quorums, Majority
  <2>1. Founder \in Knows(t) /\ t \in Nat
    BY <1>1, <1>3, Numbers DEF Quorums, Started
  <2>2. CASE config = Sole
    <3>1. \A v \in Voters : lead[v] # 0 => v = Founder
      BY <1>1, <2>2, Zenon DEF Marks, Leading
    <3>2. lead[Founder] # 0 => lead[Founder] >= t
      BY <1>1, <2>1, ReadIndexAssumption, Zenon DEF Leading, Knows
    <3> QED
      BY <1>2, <2>1, <2>2, <3>1, <3>2
  <2>3. CASE config = Joint
    <3>1. Majority(Knows(lead[n]))
      BY <1>2, <2>3, Zenon DEF IsQuorum
    <3>2. lead[n] >= t => Majority(Knows(t))
      <4> SUFFICES ASSUME lead[n] >= t PROVE Majority(Knows(t))
        BY Zenon
      <4>1. Knows(lead[n]) \subseteq Knows(t) /\ Knows(t) \in SUBSET Voters /\ Knows(lead[n]) \in SUBSET Voters
        BY <1>1, <2>1, Numbers DEF Knows
      <4> QED
        BY <3>1, <4>1, MajorityGrows, Zenon
    <3>3. Majority(Knows(t))
      BY <1>1, <1>2, <2>3, <3>2, ZenonT(30) DEF Quorums
    <3> QED
      BY <1>2, <2>3, <3>3
  <2> QED
    BY <1>3, <2>2, <2>3, Zenon
<1>9. Marks'
  <2>1. \A v \in Voters : shown[v] <= mark'[v] /\ mark'[v] <= config'
    <3> TAKE v \in Voters
    <3>1. shown[v] <= mark[v] /\ mark[v] <= config /\ shown[v] \in 0..2 /\ mark[v] \in 0..2 /\ config \in 0..2
      BY <1>1 DEF Marks, RaftTyped, Memberships
    <3> QED
      BY <1>2, <1>4, <3>1
  <2>2. \A v \in Voters : v = Founder \/ lead[v] # 0 => mark'[v] # Sole
    <3>1. CASE config = Sole
      <4>1. \A v \in Voters : lead[v] # 0 => v = Founder
        BY <1>1, <3>1, Zenon DEF Marks, Leading
      <4> QED
        BY <1>2, <1>3, <1>4, <4>1
    <3>2. CASE config # Sole
      BY <1>1, <1>3, <1>4, <3>2, SMTT(30) DEF Marks
    <3> QED
      BY <3>1, <3>2, Zenon
  <2> QED
    BY <1>2, <1>3, <2>1, <2>2, SMTT(30) DEF Marks
<1>10. Logs'
  BY <1>1, <1>2, <1>3, <1>5 DEF Logs
<1>11. Forward
  BY <1>1, <1>2, SameForward, ZenonT(30)
<1> QED
  BY <1>6, <1>7, <1>8, <1>9, <1>10, <1>11, Zenon DEF RaftInv

(* The metrics are published. *)
LEMMA PublishInv ==
  ASSUME RaftInv, NEW n \in Voters, Publish(n)
  PROVE  RaftInv' /\ Forward
<1>1. RaftTyped /\ Leading /\ Quorums /\ Marks /\ Logs
  BY Zenon DEF RaftInv
<1>2. /\ shownTerm' = [shownTerm EXCEPT ![n] = lead[n]] /\ shown' = [shown EXCEPT ![n] = mark[n]]
      /\ UNCHANGED <<saved, granted, lead, config, mark, start, commits, done, acked>>
  BY Zenon DEF Publish
<1>3. /\ \A v \in Voters : shownTerm'[v] = IF v = n THEN lead[v] ELSE shownTerm[v]
      /\ \A v \in Voters : shown'[v] = IF v = n THEN mark[v] ELSE shown[v]
      /\ Started' = Started /\ \A u : Knows(u)' = Knows(u)
  BY <1>1, <1>2, Zenon DEF RaftTyped, Started, Knows
<1>4. RaftTyped'
  BY <1>1, <1>2, Zenon DEF RaftTyped
<1>5. Leading'
  <2>1. \A v \in Voters : /\ shownTerm'[v] <= saved[v]
                          /\ shownTerm'[v] # 0 /\ shownTerm'[v] = saved[v] => lead[v] = saved[v]
    BY <1>1, <1>3, Numbers DEF Leading
  <2> QED
    BY <1>1, <1>2, <1>3, <2>1, ZenonT(30) DEF Leading
<1>6. Quorums'
  BY <1>1, <1>2, <1>3, Zenon DEF Quorums, Majority
<1>7. Marks'
  <2>1. \A v \in Voters : shown'[v] <= mark[v]
    BY <1>1, <1>3 DEF Marks, RaftTyped, Memberships
  <2> QED
    BY <1>1, <1>2, <2>1, ZenonT(30) DEF Marks
<1>8. Logs'
  BY <1>1, <1>2, <1>3, Zenon DEF Logs
<1>9. Forward
  BY <1>1, <1>2, SameForward, ZenonT(30)
<1> QED
  BY <1>4, <1>5, <1>6, <1>7, <1>8, <1>9, Zenon DEF RaftInv

(* An entry is applied, and acknowledged where its leader is. *)
LEMMA ApplyNextInv ==
  ASSUME RaftInv, NEW n \in Voters, ApplyNext(n)
  PROVE  RaftInv' /\ Forward
<1>1. RaftTyped /\ Leading /\ Quorums /\ Marks /\ Logs
  BY Zenon DEF RaftInv
<1>2. /\ saved[n] # 0 /\ done[n] < commits[saved[n]] /\ done' = [done EXCEPT ![n] = @ + 1]
      /\ acked' = IF lead[n] # 0 THEN Max({acked, done[n] + 1}) ELSE acked
      /\ UNCHANGED <<saved, granted, lead, shownTerm, shown, config, mark, start, commits>>
  BY Zenon DEF ApplyNext
<1>3. /\ saved[n] \in RTerms /\ commits[saved[n]] \in Index /\ done[n] + 1 \in Index
      /\ done[n] + 1 <= commits[saved[n]] /\ acked \in Nat /\ done[n] \in Nat
  BY <1>1, <1>2, Numbers, ReadIndexAssumption DEF RaftTyped, Index
<1>4. /\ acked' \in Index /\ acked <= acked'
      /\ acked' = acked \/ (lead[n] # 0 /\ acked' = done[n] + 1)
  <2>1. CASE lead[n] = 0
    BY <1>1, <1>2, <1>3, <2>1 DEF RaftTyped
  <2>2. CASE lead[n] # 0
    <3> DEFINE S == {acked, done[n] + 1}
               b == acked + done[n] + 1
    <3>1. b \in Nat /\ S \subseteq 0..b /\ S # {} /\ acked' = Max(S)
      BY <1>2, <1>3, <2>2
    <3>2. acked' \in S /\ \A y \in S : y <= acked'
      <4> HIDE DEF S, b
      <4> QED
        BY <3>1, LargestNat, Zenon
    <3> QED
      BY <1>1, <1>3, <2>2, <3>2, ZenonT(30) DEF RaftTyped
  <2> QED
    BY <2>1, <2>2, Zenon
<1>5. /\ \A v \in Voters : done'[v] = IF v = n THEN done[v] + 1 ELSE done[v]
      /\ Started' = Started /\ \A u : Knows(u)' = Knows(u)
  BY <1>1, <1>2, Zenon DEF RaftTyped, Started, Knows
<1>6. RaftTyped'
  BY <1>1, <1>2, <1>3, <1>4, Zenon DEF RaftTyped
<1>7. Leading'
  BY <1>1, <1>2, <1>5, Zenon DEF Leading
<1>8. Quorums'
  BY <1>1, <1>2, <1>5, Zenon DEF Quorums, Majority
<1>9. Marks'
  BY <1>1, <1>2, ZenonT(30) DEF Marks
<1>10. \A v \in Voters : done[v] <= done'[v] /\ done[v] \in Nat /\ done'[v] \in Nat
  BY <1>1, <1>5, Numbers
<1>11. Logs'
  <2>1. \E t \in RTerms : acked' <= commits[t]
    BY <1>1, <1>3, <1>4, Zenon DEF Logs
  <2>2. config = Sole => acked' <= done'[Founder]
    <3> SUFFICES ASSUME config = Sole PROVE acked' <= done'[Founder]
      BY Zenon
    <3>1. lead[n] # 0 => n = Founder
      BY <1>1, Zenon DEF Marks, Leading
    <3>2. acked <= done[Founder] /\ done[Founder] \in Nat /\ done'[Founder] \in Nat
          /\ done[Founder] <= done'[Founder]
      BY <1>1, <1>10, ReadIndexAssumption, Zenon DEF Logs
    <3> QED
      BY <1>3, <1>4, <1>5, <3>1, <3>2
  <2>3. ASSUME NEW v \in Voters, lead[v] # 0
        PROVE  acked' < start[lead[v]] \/ acked' <= done'[v] \/ \E u \in Started : u > lead[v]
    <3>1. lead[v] \in RTerms /\ lead[v] \in Nat /\ start[lead[v]] \in Nat /\ lead[v] \in Started
      BY <1>1, <2>3, Numbers, ZenonT(30) DEF Leading
    <3>2. CASE acked' = acked
      BY <1>1, <1>3, <1>10, <2>3, <3>2, SMTT(30) DEF Logs
    <3>3. CASE lead[n] # 0 /\ acked' = done[n] + 1
      <4>1. lead[n] \in Started /\ lead[n] = saved[n] /\ granted[n] = n /\ lead[n] \in Nat
        BY <1>1, <3>3, Numbers, Zenon DEF Leading
      <4>2. CASE lead[n] = lead[v]
        <5>1. n = v
          BY <1>1, <2>3, <3>3, <4>1, <4>2, SMTT(30) DEF Leading
        <5> QED
          BY <1>5, <1>10, <3>3, <5>1, SMTT(30)
      <4>3. CASE lead[n] < lead[v]
        <5>1. commits[lead[n]] < start[lead[v]]
          BY <1>1, <1>3, <3>1, <4>1, <4>3, Zenon DEF Logs
        <5> QED
          BY <1>1, <1>3, <3>1, <3>3, <4>1, <5>1, Numbers, SMTT(30)
      <4>4. CASE lead[n] > lead[v]
        BY <4>1, <4>4, ZenonT(30)
      <4> QED
        BY <3>1, <4>1, <4>2, <4>3, <4>4
    <3> QED
      BY <1>4, <3>2, <3>3, Zenon
  <2> QED
    BY <1>1, <1>2, <1>5, <2>1, <2>2, <2>3, Zenon DEF Logs
<1>12. Forward
  BY <1>1, <1>2, <1>4, <1>10, Numbers DEF Forward
<1> QED
  BY <1>6, <1>7, <1>8, <1>9, <1>11, <1>12, Zenon DEF RaftInv

----------------------------------------------------------------------------
(* The numbers of the rounds and of the reads. *)
LEMMA ReadNumbers ==
  ASSUME ReadTyped, RaftTyped
  PROVE  /\ \A r \in Reads : /\ read[r].at \in Voters /\ read[r].need \in Nat /\ read[r].arrival \in Nat
                             /\ read[r].index \in Nat
         /\ \A n \in Voters : /\ rounds[n].started \in Nat /\ rounds[n].last \in Nat /\ rounds[n].index \in Nat
                              /\ round[n].term \in Nat /\ round[n].config \in Memberships
                              /\ round[n].confirmed \in SUBSET Voters /\ round[n].index \in Nat
<1>1. \A i \in Index : i \in Nat
  BY ReadIndexAssumption DEF Index
<1>2. \A t \in Terms : t \in Nat
  BY ReadIndexAssumption DEF Terms
<1>3. \A r \in Reads : /\ read[r].at \in Voters /\ read[r].need \in Index /\ read[r].arrival \in Nat
                       /\ read[r].index \in Nat
  BY Zenon DEF ReadTyped, Read
<1>4. \A n \in Voters : /\ rounds[n].started \in Nat /\ rounds[n].last \in Nat /\ rounds[n].index \in Nat
                        /\ round[n].term \in Terms /\ round[n].config \in Memberships
                        /\ round[n].confirmed \in SUBSET Voters /\ round[n].index \in Nat
  BY Zenon DEF ReadTyped, Round
<1> QED
  BY <1>1, <1>2, <1>3, <1>4, Zenon

(* What a read was promised stays promised as Raft goes on. *)
LEMMA PromisesKept ==
  ASSUME RaftTyped, RaftTyped', ReadTyped, Forward
  PROVE  /\ \A r \in Reads, i \in Nat : read[r].need <= i \/ read[r].need <= done[read[r].at]
                           => read[r].need <= i \/ read[r].need <= done'[read[r].at]
         /\ \A n \in Voters : Blocked(round[n]) =>
              \E H \in SUBSET Voters :
                /\ H \cap round[n].confirmed = {} /\ \A m \in H : saved'[m] > round[n].term
                /\ (round[n].config # Uniform /\ Founder \in H) \/ (round[n].config # Sole /\ Majority(H))
<1>1. \A v \in Voters : /\ saved[v] <= saved'[v] /\ done[v] <= done'[v]
                        /\ saved[v] \in Nat /\ saved'[v] \in Nat /\ done[v] \in Nat /\ done'[v] \in Nat
  <2>1. \A v \in Voters : saved[v] \in Terms /\ saved'[v] \in Terms /\ done[v] \in Index /\ done'[v] \in Index
    BY Zenon DEF RaftTyped
  <2>2. \A v \in Voters : saved[v] <= saved'[v] /\ done[v] <= done'[v]
    BY Zenon DEF Forward
  <2> QED
    BY <2>1, <2>2, ReadIndexAssumption DEF Terms, Index
<1>2. ASSUME NEW r \in Reads, NEW i \in Nat, read[r].need <= done[read[r].at]
      PROVE  read[r].need <= done'[read[r].at]
  <2>1. read[r].at \in Voters /\ read[r].need \in Nat
    BY ReadNumbers, Zenon
  <2> QED
    BY <1>1, <1>2, <2>1
<1>3. ASSUME NEW n \in Voters, NEW m \in Voters, saved[m] > round[n].term
      PROVE  saved'[m] > round[n].term
  <2>1. round[n].term \in Nat
    BY ReadNumbers, Zenon
  <2> QED
    BY <1>1, <1>3, <2>1
<1>4. ASSUME NEW n \in Voters, Blocked(round[n])
      PROVE  \E H \in SUBSET Voters :
                /\ H \cap round[n].confirmed = {} /\ \A m \in H : saved'[m] > round[n].term
                /\ (round[n].config # Uniform /\ Founder \in H) \/ (round[n].config # Sole /\ Majority(H))
  <2>1. PICK H \in SUBSET Voters :
          /\ H \cap round[n].confirmed = {} /\ \A m \in H : saved[m] > round[n].term
          /\ (round[n].config # Uniform /\ Founder \in H) \/ (round[n].config # Sole /\ Majority(H))
    BY <1>4, Zenon DEF Blocked
  <2>2. \A m \in H : saved'[m] > round[n].term
    BY <1>3, <2>1, Zenon
  <2> QED
    BY <2>1, <2>2, Zenon
<1> QED
  BY <1>2, <1>4, ZenonT(30)

(* The steps of Raft leave the reads' part of the invariant. *)
LEMMA RaftStep ==
  ASSUME RIInv, RaftInv', Forward, UNCHANGED <<rounds, round, read>>
  PROVE  RIInv'
<1>1. RaftTyped /\ RaftTyped' /\ ReadTyped /\ Rounded /\ Waiting
  BY Zenon DEF RIInv, RaftInv
<1>2. rounds' = rounds /\ round' = round /\ read' = read
  BY Zenon
<1>3. \A r \in Reads, i \in Nat : Reflects(r, i) => Reflects(r, i)'
  BY <1>1, <1>2, PromisesKept, Zenon DEF Reflects
<1>4. \A n \in Voters : Blocked(round[n]) => Blocked(round[n])'
  BY <1>1, <1>2, PromisesKept, Zenon DEF Blocked, Majority
<1>5. /\ \A r \in Reads : read[r].index \in Nat /\ read[r].at \in Voters /\ read[r].need \in Nat
      /\ \A n \in Voters : rounds[n].index \in Nat /\ round[n].index \in Nat
  BY <1>1, ReadNumbers, Zenon
<1>6. acked <= acked' /\ acked \in Nat /\ acked' \in Nat
  <2>1. acked \in Index /\ acked' \in Index
    BY <1>1, Zenon DEF RaftTyped
  <2> QED
    BY <2>1, ReadIndexAssumption DEF Forward, Index
<1>7. ReadTyped'
  BY <1>1, <1>2, Zenon DEF ReadTyped
<1>8. Rounded'
  <2>1. \A r, n : Waits(r, n)' <=> Waits(r, n)
    BY <1>2, Zenon DEF Waits
  <2> QED
    BY <1>1, <1>2, <1>3, <1>4, <1>5, <2>1, ZenonT(30) DEF Rounded, NoRound
<1>9. Waiting'
  <2>1. \A r \in Reads : read[r].need <= acked => read[r].need <= acked'
    BY <1>5, <1>6
  <2>2. \A n, a : Joins(n, a)' <=> Joins(n, a)
    BY <1>2, Zenon DEF Joins
  <2> QED
    BY <1>1, <1>2, <1>3, <1>5, <2>1, <2>2, ZenonT(30) DEF Waiting, Held
<1> QED
  BY <1>7, <1>8, <1>9, Zenon DEF RIInv

(* The steps of the barrier leave Raft's part of the invariant. *)
LEMMA RaftSame ==
  ASSUME RaftInv, UNCHANGED riRaft
  PROVE  RaftInv'
<1>1. /\ saved' = saved /\ granted' = granted /\ lead' = lead /\ shownTerm' = shownTerm /\ shown' = shown
      /\ config' = config /\ mark' = mark /\ start' = start /\ commits' = commits /\ done' = done
      /\ acked' = acked
  BY Zenon DEF riRaft
<1>2. RaftTyped /\ Leading /\ Quorums /\ Marks /\ Logs
  BY Zenon DEF RaftInv
<1>3. Started' = Started /\ \A u : Knows(u)' = Knows(u)
  BY <1>1, Zenon DEF Started, Knows
<1>4. RaftTyped'
  BY <1>1, <1>2, Zenon DEF RaftTyped
<1>5. Leading'
  BY <1>1, <1>2, <1>3, Zenon DEF Leading
<1>6. Quorums'
  BY <1>1, <1>2, <1>3, Zenon DEF Quorums, Majority
<1>7. Marks'
  BY <1>1, <1>2, Zenon DEF Marks
<1>8. Logs'
  BY <1>1, <1>2, <1>3, Zenon DEF Logs
<1> QED
  BY <1>4, <1>5, <1>6, <1>7, <1>8, Zenon DEF RaftInv

(***************************************************************************)
(* The steps of the read barrier keep the invariant.                       *)
(***************************************************************************)

(* A read stays as it is, with the rounds of its member. *)
LEMMA HeldKept ==
  ASSUME NEW q, Held(q), read'[q] = read[q], rounds'[read[q].at] = rounds[read[q].at],
         round'[read[q].at] = round[read[q].at], done' = done, acked' = acked
  PROVE  Held(q)'
BY Zenon DEF Held, Reflects, Joins

(* A read that no round is for moves on. *)
LEMMA ReadMoves ==
  ASSUME RIInv, UNCHANGED riRaft, UNCHANGED <<rounds, round>>, NEW r \in Reads, NEW y \in Read,
         read' = [read EXCEPT ![r] = y], read[r].pc # "round",
         y.pc \in {"queue", "apply", "served", "raft"}, y.need <= acked,
         y.pc = "queue" => y.arrival = rounds[y.at].started,
         y.pc = "apply" => y.need <= y.index \/ y.need <= done[y.at],
         y.pc = "served" => y.index >= y.need
  PROVE  RIInv'
<1>1. RaftInv /\ RaftTyped /\ ReadTyped /\ Rounded /\ Waiting
  BY Zenon DEF RIInv, RaftInv
<1>2. rounds' = rounds /\ round' = round /\ done' = done /\ acked' = acked /\ saved' = saved
  BY Zenon DEF riRaft
<1>3. \A q \in Reads : read'[q] = IF q = r THEN y ELSE read[q]
  BY <1>1, Zenon DEF ReadTyped
<1>4. ReadTyped'
  BY <1>1, <1>2, Zenon DEF ReadTyped
<1>5. \A n \in Voters : rounds[n].last <= rounds[n].started /\ rounds[n].last \in Nat /\ rounds[n].started \in Nat
  BY <1>1, ReadNumbers, Zenon DEF Rounded
<1>6. \A n \in Voters : Blocked(round[n])' <=> Blocked(round[n])
  BY <1>2, Zenon DEF Blocked, Majority
<1>7. y.at \in Voters /\ y.pc # "round"
  BY Zenon DEF Read
<1>8. Rounded'
  <2> SUFFICES ASSUME NEW n \in Voters, round[n] # NoRound
               PROVE  /\ round[n].by \in Reads /\ read'[round[n].by].at = n /\ read'[round[n].by].pc = "round"
                      /\ \A q \in Reads : Waits(q, n)' => Reflects(q, round[n].index)' \/ Blocked(round[n])
    BY <1>2, <1>5, <1>6, ZenonT(30) DEF Rounded, NoRound
  <2>1. round[n].by \in Reads /\ read[round[n].by].at = n /\ read[round[n].by].pc = "round"
    BY <1>1, Zenon DEF Rounded
  <2>2. ASSUME NEW q \in Reads, Waits(q, n)' PROVE Reflects(q, round[n].index)' \/ Blocked(round[n])
    <3>1. CASE q = r
      <4>1. y.at = n /\ y.pc = "queue" /\ y.arrival < rounds[n].started
        BY <1>2, <1>3, <1>7, <2>2, <3>1, Zenon DEF Waits
      <4> QED
        BY <1>5, <4>1
    <3>2. CASE q # r
      <4>1. Waits(q, n) /\ read'[q] = read[q]
        BY <1>2, <1>3, <2>2, <3>2, Zenon DEF Waits
      <4> QED
        BY <1>1, <1>2, <4>1, Zenon DEF Rounded, Reflects
    <3> QED
      BY <3>1, <3>2, Zenon
  <2> QED
    BY <1>3, <2>1, <2>2, Zenon
<1>9. Waiting'
  <2> SUFFICES ASSUME NEW q \in Reads PROVE Held(q)'
    BY Zenon DEF Waiting
  <2>1. CASE q = r
    <3>1. read'[q] = y
      BY <1>3, <2>1, Zenon
    <3>2. y.pc = "queue" => y.arrival <= rounds[y.at].started /\ ~(rounds[y.at].last > y.arrival)
      BY <1>5, <1>7
    <3> QED
      BY <1>2, <1>7, <3>1, <3>2, Zenon DEF Held, Reflects, Joins
  <2>2. CASE q # r
    <3>1. read'[q] = read[q]
      BY <1>3, <2>2, Zenon
    <3> QED
      BY <1>1, <1>2, <3>1, HeldKept, Zenon DEF Waiting
  <2> QED
    BY <2>1, <2>2, Zenon
<1>10. RaftInv'
  BY <1>1, RaftSame, Zenon
<1> QED
  BY <1>4, <1>8, <1>9, <1>10, Zenon DEF RIInv

(* A read begins, joins a round that ended, is served, or is given up. *)
LEMMA ReadStepsInv ==
  ASSUME RIInv, NEW r \in Reads,
         (\E n \in Voters : ReadBegin(r, n)) \/ JoinRound(r) \/ ServeRead(r) \/ GiveUp(r)
  PROVE  RIInv'
<1> DEFINE x == read[r]
<1>1. RaftInv /\ RaftTyped /\ Leading /\ Marks /\ Logs /\ ReadTyped /\ Rounded /\ Waiting
  BY Zenon DEF RIInv, RaftInv
<1>2. /\ x \in Read /\ x.at \in Voters /\ x.need \in Nat /\ x.need \in Index /\ x.arrival \in Nat
      /\ x.index \in Nat /\ x.need <= acked
  <2>1. x \in Read
    BY <1>1, Zenon DEF ReadTyped
  <2>2. x.need <= acked
    BY <1>1, ZenonT(30) DEF Waiting, Held
  <2> QED
    BY <2>1, <2>2 DEF Read, Index
<1>3. acked \in Index /\ acked \in Nat /\ 0 \in Index /\ Founder \in Voters
  BY <1>1, Numbers, ReadIndexAssumption, SMTT(30) DEF RaftTyped, Index
<1>4. ThroughRaft \in Read /\ ThroughRaft.pc = "raft" /\ ThroughRaft.need <= acked
  <2>1. ThroughRaft = [pc |-> "raft", at |-> Founder, need |-> 0, arrival |-> 0, index |-> 0]
    BY DEF ThroughRaft, NotBegun
  <2> QED
    BY <1>3, <2>1 DEF Read
<1> HIDE DEF x
<1>5. CASE \E n \in Voters : ReadBegin(r, n)
  <2>1. PICK n \in Voters : ReadBegin(r, n)
    BY <1>5, Zenon
  <2>2. /\ x.pc = "none" /\ shownTerm[n] # 0 /\ UNCHANGED riRaft /\ UNCHANGED <<rounds, round>>
    BY <2>1, Zenon DEF ReadBegin, MayLead, x
  <2>3. shownTerm[n] \in RTerms /\ start[shownTerm[n]] \in Nat /\ rounds[n].started \in Nat
    <3>1. shownTerm[n] \in Terms
      BY <1>1, Zenon DEF RaftTyped
    <3>2. shownTerm[n] \in RTerms
      BY <2>2, <3>1 DEF Terms, RTerms
    <3> QED
      BY <1>1, <3>2, Numbers, ReadNumbers, Zenon
  <2>4. CASE SoleVoter(n)
    <3> DEFINE y == [pc |-> "apply", at |-> n, need |-> acked, arrival |-> 0, index |-> start[shownTerm[n]]]
    <3>1. read' = [read EXCEPT ![r] = y]
      BY <2>1, <2>4, Zenon DEF ReadBegin
    <3>2. y \in Read /\ y.pc = "apply" /\ y.need = acked /\ y.at = n /\ y.index = start[shownTerm[n]]
      BY <1>3, <2>3, Zenon DEF Read
    <3>3. n = Founder /\ mark[n] <= Sole
      BY <1>1, <2>4, <1>3, ZenonT(30) DEF SoleVoter, Current, Marks, RaftTyped, Memberships
    <3>4. config = Sole
      BY <1>1, <1>3, <3>3 DEF Marks, RaftTyped, Memberships
    <3>5. acked <= done[n]
      BY <1>1, <3>3, <3>4, Zenon DEF Logs
    <3> HIDE DEF y
    <3> QED
      <4>1. y.need <= acked /\ (y.need <= y.index \/ y.need <= done[y.at])
        BY <1>3, <3>2, <3>5
      <4>2. read[r].pc # "round" /\ UNCHANGED riRaft /\ UNCHANGED <<rounds, round>>
        BY <2>2, Zenon DEF x
      <4> QED
        BY <3>1, <3>2, <4>1, <4>2, ReadMoves, ZenonT(30)
  <2>5. CASE ~SoleVoter(n)
    <3> DEFINE y == [pc |-> "queue", at |-> n, need |-> acked, arrival |-> rounds[n].started, index |-> NoIndex]
    <3>1. read' = [read EXCEPT ![r] = y]
      BY <2>1, <2>5, Zenon DEF ReadBegin
    <3>2. y \in Read /\ y.pc = "queue" /\ y.need = acked /\ y.at = n /\ y.arrival = rounds[n].started
      BY <1>3, <2>3, Zenon DEF Read
    <3> HIDE DEF y
    <3> QED
      <4>1. y.need <= acked /\ y.arrival = rounds[y.at].started
        BY <1>3, <3>2
      <4>2. read[r].pc # "round" /\ UNCHANGED riRaft /\ UNCHANGED <<rounds, round>>
        BY <2>2, Zenon DEF x
      <4> QED
        BY <3>1, <3>2, <4>1, <4>2, ReadMoves, ZenonT(30)
  <2> QED
    BY <2>4, <2>5, Zenon
<1>6. CASE JoinRound(r)
  <2> DEFINE i == rounds[x.at].index
             y == Confirmed(x, i)
  <2>1. /\ x.pc = "queue" /\ Joins(x.at, x.arrival) /\ UNCHANGED riRaft /\ UNCHANGED <<rounds, round>>
        /\ read' = [read EXCEPT ![r] = y]
    BY <1>6, Zenon DEF JoinRound, x
  <2>2. i \in Nat
    BY <1>1, <1>2, ReadNumbers, Zenon
  <2>3. i # NoIndex => x.need <= i \/ x.need <= done[x.at]
    BY <1>1, <2>1, Zenon DEF Waiting, Held, Reflects, x
  <2> HIDE DEF i
  <2>4. CASE i = NoIndex
    BY <1>4, <2>1, <2>4, ReadMoves, Zenon DEF Confirmed, x
  <2>5. CASE i # NoIndex
    <3>1. y = [x EXCEPT !.pc = "apply", !.index = i]
      BY <2>5, Zenon DEF Confirmed
    <3>2. y \in Read /\ y.pc = "apply" /\ y.index = i /\ y.need = x.need /\ y.at = x.at
      BY <1>2, <2>2, <3>1, Zenon DEF Read
    <3> HIDE DEF y
    <3> QED
      BY <1>2, <2>1, <2>3, <2>5, <3>2, ReadMoves, ZenonT(30) DEF x
  <2> QED
    BY <2>4, <2>5, Zenon
<1>7. CASE ServeRead(r)
  <2> DEFINE y == Served(x, done[x.at])
  <2>1. /\ x.pc = "apply" /\ done[x.at] >= x.index /\ UNCHANGED riRaft /\ UNCHANGED <<rounds, round>>
        /\ read' = [read EXCEPT ![r] = y]
    BY <1>7, Zenon DEF ServeRead, x
  <2>2. done[x.at] \in Nat
    BY <1>1, <1>2, Numbers, Zenon
  <2>3. NotBegun \in Read
    BY <1>3, Zenon DEF NotBegun, Read
  <2>4. y \in Read /\ y.pc = "served" /\ y.need = x.need /\ y.index = done[x.at]
    BY <1>2, <1>3, <2>2, <2>3, Zenon DEF Read, Served
  <2>5. x.need <= x.index \/ x.need <= done[x.at]
    BY <1>1, <2>1, ZenonT(30) DEF Waiting, Held, Reflects, x
  <2>6. done[x.at] >= x.need
    BY <1>2, <2>1, <2>2, <2>5
  <2> HIDE DEF y
  <2> QED
    BY <1>2, <2>1, <2>4, <2>6, ReadMoves, Zenon DEF x
<1>8. CASE GiveUp(r)
  <2>1. /\ x.pc = "apply" /\ UNCHANGED riRaft /\ UNCHANGED <<rounds, round>>
        /\ read' = [read EXCEPT ![r] = ThroughRaft]
    BY <1>8, Zenon DEF GiveUp, x
  <2> QED
    BY <1>4, <2>1, ReadMoves, Zenon DEF x
<1> QED
  BY <1>5, <1>6, <1>7, <1>8, Zenon

(* A round that begins while a newer term was started has no quorum to     *)
(* come, and one that does not covers every read that waits for it.        *)
LEMMA RoundCovers ==
  ASSUME RIInv, NEW n \in Voters, LocalIndex(n) # NoIndex, NEW rd,
         rd.confirmed = {n}, rd.config = shown[n], rd.term = shownTerm[n]
  PROVE  /\ LocalIndex(n) \in Nat /\ shownTerm[n] \in Terms
         /\ Blocked(rd) \/ \A need \in Nat : need <= acked => need <= LocalIndex(n) \/ need <= done[n]
<1> DEFINE t == shownTerm[n]
<1>1. RaftTyped /\ Leading /\ Quorums /\ Marks /\ Logs
  BY Zenon DEF RIInv, RaftInv
<1>2. t # 0 /\ shown[n] >= mark[n] /\ saved[n] = t /\ LocalIndex(n) = start[t]
  BY Zenon DEF LocalIndex, MayLead, Current
<1>3. lead[n] = t /\ t \in RTerms /\ t \in Terms /\ t \in Nat /\ start[t] \in Nat /\ acked \in Nat /\ done[n] \in Nat
  BY <1>1, <1>2, Numbers, Zenon DEF Leading, RaftTyped
<1> HIDE DEF t
<1>4. acked < start[t] \/ acked <= done[n] \/ \E u \in Started : u > t
  BY <1>1, <1>2, <1>3, ZenonT(30) DEF Logs
<1>5. CASE acked < start[t] \/ acked <= done[n]
  BY <1>2, <1>3, <1>5 DEF t
<1>6. CASE \E u \in Started : u > t
  <2>1. PICK u \in Started : u > t
    BY <1>6, Zenon
  <2> DEFINE H == Knows(u)
  <2>2. u \in Nat /\ H \in SUBSET Voters /\ \A m \in H : m \in Voters /\ saved[m] \in Nat /\ saved[m] >= u
    BY <1>1, Numbers, Zenon DEF Knows, Started
  <2>3. (config # Uniform => Founder \in H) /\ (config = Uniform => Majority(H))
    BY <1>1, Zenon DEF Quorums
  <2> HIDE DEF H
  <2>4. \A m \in H : saved[m] > t
    BY <1>3, <2>1, <2>2, SMTT(30)
  <2>5. H \cap rd.confirmed = {}
    BY <1>2, <1>3, <2>4, SMTT(30)
  <2>6. shown[n] <= mark[n] /\ mark[n] <= config /\ shown[n] \in 0..2 /\ mark[n] \in 0..2 /\ config \in 0..2
    BY <1>1 DEF Marks, RaftTyped, Memberships
  <2>7. (rd.config # Uniform /\ Founder \in H) \/ (rd.config # Sole /\ Majority(H))
    <3>1. CASE config = Uniform
      <4>1. mark[n] # Sole
        BY <1>1, <1>2, <1>3, <3>1, SMTT(30) DEF Marks
      <4> QED
        BY <1>2, <2>3, <2>6, <3>1, <4>1, SMTT(30)
    <3>2. CASE config # Uniform
      BY <2>3, <2>6, <3>2
    <3> QED
      BY <3>1, <3>2, ZenonT(30)
  <2>8. Blocked(rd)
    BY <2>2, <2>4, <2>5, <2>7, Zenon DEF Blocked, t
  <2> QED
    BY <1>2, <1>3, <2>8, Zenon DEF t
<1> QED
  BY <1>4, <1>5, <1>6, Zenon

(* A round begins. *)
LEMMA BeginRoundInv ==
  ASSUME RIInv, NEW r \in Reads, BeginRound(r)
  PROVE  RIInv'
<1> DEFINE x == read[r]
           n == x.at
           i == LocalIndex(n)
<1>1. RaftInv /\ RaftTyped /\ ReadTyped /\ Rounded /\ Waiting
  BY Zenon DEF RIInv, RaftInv
<1>2. x \in Read /\ n \in Voters /\ x.need \in Nat /\ x.need <= acked
  <2>1. x.need <= acked
    BY <1>1, Zenon DEF Waiting, Held
  <2> QED
    BY <1>1, <2>1, ReadNumbers, Zenon DEF ReadTyped
<1>3. x.pc = "queue" /\ round[n] = NoRound /\ UNCHANGED riRaft
  BY Zenon DEF BeginRound, RoundsFree
<1>4. /\ done' = done /\ acked' = acked /\ saved' = saved /\ RaftInv'
  BY <1>1, <1>3, RaftSame, Zenon DEF riRaft
<1>5. rounds[n].started \in Nat /\ rounds[n].last \in Nat /\ rounds[n].index \in Nat
      /\ rounds[n] \in [started : Nat, last : Nat, index : Nat]
  BY <1>1, <1>2, ReadNumbers, Zenon DEF ReadTyped
<1>6. \A q \in Reads : read[q].pc = "round" => read[q].at # n
  <2>1. NoRound.by \notin Reads
    BY ReadIndexAssumption, Zenon DEF NoRound
  <2> QED
    BY <1>1, <1>3, <2>1, Zenon DEF Waiting, Held
<1>7. CASE i = NoIndex
  <2>1. /\ rounds' = [rounds EXCEPT ![n] = [started |-> @.started + 1, last |-> @.started + 1, index |-> NoIndex]]
        /\ read' = [read EXCEPT ![r] = ThroughRaft] /\ round' = round
    BY <1>7, Zenon DEF BeginRound
  <2>2. ThroughRaft \in Read /\ ThroughRaft.pc = "raft" /\ ThroughRaft.need <= acked
    <3>1. ThroughRaft = [pc |-> "raft", at |-> Founder, need |-> 0, arrival |-> 0, index |-> 0]
      BY DEF ThroughRaft, NotBegun
    <3>2. acked \in Nat /\ 0 \in Index /\ Founder \in Voters
      BY <1>1, Numbers, ReadIndexAssumption DEF Index
    <3> QED
      BY <3>1, <3>2 DEF Read
  <2> HIDE DEF n, i, x
  <2>3. /\ \A v \in Voters : v # n => rounds'[v] = rounds[v]
        /\ rounds'[n].started = rounds[n].started + 1 /\ rounds'[n].last = rounds[n].started + 1
        /\ rounds'[n].index = NoIndex
        /\ \A q \in Reads : read'[q] = IF q = r THEN ThroughRaft ELSE read[q]
    BY <1>1, <1>2, <2>1, ZenonT(30) DEF ReadTyped
  <2>4. ReadTyped'
    BY <1>1, <1>2, <1>5, <2>1, <2>2, SMTT(30) DEF ReadTyped
  <2>5. \A v \in Voters : Blocked(round[v])' <=> Blocked(round[v])
    BY <1>4, <2>1, Zenon DEF Blocked, Majority
  <2>6. Rounded'
    <3> SUFFICES ASSUME NEW v \in Voters
                 PROVE  /\ rounds'[v].last <= rounds'[v].started
                        /\ round[v] # NoRound =>
                             /\ round[v].by \in Reads /\ read'[round[v].by].at = v /\ read'[round[v].by].pc = "round"
                             /\ \A q \in Reads : Waits(q, v)' => Reflects(q, round[v].index)' \/ Blocked(round[v])
      BY <2>1, <2>5, Zenon DEF Rounded, NoRound
    <3>1. CASE v = n
      <4>1. round[v] = NoRound /\ rounds'[v].last <= rounds'[v].started
        BY <1>3, <1>5, <2>3, <3>1 DEF n, x
      <4> QED
        BY <4>1, ZenonT(30)
    <3>2. CASE v # n
      <4>1. rounds'[v] = rounds[v] /\ rounds[v].last <= rounds[v].started
        BY <1>1, <2>3, <3>2, Zenon DEF Rounded
      <4>2. ASSUME round[v] # NoRound
            PROVE  /\ round[v].by \in Reads /\ read'[round[v].by].at = v /\ read'[round[v].by].pc = "round"
                   /\ \A q \in Reads : Waits(q, v)' => Reflects(q, round[v].index)' \/ Blocked(round[v])
        <5>1. round[v].by \in Reads /\ read[round[v].by].at = v /\ read[round[v].by].pc = "round"
          BY <1>1, <4>2, Zenon DEF Rounded
        <5>2. ASSUME NEW q \in Reads, Waits(q, v)' PROVE Reflects(q, round[v].index)' \/ Blocked(round[v])
          <6>1. read'[q] = read[q]
            BY <2>2, <2>3, <5>2, Zenon DEF Waits
          <6>2. Waits(q, v)
            BY <4>1, <5>2, <6>1, Zenon DEF Waits
          <6> QED
            BY <1>1, <1>4, <2>1, <4>2, <6>1, <6>2, ZenonT(30) DEF Rounded, Reflects
        <5> QED
          BY <1>3, <2>3, <5>1, <5>2, Zenon DEF x
      <4> QED
        BY <4>1, <4>2, Zenon
    <3> QED
      BY <3>1, <3>2, Zenon
  <2>7. Waiting'
    <3> SUFFICES ASSUME NEW q \in Reads PROVE Held(q)'
      BY Zenon DEF Waiting
    <3>1. CASE q = r
      BY <1>4, <2>2, <2>3, <3>1, Zenon DEF Held
    <3>2. CASE q # r
      <4>1. read'[q] = read[q] /\ read[q].at \in Voters /\ read[q].arrival \in Nat
        BY <1>1, <2>3, <3>2, ReadNumbers, Zenon
      <4>2. Held(q)
        BY <1>1, Zenon DEF Waiting
      <4>3. CASE read[q].at = n
        <5>1. read[q].pc = "queue" => read[q].arrival <= rounds[n].started
          BY <4>2, <4>3, Zenon DEF Held
        <5>2. read[q].pc = "queue" => read[q].arrival <= rounds'[n].started
          BY <1>5, <2>3, <4>1, <5>1
        <5> QED
          BY <1>4, <1>6, <2>3, <4>1, <4>2, <4>3, <5>2, ZenonT(30) DEF Held, Reflects
      <4>4. CASE read[q].at # n
        BY <1>4, <2>1, <2>3, <4>1, <4>2, <4>4, HeldKept, ZenonT(30)
      <4> QED
        BY <4>3, <4>4, Zenon
    <3> QED
      BY <3>1, <3>2, Zenon
  <2> QED
    BY <1>4, <2>4, <2>6, <2>7, Zenon DEF RIInv
<1>8. CASE i # NoIndex
  <2> DEFINE rd == [by |-> r, confirmed |-> {n}, config |-> shown[n], term |-> shownTerm[n], index |-> i]
             y == [x EXCEPT !.pc = "round"]
  <2>1. /\ rounds' = [rounds EXCEPT ![n].started = @ + 1] /\ round' = [round EXCEPT ![n] = rd]
        /\ read' = [read EXCEPT ![r] = y]
    BY <1>8, Zenon DEF BeginRound
  <2>2. /\ rd.by = r /\ rd.confirmed = {n} /\ rd.config = shown[n] /\ rd.term = shownTerm[n] /\ rd.index = i
    BY Zenon
  <2>3. /\ i \in Nat /\ shownTerm[n] \in Terms
        /\ Blocked(rd) \/ \A need \in Nat : need <= acked => need <= i \/ need <= done[n]
    BY <1>2, <1>8, <2>2, RoundCovers, Zenon
  <2>4. rd \in Round /\ rd # NoRound
    <3>1. shown[n] \in Memberships
      BY <1>1, <1>2, Zenon DEF RaftTyped
    <3> QED
      <4>1. n \in Voters /\ r \in Reads /\ r # NoRead /\ {n} \in SUBSET Voters
        BY <1>2, ReadIndexAssumption, Zenon
      <4>2. rd # NoRound
        BY <2>2, <4>1, Zenon DEF NoRound
      <4> QED
        BY <2>3, <3>1, <4>1, <4>2, Zenon DEF Round
  <2>5. y \in Read /\ y.pc = "round" /\ y.at = n /\ y.need = x.need
    BY <1>2, Zenon DEF Read
  <2> HIDE DEF n, i, x, y, rd
  <2>6. /\ \A v \in Voters : v # n => rounds'[v] = rounds[v] /\ round'[v] = round[v]
        /\ rounds'[n].started = rounds[n].started + 1 /\ rounds'[n].last = rounds[n].last
        /\ rounds'[n].index = rounds[n].index /\ round'[n] = rd
        /\ \A q \in Reads : read'[q] = IF q = r THEN y ELSE read[q]
    BY <1>1, <1>2, <1>5, <2>1, Zenon DEF ReadTyped
  <2>7. ReadTyped'
    <3>1. rounds' \in [Voters -> [started : Nat, last : Nat, index : Nat]]
      BY <1>1, <1>2, <1>5, <2>1 DEF ReadTyped
    <3> QED
      BY <1>1, <2>1, <2>4, <2>5, <3>1, Zenon DEF ReadTyped
  <2>8. /\ \A v \in Voters : Blocked(round[v])' <=> \E H \in SUBSET Voters :
             /\ H \cap round'[v].confirmed = {} /\ \A m \in H : saved[m] > round'[v].term
             /\ (round'[v].config # Uniform /\ Founder \in H) \/ (round'[v].config # Sole /\ Majority(H))
    BY <1>4, Zenon DEF Blocked, Majority
  <2>9. \A v \in Voters : Blocked(round'[v]) => Blocked(round[v])'
    BY <2>8, Zenon DEF Blocked
  <2>10. Rounded'
    <3> SUFFICES ASSUME NEW v \in Voters
                 PROVE  /\ rounds'[v].last <= rounds'[v].started
                        /\ round'[v] # NoRound =>
                             /\ round'[v].by \in Reads /\ read'[round'[v].by].at = v
                             /\ read'[round'[v].by].pc = "round"
                             /\ \A q \in Reads : Waits(q, v)' =>
                                  \/ read'[q].need <= round'[v].index \/ read'[q].need <= done[read'[q].at]
                                  \/ Blocked(round'[v])
      BY <1>4, <2>9, Zenon DEF Rounded, NoRound, Reflects
    <3>1. rounds[v].last <= rounds[v].started
      BY <1>1, Zenon DEF Rounded
    <3>2. CASE v = n
      <4>1. ASSUME NEW q \in Reads, read'[q].at = n
            PROVE  read'[q].need <= i \/ read'[q].need <= done[read'[q].at] \/ Blocked(rd)
        <5>1. read'[q].need \in Nat /\ read'[q].need <= acked
          <6>1. read[q].need \in Nat /\ read[q].need <= acked
            BY <1>1, ReadNumbers, Zenon DEF Waiting, Held
          <6> QED
            BY <1>2, <2>5, <2>6, <6>1, ZenonT(30)
        <5> QED
          BY <2>3, <4>1, <5>1, Zenon
      <4>2. r \in Reads /\ read'[r].at = n /\ read'[r].pc = "round"
        BY <2>5, <2>6, ZenonT(30)
      <4>3. rounds'[n].last <= rounds'[n].started
        BY <1>5, <2>6, <3>1, <3>2, SMTT(30)
      <4> QED
        BY <2>2, <2>6, <3>2, <4>1, <4>2, <4>3, ZenonT(30) DEF Waits
    <3>3. CASE v # n
      <4>1. rounds'[v] = rounds[v] /\ round'[v] = round[v]
        BY <2>6, <3>3, Zenon
      <4>2. ASSUME NEW q \in Reads, read[q].at = v \/ read'[q].at = v PROVE read'[q] = read[q]
        BY <2>5, <2>6, <3>3, <4>2, Zenon DEF n, x
      <4>3. \A q \in Reads : Waits(q, v)' => Waits(q, v) /\ read'[q] = read[q]
        BY <4>1, <4>2, Zenon DEF Waits
      <4> QED
        BY <1>1, <3>1, <4>1, <4>2, <4>3, ZenonT(30) DEF Rounded, Reflects
    <3> QED
      BY <3>2, <3>3, Zenon
  <2>11. Waiting'
    <3> SUFFICES ASSUME NEW q \in Reads PROVE Held(q)'
      BY Zenon DEF Waiting
    <3>1. CASE q = r
      <4>1. read'[q].pc = "round" /\ read'[q].need <= acked' /\ round'[read'[q].at].by = q
        BY <1>2, <1>4, <2>2, <2>5, <2>6, <3>1, ZenonT(30)
      <4> QED
        BY <4>1, Zenon DEF Held
    <3>2. CASE q # r
      <4>1. read'[q] = read[q] /\ read[q].at \in Voters /\ read[q].arrival \in Nat
        BY <1>1, <2>6, <3>2, ReadNumbers, ZenonT(30)
      <4>2. Held(q)
        BY <1>1, Zenon DEF Waiting
      <4>3. CASE read[q].at = n
        <5>1. read[q].pc = "queue" => read[q].arrival <= rounds[n].started
          BY <4>2, <4>3, Zenon DEF Held
        <5>2. read[q].pc = "queue" => read[q].arrival <= rounds'[n].started
          BY <1>5, <2>6, <4>1, <5>1, SMTT(30)
        <5> QED
          BY <1>4, <1>6, <2>6, <4>1, <4>2, <4>3, <5>2, ZenonT(30) DEF Held, Reflects, Joins
      <4>4. CASE read[q].at # n
        BY <1>4, <2>6, <4>1, <4>2, <4>4, HeldKept, ZenonT(30)
      <4> QED
        BY <4>3, <4>4, Zenon
    <3> QED
      BY <3>1, <3>2, Zenon
  <2> QED
    BY <1>4, <2>7, <2>10, <2>11, Zenon DEF RIInv
<1> QED
  BY <1>7, <1>8, Zenon

(* A member confirms: it knows of no newer term, so it is none of those    *)
(* that block the round.                                                   *)
LEMMA ConfirmLeaderInv ==
  ASSUME RIInv, NEW n \in Voters, NEW m \in Voters, ConfirmLeader(n, m)
  PROVE  RIInv'
<1>1. RaftInv /\ RaftTyped /\ ReadTyped /\ Rounded /\ Waiting
  BY Zenon DEF RIInv, RaftInv
<1>2. /\ round[n] # NoRound /\ saved[m] <= round[n].term
      /\ round' = [round EXCEPT ![n].confirmed = @ \cup {m}]
      /\ UNCHANGED riRaft /\ rounds' = rounds /\ read' = read
  BY Zenon DEF ConfirmLeader, Confirms
<1>3. /\ done' = done /\ acked' = acked /\ saved' = saved /\ RaftInv'
  BY <1>1, <1>2, RaftSame, Zenon DEF riRaft
<1>4. round[n] \in Round /\ saved[m] \in Nat /\ round[n].term \in Nat
  BY <1>1, Numbers, ReadNumbers, Zenon DEF ReadTyped
<1>5. /\ \A v \in Voters : v # n => round'[v] = round[v]
      /\ round'[n].by = round[n].by /\ round'[n].term = round[n].term /\ round'[n].config = round[n].config
      /\ round'[n].index = round[n].index /\ round'[n].confirmed = round[n].confirmed \cup {m}
      /\ round'[n] \in Round
  BY <1>1, <1>2, <1>4, Zenon DEF ReadTyped, Round
<1>6. ReadTyped'
  BY <1>1, <1>2, <1>4, <1>5, Zenon DEF ReadTyped
<1>7. \A v \in Voters : Blocked(round[v]) => Blocked(round'[v])
  <2> TAKE v \in Voters
  <2>1. CASE v # n
    BY <1>5, <2>1, Zenon
  <2>2. CASE v = n
    <3> SUFFICES ASSUME Blocked(round[n]) PROVE Blocked(round'[n])
      BY <2>2, Zenon
    <3>1. PICK H \in SUBSET Voters :
            /\ H \cap round[n].confirmed = {} /\ \A w \in H : saved[w] > round[n].term
            /\ (round[n].config # Uniform /\ Founder \in H) \/ (round[n].config # Sole /\ Majority(H))
      BY Zenon DEF Blocked
    <3>2. m \notin H
      BY <1>2, <1>4, <3>1
    <3>3. H \cap round'[n].confirmed = {}
      BY <1>5, <3>1, <3>2, Zenon
    <3> QED
      BY <1>5, <3>1, <3>3, Zenon DEF Blocked
  <2> QED
    BY <2>1, <2>2, Zenon
<1>8. \A v \in Voters : Blocked(round'[v]) => Blocked(round[v])'
  BY <1>3, Zenon DEF Blocked, Majority
<1>9. Rounded'
  <2>1. \A q, v : Waits(q, v)' <=> Waits(q, v)
    BY <1>2, Zenon DEF Waits
  <2>2. \A v \in Voters : round'[v].by = round[v].by /\ round'[v].index = round[v].index
                          /\ (round'[v] # NoRound => round[v] # NoRound)
    BY <1>2, <1>5, Zenon
  <2>3. ASSUME NEW v \in Voters
        PROVE  rounds'[v].last <= rounds'[v].started
    BY <1>1, <1>2, Zenon DEF Rounded
  <2>4. ASSUME NEW v \in Voters, round'[v] # NoRound
        PROVE  round'[v].by \in Reads /\ read'[round'[v].by].at = v /\ read'[round'[v].by].pc = "round"
    BY <1>1, <1>2, <2>2, <2>4, ZenonT(30) DEF Rounded
  <2>5. ASSUME NEW v \in Voters, round'[v] # NoRound, NEW q \in Reads, Waits(q, v)'
        PROVE  Reflects(q, round[v].index)' \/ Blocked(round[v])'
    <3>1. Reflects(q, round[v].index) \/ Blocked(round[v])
      BY <1>1, <2>1, <2>2, <2>5, Zenon DEF Rounded
    <3>2. Reflects(q, round[v].index) => Reflects(q, round[v].index)'
      BY <1>2, <1>3, <2>2, Zenon DEF Reflects
    <3> QED
      BY <1>7, <1>8, <3>1, <3>2, Zenon
  <2> QED
    BY <2>3, <2>4, <2>5, Zenon DEF Rounded, NoRound
<1>10. Waiting'
  <2>1. \A v \in Voters : round'[v].by = round[v].by
    BY <1>5, Zenon
  <2>2. \A q \in Reads : read[q].at \in Voters
    BY <1>1, ReadNumbers, ZenonT(30)
  <2> QED
    BY <1>1, <1>2, <1>3, <2>1, <2>2, ZenonT(30) DEF Waiting, Held, Reflects, Joins
<1> QED
  BY <1>3, <1>6, <1>9, <1>10, Zenon DEF RIInv

(* The round ends: with a quorum it was not blocked. *)
LEMMA EndRoundInv ==
  ASSUME RIInv, NEW n \in Voters, EndRound(n)
  PROVE  RIInv'
<1> DEFINE rd == round[n]
           b == rd.by
           j == IF IsQuorum(rd.config, rd.confirmed) /\ saved[n] = rd.term THEN rd.index ELSE NoIndex
           y == Confirmed(read[b], j)
<1>1. RaftInv /\ RaftTyped /\ ReadTyped /\ Rounded /\ Waiting
  BY Zenon DEF RIInv, RaftInv
<1>2. /\ rd # NoRound /\ UNCHANGED riRaft
      /\ rounds' = [rounds EXCEPT ![n].last = rounds[n].started, ![n].index = j]
      /\ round' = [round EXCEPT ![n] = NoRound]
      /\ read' = [read EXCEPT ![b] = y]
  BY Zenon DEF EndRound
<1>3. /\ done' = done /\ acked' = acked /\ saved' = saved /\ RaftInv'
  BY <1>1, <1>2, RaftSame, Zenon DEF riRaft
<1>4. b \in Reads /\ read[b].at = n /\ read[b].pc = "round"
  BY <1>1, <1>2, Zenon DEF Rounded
<1>5. rd.index \in Nat /\ rd.config \in Memberships /\ rd.confirmed \in SUBSET Voters
  BY <1>1, ReadNumbers, Zenon
<1>6. j \in Nat
  BY <1>5, Zenon
<1>7. ASSUME j # NoIndex, NEW q \in Reads, Waits(q, n) PROVE Reflects(q, j)
  <2>1. j = rd.index /\ IsQuorum(rd.config, rd.confirmed)
    BY <1>7, Zenon
  <2>2. Reflects(q, rd.index) \/ Blocked(rd)
    BY <1>1, <1>2, <1>7, ZenonT(30) DEF Rounded
  <2> HIDE DEF rd, j
  <2>3. ~Blocked(rd)
    <3> SUFFICES ASSUME NEW H \in SUBSET Voters, H \cap rd.confirmed = {},
                        (rd.config # Uniform /\ Founder \in H) \/ (rd.config # Sole /\ Majority(H))
                 PROVE  FALSE
      BY Zenon DEF Blocked
    <3>1. CASE rd.config # Uniform /\ Founder \in H
      BY <1>5, <2>1, <3>1, ZenonT(30) DEF IsQuorum, Memberships
    <3>2. CASE rd.config # Sole /\ Majority(H)
      BY <1>5, <2>1, <3>2, MajoritiesMeet, ZenonT(30) DEF IsQuorum, Memberships
    <3> QED
      BY <3>1, <3>2, ZenonT(30)
  <2> QED
    BY <2>1, <2>2, <2>3, Zenon
<1> HIDE DEF j
<1>8. /\ y \in Read /\ y.pc \in {"raft", "apply"} /\ y.need <= acked
      /\ y.pc = "apply" => y.need <= y.index \/ y.need <= done[y.at]
  <2>1. read[b] \in Read /\ read[b].need <= acked
    BY <1>1, <1>4, ZenonT(30) DEF ReadTyped, Waiting, Held
  <2>2. CASE j = NoIndex
    <3>1. y = [pc |-> "raft", at |-> Founder, need |-> 0, arrival |-> 0, index |-> 0]
      <4>1. y = ThroughRaft
        BY <2>2, ZenonT(30) DEF Confirmed
      <4> QED
        BY <4>1, Zenon DEF ThroughRaft, NotBegun
    <3>2. acked \in Nat /\ 0 \in Index /\ Founder \in Voters
      BY <1>1, Numbers, ReadIndexAssumption DEF Index
    <3> QED
      BY <3>1, <3>2 DEF Read
  <2>3. CASE j # NoIndex
    <3>1. y = [read[b] EXCEPT !.pc = "apply", !.index = j]
      BY <2>3, Zenon DEF Confirmed
    <3>2. y \in Read /\ y.pc = "apply" /\ y.index = j /\ y.need = read[b].need /\ y.at = read[b].at
      BY <1>6, <2>1, <3>1, Zenon DEF Read
    <3>3. Reflects(b, j)
      BY <1>4, <1>7, <2>3, Zenon DEF Waits
    <3> QED
      BY <2>1, <3>2, <3>3, Zenon DEF Reflects
  <2> QED
    BY <2>2, <2>3, Zenon
<1> HIDE DEF y
<1>9. rounds[n] \in [started : Nat, last : Nat, index : Nat]
  BY <1>1, Zenon DEF ReadTyped
<1> HIDE DEF rd, b
<1>10. /\ \A v \in Voters : v # n => rounds'[v] = rounds[v] /\ round'[v] = round[v]
       /\ rounds'[n].started = rounds[n].started /\ rounds'[n].last = rounds[n].started
       /\ rounds'[n].index = j /\ round'[n] = NoRound
       /\ \A q \in Reads : read'[q] = IF q = b THEN y ELSE read[q]
  BY <1>1, <1>2, <1>9, Zenon DEF ReadTyped
<1>11. ReadTyped'
  <2>1. rounds' \in [Voters -> [started : Nat, last : Nat, index : Nat]]
    BY <1>1, <1>2, <1>6, <1>9, ZenonT(30) DEF ReadTyped
  <2>2. NoRound \in Round
    BY ReadIndexAssumption DEF NoRound, Round, Terms, Memberships
  <2> QED
    BY <1>1, <1>2, <1>8, <2>1, <2>2, ZenonT(30) DEF ReadTyped
<1>12. \A v \in Voters : Blocked(round'[v]) => Blocked(round[v])'
  BY <1>3, Zenon DEF Blocked, Majority
<1>13. Rounded'
  <2> SUFFICES ASSUME NEW v \in Voters
               PROVE  /\ rounds'[v].last <= rounds'[v].started
                      /\ round'[v] # NoRound =>
                           /\ round'[v].by \in Reads /\ read'[round'[v].by].at = v
                           /\ read'[round'[v].by].pc = "round"
                           /\ \A q \in Reads : Waits(q, v)' =>
                                \/ read'[q].need <= round'[v].index \/ read'[q].need <= done[read'[q].at]
                                \/ Blocked(round'[v])
    BY <1>3, <1>12, ZenonT(30) DEF Rounded, NoRound, Reflects
  <2>1. CASE v = n
    BY <1>9, <1>10, <2>1, SMTT(30)
  <2>2. CASE v # n
    <3>1. rounds'[v] = rounds[v] /\ round'[v] = round[v] /\ rounds[v].last <= rounds[v].started
      BY <1>1, <1>10, <2>2, Zenon DEF Rounded
    <3>2. \A q \in Reads : read[q].at = v => read'[q] = read[q]
      BY <1>4, <1>10, <2>2, Zenon
    <3>3. \A q \in Reads : Waits(q, v)' => Waits(q, v) /\ read'[q] = read[q]
      <4> TAKE q \in Reads
      <4>1. CASE q = b
        BY <1>8, <1>10, <4>1, Zenon DEF Waits
      <4>2. CASE q # b
        BY <1>10, <3>1, <4>2, Zenon DEF Waits
      <4> QED
        BY <4>1, <4>2, ZenonT(30)
    <3> QED
      BY <1>1, <3>1, <3>2, <3>3, ZenonT(30) DEF Rounded, Reflects
  <2> QED
    BY <2>1, <2>2, Zenon
<1>14. Waiting'
  <2> SUFFICES ASSUME NEW q \in Reads PROVE Held(q)'
    BY Zenon DEF Waiting
  <2>1. CASE q = b
    <3>1. read'[q] = y
      BY <1>10, <2>1, Zenon
    <3> QED
      BY <1>3, <1>8, <3>1, Zenon DEF Held, Reflects
  <2>2. CASE q # b
    <3>1. read'[q] = read[q] /\ read[q].at \in Voters /\ read[q].arrival \in Nat
      BY <1>1, <1>10, <2>2, ReadNumbers, ZenonT(30)
    <3>2. Held(q)
      BY <1>1, Zenon DEF Waiting
    <3>3. CASE read[q].at = n
      <4>1. read[q].pc # "round"
        BY <2>2, <3>2, <3>3, Zenon DEF Held, b, rd
      <4>2. read[q].pc = "queue" /\ rounds[n].started > read[q].arrival => Waits(q, n)
        BY <1>9, <3>1, <3>3, Zenon DEF Waits
      <4>3. read[q].pc = "queue" /\ rounds[n].started > read[q].arrival /\ j # NoIndex => Reflects(q, j)
        BY <1>7, <4>2, Zenon
      <4> QED
        BY <1>3, <1>10, <3>1, <3>2, <3>3, <4>1, <4>3, ZenonT(30) DEF Held, Reflects, Joins
    <3>4. CASE read[q].at # n
      BY <1>3, <1>10, <3>1, <3>2, <3>4, HeldKept, ZenonT(30)
    <3> QED
      BY <3>3, <3>4, Zenon
  <2> QED
    BY <2>1, <2>2, Zenon
<1> QED
  BY <1>3, <1>11, <1>13, <1>14, Zenon DEF RIInv

(* The founder leads its one-voter cluster, and no read has begun. *)
LEMMA RIInitInv ==
  RIInit => RIInv
<1> SUFFICES ASSUME RIInit PROVE RIInv
  BY Zenon
<1>1. Founder \in Voters /\ 1 \in RTerms /\ RTerms \subseteq Nat /\ 1 \in Terms /\ 0 \in Terms /\ 1 \in Index /\ 0 \in Index
  BY ReadIndexAssumption DEF RTerms, Terms, Index
<1>2. /\ \A n \in Voters : /\ saved[n] = IF n = Founder THEN 1 ELSE 0
                           /\ lead[n] = saved[n] /\ shownTerm[n] = saved[n] /\ done[n] = saved[n]
                           /\ granted[n] = Founder /\ shown[n] = Sole /\ mark[n] = Sole
      /\ \A t \in RTerms : start[t] = (IF t = 1 THEN 1 ELSE NoIndex) /\ commits[t] = start[t]
      /\ config = Sole /\ acked = 0
  BY Zenon DEF RIInit
<1>3. RaftTyped
  <2>1. /\ saved \in [Voters -> Terms] /\ granted \in [Voters -> Voters] /\ done \in [Voters -> Index]
        /\ shown \in [Voters -> Memberships]
    BY <1>1, Zenon DEF RIInit, Memberships
  <2>2. lead \in [Voters -> Terms] /\ shownTerm \in [Voters -> Terms] /\ mark \in [Voters -> Memberships]
    BY <2>1, Zenon DEF RIInit
  <2>3. start \in [RTerms -> Nat] /\ commits \in [RTerms -> Index]
    BY <1>1, Zenon DEF RIInit
  <2> QED
    BY <1>1, <1>2, <2>1, <2>2, <2>3, ZenonT(30) DEF RaftTyped, Memberships
<1>4. Started = {1}
  <2>1. \A t \in RTerms : start[t] # NoIndex <=> t = 1
    BY <1>2, SMTT(30)
  <2> QED
    BY <1>1, <2>1, Zenon DEF Started
<1>5. Leading
  BY <1>1, <1>2, <1>4, SMTT(30) DEF Leading
<1>6. Quorums
  BY <1>1, <1>2, <1>4, SMTT(30) DEF Quorums, Knows
<1>7. Marks
  BY <1>2 DEF Marks
<1>8. Logs
  <2>1. \A t \in Started : \A u \in RTerms : u < t => commits[u] < start[t]
    BY <1>1, <1>4, SMTT(30) DEF RTerms
  <2>2. acked <= commits[1] /\ acked <= done[Founder]
    BY <1>1, <1>2, SMTT(30)
  <2>3. \A n \in Voters : lead[n] # 0 => acked < start[lead[n]]
    BY <1>1, <1>2
  <2>4. \A t \in RTerms : t \notin Started => commits[t] = 0
    BY <1>2, <1>4
  <2> QED
    BY <1>1, <2>1, <2>2, <2>3, <2>4, ZenonT(30) DEF Logs
<1>9. NoRound \in Round /\ NotBegun \in Read /\ NotBegun.pc = "none" /\ NotBegun.need = 0 /\ NotBegun.at = Founder
  BY <1>1, Zenon DEF NoRound, Round, NotBegun, Read, Terms, Memberships
<1>10. /\ \A n \in Voters : round[n] = NoRound /\ rounds[n] = [started |-> 0, last |-> 0, index |-> NoIndex]
       /\ \A r \in Reads : read[r] = NotBegun
  BY Zenon DEF RIInit
<1>11. ReadTyped
  BY <1>9, Zenon DEF RIInit, ReadTyped
<1>12. Rounded
  <2>1. \A n \in Voters : rounds[n].last <= rounds[n].started
    BY <1>10, SMTT(30)
  <2> QED
    BY <1>10, <2>1, ZenonT(30) DEF Rounded
<1>13. Waiting
  BY <1>2, <1>9, <1>10 DEF Waiting, Held
<1> QED
  BY <1>3, <1>5, <1>6, <1>7, <1>8, <1>11, <1>12, <1>13, ZenonT(30) DEF RIInv, RaftInv

(* Every step keeps the invariant. *)
LEMMA RINextInv ==
  RIInv /\ [RINext]_riVars => RIInv'
<1> SUFFICES ASSUME RIInv, [RINext]_riVars PROVE RIInv'
  BY Zenon
<1>1. RaftInv
  BY Zenon DEF RIInv
<1>2. ASSUME NEW n \in Voters, NEW m \in Voters, NEW t \in RTerms, Vote(m, n, t)
      PROVE  RIInv'
  <2>1. UNCHANGED <<rounds, round, read>>
    BY <1>2, Zenon DEF Vote
  <2> QED
    BY <1>1, <1>2, <2>1, VoteInv, RaftStep, ZenonT(30)
<1>3. ASSUME NEW n \in Voters, Elected(n)
      PROVE  RIInv'
  <2>1. UNCHANGED <<rounds, round, read>>
    BY <1>3, Zenon DEF Elected
  <2> QED
    BY <1>1, <1>3, <2>1, ElectedInv, RaftStep, ZenonT(30)
<1>4. ASSUME NEW n \in Voters, CommitEntry(n)
      PROVE  RIInv'
  <2>1. UNCHANGED <<rounds, round, read>>
    BY <1>4, Zenon DEF CommitEntry
  <2> QED
    BY <1>1, <1>4, <2>1, CommitEntryInv, RaftStep, Zenon
<1>5. ASSUME NEW n \in Voters, ChangeMembership(n)
      PROVE  RIInv'
  <2>1. UNCHANGED <<rounds, round, read>>
    BY <1>5, Zenon DEF ChangeMembership
  <2> QED
    BY <1>1, <1>5, <2>1, ChangeMembershipInv, RaftStep, Zenon
<1>6. ASSUME NEW n \in Voters, Publish(n)
      PROVE  RIInv'
  <2>1. UNCHANGED <<rounds, round, read>>
    BY <1>6, Zenon DEF Publish
  <2> QED
    BY <1>1, <1>6, <2>1, PublishInv, RaftStep, Zenon
<1>7. ASSUME NEW n \in Voters, ApplyNext(n)
      PROVE  RIInv'
  <2>1. UNCHANGED <<rounds, round, read>>
    BY <1>7, Zenon DEF ApplyNext
  <2> QED
    BY <1>1, <1>7, <2>1, ApplyNextInv, RaftStep, Zenon
<1>8. CASE UNCHANGED riVars
  <2>1. UNCHANGED riRaft /\ UNCHANGED <<rounds, round, read>>
    BY <1>8, Zenon DEF riVars, riRaft
  <2>2. RaftInv'
    BY <1>1, <2>1, RaftSame, Zenon
  <2>3. Forward
    <3>1. saved' = saved /\ done' = done /\ acked' = acked
      BY <2>1, Zenon DEF riRaft
    <3>2. (\A v \in Voters : saved[v] \in Nat /\ done[v] \in Nat) /\ acked \in Nat
      BY <1>1, Numbers, Zenon DEF RaftInv
    <3> QED
      BY <3>1, <3>2 DEF Forward
  <2> QED
    BY <2>1, <2>2, <2>3, RaftStep, Zenon
<1>9. CASE RINext
  BY <1>2, <1>3, <1>4, <1>5, <1>6, <1>7, <1>9, ReadStepsInv, BeginRoundInv, ConfirmLeaderInv, EndRoundInv, ZenonT(30)
     DEF RINext
<1> QED
  BY <1>8, <1>9, Zenon

(* On a member the reads in a round are the round's own, or none. *)
LEMMA OneInRound ==
  ASSUME RIInv, NEW n \in Voters
  PROVE  Cardinality({r \in Reads : read[r].at = n /\ read[r].pc = "round"})
           = IF round[n] = NoRound THEN 0 ELSE 1
<1> DEFINE S == {r \in Reads : read[r].at = n /\ read[r].pc = "round"}
<1>1. \A r \in S : round[n].by = r
  BY Zenon DEF RIInv, Waiting, Held
<1>2. CASE round[n] = NoRound
  <2>1. NoRound.by \notin Reads
    BY ReadIndexAssumption, Zenon DEF NoRound
  <2>2. S = {}
    BY <1>1, <1>2, <2>1, Zenon
  <2> QED
    BY <1>2, <2>2, FS_EmptySet, Zenon
<1>3. CASE round[n] # NoRound
  <2>1. round[n].by \in S
    BY <1>3, Zenon DEF RIInv, Rounded
  <2>2. S = {round[n].by}
    BY <1>1, <2>1, Zenon
  <2> QED
    BY <1>3, <2>2, FS_Singleton, Zenon
<1> QED
  BY <1>2, <1>3, Zenon

(* For any voters, reads, number of terms and length of the log: a read    *)
(* served through read_barrier reflects every write acknowledged before it *)
(* began, by this leader or another, through elections and the growth of   *)
(* the cluster from its sole voter; and a member's rounds do not overlap   *)
(* (raft/read_index.rs).                                                   *)
THEOREM BarrierCorrect == RISpec => []BarrierRight
<1>1. RIInv => BarrierRight
  <2> SUFFICES ASSUME RIInv PROVE BarrierRight
    BY Zenon
  <2>1. RaftTyped /\ Rounded /\ Waiting
    BY Zenon DEF RIInv, RaftInv
  <2>2. config \in Sole..Uniform
    BY <2>1 DEF RaftTyped, Memberships
  <2>3. RITypeOK
    BY <2>1, <2>2, OneInRound, Zenon DEF RITypeOK, RaftTyped, Rounded, Terms, Index
  <2>4. Linearizable
    BY <2>1, Zenon DEF Linearizable, Waiting, Held
  <2> QED
    BY <2>3, <2>4, Zenon DEF BarrierRight
<1> QED
  BY <1>1, RIInitInv, RINextInv, PTL DEF RISpec
=============================================================================
