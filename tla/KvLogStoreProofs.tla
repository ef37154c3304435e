-------------------------- MODULE KvLogStoreProofs --------------------------
(***************************************************************************)
(* Proofs about KvLogStore, for any terms and bounds: the log is well      *)
(* formed, nothing is applied that a crash could lose, the vote is never   *)
(* forgotten, a term's start is right where a leader uses it, and the      *)
(* store implements LogStore.                                              *)
(***************************************************************************)
EXTENDS KvLogStore, Integers, SequenceTheorems, TLAPS

Logs == [from : Nat, terms : Seq(LsTerms)]
Tables == [log : Logs, purged : Nat, vote : Nat, committed : Nat]
Kinds == {"none", "append", "truncate", "purge", "vote", "committed"}

Sorted(log) == \A i, j \in DOMAIN log.terms : i <= j => log.terms[i] <= log.terms[j]
Within(log, t) == \A i \in DOMAIN log.terms : log.terms[i] <= t

(* What every version of the tables satisfies. *)
Sound(t) ==
  /\ t \in Tables
  /\ t.log.from = t.purged /\ LastOf(t.log) <= LsMax /\ t.committed <= LsMax
  /\ Sorted(t.log) /\ Within(t.log, acted) /\ acted <= t.vote

(* What the call in flight will make of the tables. *)
Appends(a, b) == \E t \in LsTerms :
  LastOf(a.log) < LsMax /\ (leading > 0 => t = leading) /\ b = [a EXCEPT !.log.terms = Append(@, t)]
Truncates(a, b) == \E i \in (a.log.from + 1)..LastOf(a.log) :
  b = [a EXCEPT !.log = Contract!Cut(@, i)] /\ agreed < i
Purges(a, b) == \E i \in (a.log.from + 1)..LastOf(a.log) :
  b = [a EXCEPT !.log = Contract!Drop(@, i), !.purged = i]
Votes(a, b) == \E t \in LsTerms : b = [a EXCEPT !.vote = t]
Commits(a, b) == \E n \in 0..LsMax : b = [a EXCEPT !.committed = n]

Types ==
  /\ op \in [pc : {"idle", "commit", "return"}, kind : Kinds, next : Tables]
  /\ prog \in [committed : Nat, durable : Nat, vote : Nat, start : Nat \X Nat]
  /\ waiter \in [pc : {"off", "look", "decide", "sleep"}, woken : BOOLEAN]
  /\ acted \in Nat /\ leading \in Nat /\ agreed \in 0..LsMax /\ done \in Nat /\ crashes \in Nat

(* Between calls the tables are those a crash leaves, but for the          *)
(* committed index; a call in flight has one operation pending or done.    *)
Calls ==
  /\ Sound(tabs) /\ Sound(safe) /\ safe = [tabs EXCEPT !.committed = safe.committed]
  /\ op.pc = "idle" <=> op.kind = "none"
  /\ op.pc # "idle" => Sound(op.next)
  /\ op.pc = "return" => op.next = tabs
  /\ op.pc = "commit" =>
       /\ op.kind = "append" => Appends(tabs, op.next)
       /\ op.kind = "truncate" => Truncates(tabs, op.next)
       /\ op.kind = "purge" => Purges(tabs, op.next)
       /\ op.kind = "vote" => Votes(tabs, op.next)
       /\ op.kind = "committed" => Commits(tabs, op.next)
  /\ op.kind = "vote" => acted < op.next.vote

(* Durable is in the log, but for a truncate that has yet to lower it; and *)
(* what is agreed is not truncated.                                        *)
Applied ==
  /\ done <= agreed /\ done <= LastOf(tabs.log)
  /\ waiter.pc # "off" => done < agreed
  /\ op.kind = "truncate" => agreed <= LastOf(op.next.log)
  /\ prog.durable <= LastOf(tabs.log) \/ (op.kind = "truncate" /\ op.pc = "return")

(* The log that is there or being appended. *)
Current == IF op.kind = "append" THEN op.next.log ELSE tabs.log

(* A leader leads the last term it voted in, and term_start knows its      *)
(* first entry if there is one.                                            *)
Leads ==
  /\ acted <= prog.vote /\ prog.start[1] <= acted
  /\ leading > 0 =>
       /\ leading = acted /\ op.kind \notin {"truncate", "vote"}
       /\ prog.start[1] # leading => \A i \in DOMAIN Current.terms : Current.terms[i] # leading
       /\ prog.start[1] = leading =>
            /\ prog.start[2] <= LastOf(Current)
            /\ \A i \in DOMAIN Current.terms :
                 Current.terms[i] = leading => prog.start[2] <= Current.from + i

Inv == Types /\ Calls /\ Applied /\ Leads
----------------------------------------------------------------------------
\* The operations on a log.

LEMMA WithTerms ==
  ASSUME NEW log \in Logs, NEW s
  PROVE  [log EXCEPT !.terms = s] = [from |-> log.from, terms |-> s]
BY DEF Logs

(* An append adds one entry at the end. *)
LEMMA AppendedLog ==
  ASSUME NEW log \in Logs, NEW t \in LsTerms
  PROVE  LET n == [log EXCEPT !.terms = Append(@, t)] IN
         /\ n \in Logs /\ n.from = log.from /\ LastOf(n) = LastOf(log) + 1
         /\ Len(n.terms) = Len(log.terms) + 1
         /\ \A i \in 1..Len(log.terms) : n.terms[i] = log.terms[i]
         /\ n.terms[Len(log.terms) + 1] = t
<1> DEFINE n == [log EXCEPT !.terms = Append(@, t)]
<1>a. log.from \in Nat /\ log.terms \in Seq(LsTerms)
  BY DEF Logs
<1>1. /\ log.from \in Nat /\ log.terms \in Seq(LsTerms)
      /\ n = [from |-> log.from, terms |-> Append(log.terms, t)]
  BY Zenon, <1>a, WithTerms
<1>2. /\ Append(log.terms, t) \in Seq(LsTerms) /\ Len(Append(log.terms, t)) = Len(log.terms) + 1
      /\ \A i \in 1..Len(log.terms) : Append(log.terms, t)[i] = log.terms[i]
      /\ Append(log.terms, t)[Len(log.terms) + 1] = t
  BY <1>1, AppendProperties
<1>3. Len(log.terms) \in Nat
  BY <1>1, LenProperties
<1> HIDE DEF n
<1>4. n.from = log.from /\ n.terms = Append(log.terms, t) /\ n \in Logs
  BY <1>1, <1>2 DEF Logs
<1>5. LastOf(n) = LastOf(log) + 1
  BY <1>1, <1>2, <1>3, <1>4 DEF LastOf, Contract!LastOf
<1> QED BY <1>2, <1>4, <1>5 DEF n

(* A cut keeps the entries below an index. *)
LEMMA CutLog ==
  ASSUME NEW log \in Logs, NEW i \in (log.from + 1)..LastOf(log)
  PROVE  LET n == Contract!Cut(log, i) IN
         /\ n \in Logs /\ n.from = log.from /\ LastOf(n) = i - 1
         /\ Len(n.terms) <= Len(log.terms)
         /\ \A k \in 1..Len(n.terms) : n.terms[k] = log.terms[k]
<1> DEFINE m == i - 1 - log.from
           s == SubSeq(log.terms, 1, m)
           n == Contract!Cut(log, i)
<1>a. log.from \in Nat /\ log.terms \in Seq(LsTerms)
  BY DEF Logs
<1>1. log.from \in Nat /\ log.terms \in Seq(LsTerms) /\ n = [from |-> log.from, terms |-> s]
  BY <1>a, WithTerms, Zenon DEF Contract!Cut
<1>2. Len(log.terms) \in Nat /\ m \in 0..Len(log.terms)
  BY <1>1, LenProperties DEF LastOf, Contract!LastOf
<1>3. \A k \in 1..m : log.terms[k] \in LsTerms
  BY <1>1, <1>2, LenProperties
<1>4. s \in Seq(LsTerms) /\ Len(s) = m /\ \A k \in 1..m : s[k] = log.terms[k]
  <2>1. /\ s \in Seq(LsTerms) /\ Len(s) = (IF 1 <= m THEN m - 1 + 1 ELSE 0)
        /\ \A k \in 1..(m - 1 + 1) : s[k] = log.terms[1 + k - 1]
    BY <1>2, <1>3, SubSeqProperties
  <2> QED BY <2>1, <1>2
<1> HIDE DEF m, s, n
<1>5. n.from = log.from /\ n.terms = s /\ n \in Logs
  BY <1>1, <1>4 DEF Logs
<1>6. LastOf(n) = i - 1
  BY <1>1, <1>2, <1>4, <1>5 DEF LastOf, Contract!LastOf, m
<1> QED BY <1>2, <1>4, <1>5, <1>6 DEF n

(* A drop keeps the entries above an index, which keep their indexes. *)
LEMMA DropLog ==
  ASSUME NEW log \in Logs, NEW i \in (log.from + 1)..LastOf(log)
  PROVE  LET n == Contract!Drop(log, i) IN
         /\ n \in Logs /\ n.from = i /\ LastOf(n) = LastOf(log)
         /\ Len(n.terms) = Len(log.terms) - (i - log.from)
         /\ \A k \in 1..Len(n.terms) : n.terms[k] = log.terms[k + (i - log.from)]
<1> DEFINE d == i - log.from
           s == SubSeq(log.terms, d + 1, Len(log.terms))
           n == Contract!Drop(log, i)
<1>1. log.from \in Nat /\ log.terms \in Seq(LsTerms) /\ n = [from |-> i, terms |-> s]
  BY DEF Logs, Contract!Drop
<1>2. Len(log.terms) \in Nat /\ d \in 1..Len(log.terms)
  BY <1>1, LenProperties DEF LastOf, Contract!LastOf
<1>3. \A k \in (d + 1)..Len(log.terms) : log.terms[k] \in LsTerms
  <2> HIDE DEF d
  <2>1. \A k \in (d + 1)..Len(log.terms) : k \in 1..Len(log.terms)
    BY <1>2
  <2> QED BY <1>1, <2>1, ElementOfSeq
<1>4. /\ s \in Seq(LsTerms) /\ Len(s) = Len(log.terms) - d
      /\ \A k \in 1..Len(s) : s[k] = log.terms[k + d]
  <2>a. d + 1 \in Int /\ Len(log.terms) \in Int
    BY <1>2
  <2> HIDE DEF d
  <2>1. /\ s \in Seq(LsTerms)
        /\ Len(s) = (IF d + 1 <= Len(log.terms) THEN Len(log.terms) - (d + 1) + 1 ELSE 0)
        /\ \A k \in 1..(Len(log.terms) - (d + 1) + 1) : s[k] = log.terms[(d + 1) + k - 1]
    BY <2>a, <1>3, SubSeqProperties
  <2> HIDE DEF s
  <2>2. Len(s) = Len(log.terms) - d
    BY <2>1, <1>2
  <2>3. \A k \in 1..Len(s) : k \in 1..(Len(log.terms) - (d + 1) + 1) /\ (d + 1) + k - 1 = k + d
    BY <2>2, <1>2
  <2> QED BY <2>1, <2>2, <2>3
<1> HIDE DEF d, s, n
<1>5. n.from = i /\ n.terms = s /\ n \in Logs
  BY <1>1, <1>2, <1>4 DEF Logs, d
<1>6. LastOf(n) = LastOf(log)
  <2>1. Len(s) = Len(log.terms) - (i - log.from) /\ i \in Nat
    BY <1>1, <1>4 DEF d, LastOf, Contract!LastOf
  <2>2. LastOf(n) = i + Len(s)
    BY <1>5 DEF LastOf, Contract!LastOf
  <2>3. LastOf(log) = log.from + Len(log.terms)
    BY DEF LastOf, Contract!LastOf
  <2> QED BY <2>1, <2>2, <2>3, <1>1, <1>2
<1> QED BY <1>2, <1>4, <1>5, <1>6 DEF n, d

----------------------------------------------------------------------------
\* The operations on the tables.

LEMMA SoundTypes ==
  ASSUME NEW t, Sound(t)
  PROVE  /\ t.log \in Logs /\ t.purged \in Nat /\ t.vote \in Nat /\ t.committed \in Nat
         /\ LastOf(t.log) \in Nat /\ t.log.from \in Nat /\ Len(t.log.terms) \in Nat
         /\ t.log.from <= LastOf(t.log)
         /\ DOMAIN t.log.terms = 1..Len(t.log.terms)
         /\ \A i \in 1..Len(t.log.terms) : t.log.terms[i] \in LsTerms /\ t.log.terms[i] \in Nat \ {0}
<1>1. t.log \in Logs /\ t.purged \in Nat /\ t.vote \in Nat /\ t.committed \in Nat
  BY DEF Sound, Tables
<1>2. t.log.from \in Nat /\ t.log.terms \in Seq(LsTerms)
  BY <1>1 DEF Logs
<1>3. /\ Len(t.log.terms) \in Nat /\ DOMAIN t.log.terms = 1..Len(t.log.terms)
      /\ \A i \in 1..Len(t.log.terms) : t.log.terms[i] \in LsTerms
  BY <1>2, LenProperties
<1>4. LastOf(t.log) = t.log.from + Len(t.log.terms)
  BY DEF LastOf, Contract!LastOf
<1>5. LastOf(t.log) \in Nat /\ t.log.from <= LastOf(t.log)
  BY <1>2, <1>3, <1>4
<1>6. \A i \in 1..Len(t.log.terms) : t.log.terms[i] \in Nat \ {0}
  BY Zenon, <1>3, LsAssumption
<1> QED BY <1>1, <1>2, <1>3, <1>5, <1>6

(* Tables that differ in one field only. *)
LEMMA WithLog ==
  ASSUME NEW t \in Tables, NEW l
  PROVE  /\ [t EXCEPT !.log = l].log = l
         /\ [t EXCEPT !.log = l].purged = t.purged
         /\ [t EXCEPT !.log = l].vote = t.vote /\ [t EXCEPT !.log = l].committed = t.committed
         /\ l \in Logs => [t EXCEPT !.log = l] \in Tables
BY DEF Tables

(* An append in no newer a term than was voted in keeps the tables sound. *)
LEMMA AppendIsSound ==
  ASSUME Sound(tabs), acted \in Nat, NEW t \in LsTerms, t <= acted, LastOf(tabs.log) < LsMax,
         \A i \in DOMAIN tabs.log.terms : tabs.log.terms[i] <= t
  PROVE  LET n == [tabs EXCEPT !.log.terms = Append(@, t)] IN
         /\ Sound(n) /\ LastOf(n.log) = LastOf(tabs.log) + 1
         /\ n.log.from = tabs.log.from
         /\ Len(n.log.terms) = Len(tabs.log.terms) + 1
         /\ \A i \in 1..Len(tabs.log.terms) : n.log.terms[i] = tabs.log.terms[i]
         /\ n.log.terms[Len(tabs.log.terms) + 1] = t
<1> DEFINE l == [tabs.log EXCEPT !.terms = Append(@, t)]
           n == [tabs EXCEPT !.log.terms = Append(@, t)]
<1>1. tabs \in Tables /\ tabs.log \in Logs
  BY SoundTypes DEF Sound
<1>2. n = [tabs EXCEPT !.log = l]
  BY <1>1 DEF Tables
<1> HIDE DEF n
<1>3. /\ l \in Logs /\ l.from = tabs.log.from /\ LastOf(l) = LastOf(tabs.log) + 1
      /\ Len(l.terms) = Len(tabs.log.terms) + 1
      /\ \A i \in 1..Len(tabs.log.terms) : l.terms[i] = tabs.log.terms[i]
      /\ l.terms[Len(tabs.log.terms) + 1] = t
  BY Zenon, <1>1, AppendedLog
<1> HIDE DEF l
<1>4. /\ n.log = l /\ n.purged = tabs.purged /\ n.vote = tabs.vote /\ n.committed = tabs.committed
      /\ n \in Tables
  BY <1>1, <1>2, <1>3, WithLog
<1>5. /\ Len(tabs.log.terms) \in Nat /\ DOMAIN tabs.log.terms = 1..Len(tabs.log.terms)
      /\ DOMAIN l.terms = 1..(Len(tabs.log.terms) + 1) /\ LastOf(tabs.log) \in Nat
      /\ \A i \in 1..Len(tabs.log.terms) : tabs.log.terms[i] \in Nat
  BY <1>3, SoundTypes, LenProperties DEF Logs
<1>6. t \in Nat
  BY LsAssumption
<1>7. ASSUME NEW i \in 1..(Len(tabs.log.terms) + 1)
      PROVE  \/ i \in 1..Len(tabs.log.terms) /\ l.terms[i] = tabs.log.terms[i] /\ l.terms[i] <= t
             \/ i = Len(tabs.log.terms) + 1 /\ l.terms[i] = t
  <2>1. CASE i \in 1..Len(tabs.log.terms)
    BY SMTT(60), <2>1, <1>3, <1>5
  <2>2. CASE i = Len(tabs.log.terms) + 1
    BY <2>2, <1>3
  <2> QED BY <2>1, <2>2, <1>5
<1>8. Sorted(l) /\ Within(l, acted)
  <2>1. ASSUME NEW i \in DOMAIN l.terms, NEW j \in DOMAIN l.terms, i <= j
        PROVE  l.terms[i] <= l.terms[j]
    <3>1. CASE j = Len(tabs.log.terms) + 1
      BY <3>1, <1>3, <1>5, <1>6, <1>7
    <3>2. CASE j \in 1..Len(tabs.log.terms)
      <4>1. i \in 1..Len(tabs.log.terms)
        BY <3>2, <2>1, <1>5
      <4>2. tabs.log.terms[i] <= tabs.log.terms[j]
        BY <4>1, <3>2, <2>1, <1>5 DEF Sound, Sorted
      <4> QED BY SMTT(60), <4>1, <4>2, <3>2, <1>3
    <3> QED BY <3>1, <3>2, <1>5
  <2>2. ASSUME NEW i \in DOMAIN l.terms
        PROVE  l.terms[i] <= acted
    <3>1. i \in 1..(Len(tabs.log.terms) + 1)
      BY <1>5
    <3>2. CASE i \in 1..Len(tabs.log.terms)
      BY <3>2, <1>3, <1>5, SMTT(60) DEF Sound, Within
    <3>3. CASE i = Len(tabs.log.terms) + 1
      BY <3>3, <1>3
    <3> QED BY <3>1, <3>2, <3>3, <1>5
  <2> QED BY <2>1, <2>2 DEF Sorted, Within
<1>9. Sound(n)
  BY <1>3, <1>4, <1>5, <1>8, LsAssumption DEF Sound
<1> QED BY <1>3, <1>4, <1>9, Zenon DEF n

(* A cut and a drop keep the tables sound. *)
LEMMA CutIsSound ==
  ASSUME Sound(tabs), NEW i \in (tabs.log.from + 1)..LastOf(tabs.log), acted \in Nat
  PROVE  LET n == [tabs EXCEPT !.log = Contract!Cut(@, i)] IN
         Sound(n) /\ LastOf(n.log) = i - 1
<1> DEFINE l == Contract!Cut(tabs.log, i)
           n == [tabs EXCEPT !.log = l]
<1>1. tabs \in Tables /\ tabs.log \in Logs
  BY SoundTypes DEF Sound
<1>2. /\ l \in Logs /\ l.from = tabs.log.from /\ LastOf(l) = i - 1
      /\ Len(l.terms) <= Len(tabs.log.terms)
      /\ \A k \in 1..Len(l.terms) : l.terms[k] = tabs.log.terms[k]
  BY <1>1, CutLog
<1> HIDE DEF l
<1>3. /\ n.log = l /\ n.purged = tabs.purged /\ n.vote = tabs.vote /\ n.committed = tabs.committed
      /\ n \in Tables
  BY <1>1, <1>2, WithLog
<1>4. /\ Len(tabs.log.terms) \in Nat /\ DOMAIN tabs.log.terms = 1..Len(tabs.log.terms)
      /\ Len(l.terms) \in Nat /\ DOMAIN l.terms = 1..Len(l.terms) /\ LastOf(tabs.log) \in Nat
      /\ tabs.log.from \in Nat
  BY <1>2, SoundTypes, LenProperties DEF Logs
<1>5. Sorted(l) /\ Within(l, acted)
  <2>1. \A k \in DOMAIN l.terms : k \in DOMAIN tabs.log.terms /\ l.terms[k] = tabs.log.terms[k]
    BY <1>2, <1>4
  <2> QED BY <2>1 DEF Sound, Sorted, Within
<1>6. Sound(n)
  <2> HIDE DEF n
  <2>1. LastOf(l) <= LsMax
    BY <1>2, <1>4, LsAssumption DEF Sound
  <2> QED BY <1>2, <1>3, <1>5, <2>1 DEF Sound
<1> QED BY <1>2, <1>3, <1>6 DEF l

LEMMA DropIsSound ==
  ASSUME Sound(tabs), NEW i \in (tabs.log.from + 1)..LastOf(tabs.log), acted \in Nat
  PROVE  LET n == [tabs EXCEPT !.log = Contract!Drop(@, i), !.purged = i] IN
         /\ Sound(n) /\ LastOf(n.log) = LastOf(tabs.log) /\ n.log.from = i
         /\ Len(n.log.terms) = Len(tabs.log.terms) - (i - tabs.log.from)
         /\ \A k \in 1..Len(n.log.terms) : n.log.terms[k] = tabs.log.terms[k + (i - tabs.log.from)]
<1> DEFINE l == Contract!Drop(tabs.log, i)
           n == [tabs EXCEPT !.log = l, !.purged = i]
<1>1. tabs \in Tables /\ tabs.log \in Logs /\ i \in Nat /\ tabs.log.from \in Nat
  BY SoundTypes DEF Sound
<1>2. /\ l \in Logs /\ l.from = i /\ LastOf(l) = LastOf(tabs.log)
      /\ Len(l.terms) = Len(tabs.log.terms) - (i - tabs.log.from)
      /\ \A k \in 1..Len(l.terms) : l.terms[k] = tabs.log.terms[k + (i - tabs.log.from)]
  BY SMTT(60), <1>1, DropLog
<1> HIDE DEF l
<1>3. /\ n.log = l /\ n.purged = i /\ n.vote = tabs.vote /\ n.committed = tabs.committed
      /\ n \in Tables
  BY <1>1, <1>2, Zenon DEF Tables
<1>4. /\ Len(tabs.log.terms) \in Nat /\ DOMAIN tabs.log.terms = 1..Len(tabs.log.terms)
      /\ Len(l.terms) \in Nat /\ DOMAIN l.terms = 1..Len(l.terms)
  BY <1>2, SoundTypes, LenProperties DEF Logs
<1>5. \A k \in 1..Len(l.terms) : k + (i - tabs.log.from) \in 1..Len(tabs.log.terms)
  BY SMTT(60), <1>1, <1>2, <1>4
<1>6. Sorted(l) /\ Within(l, acted)
  <2> DEFINE d == i - tabs.log.from
  <2>1. d \in Int /\ \A k \in DOMAIN l.terms : /\ k \in Int /\ k + d \in DOMAIN tabs.log.terms
                                              /\ l.terms[k] = tabs.log.terms[k + d]
    <3>1. d \in Int
      BY <1>1
    <3>2. ASSUME NEW k \in DOMAIN l.terms
          PROVE  /\ k \in Int /\ k + d \in DOMAIN tabs.log.terms
                 /\ l.terms[k] = tabs.log.terms[k + d]
      <4>1. k \in 1..Len(l.terms)
        BY <1>4
      <4> QED BY SMTT(60), <4>1, <1>2, <1>4, <1>5
    <3> QED BY <3>1, <3>2
  <2> HIDE DEF d
  <2>2. \A j, k \in DOMAIN l.terms : j <= k => j + d <= k + d
    BY <2>1
  <2> QED BY <2>1, <2>2 DEF Sound, Sorted, Within
<1>7. Sound(n)
  <2> HIDE DEF n
  <2> QED BY <1>2, <1>3, <1>6 DEF Sound
<1> QED BY <1>2, <1>3, <1>7 DEF l

----------------------------------------------------------------------------
\* Each action preserves the invariant.

(* Nothing the invariant speaks of changes but where the waiter is. *)
LEMMA WaitKeepsInv ==
  ASSUME Inv, WaitSteps
  PROVE  Inv'
<1> USE DEF Inv
<1>1. UNCHANGED <<tabs, safe, op, prog, acted, leading, agreed, crashes>>
  BY SMTT(60) DEF WaitSteps, WaitRegister, WaitLook, WaitSleep, WaitWake
<1>2. Calls' /\ Leads'
  BY <1>1, ZenonT(60) DEF Calls, Leads, Sound, Sorted, Within, Appends, Truncates, Purges, Votes, Commits,
              Current, LastOf
<1>3. LastOf(tabs.log) \in Nat /\ (op.kind # "none" => LastOf(op.next.log) \in Nat)
  BY SoundTypes DEF Calls
<1>4. Types'
  <2>1. waiter.woken \in BOOLEAN
    BY DEF Types
  <2>2. waiter' \in [pc : {"off", "look", "decide", "sleep"}, woken : BOOLEAN]
    <3>1. \A p \in {"off", "look", "decide", "sleep"}, w \in BOOLEAN :
            [pc |-> p, woken |-> w] \in [pc : {"off", "look", "decide", "sleep"}, woken : BOOLEAN]
      OBVIOUS
    <3> QED BY <2>1, <3>1, Zenon DEF WaitSteps, WaitRegister, WaitLook, WaitSleep, WaitWake, WokenSince
  <2>3. done' \in Nat
    BY DEF Types, WaitSteps, WaitRegister, WaitLook, WaitSleep, WaitWake
  <2> QED BY <1>1, <2>2, <2>3 DEF Types
<1>5. Applied'
  <2>1. /\ done' \in Nat /\ done' <= agreed /\ done' <= LastOf(tabs.log)
        /\ waiter'.pc # "off" => done' < agreed
    <3>1. CASE UNCHANGED done /\ waiter.pc # "off"
      BY <3>1, <1>3 DEF Types, Applied
    <3>2. CASE WaitRegister
      BY <3>2 DEF Types, Applied, WaitRegister
    <3>3. CASE WaitLook /\ done' # done
      <4>1. /\ waiter.pc = "look" /\ prog.durable > done /\ done' = done + 1
            /\ waiter' = [pc |-> "off", woken |-> FALSE]
        BY <3>3 DEF WaitLook
      <4>2. /\ done < agreed /\ done \in Nat /\ prog.durable \in Nat /\ agreed \in Nat
        BY <4>1 DEF Types, Applied
      <4>3. done + 1 <= LastOf(tabs.log)
        <5>1. CASE prog.durable <= LastOf(tabs.log)
          BY <5>1, <4>1, <4>2, <1>3
        <5>2. CASE op.kind = "truncate" /\ op.pc = "return"
          <6>1. op.next = tabs /\ agreed <= LastOf(op.next.log)
            BY <5>2 DEF Calls, Applied
          <6> QED BY <6>1, <4>2, <1>3
        <5> QED BY <5>1, <5>2 DEF Applied
      <4> QED BY <4>1, <4>2, <4>3
    <3> QED BY <3>1, <3>2, <3>3 DEF WaitSteps, WaitLook, WaitSleep, WaitWake
  <2> QED BY <2>1, <1>1 DEF Applied, LastOf
<1> QED BY <1>2, <1>4, <1>5

(* Where the call in flight is, when it is the append, is the log. *)
LEMMA InvFacts ==
  ASSUME Inv
  PROVE  /\ LastOf(tabs.log) \in Nat /\ LastOf(tabs.log) <= LsMax /\ tabs \in Tables /\ safe \in Tables
         /\ acted \in Nat /\ leading \in Nat /\ agreed \in Nat /\ agreed <= LsMax /\ done \in Nat
         /\ prog.committed \in Nat /\ prog.durable \in Nat /\ prog.vote \in Nat
         /\ prog.start[1] \in Nat /\ prog.start[2] \in Nat /\ LsMax \in Nat
         /\ safe.log = tabs.log /\ safe.vote = tabs.vote /\ safe.purged = tabs.purged
         /\ op.pc \in {"idle", "commit", "return"} /\ op.kind \in Kinds
         /\ tabs.vote \in Nat /\ tabs.log.from \in Nat
<1>1. Sound(tabs) /\ Sound(safe) /\ safe = [tabs EXCEPT !.committed = safe.committed]
  BY DEF Inv, Calls
<1>2. tabs \in Tables /\ safe \in Tables /\ LastOf(tabs.log) <= LsMax
  BY <1>1 DEF Sound
<1>3. safe.log = tabs.log /\ safe.vote = tabs.vote /\ safe.purged = tabs.purged
  BY <1>1, <1>2 DEF Tables
<1>4. LastOf(tabs.log) \in Nat /\ tabs.vote \in Nat /\ tabs.log.from \in Nat
  BY <1>1, SoundTypes
<1>5. /\ acted \in Nat /\ leading \in Nat /\ agreed \in Nat /\ agreed <= LsMax /\ done \in Nat
      /\ prog.committed \in Nat /\ prog.durable \in Nat /\ prog.vote \in Nat
      /\ prog.start[1] \in Nat /\ prog.start[2] \in Nat /\ LsMax \in Nat
      /\ op.pc \in {"idle", "commit", "return"} /\ op.kind \in Kinds
  BY LsAssumption DEF Inv, Types
<1> QED BY <1>2, <1>3, <1>4, <1>5

LEMMA NoOpType == NoOp \in [pc : {"idle", "commit", "return"}, kind : Kinds, next : Tables]
<1>1. <<>> \in Seq(LsTerms)
  OBVIOUS
<1> QED BY <1>1 DEF NoOp, Kinds, Tables, Logs, Blank

(* append. *)
LEMMA AppendKeepsInv ==
  ASSUME Inv, NEW t \in LsTerms, AppendEntry(t)
  PROVE  Inv'
<1> DEFINE n == [tabs EXCEPT !.log.terms = Append(@, t)]
           last == LastOf(tabs.log)
<1>1. /\ op.pc = "idle" /\ op' = [pc |-> "commit", kind |-> "append", next |-> n]
      /\ last < LsMax /\ t <= acted /\ (leading > 0 => t = leading)
      /\ \A i \in DOMAIN tabs.log.terms : tabs.log.terms[i] <= t
      /\ prog' = [prog EXCEPT !.start = StartAfter(t, last + 1)]
      /\ UNCHANGED <<tabs, safe, acted, leading, agreed, done, waiter, crashes>>
  BY DEF AppendEntry, Issue
<1>2. Sound(tabs) /\ acted \in Nat /\ last \in Nat /\ t \in Nat \ {0} /\ op.kind = "none"
  BY <1>1, InvFacts, LsAssumption, SMTT(60) DEF Inv, Calls
<1>3. /\ Sound(n) /\ LastOf(n.log) = last + 1 /\ n.log.from = tabs.log.from
      /\ Len(n.log.terms) = Len(tabs.log.terms) + 1
      /\ \A i \in 1..Len(tabs.log.terms) : n.log.terms[i] = tabs.log.terms[i]
      /\ n.log.terms[Len(tabs.log.terms) + 1] = t
  BY Zenon, <1>1, <1>2, AppendIsSound
<1>4. Appends(tabs, n)
  BY <1>1, Zenon DEF Appends
<1> HIDE DEF n
<1>5. op'.pc = "commit" /\ op'.kind = "append" /\ op'.next = n
  BY <1>1
<1>6. /\ prog'.committed = prog.committed /\ prog'.durable = prog.durable /\ prog'.vote = prog.vote
      /\ prog'.start = StartAfter(t, last + 1)
  BY <1>1 DEF Inv, Types
<1>7. Types'
  <2>1. n \in Tables
    BY <1>3 DEF Sound
  <2>2. op' \in [pc : {"idle", "commit", "return"}, kind : Kinds, next : Tables]
    BY <1>1, <2>1 DEF Kinds
  <2>3. StartAfter(t, last + 1) \in Nat \X Nat
    BY <1>2, <1>1 DEF StartAfter, Inv, Types
  <2>4. prog' \in [committed : Nat, durable : Nat, vote : Nat, start : Nat \X Nat]
    BY <2>3, <1>1 DEF Inv, Types
  <2> QED BY <2>2, <2>4, <1>1 DEF Inv, Types
<1>8. Calls'
  <2>1. Sound(tabs)' /\ Sound(safe)'
    BY <1>1 DEF Inv, Calls, Sound, LastOf, Within, Sorted
  <2>2. Sound(op.next)'
    BY <1>1, <1>3, <1>5, Zenon DEF Sound, LastOf, Within, Sorted
  <2>3. Appends(tabs, op.next)'
    BY <1>1, <1>4, <1>5, Zenon DEF Appends, LastOf
  <2> QED BY <2>1, <2>2, <2>3, <1>1, <1>5 DEF Inv, Calls
<1>9. Applied'
  BY <1>1, <1>2, <1>5, <1>6 DEF Inv, Applied, LastOf
<1>10. Leads'
  <2>1. Current' = n.log /\ Current = tabs.log
    BY <1>2, <1>5 DEF Current
  <2>2. /\ DOMAIN tabs.log.terms = 1..Len(tabs.log.terms) /\ Len(tabs.log.terms) \in Nat
        /\ DOMAIN n.log.terms = 1..(Len(tabs.log.terms) + 1)
        /\ last = tabs.log.from + Len(tabs.log.terms) /\ tabs.log.from \in Nat
    BY <1>2, <1>3, SoundTypes DEF LastOf, Contract!LastOf
  <2>3. acted <= prog.vote /\ prog'.start[1] <= acted
    BY <1>1, <1>2, <1>6 DEF Inv, Leads, StartAfter
  <2>4. ASSUME leading > 0
        PROVE  /\ leading = acted
               /\ prog'.start[1] # leading => \A i \in DOMAIN n.log.terms : n.log.terms[i] # leading
               /\ prog'.start[1] = leading =>
                    /\ prog'.start[2] <= LastOf(n.log)
                    /\ \A i \in DOMAIN n.log.terms :
                         n.log.terms[i] = leading => prog'.start[2] <= n.log.from + i
    <3>1. leading = acted /\ t = leading
      BY <1>1, <2>4 DEF Inv, Leads
    <3>2. CASE prog.start[1] = leading
      <4>1. prog'.start = prog.start
        BY <3>1, <3>2, <1>2, <1>6 DEF StartAfter
      <4>2. /\ prog.start[2] <= last /\ prog.start[2] \in Nat
            /\ \A i \in 1..Len(tabs.log.terms) :
                 tabs.log.terms[i] = leading => prog.start[2] <= tabs.log.from + i
        BY <2>1, <2>2, <2>4, <3>2, InvFacts, Zenon DEF Inv, Leads
      <4>3. ASSUME NEW i \in DOMAIN n.log.terms
            PROVE  prog.start[2] <= n.log.from + i \/ n.log.terms[i] # leading
        <5>1. i \in 1..Len(tabs.log.terms) \/ i = Len(tabs.log.terms) + 1
          BY <2>2
        <5>2. CASE i \in 1..Len(tabs.log.terms)
          <6>1. n.log.terms[i] = tabs.log.terms[i] /\ n.log.from = tabs.log.from
            BY <5>2, <1>3
          <6> QED BY <5>2, <6>1, <4>2
        <5>3. CASE i = Len(tabs.log.terms) + 1
          <6>a. tabs.log.from + i = last + 1
            <7> HIDE DEF last
            <7> QED BY <5>3, <2>2
          <6>1. n.log.from + i = last + 1
            BY <6>a, <1>3, Zenon
          <6> QED BY <6>1, <4>2, <1>2
        <5> QED BY <5>1, <5>2, <5>3
      <4> QED BY <4>1, <4>2, <4>3, <3>1, <3>2, <1>2, <1>3
    <3>3. CASE prog.start[1] # leading
      <4>1. prog.start[1] < t
        BY <3>1, <3>3, <1>2, InvFacts DEF Inv, Leads
      <4>2. prog'.start = <<t, last + 1>>
        BY <4>1, <1>6 DEF StartAfter
      <4>3. \A i \in 1..Len(tabs.log.terms) : tabs.log.terms[i] # leading
        BY <2>1, <2>2, <2>4, <3>3 DEF Inv, Leads
      <4>4. ASSUME NEW i \in DOMAIN n.log.terms
            PROVE  last + 1 <= n.log.from + i \/ n.log.terms[i] # leading
        <5>1. i \in 1..Len(tabs.log.terms) \/ i = Len(tabs.log.terms) + 1
          BY <2>2
        <5>2. CASE i \in 1..Len(tabs.log.terms)
          <6>1. n.log.terms[i] = tabs.log.terms[i]
            BY <5>2, <1>3
          <6> QED BY <5>2, <6>1, <4>3
        <5>3. CASE i = Len(tabs.log.terms) + 1
          <6>a. tabs.log.from + i = last + 1
            <7> HIDE DEF last
            <7> QED BY <5>3, <2>2
          <6>1. n.log.from + i = last + 1
            BY <6>a, <1>3, Zenon
          <6> QED BY <6>1, <1>2
        <5> QED BY <5>1, <5>2, <5>3
      <4>5. prog'.start[1] = leading /\ prog'.start[2] = last + 1
        BY <4>2, <3>1
      <4> QED BY <4>4, <4>5, <3>1, <1>2, <1>3
    <3> QED BY <3>2, <3>3
  <2> QED BY <2>1, <2>3, <2>4, <1>1, <1>5, <1>6 DEF Leads, LastOf
<1> QED BY <1>7, <1>8, <1>9, <1>10 DEF Inv

(* Only a truncate makes the log end earlier. *)
LEMMA NextGrows ==
  ASSUME Inv, op.pc = "commit"
  PROVE  LastOf(op.next.log) \in Nat /\ (op.kind = "truncate" \/ LastOf(tabs.log) <= LastOf(op.next.log))
<1>1. Sound(op.next) /\ Sound(tabs) /\ op.kind # "none" /\ op.kind \in Kinds /\ acted \in Nat
  BY DEF Inv, Calls, Types
<1>2. tabs.log \in Logs /\ LastOf(tabs.log) \in Nat /\ LastOf(op.next.log) \in Nat /\ tabs.log.from \in Nat
  BY <1>1, SoundTypes
<1>3. CASE op.kind = "append"
  <2>1. PICK t \in LsTerms : op.next = [tabs EXCEPT !.log.terms = Append(@, t)]
    BY <1>3, Zenon DEF Inv, Calls, Appends
  <2>2. op.next.log = [tabs.log EXCEPT !.terms = Append(@, t)]
    BY <1>1, <2>1 DEF Sound, Tables
  <2> QED BY <1>2, <2>2, AppendedLog
<1>4. CASE op.kind = "purge"
  <2>1. PICK i \in (tabs.log.from + 1)..LastOf(tabs.log) :
          op.next = [tabs EXCEPT !.log = Contract!Drop(@, i), !.purged = i]
    BY <1>4, Zenon DEF Inv, Calls, Purges
  <2>2. op.next.log = Contract!Drop(tabs.log, i)
    BY <1>1, <2>1 DEF Sound, Tables
  <2> QED BY <1>2, <2>2, DropLog
<1>5. CASE op.kind = "vote"
  <2>1. op.next.log = tabs.log
    BY <1>1, <1>5, Zenon DEF Inv, Calls, Votes, Sound, Tables
  <2> QED BY <1>2, <2>1
<1>6. CASE op.kind = "committed"
  <2>1. op.next.log = tabs.log
    BY <1>1, <1>6, Zenon DEF Inv, Calls, Commits, Sound, Tables
  <2> QED BY <1>2, <2>1
<1> QED BY <1>1, <1>2, <1>3, <1>4, <1>5, <1>6 DEF Kinds

(* What is applied stays in the log. *)
LEMMA NextHasDone ==
  ASSUME Inv, op.pc = "commit"
  PROVE  done <= LastOf(op.next.log)
BY NextGrows, InvFacts DEF Inv, Applied

(* The commit leaves the start of a leader's term where it was. *)
LEMMA NextIsCurrent ==
  ASSUME Inv, op.pc = "commit", leading > 0, op.kind # "append"
  PROVE  /\ LastOf(op.next.log) = LastOf(tabs.log)
         /\ \A i \in DOMAIN op.next.log.terms : \E j \in DOMAIN tabs.log.terms :
              op.next.log.terms[i] = tabs.log.terms[j] /\ op.next.log.from + i = tabs.log.from + j
<1>1. Sound(op.next) /\ Sound(tabs) /\ op.kind \in {"purge", "committed"} /\ acted \in Nat
  BY DEF Inv, Calls, Types, Leads, Kinds
<1>2. tabs.log \in Logs /\ LastOf(tabs.log) \in Nat /\ tabs.log.from \in Nat
  BY <1>1, SoundTypes
<1>3. CASE op.kind = "purge"
  <2>1. PICK i \in (tabs.log.from + 1)..LastOf(tabs.log) :
          op.next = [tabs EXCEPT !.log = Contract!Drop(@, i), !.purged = i]
    BY <1>3, Zenon DEF Inv, Calls, Purges
  <2>2. op.next.log = Contract!Drop(tabs.log, i)
    BY <1>1, <2>1 DEF Sound, Tables
  <2> DEFINE m == op.next.log
             d == i - tabs.log.from
  <2>3. /\ LastOf(m) = LastOf(tabs.log) /\ m.from = i /\ Len(m.terms) = Len(tabs.log.terms) - d
        /\ \A k \in 1..Len(m.terms) : m.terms[k] = tabs.log.terms[k + d]
    <3>1. LET n == Contract!Drop(tabs.log, i) IN
         /\ n \in Logs /\ n.from = i /\ LastOf(n) = LastOf(tabs.log)
         /\ Len(n.terms) = Len(tabs.log.terms) - (i - tabs.log.from)
         /\ \A k \in 1..Len(n.terms) : n.terms[k] = tabs.log.terms[k + (i - tabs.log.from)]
      BY <1>2, DropLog, Zenon
    <3> QED BY <2>2, <3>1, Zenon
  <2>4. /\ DOMAIN m.terms = 1..Len(m.terms) /\ DOMAIN tabs.log.terms = 1..Len(tabs.log.terms)
        /\ Len(tabs.log.terms) \in Nat /\ Len(m.terms) \in Nat
    BY <1>1, SoundTypes
  <2>5. d \in Nat /\ i = tabs.log.from + d
    BY <1>2
  <2> HIDE DEF m, d
  <2>6. ASSUME NEW k \in DOMAIN m.terms
        PROVE  \E j \in DOMAIN tabs.log.terms :
                 m.terms[k] = tabs.log.terms[j] /\ m.from + k = tabs.log.from + j
    <3> DEFINE lm == Len(m.terms)
               lt == Len(tabs.log.terms)
               f == tabs.log.from
    <3>2. k \in 1..lm /\ lm = lt - d /\ lm \in Nat /\ lt \in Nat /\ d \in Nat /\ f \in Nat /\ i = f + d
      BY <2>3, <2>4, <2>5, <1>2, Zenon
    <3> HIDE DEF lm, lt, f
    <3>3. k + d \in 1..lt /\ i + k = f + (k + d)
      BY <3>2
    <3>1. k \in 1..Len(m.terms) /\ k + d \in DOMAIN tabs.log.terms /\ m.from + k = tabs.log.from + (k + d)
      BY <2>3, <2>4, <3>2, <3>3, Zenon DEF lm, lt, f
    <3> QED BY <2>3, <3>1
  <2> QED BY <2>3, <2>6, SMTT(60) DEF m
<1>4. CASE op.kind = "committed"
  <2>1. op.next.log = tabs.log
    BY <1>1, <1>4, Zenon DEF Inv, Calls, Commits, Sound, Tables
  <2> QED BY <1>2, <2>1
<1> QED BY <1>1, <1>3, <1>4

(* The engine's commit: the call's batch becomes the tables. *)
LEMMA CommitKeepsInv ==
  ASSUME Inv, EngineCommit
  PROVE  Inv'
<1>1. /\ op.pc = "commit" /\ op' = [op EXCEPT !.pc = "return"]
      /\ tabs' = op.next /\ safe' = (IF Synced(op.kind) THEN op.next ELSE safe)
      /\ UNCHANGED <<prog, acted, leading, agreed, done, waiter, crashes>>
  BY DEF EngineCommit
<1>2. op'.pc = "return" /\ op'.kind = op.kind /\ op'.next = op.next
  BY <1>1 DEF Inv, Types
<1>3. Sound(op.next) /\ Sound(tabs) /\ op.kind # "none"
  BY <1>1 DEF Inv, Calls
<1>4. Types'
  BY <1>1 DEF Inv, Types
<1>5. Calls'
  <2>1. Sound(tabs)' /\ Sound(op.next)' /\ Sound(safe)'
    BY <1>1, <1>2, <1>3 DEF Inv, Calls, Sound, LastOf, Within, Sorted
  <2>2. safe' = [tabs' EXCEPT !.committed = safe'.committed]
    <3>1. op.next \in Tables /\ safe \in Tables /\ tabs \in Tables
      BY <1>3, InvFacts DEF Sound
    <3>2. CASE Synced(op.kind)
      BY <1>1, <3>1, <3>2 DEF Tables
    <3>3. CASE ~Synced(op.kind)
      <4>1. op.kind = "committed"
        BY <3>3 DEF Synced
      <4>2. PICK c \in 0..LsMax : op.next = [tabs EXCEPT !.committed = c]
        BY <1>1, <4>1 DEF Inv, Calls, Commits
      <4>3. safe = [tabs EXCEPT !.committed = safe.committed]
        BY DEF Inv, Calls
      <4> QED BY <1>1, <3>1, <3>3, <4>2, <4>3, Zenon DEF Tables
    <3> QED BY <3>2, <3>3
  <2> QED BY <2>1, <2>2, <1>1, <1>2, <1>3 DEF Inv, Calls
<1>6. done <= LastOf(op.next.log)
  BY <1>1, NextHasDone
<1>7. prog.durable <= LastOf(op.next.log) \/ op.kind = "truncate"
  BY <1>1, NextGrows, InvFacts DEF Inv, Applied
<1>8. Applied'
  BY <1>1, <1>2, <1>6, <1>7 DEF Inv, Applied, LastOf
<1>9. Leads'
  BY <1>1, <1>2, <1>3, NextIsCurrent DEF Inv, Leads, Current, LastOf
<1> QED BY <1>4, <1>5, <1>8, <1>9 DEF Inv

(* last_durable rises after the append's commit. *)
LEMMA RaiseKeepsInv ==
  ASSUME Inv, RaiseDurable
  PROVE  Inv'
<1>1. /\ op.kind = "append" /\ op.pc = "return" /\ op.next = tabs
      /\ prog' = [prog EXCEPT !.durable = LastOf(tabs.log)]
      /\ UNCHANGED <<tabs, safe, op, acted, leading, agreed, done, crashes>>
  BY DEF RaiseDurable, RaisedWhen, Inv, Calls
<1>2. waiter' = [waiter EXCEPT !.woken = waiter.pc # "off"]
  BY DEF RaiseDurable, Woken
<1>3. LastOf(tabs.log) \in Nat
  BY InvFacts
<1>4. Types'
  <2>1. prog' \in [committed : Nat, durable : Nat, vote : Nat, start : Nat \X Nat]
    BY <1>1, <1>3 DEF Inv, Types
  <2>2. waiter' \in [pc : {"off", "look", "decide", "sleep"}, woken : BOOLEAN]
    BY <1>2, Zenon DEF Inv, Types
  <2> QED BY <1>1, <2>1, <2>2 DEF Inv, Types
<1>5. prog'.durable = LastOf(tabs.log) /\ prog'.vote = prog.vote /\ prog'.start = prog.start
  BY <1>1 DEF Inv, Types
<1>6. Calls'
  BY <1>1, ZenonT(60) DEF Inv, Calls, Sound, LastOf, Within, Sorted, Appends, Truncates, Purges, Votes, Commits
<1>7. waiter'.pc = waiter.pc
  BY <1>2 DEF Inv, Types
<1>8. Applied'
  BY <1>1, <1>3, <1>5, <1>7 DEF Inv, Applied, LastOf
<1>9. Leads'
  BY <1>1, <1>5 DEF Inv, Leads, Current, LastOf
<1> QED BY <1>4, <1>6, <1>8, <1>9 DEF Inv

(* append, purge and save_committed return. *)
LEMMA ReturnKeepsInv ==
  ASSUME Inv, AppendReturns \/ OtherReturns
  PROVE  Inv'
<1>1. /\ op.pc = "return" /\ op.next = tabs /\ op.kind \in {"append", "purge", "committed"} /\ op' = NoOp
      /\ UNCHANGED <<tabs, safe, prog, acted, leading, agreed, done, waiter, crashes>>
  BY DEF AppendReturns, OtherReturns, Inv, Calls
<1>2. op'.pc = "idle" /\ op'.kind = "none"
  BY <1>1 DEF NoOp
<1>3. Types'
  BY <1>1, NoOpType DEF Inv, Types
<1>4. Calls'
  BY <1>1, <1>2 DEF Inv, Calls, Sound, LastOf, Within, Sorted
<1>5. Applied'
  BY <1>1, <1>2 DEF Inv, Applied, LastOf
<1>6. Current' = Current
  BY <1>1, <1>2 DEF Current
<1>7. Leads'
  BY <1>1, <1>2, <1>6 DEF Inv, Leads, LastOf
<1> QED BY <1>3, <1>4, <1>5, <1>7 DEF Inv

(* truncate returns: last_durable goes down to the log's end. *)
LEMMA TruncateReturnKeepsInv ==
  ASSUME Inv, TruncateReturns
  PROVE  Inv'
<1>1. /\ op.pc = "return" /\ op.next = tabs /\ op.kind = "truncate" /\ op' = NoOp
      /\ prog' = [prog EXCEPT !.durable = KlLeast(@, LastOf(tabs.log)), !.start = StartKept(LastOf(tabs.log))]
      /\ UNCHANGED <<tabs, safe, acted, leading, agreed, done, waiter, crashes>>
  BY DEF TruncateReturns, Inv, Calls
<1>2. op'.pc = "idle" /\ op'.kind = "none"
  BY <1>1 DEF NoOp
<1>3. prog \in [committed : Nat, durable : Nat, vote : Nat, start : Nat \X Nat]
  BY DEF Inv, Types
<1>4. /\ prog'.durable = KlLeast(prog.durable, LastOf(tabs.log)) /\ prog'.vote = prog.vote
      /\ prog'.start = StartKept(LastOf(tabs.log)) /\ prog'.committed = prog.committed
  BY <1>1, <1>3
<1>5. KlLeast(prog.durable, LastOf(tabs.log)) \in Nat
  BY InvFacts DEF KlLeast, Contract!Least
<1>6. StartKept(LastOf(tabs.log)) \in Nat \X Nat /\ StartKept(LastOf(tabs.log))[1] <= acted
  BY <1>3, InvFacts DEF StartKept, Inv, Leads
<1>7. Types'
  <2>1. prog' \in [committed : Nat, durable : Nat, vote : Nat, start : Nat \X Nat]
    BY Zenon, <1>1, <1>3, <1>5, <1>6
  <2> QED BY <1>1, <2>1, NoOpType DEF Inv, Types
<1>8. Calls'
  BY <1>1, <1>2 DEF Inv, Calls, Sound, LastOf, Within, Sorted
<1>9. Applied'
  <2>1. prog'.durable <= LastOf(tabs.log)
    BY <1>4, InvFacts DEF KlLeast, Contract!Least
  <2> QED BY <1>1, <1>2, <2>1 DEF Inv, Applied, LastOf
<1>10. Leads'
  BY <1>1, <1>4, <1>6, InvFacts DEF Inv, Leads
<1> QED BY <1>7, <1>8, <1>9, <1>10 DEF Inv

(* save_vote, of a higher term than any before. *)
LEMMA SaveVoteKeepsInv ==
  ASSUME Inv, NEW t \in LsTerms, SaveVote(t)
  PROVE  Inv'
<1> DEFINE n == [tabs EXCEPT !.vote = t]
<1>1. /\ t > tabs.vote /\ op.pc = "idle" /\ op' = [pc |-> "commit", kind |-> "vote", next |-> n] /\ leading' = 0
      /\ UNCHANGED <<tabs, safe, prog, acted, agreed, done, waiter, crashes>>
  BY DEF SaveVote, Issue
<1>2. Sound(tabs) /\ tabs \in Tables /\ acted \in Nat /\ t \in Nat
  BY InvFacts, LsAssumption DEF Inv, Calls
<1>3. /\ n \in Tables /\ n.log = tabs.log /\ n.purged = tabs.purged /\ n.vote = t
      /\ n.committed = tabs.committed
  BY <1>2 DEF Tables
<1>4. Votes(tabs, n)
  BY DEF Votes
<1>5. acted < t
  BY <1>1, <1>2, SoundTypes DEF Sound
<1> HIDE DEF n
<1>6. Sound(n)
  BY <1>2, <1>3, <1>5 DEF Sound
<1>7. op'.pc = "commit" /\ op'.kind = "vote" /\ op'.next = n
  BY <1>1
<1>8. Types'
  BY <1>1, <1>3 DEF Inv, Types, Kinds
<1>9. Calls'
  <2>1. Sound(tabs)' /\ Sound(safe)'
    BY <1>1 DEF Inv, Calls, Sound, LastOf, Within, Sorted
  <2>2. Sound(op.next)'
    BY <1>1, <1>6, <1>7 DEF Sound, LastOf, Within, Sorted
  <2>3. Votes(tabs, op.next)'
    BY <1>1, <1>4, <1>7 DEF Votes
  <2> QED BY <2>1, <2>2, <2>3, <1>1, <1>3, <1>5, <1>7 DEF Inv, Calls
<1>10. Applied'
  BY <1>1, <1>7 DEF Inv, Applied, LastOf, Calls
<1>11. Leads'
  BY <1>1 DEF Inv, Leads
<1> QED BY <1>8, <1>9, <1>10, <1>11 DEF Inv

(* save_vote returns: openraft acts on the vote, and may lead its term. *)
LEMMA VoteReturnKeepsInv ==
  ASSUME Inv, VoteReturns
  PROVE  Inv'
<1>1. /\ op.pc = "return" /\ op.next = tabs /\ op.kind = "vote" /\ op' = NoOp
      /\ prog' = [prog EXCEPT !.vote = Highest(@, tabs.vote)] /\ acted' = tabs.vote
      /\ leading' \in {0, tabs.vote} /\ acted < tabs.vote
      /\ UNCHANGED <<tabs, safe, agreed, done, waiter, crashes>>
  BY DEF VoteReturns, Inv, Calls
<1>2. op'.pc = "idle" /\ op'.kind = "none"
  BY <1>1 DEF NoOp
<1>3. prog \in [committed : Nat, durable : Nat, vote : Nat, start : Nat \X Nat]
  BY DEF Inv, Types
<1>4. Highest(prog.vote, tabs.vote) \in Nat /\ tabs.vote <= Highest(prog.vote, tabs.vote)
  BY InvFacts DEF Highest
<1>5. prog'.vote = Highest(prog.vote, tabs.vote) /\ prog'.start = prog.start /\ prog'.durable = prog.durable
  BY <1>1, <1>3
<1>6. Types'
  <2>1. prog' \in [committed : Nat, durable : Nat, vote : Nat, start : Nat \X Nat]
    BY <1>1, <1>3, <1>4
  <2> QED BY <1>1, <2>1, NoOpType, InvFacts DEF Inv, Types
<1>7. Calls'
  <2>1. Sound(tabs) /\ Sound(safe) /\ acted \in Nat /\ safe.vote = tabs.vote /\ safe.log = tabs.log
    BY InvFacts DEF Inv, Calls
  <2>2. Within(tabs.log, tabs.vote)
    <3>1. ASSUME NEW i \in DOMAIN tabs.log.terms PROVE tabs.log.terms[i] <= tabs.vote
      <4>1. tabs.log.terms[i] <= acted /\ tabs.log.terms[i] \in Nat /\ tabs.vote \in Nat
        BY <2>1, SoundTypes, SMTT(60) DEF Sound, Within
      <4> QED BY <4>1, <2>1, <1>1
    <3> QED BY <3>1 DEF Within
  <2>3. tabs.vote <= tabs.vote
    BY InvFacts
  <2>4. Sound(tabs)' /\ Sound(safe)'
    BY <1>1, <2>1, <2>2, <2>3 DEF Sound, LastOf, Within, Sorted
  <2> QED BY <1>1, <1>2, <2>4 DEF Inv, Calls
<1>8. Applied'
  BY <1>1, <1>2, <1>5 DEF Inv, Applied, LastOf
<1>9. Leads'
  <2>1. prog.start[1] < tabs.vote
    BY <1>1, InvFacts DEF Inv, Leads
  <2>2. \A i \in DOMAIN tabs.log.terms : tabs.log.terms[i] # tabs.vote
    <3>1. ASSUME NEW i \in DOMAIN tabs.log.terms PROVE tabs.log.terms[i] # tabs.vote
      <4>1. tabs.log.terms[i] <= acted /\ tabs.log.terms[i] \in Nat /\ tabs.vote \in Nat /\ acted \in Nat
        BY InvFacts, SoundTypes, Zenon DEF Sound, Within, Inv, Calls
      <4> QED BY <4>1, <1>1
    <3> QED BY <3>1
  <2>3. Current' = tabs.log
    BY <1>1, <1>2 DEF Current
  <2> QED BY <1>1, <1>2, <1>4, <1>5, <2>1, <2>2, <2>3, InvFacts DEF Leads
<1> QED BY <1>6, <1>7, <1>8, <1>9 DEF Inv

(* save_committed. *)
LEMMA SaveCommittedKeepsInv ==
  ASSUME Inv, SaveCommitted
  PROVE  Inv'
<1> DEFINE n == [tabs EXCEPT !.committed = agreed]
<1>1. /\ op.pc = "idle" /\ op' = [pc |-> "commit", kind |-> "committed", next |-> n]
      /\ prog' = [prog EXCEPT !.committed = Highest(@, agreed)]
      /\ UNCHANGED <<tabs, safe, acted, leading, agreed, done, waiter, crashes>>
  BY DEF SaveCommitted, Issue
<1>2. Sound(tabs) /\ tabs \in Tables /\ agreed \in Nat /\ agreed <= LsMax /\ agreed \in 0..LsMax /\ op.kind = "none"
  BY <1>1, InvFacts DEF Inv, Calls
<1>3. /\ n \in Tables /\ n.log = tabs.log /\ n.purged = tabs.purged /\ n.vote = tabs.vote
      /\ n.committed = agreed
  BY <1>2 DEF Tables
<1>4. Commits(tabs, n)
  BY <1>2 DEF Commits
<1> HIDE DEF n
<1>6. Sound(n)
  BY <1>2, <1>3 DEF Sound
<1>7. op'.pc = "commit" /\ op'.kind = "committed" /\ op'.next = n
  BY <1>1
<1>8. prog'.vote = prog.vote /\ prog'.start = prog.start /\ prog'.durable = prog.durable
  BY <1>1 DEF Inv, Types
<1>9. Types'
  <2>1. Highest(prog.committed, agreed) \in Nat
    BY InvFacts DEF Highest
  <2>2. prog' \in [committed : Nat, durable : Nat, vote : Nat, start : Nat \X Nat]
    BY <1>1, <2>1 DEF Inv, Types
  <2> QED BY <1>1, <1>3, <2>2 DEF Inv, Types, Kinds
<1>10. Calls'
  <2>1. Sound(tabs)' /\ Sound(safe)'
    BY <1>1 DEF Inv, Calls, Sound, LastOf, Within, Sorted
  <2>2. Sound(op.next)'
    BY <1>1, <1>6, <1>7 DEF Sound, LastOf, Within, Sorted
  <2>3. Commits(tabs, op.next)'
    BY <1>1, <1>4, <1>7 DEF Commits
  <2> QED BY <2>1, <2>2, <2>3, <1>1, <1>7 DEF Inv, Calls
<1>11. Applied'
  BY <1>1, <1>2, <1>7, <1>8 DEF Inv, Applied, LastOf
<1>12. Leads'
  <2>1. Current' = Current
    BY <1>1, <1>2, <1>7 DEF Current
  <2> QED BY <1>1, <1>2, <1>7, <1>8, <2>1 DEF Inv, Leads, LastOf
<1> QED BY <1>9, <1>10, <1>11, <1>12 DEF Inv

(* truncate, of entries above what is committed. *)
LEMMA TruncateKeepsInv ==
  ASSUME Inv, NEW i \in 1..LsMax, TruncateFrom(i)
  PROVE  Inv'
<1> DEFINE n == [tabs EXCEPT !.log = Contract!Cut(@, i)]
<1>1. /\ leading = 0 /\ i > Highest(agreed, tabs.log.from) /\ i <= LastOf(tabs.log) /\ op.pc = "idle"
      /\ op' = [pc |-> "commit", kind |-> "truncate", next |-> n]
      /\ UNCHANGED <<tabs, safe, prog, acted, leading, agreed, done, waiter, crashes>>
  BY DEF TruncateFrom, Issue
<1>2. /\ Sound(tabs) /\ acted \in Nat /\ agreed < i /\ i \in (tabs.log.from + 1)..LastOf(tabs.log)
      /\ op.kind = "none"
  <2>1. i > agreed /\ i > tabs.log.from /\ i \in Nat
    BY <1>1, InvFacts DEF Highest
  <2> QED BY <1>1, <2>1, InvFacts DEF Inv, Calls
<1>3. Sound(n) /\ LastOf(n.log) = i - 1
  BY <1>2, CutIsSound
<1>4. Truncates(tabs, n)
  BY <1>2 DEF Truncates
<1> HIDE DEF n
<1>5. op'.pc = "commit" /\ op'.kind = "truncate" /\ op'.next = n
  BY <1>1
<1>6. Types'
  <2>1. n \in Tables
    BY <1>3 DEF Sound
  <2> QED BY <1>1, <2>1 DEF Inv, Types, Kinds
<1>7. Calls'
  <2>1. Sound(tabs)' /\ Sound(safe)'
    BY <1>1 DEF Inv, Calls, Sound, LastOf, Within, Sorted
  <2>2. Sound(op.next)'
    BY <1>1, <1>3, <1>5 DEF Sound, LastOf, Within, Sorted
  <2>3. Truncates(tabs, op.next)'
    BY <1>1, <1>4, <1>5, Zenon DEF Truncates, LastOf, Contract!LastOf, Contract!Cut
  <2> QED BY <2>1, <2>2, <2>3, <1>1, <1>5 DEF Inv, Calls
<1>8. Applied'
  <2>1. agreed <= LastOf(n.log)
    BY <1>2, <1>3, InvFacts
  <2> QED BY <1>1, <1>2, <1>5, <2>1 DEF Inv, Applied, LastOf
<1>9. Leads'
  BY <1>1 DEF Inv, Leads
<1> QED BY <1>6, <1>7, <1>8, <1>9 DEF Inv

(* purge, of entries applied. *)
LEMMA PurgeKeepsInv ==
  ASSUME Inv, NEW i \in 1..LsMax, PurgeTo(i)
  PROVE  Inv'
<1> DEFINE n == [tabs EXCEPT !.log = Contract!Drop(@, i), !.purged = i]
<1>1. /\ i > tabs.log.from /\ i <= KlLeast(done, LastOf(tabs.log)) /\ op.pc = "idle"
      /\ op' = [pc |-> "commit", kind |-> "purge", next |-> n]
      /\ UNCHANGED <<tabs, safe, prog, acted, leading, agreed, done, waiter, crashes>>
  BY DEF PurgeTo, PurgeBatch, Issue
<1>2. Sound(tabs) /\ acted \in Nat /\ i \in (tabs.log.from + 1)..LastOf(tabs.log) /\ op.kind = "none"
  <2>1. i <= LastOf(tabs.log) /\ i \in Nat
    BY <1>1, InvFacts, SMTT(60) DEF KlLeast, Contract!Least
  <2> QED BY <1>1, <2>1, InvFacts DEF Inv, Calls
<1>3. Sound(n)
  BY ZenonT(60), <1>2, DropIsSound
<1>4. Purges(tabs, n)
  BY <1>2, Zenon DEF Purges
<1> HIDE DEF n
<1>5. op'.pc = "commit" /\ op'.kind = "purge" /\ op'.next = n
  BY <1>1
<1>6. Types'
  <2>1. n \in Tables
    BY <1>3 DEF Sound
  <2> QED BY <1>1, <2>1 DEF Inv, Types, Kinds
<1>7. Calls'
  <2>1. Sound(tabs)' /\ Sound(safe)'
    BY <1>1 DEF Inv, Calls, Sound, LastOf, Within, Sorted
  <2>2. Sound(op.next)'
    BY <1>1, <1>3, <1>5, SMTT(60) DEF Sound, LastOf, Within, Sorted
  <2>3. Purges(tabs, op.next)'
    BY <1>1, <1>4, <1>5, Zenon DEF Purges, LastOf, Contract!LastOf, Contract!Drop
  <2> QED BY <2>1, <2>2, <2>3, <1>1, <1>5 DEF Inv, Calls
<1>8. Applied'
  BY <1>1, <1>2, <1>5 DEF Inv, Applied, LastOf
<1>9. Leads'
  <2>1. Current' = Current
    BY <1>1, <1>2, <1>5 DEF Current
  <2> QED BY <1>1, <1>2, <1>5, <2>1 DEF Inv, Leads, LastOf
<1> QED BY <1>6, <1>7, <1>8, <1>9 DEF Inv

(* A quorum commits. *)
LEMMA QuorumKeepsInv ==
  ASSUME Inv, QuorumCommits
  PROVE  Inv'
<1>1. /\ agreed < LastOf(Current) /\ op.kind # "truncate" /\ agreed' = LastOf(Current)
      /\ UNCHANGED <<tabs, safe, op, prog, acted, leading, done, waiter, crashes>>
  BY DEF QuorumCommits, Current
<1>2. LastOf(Current) \in 0..LsMax
  <2>1. CASE op.kind = "append"
    <3>1. Sound(op.next) /\ Current = op.next.log
      BY <2>1 DEF Inv, Calls, Current
    <3> QED BY <3>1, SoundTypes, LsAssumption DEF Sound
  <2>2. CASE op.kind # "append"
    BY <2>2, InvFacts DEF Current
  <2> QED BY <2>1, <2>2
<1>3. Types'
  BY <1>1, <1>2, SMTT(60) DEF Inv, Types
<1>4. Calls'
  BY <1>1, ZenonT(60) DEF Inv, Calls, Sound, LastOf, Within, Sorted, Appends, Purges, Votes, Commits
<1>5. Applied'
  <2>1. done <= agreed' /\ (waiter.pc # "off" => done < agreed')
    BY <1>1, <1>2, InvFacts DEF Inv, Applied
  <2> QED BY <1>1, <2>1 DEF Inv, Applied, LastOf
<1>6. Leads'
  BY <1>1 DEF Inv, Leads, Current, LastOf
<1> QED BY <1>3, <1>4, <1>5, <1>6 DEF Inv

(* A crash: the tables are those made durable, with or without the commit  *)
(* in flight, and LogProgress is read back from them.                      *)
LEMMA CrashKeepsInv ==
  ASSUME Inv, CrashRestart
  PROVE  Inv'
<1>1. PICK t \in {safe} \cup {tabs} \cup (IF op.pc = "commit" THEN {op.next} ELSE {}) :
        /\ tabs' = t /\ safe' = t
        /\ prog' = [committed |-> t.committed, durable |-> LastOf(t.log), vote |-> BootVote(t.vote), start |-> <<0, 0>>]
        /\ agreed' = Highest(done, KlLeast(agreed, LastOf(t.log)))
  BY Zenon DEF CrashRestart
<1>2. /\ op' = NoOp /\ leading' = 0 /\ waiter' = [pc |-> "off", woken |-> FALSE] /\ crashes' = crashes + 1
      /\ UNCHANGED <<acted, done>>
  BY DEF CrashRestart
<1>3. Sound(t) /\ done <= LastOf(t.log)
  <2>1. CASE t = op.next /\ op.pc = "commit"
    BY <2>1, NextHasDone DEF Inv, Calls
  <2>2. CASE t = safe \/ t = tabs
    BY <2>2, InvFacts DEF Inv, Calls, Applied
  <2> QED BY <1>1, <2>1, <2>2
<1>4. /\ t \in Tables /\ t.committed \in Nat /\ t.vote \in Nat /\ LastOf(t.log) \in Nat /\ LastOf(t.log) <= LsMax
      /\ acted <= t.vote
  BY <1>3, SoundTypes DEF Sound
<1>5. op'.pc = "idle" /\ op'.kind = "none" /\ waiter'.pc = "off"
  BY <1>2 DEF NoOp
<1>6. prog'.durable = LastOf(t.log) /\ prog'.vote = t.vote /\ prog'.start = <<0, 0>> /\ prog'.committed = t.committed
  BY <1>1 DEF BootVote
<1>7. agreed' \in 0..LsMax /\ done <= agreed'
  BY <1>1, <1>4, InvFacts DEF Highest, KlLeast, Contract!Least, Inv, Applied
<1>8. Types'
  <2>1. prog' \in [committed : Nat, durable : Nat, vote : Nat, start : Nat \X Nat]
    BY <1>1, <1>4 DEF BootVote
  <2>2. waiter' \in [pc : {"off", "look", "decide", "sleep"}, woken : BOOLEAN]
    BY <1>2
  <2>3. crashes' \in Nat
    BY <1>2 DEF Inv, Types
  <2> QED BY <1>2, <1>7, <2>1, <2>2, <2>3, NoOpType, InvFacts, SMTT(60) DEF Types
<1>9. Calls'
  <2>1. Sound(tabs)' /\ Sound(safe)'
    BY <1>1, <1>2, <1>3 DEF Sound, LastOf, Within, Sorted
  <2>2. t = [t EXCEPT !.committed = t.committed]
    BY <1>4 DEF Tables
  <2> QED BY <1>1, <1>5, <2>1, <2>2, SMTT(60) DEF Calls
<1>10. Applied'
  <2>1. LastOf(tabs.log)' = LastOf(t.log)
    BY <1>1 DEF LastOf
  <2> QED BY <1>2, <1>3, <1>4, <1>5, <1>6, <1>7, <2>1 DEF Applied
<1>11. Leads'
  BY <1>2, <1>4, <1>6, InvFacts DEF Leads
<1> QED BY <1>8, <1>9, <1>10, <1>11 DEF Inv

----------------------------------------------------------------------------
\* The theorems.

LEMMA InvInit ==
  ASSUME KlInit
  PROVE  Inv
<1> USE DEF KlInit
<1>1. <<>> \in Seq(LsTerms) /\ Len(<<>>) = 0 /\ DOMAIN <<>> = {}
  OBVIOUS
<1>2. Blank \in Tables /\ LastOf(Blank.log) = 0 /\ DOMAIN Blank.log.terms = {} /\ Blank.log.terms = <<>>
  BY <1>1 DEF Blank, Tables, Logs, LastOf, Contract!LastOf
<1>3. Sound(Blank)
  BY <1>2, LsAssumption DEF Sound, Sorted, Within, Blank
<1>4. op.pc = "idle" /\ op.kind = "none" /\ waiter.pc = "off"
  BY DEF NoOp
<1>5. prog.durable = 0 /\ prog.vote = 0 /\ prog.start = <<0, 0>>
  BY DEF Fresh
<1>6. Types
  BY NoOpType, LsAssumption DEF Types, Fresh
<1>7. Blank = [Blank EXCEPT !.committed = Blank.committed]
  BY DEF Blank
<1>8. Calls
  BY <1>3, <1>4, <1>7 DEF Calls
<1>9. Applied
  BY <1>2, <1>4, <1>5 DEF Applied
<1>10. Leads
  BY <1>5 DEF Leads
<1> QED BY <1>6, <1>8, <1>9, <1>10 DEF Inv

LEMMA StutterKeepsInv ==
  ASSUME Inv, UNCHANGED klVars
  PROVE  Inv'
<1>1. Types'
  BY SMTT(60) DEF klVars, Inv, Types
<1>2. Calls'
  BY ZenonT(60) DEF klVars, Inv, Calls, Sound, LastOf, Within, Sorted, Appends, Truncates, Purges, Votes, Commits
<1>3. Applied'
  BY DEF klVars, Inv, Applied, LastOf
<1>4. Leads'
  BY DEF klVars, Inv, Leads, Current, LastOf
<1> QED BY <1>1, <1>2, <1>3, <1>4 DEF Inv

(* The inductive invariant: every call, commit, return, look of the waiter *)
(* and crash keeps it.                                                     *)
THEOREM InvHolds == KlSafe => []Inv
<1>1. KlInit => Inv
  BY InvInit
<1>2. Inv /\ [KlNext]_klVars => Inv'
  <2> SUFFICES ASSUME Inv, [KlNext]_klVars PROVE Inv'
    OBVIOUS
  <2>1. CASE CallSteps
    BY <2>1, CommitKeepsInv, RaiseKeepsInv, ReturnKeepsInv, TruncateReturnKeepsInv, VoteReturnKeepsInv
       DEF CallSteps
  <2>2. CASE WaitSteps
    BY <2>2, WaitKeepsInv
  <2>3. CASE SaveCommitted \/ QuorumCommits \/ CrashRestart
    BY <2>3, SaveCommittedKeepsInv, QuorumKeepsInv, CrashKeepsInv
  <2>4. CASE \E t \in LsTerms : AppendEntry(t) \/ SaveVote(t)
    BY <2>4, AppendKeepsInv, SaveVoteKeepsInv
  <2>5. CASE \E i \in 1..LsMax : TruncateFrom(i) \/ PurgeTo(i)
    BY <2>5, TruncateKeepsInv, PurgeKeepsInv
  <2>6. CASE UNCHANGED klVars
    BY <2>6, StutterKeepsInv
  <2> QED BY <2>1, <2>2, <2>3, <2>4, <2>5, <2>6 DEF KlNext
<1> QED BY <1>1, <1>2, PTL DEF KlSafe

(* The tables' log has no hole above the purge point and its terms never   *)
(* fall, in the tables openraft reads and in those a crash leaves          *)
(* (append, truncate, purge).                                              *)
THEOREM LogIsWellFormed == KlSafe => []KlTypeOK
<1>1. Inv => KlTypeOK
  <2> SUFFICES ASSUME Inv PROVE KlTypeOK
    OBVIOUS
  <2>1. op.pc \in {"idle", "commit", "return"} /\ waiter.pc \in {"off", "look", "decide", "sleep"}
    BY DEF Inv, Types
  <2>2. Sound(tabs) /\ Sound(safe)
    BY DEF Inv, Calls
  <2>3. ASSUME NEW t \in {tabs, safe}
        PROVE  /\ t.log.from = t.purged /\ LastOf(t.log) \in 0..LsMax
               /\ \A i, j \in DOMAIN t.log.terms : i <= j => t.log.terms[i] <= t.log.terms[j]
    <3>1. Sound(t)
      BY <2>2, <2>3
    <3> QED BY <3>1, SoundTypes, LsAssumption DEF Sound, Sorted
  <2> QED BY <2>1, <2>3 DEF KlTypeOK
<1> QED BY <1>1, InvHolds, PTL

(* wait_durable: the state machine has applied nothing a crash could take  *)
(* out of this member's log, whatever a quorum committed meanwhile.        *)
THEOREM AppliedStays == KlSafe => []AppliedIsDurable
<1>1. Inv => AppliedIsDurable
  BY InvFacts DEF Inv, Applied, AppliedIsDurable
<1> QED BY <1>1, InvHolds, PTL

(* save_vote and read_vote: no crash forgets a vote openraft acted on, and *)
(* LogProgress never reports an older term.                                *)
THEOREM VotesAreKept == KlSafe => []VoteIsKnown
<1>1. Inv => VoteIsKnown
  BY DEF Inv, Leads, Calls, Sound, VoteIsKnown
<1> QED BY <1>1, InvHolds, PTL

(* term_start: what a leader takes for its term's first entry is not after *)
(* it, so its read index is not below an entry of its term.                *)
THEOREM TermStartIsRight == KlSafe => []TermStartRight
<1>1. Inv => TermStartRight
  <2> SUFFICES ASSUME Inv, leading > 0, prog.start[1] = leading
               PROVE  /\ prog.start[2] <= LastOf(Current)
                      /\ \A i \in (Current.from + 1)..LastOf(Current) :
                           TermAt(Current, i) = leading => prog.start[2] <= i
    BY DEF TermStartRight, Current
  <2>1. Sound(tabs) /\ (op.kind = "append" => Sound(op.next))
    BY DEF Inv, Calls
  <2>2. /\ Current.from \in Nat /\ Len(Current.terms) \in Nat
        /\ DOMAIN Current.terms = 1..Len(Current.terms)
        /\ LastOf(Current) = Current.from + Len(Current.terms)
    BY <2>1, SoundTypes DEF Current, LastOf, Contract!LastOf
  <2>3. /\ prog.start[2] <= LastOf(Current)
        /\ \A k \in DOMAIN Current.terms :
             Current.terms[k] = leading => prog.start[2] <= Current.from + k
    BY DEF Inv, Leads
  <2>4. ASSUME NEW i \in (Current.from + 1)..LastOf(Current), TermAt(Current, i) = leading
        PROVE  prog.start[2] <= i
    <3>1. i - Current.from \in DOMAIN Current.terms /\ Current.from + (i - Current.from) = i
      BY <2>2
    <3>2. Current.terms[i - Current.from] = leading
      BY <2>4 DEF TermAt, Contract!TermAt
    <3> QED BY <3>1, <3>2, <2>3
  <2> QED BY <2>3, <2>4
<1> QED BY <1>1, InvHolds, PTL

(* All of it together: what openraft and the readers of LogProgress rely   *)
(* on holds after any calls, commits and crashes (kv_log_store.rs).        *)
THEOREM LogIsRight == KlSafe => []KlRight
BY LogIsWellFormed, AppliedStays, VotesAreKept, TermStartIsRight, PTL DEF KlRight

(* The batch of each call is one operation of the abstract store. *)
LEMMA NextIsStep ==
  ASSUME Inv, op.pc = "commit", tabs' = op.next
  PROVE  Contract!LsNext
<1>1. Sound(tabs) /\ tabs \in Tables /\ op.kind \in Kinds /\ op.kind # "none"
  BY InvFacts DEF Inv, Calls, Types
<1>2. CASE op.kind = "append"
  <2>1. PICK t \in LsTerms :
          LastOf(tabs.log) < LsMax /\ op.next = [tabs EXCEPT !.log.terms = Append(@, t)]
    BY <1>2, Zenon DEF Inv, Calls, Appends
  <2>2. /\ tabs'.log = [tabs.log EXCEPT !.terms = Append(@, t)] /\ tabs'.purged = tabs.purged
        /\ tabs'.vote = tabs.vote /\ tabs'.committed = tabs.committed
    BY <1>1, <2>1 DEF Tables
  <2>3. Contract!LsAppend
    BY <2>1, <2>2, Zenon DEF Contract!LsAppend, LastOf
  <2> QED BY <2>3 DEF Contract!LsNext
<1>3. CASE op.kind = "truncate"
  <2>1. PICK i \in (tabs.log.from + 1)..LastOf(tabs.log) : op.next = [tabs EXCEPT !.log = Contract!Cut(@, i)]
    BY <1>3 DEF Inv, Calls, Truncates
  <2>2. /\ tabs'.log = Contract!Cut(tabs.log, i) /\ tabs'.purged = tabs.purged
        /\ tabs'.vote = tabs.vote /\ tabs'.committed = tabs.committed
    BY <1>1, <2>1 DEF Tables
  <2>3. Contract!LsTruncate
    BY <2>1, <2>2 DEF Contract!LsTruncate, LastOf
  <2> QED BY <2>3 DEF Contract!LsNext
<1>4. CASE op.kind = "purge"
  <2>1. PICK i \in (tabs.log.from + 1)..LastOf(tabs.log) :
          op.next = [tabs EXCEPT !.log = Contract!Drop(@, i), !.purged = i]
    BY <1>4, Zenon DEF Inv, Calls, Purges
  <2>2. /\ tabs'.log = Contract!Drop(tabs.log, i) /\ tabs'.purged = i
        /\ tabs'.vote = tabs.vote /\ tabs'.committed = tabs.committed
    BY <1>1, <2>1 DEF Tables
  <2>3. Contract!LsPurge
    BY <2>1, <2>2 DEF Contract!LsPurge, LastOf
  <2> QED BY <2>3, SMTT(60) DEF Contract!LsNext
<1>5. CASE op.kind = "vote"
  <2>1. PICK t \in LsTerms : op.next = [tabs EXCEPT !.vote = t]
    BY <1>5, SMTT(60) DEF Inv, Calls, Votes
  <2>2. Contract!LsSaveVote
    BY <1>1, <2>1 DEF Tables, Contract!LsSaveVote
  <2> QED BY <2>2 DEF Contract!LsNext
<1>6. CASE op.kind = "committed"
  <2>1. PICK n \in 0..LsMax : op.next = [tabs EXCEPT !.committed = n]
    BY <1>6 DEF Inv, Calls, Commits
  <2>2. Contract!LsSaveCommitted
    BY <1>1, <2>1 DEF Tables, Contract!LsSaveCommitted
  <2> QED BY <2>2 DEF Contract!LsNext
<1> QED BY <1>1, <1>2, <1>3, <1>4, <1>5, <1>6 DEF Kinds

(* A crash takes back at most the committed index, or makes the commit in  *)
(* flight.                                                                 *)
LEMMA CrashIsStep ==
  ASSUME Inv, CrashRestart
  PROVE  Contract!LsNext \/ tabs' = tabs
<1>1. \/ tabs' = safe \/ tabs' = tabs \/ (op.pc = "commit" /\ tabs' = op.next)
  BY DEF CrashRestart
<1>2. CASE op.pc = "commit" /\ tabs' = op.next
  BY <1>2, NextIsStep
<1>3. CASE tabs' = safe
  <2>1. safe.committed \in 0..LsMax
    BY InvFacts, SoundTypes, SMTT(60) DEF Inv, Calls, Sound
  <2>2. Contract!LsSaveCommitted
    BY <1>3, <2>1, InvFacts DEF Contract!LsSaveCommitted
  <2> QED BY <2>2 DEF Contract!LsNext
<1> QED BY <1>1, <1>2, <1>3

(* The store implements the log store openraft expects (RaftLogStorage),   *)
(* crashes included: what is visible changes by one operation of LogStore  *)
(* at a time, and a crash takes back at most the committed index.          *)
THEOREM ImplementsLogStore == KlSafe => KlContract
<1>1. KlInit => Contract!LsInit
  BY DEF KlInit, Contract!LsInit, Blank
<1>2. Inv /\ [KlNext]_klVars => [Contract!LsNext]_Contract!lsVars
  <2> SUFFICES ASSUME Inv, [KlNext]_klVars PROVE Contract!LsNext \/ UNCHANGED Contract!lsVars
    OBVIOUS
  <2>1. CASE tabs' = tabs
    BY <2>1 DEF Contract!lsVars
  <2>2. CASE EngineCommit
    BY <2>2, NextIsStep DEF EngineCommit
  <2>3. CASE CrashRestart
    BY SMTT(60), <2>1, <2>3, CrashIsStep
  <2>4. EngineCommit \/ CrashRestart \/ tabs' = tabs
    BY Zenon DEF KlNext, CallSteps, WaitSteps, RaiseDurable, AppendReturns, TruncateReturns, VoteReturns,
           OtherReturns, WaitRegister, WaitLook, WaitSleep, WaitWake, SaveCommitted, QuorumCommits,
           AppendEntry, SaveVote, TruncateFrom, PurgeTo, klVars
  <2> QED BY <2>1, <2>2, <2>3, <2>4
<1> QED BY <1>1, <1>2, InvHolds, PTL DEF KlSafe, KlContract, Contract!LsSpec
=============================================================================
