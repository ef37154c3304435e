-------------------------- MODULE RedbEngineProofs --------------------------
(***************************************************************************)
(* Proofs about RedbEngine, for any keys, values, batches, clients and     *)
(* bounds, as long as the sync of the directory does not fail: a rewrite   *)
(* misses no commit, nobody misses a notification, and the engine keeps    *)
(* the KvStore contract.                                                   *)
(***************************************************************************)
EXTENDS RedbEngine, Integers, SequenceTheorems, WellFoundedInduction, TLAPS

Captures == [ops : Seq(RBatches), abandoned : BOOLEAN]
RwPcs == {"none", "copy", "catchup", "last", "rename", "dirsync"}
Copying == {"copy", "catchup", "last"}

----------------------------------------------------------------------------
(* Written and CatchUp. *)

LEMMA WrittenType ==
  ASSUME NEW m \in RContents, NEW b \in RBatches
  PROVE  Written(m, b) \in RContents
BY RedbAssumption DEF Written, RContents

(* A set of naturals that is not empty has a least element. *)
LEMMA LeastNat ==
  ASSUME NEW S, S \subseteq Nat, S # {}
  PROVE  \E x \in S : \A y \in S : x <= y
<1>1. \E x \in S : \A y \in S : ~(<<y, x>> \in OpToRel(<, Nat))
  BY NatLessThanWellFounded, WFMin, Zenon
<1>2. PICK x \in S : \A y \in S : ~(<<y, x>> \in OpToRel(<, Nat))
  BY <1>1, Zenon
<1>3. \A y \in S : ~(y < x)
  BY <1>2, Zenon DEF OpToRel
<1> QED
  BY <1>3

(* The states of a catch-up: `f' holds what the file shows after each of   *)
(* the first n batches.                                                    *)
Follows(f, n, m, ops) ==
  f = [i \in 0..n |-> IF i = 0 THEN m ELSE Written(f[i - 1], ops[i])]

LEMMA FollowsExists ==
  ASSUME NEW m, NEW ops, NEW n \in Nat
  PROVE  \E f : Follows(f, n, m, ops)
<1> DEFINE Bad == {j \in Nat : ~\E f : Follows(f, j, m, ops)}
<1>1. SUFFICES ASSUME Bad # {} PROVE FALSE
  BY Zenon
<1>2. PICK j \in Bad : \A y \in Bad : j <= y
  BY <1>1, LeastNat, Zenon
<1>3. j \in Nat /\ ~\E f : Follows(f, j, m, ops)
  OBVIOUS
<1>4. CASE j = 0
  <2>1. Follows([i \in 0..0 |-> m], 0, m, ops)
    BY DEF Follows
  <2> QED
    BY <2>1, <1>3, <1>4
<1>5. CASE j # 0
  <2>1. j - 1 \in Nat /\ ~(j <= j - 1)
    BY <1>3, <1>5
  <2>2. PICK g : Follows(g, j - 1, m, ops)
    BY <2>1, <1>2
  <2> DEFINE h == [i \in 0..j |-> IF i = j THEN Written(g[j - 1], ops[j]) ELSE g[i]]
  <2>3. \A i \in 0..(j - 1) : g[i] = IF i = 0 THEN m ELSE Written(g[i - 1], ops[i])
    BY <2>2 DEF Follows
  <2>4. \A i \in 0..j : h[i] = IF i = 0 THEN m ELSE Written(h[i - 1], ops[i])
    BY <2>3, <1>3, <1>5
  <2>5. Follows(h, j, m, ops)
    BY <2>4 DEF Follows
  <2> QED
    BY <2>5, <1>3
<1> QED
  BY <1>4, <1>5

(* What CatchUp computes is the last of such states. *)
LEMMA CatchUpFollows ==
  ASSUME NEW m, NEW ops \in Seq(RBatches)
  PROVE  \E f : Follows(f, Len(ops), m, ops) /\ CatchUp(m, ops) = f[Len(ops)]
<1> DEFINE after == CHOOSE f : f = [i \in 0..Len(ops) |-> IF i = 0 THEN m ELSE Written(f[i - 1], ops[i])]
<1>1. \E f : f = [i \in 0..Len(ops) |-> IF i = 0 THEN m ELSE Written(f[i - 1], ops[i])]
  <2>1. Len(ops) \in Nat
    OBVIOUS
  <2>2. PICK f : Follows(f, Len(ops), m, ops)
    BY <2>1, FollowsExists, Zenon
  <2> QED
    BY <2>2, Zenon DEF Follows
<1>2. after = [i \in 0..Len(ops) |-> IF i = 0 THEN m ELSE Written(after[i - 1], ops[i])]
  BY <1>1, Zenon
<1>3. CatchUp(m, ops) = after[Len(ops)]
  BY Zenon DEF CatchUp
<1> QED
  BY <1>2, <1>3, Zenon DEF Follows

(* Nothing captured: nothing to apply. *)
LEMMA CatchUpNone ==
  ASSUME NEW m
  PROVE  CatchUp(m, << >>) = m
<1>1. << >> \in Seq(RBatches) /\ Len(<< >>) = 0
  OBVIOUS
<1>2. PICK f : Follows(f, 0, m, << >>) /\ CatchUp(m, << >>) = f[0]
  BY <1>1, CatchUpFollows, Zenon
<1>3. f[0] = m
  BY <1>2 DEF Follows
<1> QED
  BY <1>2, <1>3

(* A commit captured last is applied last. *)
LEMMA CatchUpAppend ==
  ASSUME NEW m, NEW ops \in Seq(RBatches), NEW b \in RBatches
  PROVE  CatchUp(m, Append(ops, b)) = Written(CatchUp(m, ops), b)
<1> DEFINE n == Len(ops)
           more == Append(ops, b)
<1>1. more \in Seq(RBatches) /\ Len(more) = n + 1 /\ n \in Nat
      /\ more[n + 1] = b /\ \A i \in 1..n : ops[i] = more[i]
  OBVIOUS
<1>2. PICK f : Follows(f, n, m, ops) /\ CatchUp(m, ops) = f[n]
  BY CatchUpFollows
<1>3. PICK g : Follows(g, n + 1, m, more) /\ CatchUp(m, more) = g[n + 1]
  BY Zenon, CatchUpFollows, <1>1
<1> HIDE DEF n, more
<1>a. \A i \in 0..n : f[i] = IF i = 0 THEN m ELSE Written(f[i - 1], ops[i])
  BY <1>2, Zenon DEF Follows
<1>b. \A i \in 0..n : g[i] = IF i = 0 THEN m ELSE Written(g[i - 1], more[i])
  BY <1>1, <1>3 DEF Follows
<1>4. f[n] = g[n]
  <2> DEFINE Bad == {j \in 0..n : f[j] # g[j]}
  <2>1. SUFFICES ASSUME Bad # {} PROVE FALSE
    BY <1>1
  <2>2. Bad \subseteq Nat
    BY <1>1
  <2>3. PICK j \in Bad : \A y \in Bad : j <= y
    BY <2>1, <2>2, LeastNat, Zenon
  <2>4. j # 0
    BY <1>a, <1>b
  <2>5. j - 1 \in 0..n /\ j \in 1..n /\ ~(j <= j - 1)
    BY <1>1, <2>4
  <2>6. f[j - 1] = g[j - 1]
    BY <2>3, <2>5
  <2>7. f[j] = Written(f[j - 1], ops[j]) /\ g[j] = Written(g[j - 1], more[j])
    BY <1>a, <1>b, <2>4, <2>5
  <2> QED
    BY <1>1, <2>5, <2>6, <2>7
<1>5. g[n + 1] = Written(g[n], more[n + 1])
  BY <1>1, <1>3 DEF Follows
<1> QED
  BY <1>1, <1>2, <1>3, <1>4, <1>5 DEF more

(* A catch-up stays within the contents. *)
LEMMA CatchUpType ==
  ASSUME NEW m \in RContents, NEW ops \in Seq(RBatches)
  PROVE  CatchUp(m, ops) \in RContents
<1>1. PICK f : Follows(f, Len(ops), m, ops) /\ CatchUp(m, ops) = f[Len(ops)]
  BY CatchUpFollows
<1> DEFINE Bad == {j \in 0..Len(ops) : f[j] \notin RContents}
<1>2. SUFFICES ASSUME Bad # {} PROVE FALSE
  BY <1>1
<1>a. Bad \subseteq Nat
  OBVIOUS
<1>3. PICK j \in Bad : \A y \in Bad : j <= y
  BY <1>2, <1>a, LeastNat, Zenon
<1>4. f[j] = IF j = 0 THEN m ELSE Written(f[j - 1], ops[j])
  BY <1>1, SMTT(60) DEF Follows
<1>5. j # 0 /\ j - 1 \in 0..Len(ops) /\ ~(j <= j - 1) /\ ops[j] \in RBatches
  BY <1>4
<1>6. f[j - 1] \in RContents
  BY <1>3, <1>5
<1> QED
  BY <1>4, <1>5, <1>6, WrittenType

----------------------------------------------------------------------------
(* The inductive invariant. *)

Types ==
  /\ files \in [1..2 -> [vis : RContents, dur : RContents]]
  /\ handle \in 1..2
  /\ rw \in [pc : RwPcs, src : RContents, todo : SUBSET RKeys]
  /\ capture \in Captures \cup {NoCapture}
  /\ rhist \in Seq(RContents) /\ rfloor \in 1..Len(rhist)

Waits ==
  /\ dpc \in {"idle", "check", "arm", "armed", "wait", "lock", "compact", "notify"}
  /\ cpc \in [Clients -> {"idle", "again", "arm", "armed", "wait", "read", "begun", "live", "closing"}]
  /\ woken \subseteq Clients \cup {Defrag}

(* The rewrite as far as it has come: what it captures, what the new file  *)
(* shows, and which file the name stands for.                              *)
Rewriting ==
  /\ (capture = NoCapture) = (rw.pc \in {"none", "rename", "dirsync"})
  /\ rw.pc \in {"catchup", "last"} => rw.todo = {}
  /\ rw.pc \in {"rename", "dirsync"} => files[Other(handle)].dur = files[handle].vis
  /\ rw.pc \in {"rename", "dirsync"} => files[Other(handle)].vis = files[handle].vis
  /\ names = IF rw.pc = "dirsync" THEN {handle, Other(handle)} ELSE {handle}

(* What a power failure could leave is a state of the history that the     *)
(* floor allows.                                                           *)
Durable ==
  /\ files[handle].vis = rhist[Len(rhist)]
  /\ \A f \in names : \E n \in rfloor..Len(rhist) : files[f].dur = rhist[n]

(* A rewrite or a defragment, not both. *)
OneAtATime == rw.pc # "none" => dpc = "idle"

(* Two halves, each untouched by most steps of the other. *)
Data == Types /\ Rewriting /\ Durable /\ CapturesTheRest
Calls == Waits /\ NoLostWakeup

Inv == Data /\ Calls /\ OneAtATime

dataVars == <<files, handle, names, capture, rw, rhist, rfloor>>
callVars == <<dpc, pending, cpc, woken>>

LEMMA DataFrame == Data /\ UNCHANGED dataVars => Data'
BY DEF Data, dataVars, Types, Rewriting, Durable, CapturesTheRest, CatchUp, Other

LEMMA CallsFrame == Calls /\ UNCHANGED callVars => Calls'
BY DEF Calls, callVars, Waits, NoLostWakeup, LiveReaders

LEMMA InitInv == RedbInit => Inv
<1> SUFFICES ASSUME RedbInit PROVE Inv
  OBVIOUS
<1> USE DEF RedbInit
<1>1. REmpty \in RContents
  BY DEF REmpty, RContents
<1>2. Types
  BY <1>1 DEF Types, RwPcs, NoRewrite, Captures
<1>3. Rewriting
  BY DEF Rewriting, NoRewrite
<1>4. Durable
  BY DEF Durable
<1>5. CapturesTheRest
  BY DEF CapturesTheRest, NoRewrite
<1>6. Calls
  BY DEF Calls, Waits, NoLostWakeup
<1>7. OneAtATime
  BY DEF OneAtATime
<1> QED
  BY <1>2, <1>3, <1>4, <1>5, <1>6, <1>7 DEF Inv, Data

----------------------------------------------------------------------------
(* The file in use and the other one. *)
LEMMA TwoFiles ==
  ASSUME handle \in 1..2
  PROVE  Other(handle) \in 1..2 /\ Other(handle) # handle
BY DEF Other

(* A commit of `b', whichever call makes it. *)
LEMMA CommitsStep ==
  ASSUME Data, NEW b, NEW sync \in BOOLEAN, Commits(b, sync), UNCHANGED <<handle, names, rw>>,
         Written(files[handle].vis, b) \in RContents
  PROVE  /\ files' \in [1..2 -> [vis : RContents, dur : RContents]]
         /\ files'[handle].vis = Written(files[handle].vis, b)
         /\ files'[Other(handle)] = files[Other(handle)]
         /\ rhist' \in Seq(RContents) /\ rfloor' \in 1..Len(rhist')
         /\ rw.pc \notin {"last", "rename", "dirsync"}
         /\ Durable'
<1> DEFINE new == Written(files[handle].vis, b)
<1> HIDE DEF new
<1>0. /\ files \in [1..2 -> [vis : RContents, dur : RContents]] /\ handle \in 1..2
      /\ rhist \in Seq(RContents) /\ rfloor \in 1..Len(rhist) /\ new \in RContents
  BY DEF Data, Types, new
<1>1. /\ files' = [files EXCEPT ![handle].vis = new, ![handle].dur = IF sync THEN new ELSE @]
      /\ rhist' = Append(rhist, new) /\ rfloor' = IF sync THEN Len(rhist) + 1 ELSE rfloor
  BY DEF Commits, new
<1>2. rw.pc \notin {"last", "rename", "dirsync"}
  BY DEF Commits, Exclusive
<1>3. names = {handle}
  BY <1>2 DEF Data, Rewriting
<1>4. /\ files' \in [1..2 -> [vis : RContents, dur : RContents]]
      /\ files'[handle].vis = new
      /\ files'[handle].dur = IF sync THEN new ELSE files[handle].dur
  BY Zenon, <1>0, <1>1
<1>5. files'[Other(handle)] = files[Other(handle)]
  BY <1>0, <1>1, TwoFiles
<1>6. /\ rhist' \in Seq(RContents) /\ Len(rhist') = Len(rhist) + 1
      /\ rhist'[Len(rhist) + 1] = new /\ \A i \in 1..Len(rhist) : rhist'[i] = rhist[i]
  BY <1>0, <1>1
<1>7. rfloor' \in 1..Len(rhist')
  BY <1>0, <1>1, <1>6
<1>8. \E n \in rfloor'..Len(rhist') : files'[handle].dur = rhist'[n]
  <2>1. CASE sync
    BY <2>1, <1>0, <1>1, <1>4, <1>6
  <2>2. CASE ~sync
    <3>1. PICK n \in rfloor..Len(rhist) : files[handle].dur = rhist[n]
      BY <1>3 DEF Data, Durable
    <3>2. n \in 1..Len(rhist) /\ n \in rfloor'..Len(rhist')
      BY <1>0, <1>1, <1>6, <2>2
    <3> QED
      BY <3>1, <3>2, <2>2, <1>4, <1>6
  <2> QED
    BY <2>1, <2>2
<1>9. Durable'
  BY <1>3, <1>4, <1>6, <1>8 DEF Durable
<1> QED
  BY <1>2, <1>4, <1>5, <1>6, <1>7, <1>9 DEF new

(* While a rewrite copies, the commits after its read transaction are in   *)
(* the capture, in order (commit, Capture::push).                          *)
LEMMA RCommitKeeps ==
  ASSUME Data, NEW c \in Clients, NEW b \in RBatches, NEW sync \in BOOLEAN, RCommit(c, b, sync)
  PROVE  Data'
<1>0. Written(files[handle].vis, b) \in RContents
  BY WrittenType DEF Data, Types
<1>1. /\ Commits(b, sync) /\ UNCHANGED <<handle, names, rw>>
      /\ capture' = Push(capture, b)
  BY DEF RCommit, Captured
<1>2. /\ files' \in [1..2 -> [vis : RContents, dur : RContents]]
      /\ files'[handle].vis = Written(files[handle].vis, b)
      /\ files'[Other(handle)] = files[Other(handle)]
      /\ rhist' \in Seq(RContents) /\ rfloor' \in 1..Len(rhist')
      /\ rw.pc \notin {"last", "rename", "dirsync"}
      /\ Durable'
  BY <1>0, <1>1, CommitsStep
<1>3. capture \in Captures \cup {NoCapture} /\ NoCapture \notin Captures
  BY RedbAssumption DEF Data, Types, Captures
<1>4. /\ capture' \in Captures \cup {NoCapture}
      /\ (capture' = NoCapture) = (capture = NoCapture)
      /\ capture' \in Captures /\ ~capture'.abandoned =>
           ~capture.abandoned /\ capture.ops \in Seq(RBatches) /\ capture'.ops = Append(capture.ops, b)
  <2>1. CASE capture = NoCapture
    BY <1>1, <1>3, <2>1 DEF Push
  <2>2. CASE capture # NoCapture
    <3>1. capture \in Captures
      BY <1>3, <2>2
    <3>2. capture.ops \in Seq(RBatches) /\ capture.abandoned \in BOOLEAN
      BY <3>1 DEF Captures
    <3>3. CASE capture.abandoned
      BY <3>3, <3>1, <2>2, <1>1, <1>3 DEF Push
    <3>4. CASE ~capture.abandoned /\ Len(capture.ops) >= MaxCapture
      <4>1. capture' = [ops |-> << >>, abandoned |-> TRUE]
        BY <3>4, <2>2, <1>1 DEF Push
      <4>2. capture' \in Captures /\ capture'.abandoned
        BY <4>1 DEF Captures
      <4> QED
        BY <4>2, <2>2, <1>3
    <3>5. CASE ~capture.abandoned /\ ~(Len(capture.ops) >= MaxCapture)
      <4>1. capture' = [capture EXCEPT !.ops = Append(@, b)]
        BY <3>5, <2>2, <1>1 DEF Push
      <4>2. capture' \in Captures /\ capture'.ops = Append(capture.ops, b)
        BY <4>1, <3>1, <3>2 DEF Captures
      <4> QED
        BY <4>2, <3>2, <3>5, <2>2, <1>3
    <3> QED
      BY <3>2, <3>3, <3>4, <3>5
  <2> QED
    BY <2>1, <2>2
<1>5. Types'
  BY <1>1, <1>2, <1>4 DEF Data, Types
<1>6. Rewriting'
  BY <1>1, <1>2, <1>4 DEF Data, Rewriting
<1>7. CapturesTheRest'
  <2> SUFFICES ASSUME rw.pc \in Copying, ~capture'.abandoned
               PROVE  CapturesTheRest'
    BY <1>1 DEF CapturesTheRest, Copying
  <2> DEFINE base == [k \in RKeys |-> IF k \in rw.todo THEN rw.src[k] ELSE files[Other(handle)].vis[k]]
  <2>1. capture # NoCapture
    BY DEF Data, Rewriting, Copying
  <2>2. capture' \in Captures
    BY <2>1, <1>4
  <2>3. ~capture.abandoned /\ capture.ops \in Seq(RBatches) /\ capture'.ops = Append(capture.ops, b)
    BY <2>2, <1>4
  <2>4. files[handle].vis = CatchUp(base, capture.ops)
    BY <2>3 DEF Data, CapturesTheRest, Copying
  <2>5. base' = base
    BY <1>1, <1>2 DEF Other
  <2>6. files'[handle].vis = CatchUp(base, capture'.ops)
    <3> HIDE DEF base
    <3>1. CatchUp(base, Append(capture.ops, b)) = Written(CatchUp(base, capture.ops), b)
      BY <2>3, CatchUpAppend
    <3> QED
      BY <3>1, <1>2, <2>3, <2>4, Zenon
  <2> QED
    BY <1>1, <2>5, <2>6, Zenon DEF CapturesTheRest
<1> QED
  BY <1>2, <1>5, <1>6, <1>7 DEF Data

(* A replaced store ends the capture's use (commit_stream). *)
LEMMA RCommitStreamKeeps ==
  ASSUME Data, NEW c \in Clients, NEW b \in RBatches, RCommitStream(c, b)
  PROVE  Data'
<1> DEFINE full == [k \in RKeys |-> IF k \in DOMAIN b THEN b[k] ELSE RAbsent]
<1>0. Written(files[handle].vis, full) \in RContents
  BY RedbAssumption DEF Written, RContents
<1> HIDE DEF full
<1>1. /\ Commits(full, TRUE) /\ UNCHANGED <<handle, names, rw>>
      /\ capture' = Abandon(capture)
  BY Zenon DEF RCommitStream, full
<1>2. /\ files' \in [1..2 -> [vis : RContents, dur : RContents]]
      /\ files'[handle].vis = Written(files[handle].vis, full)
      /\ files'[Other(handle)] = files[Other(handle)]
      /\ rhist' \in Seq(RContents) /\ rfloor' \in 1..Len(rhist')
      /\ rw.pc \notin {"last", "rename", "dirsync"}
      /\ Durable'
  BY Zenon, <1>0, <1>1, CommitsStep
<1>3. capture \in Captures \cup {NoCapture} /\ NoCapture \notin Captures
  BY RedbAssumption DEF Data, Types, Captures
<1>4. /\ capture' \in Captures \cup {NoCapture}
      /\ (capture' = NoCapture) = (capture = NoCapture)
      /\ capture' \in Captures => capture'.abandoned
  <2>1. CASE capture = NoCapture
    BY <1>1, <1>3, <2>1 DEF Abandon
  <2>2. CASE capture # NoCapture
    <3>1. capture' = [ops |-> << >>, abandoned |-> TRUE]
      BY <2>2, <1>1 DEF Abandon
    <3>2. capture' \in Captures /\ capture'.abandoned
      BY <3>1 DEF Captures
    <3> QED
      BY <3>2, <2>2, <1>3
  <2> QED
    BY <2>1, <2>2
<1>5. Types'
  BY <1>1, <1>2, <1>4 DEF Data, Types
<1>6. Rewriting'
  BY <1>1, <1>2, <1>4 DEF Data, Rewriting
<1>7. CapturesTheRest'
  BY <1>1, <1>4, <1>6 DEF CapturesTheRest, Rewriting
<1> QED
  BY <1>2, <1>5, <1>6, <1>7 DEF Data

(* What becomes durable is what the file shows (sync, defragment). *)
LEMMA SyncedKeeps ==
  ASSUME Data, files' = [files EXCEPT ![handle].dur = files[handle].vis],
         rfloor' = Len(rhist), rw.pc # "dirsync", UNCHANGED <<handle, names, capture, rw, rhist>>
  PROVE  Data'
<1>0. /\ files \in [1..2 -> [vis : RContents, dur : RContents]] /\ handle \in 1..2
      /\ rhist \in Seq(RContents) /\ rfloor \in 1..Len(rhist)
  BY DEF Data, Types
<1>1. /\ files' \in [1..2 -> [vis : RContents, dur : RContents]]
      /\ files'[handle].vis = files[handle].vis /\ files'[handle].dur = files[handle].vis
      /\ files'[Other(handle)] = files[Other(handle)]
  BY <1>0, TwoFiles
<1>2. Types'
  BY <1>0, <1>1 DEF Data, Types
<1>3. Rewriting'
  BY <1>1 DEF Data, Rewriting
<1>4. Durable'
  <2>1. names = {handle}
    BY DEF Data, Rewriting
  <2>2. files[handle].vis = rhist[Len(rhist)] /\ Len(rhist) \in rfloor'..Len(rhist)
    BY <1>0 DEF Data, Durable
  <2> QED
    BY <1>1, <2>1, <2>2 DEF Durable
<1>5. CapturesTheRest'
  <2> DEFINE base == [k \in RKeys |-> IF k \in rw.todo THEN rw.src[k] ELSE files[Other(handle)].vis[k]]
  <2>1. base' = base
    BY <1>1 DEF Other
  <2> QED
    BY <1>1, <2>1, Zenon DEF Data, CapturesTheRest
<1> QED
  BY <1>2, <1>3, <1>4, <1>5 DEF Data

LEMMA RewriteBeginKeeps ==
  ASSUME Data, RewriteBegin
  PROVE  Data'
<1>0. /\ files \in [1..2 -> [vis : RContents, dur : RContents]] /\ handle \in 1..2
      /\ REmpty \in RContents /\ rw.pc = "none"
  BY DEF Data, Types, REmpty, RContents, RewriteBegin, MaintenanceFree
<1>1. /\ files' \in [1..2 -> [vis : RContents, dur : RContents]]
      /\ files'[handle] = files[handle]
  BY <1>0, TwoFiles DEF RewriteBegin
<1>2. /\ rw' \in [pc : RwPcs, src : RContents, todo : SUBSET RKeys]
      /\ rw'.pc = "copy" /\ rw'.src = files[handle].vis /\ rw'.todo = RKeys
  BY <1>0 DEF RewriteBegin, RwPcs
<1>3. /\ capture' \in Captures /\ capture'.ops = << >> /\ capture' # NoCapture
  <2>1. capture' = [ops |-> << >>, abandoned |-> FALSE]
    BY DEF RewriteBegin
  <2>2. capture' \in Captures /\ capture'.ops = << >>
    BY <2>1 DEF Captures
  <2> QED
    BY <2>2, RedbAssumption, Zenon DEF Captures
<1>4. Types'
  BY <1>0, <1>1, <1>2, <1>3 DEF Data, Types, RewriteBegin
<1>5. Rewriting'
  BY <1>2, <1>3 DEF Rewriting, RewriteBegin
<1>6. Durable'
  BY <1>1 DEF Data, Durable, RewriteBegin
<1>7. CapturesTheRest'
  <2> DEFINE base == [k \in RKeys |-> IF k \in rw.todo THEN rw.src[k] ELSE files[Other(handle)].vis[k]]
  <2>1. base' = [k \in RKeys |-> files[handle].vis[k]]
    BY <1>2
  <2>2. base' = files[handle].vis
    BY <1>0, <2>1 DEF RContents
  <2>3. handle' = handle
    BY DEF RewriteBegin
  <2> HIDE DEF base
  <2>4. files'[handle].vis = CatchUp(base', capture'.ops)
    BY <1>1, <1>3, <2>2, CatchUpNone
  <2> QED
    BY <2>3, <2>4, Zenon DEF CapturesTheRest, base
<1> QED
  BY <1>4, <1>5, <1>6, <1>7 DEF Data

LEMMA CopyChunkKeeps ==
  ASSUME Data, NEW k \in RKeys, CopyChunk(k)
  PROVE  Data'
<1>0. /\ files \in [1..2 -> [vis : RContents, dur : RContents]] /\ handle \in 1..2
      /\ rw \in [pc : RwPcs, src : RContents, todo : SUBSET RKeys] /\ rw.pc = "copy"
  BY DEF Data, Types, CopyChunk
<1> DEFINE o == Other(handle)
<1>1. o \in 1..2 /\ o # handle /\ handle' = handle /\ o' = o
  BY <1>0, TwoFiles DEF CopyChunk, Other
<1> HIDE DEF o
<1>2. files' = [files EXCEPT ![o].vis[k] = rw.src[k]]
  BY DEF CopyChunk, o
<1>3. files[o].vis \in RContents /\ rw.src[k] \in RVals \cup {RAbsent}
  BY <1>0, <1>1 DEF RContents
<1>4. /\ files'[o].vis = [files[o].vis EXCEPT ![k] = rw.src[k]]
      /\ files'[o].dur = files[o].dur /\ files'[handle] = files[handle]
      /\ files' = [files EXCEPT ![o] = [files[o] EXCEPT !.vis = [files[o].vis EXCEPT ![k] = rw.src[k]]]]
  BY <1>0, <1>1, <1>2
<1>5. files'[o].vis \in RContents
  BY <1>3, <1>4 DEF RContents
<1>6. files' \in [1..2 -> [vis : RContents, dur : RContents]]
  <2> DEFINE row == [files[o] EXCEPT !.vis = [files[o].vis EXCEPT ![k] = rw.src[k]]]
  <2>1. row \in [vis : RContents, dur : RContents]
    BY <1>0, <1>1, <1>4, <1>5
  <2> HIDE DEF row
  <2>2. files' = [files EXCEPT ![o] = row]
    BY <1>4, SMTT(60) DEF row
  <2> QED
    BY <2>1, <2>2, <1>0, <1>1
<1>7. /\ rw' \in [pc : RwPcs, src : RContents, todo : SUBSET RKeys]
      /\ rw'.todo = rw.todo \ {k} /\ rw'.src = rw.src
      /\ rw'.pc \in {"copy", "catchup"}
      /\ rw'.pc = "catchup" => rw'.todo = {}
  BY <1>0, Zenon DEF CopyChunk, RwPcs
<1>8. UNCHANGED <<handle, names, capture, rhist, rfloor>>
  BY DEF CopyChunk
<1>9. Types'
  BY <1>6, <1>7, <1>8 DEF Data, Types
<1>10. Rewriting'
  BY <1>0, <1>7, <1>8 DEF Data, Rewriting
<1>11. Durable'
  <2>1. names = {handle}
    BY <1>0 DEF Data, Rewriting
  <2>2. files'[handle].vis = files[handle].vis /\ files'[handle].dur = files[handle].dur
    BY <1>4
  <2>3. PICK n \in rfloor..Len(rhist) : files[handle].dur = rhist[n]
    BY <2>1 DEF Data, Durable
  <2> QED
    BY <1>8, <2>1, <2>2, <2>3 DEF Data, Durable
<1>12. CapturesTheRest'
  <2> DEFINE base == [j \in RKeys |-> IF j \in rw.todo THEN rw.src[j] ELSE files[o].vis[j]]
  <2>1. base' = [j \in RKeys |-> IF j \in rw'.todo THEN rw'.src[j] ELSE files'[o].vis[j]]
    BY <1>1
  <2>2. ASSUME NEW j \in RKeys
        PROVE  (IF j \in rw'.todo THEN rw'.src[j] ELSE files'[o].vis[j])
                 = (IF j \in rw.todo THEN rw.src[j] ELSE files[o].vis[j])
    <3>1. files'[o].vis[j] = IF j = k THEN rw.src[k] ELSE files[o].vis[j]
      BY <1>3, <1>4 DEF RContents
    <3>2. k \in rw.todo
      BY DEF CopyChunk
    <3> QED
      BY <3>1, <3>2, <1>7
  <2>3. base' = base
    BY <2>1, <2>2
  <2> HIDE DEF base
  <2>4. ~capture.abandoned
    BY DEF CopyChunk
  <2>5. files[handle].vis = CatchUp(base, capture.ops)
    BY <1>0, <2>4, Zenon DEF Data, CapturesTheRest, base, o
  <2>6. files'[handle].vis = CatchUp(base', capture'.ops)
    BY <1>4, <1>8, <2>3, <2>5, Zenon
  <2> QED
    BY <2>6, <1>8, Zenon DEF CapturesTheRest, base, o
<1> QED
  BY <1>9, <1>10, <1>11, <1>12 DEF Data

(* With everything copied, the new file and the capture together are what  *)
(* the data file shows.                                                    *)
LEMMA CopiedAll ==
  ASSUME Data, rw.pc \in {"catchup", "last"}, ~capture.abandoned
  PROVE  /\ capture.ops \in Seq(RBatches)
         /\ files[handle].vis = CatchUp(files[Other(handle)].vis, capture.ops)
<1>1. capture \in Captures
  BY DEF Data, Types, Rewriting
<1>2. files[Other(handle)].vis \in RContents
  BY TwoFiles DEF Data, Types
<1>3. [k \in RKeys |-> IF k \in rw.todo THEN rw.src[k] ELSE files[Other(handle)].vis[k]]
        = files[Other(handle)].vis
  BY <1>2 DEF Data, Rewriting, RContents
<1>4. files[handle].vis =
        CatchUp([k \in RKeys |-> IF k \in rw.todo THEN rw.src[k] ELSE files[Other(handle)].vis[k]], capture.ops)
  BY Zenon DEF Data, CapturesTheRest
<1>5. capture.ops \in Seq(RBatches)
  BY <1>1 DEF Captures
<1> QED
  BY <1>3, <1>4, <1>5, Zenon

LEMMA CatchUpPassKeeps ==
  ASSUME Data, CatchUpPass
  PROVE  Data'
<1> DEFINE o == Other(handle)
           now == files[handle].vis
<1>0. /\ files \in [1..2 -> [vis : RContents, dur : RContents]] /\ handle \in 1..2
      /\ rw.pc = "catchup" /\ ~capture.abandoned /\ rw.todo = {}
  BY DEF Data, Types, Rewriting, CatchUpPass, TakeCapture
<1>1. o \in 1..2 /\ o # handle /\ now \in RContents
  BY <1>0, TwoFiles
<1>2. UNCHANGED <<handle, names, rw, rhist, rfloor>>
  BY DEF CatchUpPass
<1>3. now = CatchUp(files[o].vis, capture.ops)
  BY <1>0, CopiedAll
<1>4. files' = [files EXCEPT ![o].vis = now]
  BY <1>3 DEF CatchUpPass, TakeCapture
<1> HIDE DEF o, now
<1>5. /\ files' \in [1..2 -> [vis : RContents, dur : RContents]]
      /\ files'[handle] = files[handle] /\ files'[o].vis = now
  BY <1>0, <1>1, <1>4
<1>6. capture' \in Captures /\ capture'.ops = << >> /\ capture' # NoCapture
  <2>1. capture \in Captures
    BY <1>0 DEF Data, Types, Rewriting
  <2>2. capture' = [capture EXCEPT !.ops = << >>]
    BY DEF CatchUpPass
  <2>3. capture' \in Captures /\ capture'.ops = << >>
    <3>1. << >> \in Seq(RBatches)
      OBVIOUS
    <3> QED
      BY <2>1, <2>2, <3>1, Zenon DEF Captures
  <2> QED
    BY <2>3, RedbAssumption, Zenon DEF Captures
<1>7. Types'
  BY <1>2, <1>5, <1>6 DEF Data, Types
<1>8. Rewriting'
  BY <1>0, <1>2, <1>6 DEF Data, Rewriting
<1>9. Durable'
  <2>1. names = {handle}
    BY <1>0 DEF Data, Rewriting
  <2> QED
    BY <1>2, <1>5, <2>1 DEF Data, Durable
<1>10. CapturesTheRest'
  <2> DEFINE base == [k \in RKeys |-> IF k \in rw.todo THEN rw.src[k] ELSE files[o].vis[k]]
  <2>1. base' = files'[o].vis
    BY <1>0, <1>1, <1>2, <1>5 DEF RContents, o
  <2>2. files'[handle].vis = now
    BY <1>5 DEF now
  <2> HIDE DEF base
  <2>3. files'[handle].vis = CatchUp(base', capture'.ops)
    BY <1>5, <1>6, <2>1, <2>2, CatchUpNone
  <2> QED
    BY <2>3, <1>2, Zenon DEF CapturesTheRest, base, o
<1> QED
  BY <1>7, <1>8, <1>9, <1>10 DEF Data

LEMMA RewriteLockKeeps ==
  ASSUME Data, RewriteLock
  PROVE  Data'
<1>1. /\ rw' \in [pc : RwPcs, src : RContents, todo : SUBSET RKeys]
      /\ rw.pc = "catchup" /\ rw'.pc = "last" /\ rw'.todo = rw.todo /\ rw'.src = rw.src
  BY DEF Data, Types, RewriteLock, RwPcs
<1>2. UNCHANGED <<files, handle, names, capture, rhist, rfloor>>
  BY DEF RewriteLock
<1>3. Types' /\ Rewriting' /\ Durable'
  BY <1>1, <1>2, SMTT(60) DEF Data, Types, Rewriting, Durable, Other
<1>4. CapturesTheRest'
  BY <1>1, <1>2 DEF Data, CapturesTheRest, Other
<1> QED
  BY <1>3, <1>4 DEF Data

(* The new file is what the data file shows, and durable. *)
LEMMA LastPassKeeps ==
  ASSUME Data, LastPass
  PROVE  Data'
<1> DEFINE o == Other(handle)
           now == files[handle].vis
<1>0. /\ files \in [1..2 -> [vis : RContents, dur : RContents]] /\ handle \in 1..2
      /\ rw.pc = "last" /\ ~capture.abandoned
  BY DEF Data, Types, LastPass
<1>1. o \in 1..2 /\ o # handle /\ now \in RContents
  BY <1>0, TwoFiles
<1>2. UNCHANGED <<handle, names, rhist, rfloor>> /\ capture' = NoCapture
  BY DEF LastPass
<1>3. now = CatchUp(files[o].vis, capture.ops)
  BY <1>0, CopiedAll
<1>4. files' = [files EXCEPT ![o] = [vis |-> now, dur |-> now]]
  BY <1>3 DEF LastPass
<1>5. /\ rw' \in [pc : RwPcs, src : RContents, todo : SUBSET RKeys]
      /\ rw'.pc = "rename"
  BY Zenon DEF Data, Types, LastPass, RwPcs
<1> HIDE DEF o, now
<1>6. /\ files' \in [1..2 -> [vis : RContents, dur : RContents]]
      /\ files'[handle] = files[handle] /\ files'[o].vis = now /\ files'[o].dur = now
  BY <1>0, <1>1, <1>4
<1>7. Types'
  BY <1>2, <1>5, <1>6 DEF Data, Types
<1>8. names = {handle}
  BY <1>0 DEF Data, Rewriting
<1>9. Rewriting'
  BY <1>2, <1>5, <1>6, <1>8 DEF Rewriting, Other, o, now
<1>10. Durable'
  BY <1>2, <1>6, <1>8 DEF Data, Durable
<1>11. CapturesTheRest'
  BY <1>5 DEF CapturesTheRest
<1> QED
  BY <1>7, <1>9, <1>10, <1>11 DEF Data

(* From the rename on, either file is what a power failure may leave. *)
LEMMA RenameKeeps ==
  ASSUME Data, Rename
  PROVE  Data'
<1>1. /\ rw' \in [pc : RwPcs, src : RContents, todo : SUBSET RKeys]
      /\ rw.pc = "rename" /\ rw'.pc = "dirsync"
  BY DEF Data, Types, Rename, RwPcs
<1>2. UNCHANGED <<files, handle, capture, rhist, rfloor>> /\ names = {handle}
      /\ names' = {handle, Other(handle)}
  BY <1>1 DEF Data, Rewriting, Rename
<1>3. Types'
  BY <1>1, <1>2 DEF Data, Types
<1>4. Rewriting'
  BY <1>1, <1>2 DEF Data, Rewriting, Other
<1>5. files[Other(handle)].dur = files[handle].vis /\ files[handle].vis = rhist[Len(rhist)]
  BY <1>1 DEF Data, Rewriting, Durable
<1>6. Len(rhist) \in rfloor..Len(rhist)
  BY DEF Data, Types
<1>7. Durable'
  BY <1>2, <1>5, <1>6 DEF Data, Durable
<1>8. CapturesTheRest'
  BY <1>1 DEF CapturesTheRest
<1> QED
  BY <1>3, <1>4, <1>7, <1>8 DEF Data

LEMMA SwitchKeeps ==
  ASSUME Data, Switch
  PROVE  Data'
<1>0. rw.pc = "dirsync" /\ handle \in 1..2 /\ handle' = Other(handle) /\ names' = {Other(handle)}
      /\ UNCHANGED <<files, capture, rhist>> /\ rw' = NoRewrite /\ rfloor' = Len(rhist)
  BY DEF Data, Types, Switch
<1>1. /\ rw' \in [pc : RwPcs, src : RContents, todo : SUBSET RKeys] /\ rw'.pc = "none"
      /\ capture = NoCapture
  BY <1>0 DEF Data, Rewriting, NoRewrite, RwPcs, RContents, REmpty
<1>2. Types'
  BY <1>0, <1>1, TwoFiles DEF Data, Types
<1>3. Rewriting'
  BY <1>0, <1>1, SMTT(60) DEF Rewriting
<1>4. files[Other(handle)].dur = rhist[Len(rhist)] /\ files[Other(handle)].vis = rhist[Len(rhist)]
  BY <1>0 DEF Data, Rewriting, Durable
<1>5. Len(rhist) \in rfloor'..Len(rhist)
  BY <1>0 DEF Data, Types
<1>6. Durable'
  BY <1>0, <1>4, <1>5 DEF Durable
<1>7. CapturesTheRest'
  BY <1>1 DEF CapturesTheRest
<1> QED
  BY <1>2, <1>3, <1>6, <1>7 DEF Data

(* A rewrite that fails before the name can have changed leaves the data   *)
(* file in use.                                                            *)
LEMMA RewriteFailsKeeps ==
  ASSUME Data, ~DirSyncFails, RewriteFails
  PROVE  Data'
<1>0. rw.pc # "dirsync" /\ UNCHANGED <<files, handle, names, rhist, rfloor>> /\ rw' = NoRewrite
      /\ capture' = NoCapture
  BY DEF RewriteFails
<1>1. rw' \in [pc : RwPcs, src : RContents, todo : SUBSET RKeys] /\ rw'.pc = "none"
  BY <1>0 DEF NoRewrite, RwPcs, RContents, REmpty
<1>2. Types'
  BY <1>0, <1>1 DEF Data, Types
<1>3. Rewriting'
  BY <1>0, <1>1 DEF Data, Rewriting
<1>4. Durable'
  BY <1>0 DEF Data, Durable
<1>5. CapturesTheRest'
  BY <1>1 DEF CapturesTheRest
<1> QED
  BY <1>2, <1>3, <1>4, <1>5 DEF Data

(* Whichever file the name is left with, it reopens as a state the floor   *)
(* allows.                                                                 *)
LEMMA PowerFailureKeeps ==
  ASSUME Data, PowerFailure
  PROVE  Data' /\ \E n \in rfloor..Len(rhist) : rhist' = <<rhist[n]>> /\ rfloor' = 1
<1>0. /\ files \in [1..2 -> [vis : RContents, dur : RContents]] /\ handle \in 1..2
      /\ names \subseteq 1..2 /\ rhist \in Seq(RContents)
  BY TwoFiles DEF Data, Types, Rewriting
<1>1. PICK f \in names :
        /\ handle' = f /\ names' = {f}
        /\ files' = [files EXCEPT ![f].vis = files[f].dur]
        /\ rhist' = <<files[f].dur>>
  BY Zenon DEF PowerFailure
<1>2. rfloor' = 1 /\ capture' = NoCapture /\ rw' = NoRewrite
  BY DEF PowerFailure
<1>3. PICK n \in rfloor..Len(rhist) : files[f].dur = rhist[n]
  BY DEF Data, Durable
<1>4. /\ files' \in [1..2 -> [vis : RContents, dur : RContents]]
      /\ files'[f].vis = files[f].dur /\ files'[f].dur = files[f].dur /\ files[f].dur \in RContents
  BY <1>0, <1>1
<1>5. rw' \in [pc : RwPcs, src : RContents, todo : SUBSET RKeys] /\ rw'.pc = "none"
  BY <1>2 DEF NoRewrite, RwPcs, RContents, REmpty
<1>6. /\ rhist' \in Seq(RContents) /\ Len(rhist') = 1 /\ rhist'[1] = files[f].dur
      /\ rfloor' \in 1..Len(rhist')
  BY <1>1, <1>2, <1>4
<1>7. Types'
  BY <1>0, <1>1, <1>2, <1>4, <1>5, <1>6 DEF Types
<1>8. Rewriting'
  BY <1>1, <1>2, <1>5 DEF Rewriting
<1>9. Durable'
  BY <1>1, <1>2, <1>4, <1>6 DEF Durable
<1>10. CapturesTheRest'
  BY <1>5 DEF CapturesTheRest
<1> QED
  BY <1>1, <1>2, <1>3, <1>7, <1>8, <1>9, <1>10, SMTT(60) DEF Data

----------------------------------------------------------------------------
(* A snapshot's and a defragment's steps: nobody waits for a notification  *)
(* that has been given.                                                    *)
LEMMA ClientCallsKeep ==
  ASSUME Calls, NEW c \in Clients,
         SnapshotCheck(c) \/ SnapshotArm(c) \/ SnapshotLook(c) \/ SnapshotWoken(c)
         \/ BeginRead(c) \/ CountReader(c) \/ DropReader(c) \/ CloseRead(c)
  PROVE  Calls' /\ UNCHANGED dataVars
<1> USE DEF Calls, Waits, dataVars
<1>0. UNCHANGED <<dpc, pending>> /\ UNCHANGED dataVars
  BY DEF SnapshotCheck, SnapshotArm, SnapshotLook, SnapshotWoken, BeginRead, CountReader, DropReader, CloseRead
<1>1. Waits'
  BY <1>0 DEF SnapshotCheck, SnapshotArm, SnapshotLook, SnapshotWoken, BeginRead, CountReader, DropReader, CloseRead
<1>2. ASSUME NEW d \in Clients, cpc'[d] = "wait", d \notin woken'
      PROVE  pending \/ dpc = "notify"
  <2>1. CASE d = c
    BY <1>2, <2>1 DEF SnapshotCheck, SnapshotArm, SnapshotLook, LookAgain, SnapshotWoken, BeginRead,
                      CountReader, DropReader, CloseRead
  <2>2. CASE d # c
    <3>1. cpc[d] = "wait" /\ d \notin woken
      BY <1>2, <2>2 DEF SnapshotCheck, SnapshotArm, SnapshotLook, SnapshotWoken, BeginRead,
                        CountReader, DropReader, CloseRead
    <3> QED
      BY <3>1 DEF NoLostWakeup
  <2> QED
    BY SMTT(60), <2>1, <2>2
<1>3. ASSUME dpc = "wait", Defrag \notin woken'
      PROVE  LiveReaders' # {}
  <2>1. Defrag \notin woken
    BY <1>3, RedbAssumption DEF SnapshotCheck, SnapshotArm, SnapshotLook, SnapshotWoken, BeginRead,
                                CountReader, DropReader, CloseRead
  <2>2. PICK d \in Clients : cpc[d] = "live"
    BY <1>3, <2>1 DEF NoLostWakeup, LiveReaders
  <2>3. CASE DropReader(c)
    <3>1. LiveReaders # {c}
      BY <1>3, <2>3 DEF DropReader
    <3>2. PICK e \in LiveReaders : e # c
      BY <3>1, <2>2 DEF LiveReaders
    <3>3. cpc'[e] = "live" /\ e \in Clients
      BY <3>2, <2>3 DEF DropReader, LiveReaders
    <3> QED
      BY <3>3 DEF LiveReaders
  <2>4. CASE ~DropReader(c)
    <3>1. cpc'[d] = "live"
      BY <2>2, <2>4, SMTT(60) DEF SnapshotCheck, SnapshotArm, SnapshotLook, SnapshotWoken, BeginRead,
                        CountReader, CloseRead
    <3> QED
      BY <3>1 DEF LiveReaders
  <2> QED
    BY SMTT(60), <2>3, <2>4
<1>4. NoLostWakeup'
  BY <1>0, <1>2, <1>3, Zenon DEF NoLostWakeup
<1> QED
  BY <1>0, <1>1, <1>4

LEMMA DefragCallsKeep ==
  ASSUME Calls, DefragStep
  PROVE  Calls'
<1> USE DEF Calls, Waits
<1>0. cpc' = cpc /\ LiveReaders' = LiveReaders
  BY DEF DefragStep, DefragBegin, DefragCheck, DefragArm, DefragLook, DefragWoken, DefragTimeout,
         DefragLock, DefragCompact, DefragNotify, LiveReaders
<1>1. Waits'
  BY <1>0 DEF DefragStep, DefragBegin, DefragCheck, DefragArm, DefragLook, DefragWoken, DefragTimeout,
              DefragLock, DefragCompact, DefragNotify, LowerFlag
<1>2. ASSUME NEW d \in Clients, cpc[d] = "wait", d \notin woken'
      PROVE  pending' \/ dpc' = "notify"
  <2>1. CASE DefragNotify
    BY <1>2, <2>1 DEF DefragNotify
  <2>2. CASE ~DefragNotify
    <3>1. d \notin woken /\ d # Defrag
      BY <1>2, <2>2, RedbAssumption
      DEF DefragStep, DefragBegin, DefragCheck, DefragArm, DefragLook, DefragWoken, DefragTimeout,
          DefragLock, DefragCompact, LowerFlag
    <3>2. pending \/ dpc = "notify"
      BY <1>2, <3>1 DEF NoLostWakeup
    <3> QED
      BY <3>2, <2>2
      DEF DefragStep, DefragBegin, DefragCheck, DefragArm, DefragLook, DefragWoken, DefragTimeout,
          DefragLock, DefragCompact, LowerFlag
  <2> QED
    BY <2>1, <2>2
<1>3. ASSUME dpc' = "wait", Defrag \notin woken'
      PROVE  LiveReaders # {}
  BY <1>3 DEF DefragStep, DefragBegin, DefragCheck, DefragArm, DefragLook, DefragWoken, DefragTimeout,
              DefragLock, DefragCompact, DefragNotify, LowerFlag, ReadersLeft
<1>4. NoLostWakeup'
  BY <1>0, <1>2, <1>3 DEF NoLostWakeup
<1> QED
  BY <1>1, <1>4

(* A defragment changes of the data only what is durable. *)
LEMMA DefragDataKeep ==
  ASSUME Data, OneAtATime, DefragStep
  PROVE  Data'
<1>1. CASE DefragCompact
  <2>1. rw.pc # "dirsync"
    BY <1>1 DEF DefragCompact, OneAtATime
  <2> QED
    BY <1>1, <2>1, SyncedKeeps DEF DefragCompact
<1>2. CASE ~DefragCompact
  <2>1. UNCHANGED dataVars
    BY <1>2 DEF DefragStep, DefragBegin, DefragCheck, DefragArm, DefragLook, DefragWoken, DefragTimeout,
                DefragLock, DefragNotify, LowerFlag, dataVars
  <2> QED
    BY SMTT(60), <2>1, DataFrame
<1> QED
  BY <1>1, <1>2

----------------------------------------------------------------------------
LEMMA OneAtATimeKept ==
  ASSUME Inv, RedbNext
  PROVE  OneAtATime'
<1>1. CASE \E c \in Clients : ClientStep(c)
  BY <1>1, ZenonT(60) DEF Inv, OneAtATime, ClientStep, RCommit, RCommitStream, SnapshotCheck, SnapshotArm, SnapshotLook,
              SnapshotWoken, BeginRead, CountReader, DropReader, CloseRead
<1>2. CASE RSync
  BY <1>2 DEF Inv, OneAtATime, RSync
<1>3. CASE DefragStep
  BY <1>3 DEF Inv, OneAtATime, DefragStep, DefragBegin, MaintenanceFree, DefragCheck, DefragArm, DefragLook,
              DefragWoken, DefragTimeout, DefragLock, DefragCompact, DefragNotify, LowerFlag
<1>4. CASE RewriteStep
  <2>1. dpc' = dpc
    BY <1>4, Zenon DEF RewriteStep, RewriteBegin, CopyChunk, CatchUpPass, RewriteLock, LastPass, Rename, Switch,
                RewriteFails, rwSame
  <2>2. dpc = "idle"
    BY <1>4, Zenon DEF Inv, OneAtATime, RewriteStep, RewriteBegin, MaintenanceFree, CopyChunk, CatchUpPass,
                RewriteLock, LastPass, Rename, Switch, RewriteFails
  <2> QED
    BY <2>1, <2>2 DEF OneAtATime
<1>5. CASE PowerFailure
  BY <1>5 DEF OneAtATime, PowerFailure
<1> QED
  BY <1>1, <1>2, <1>3, <1>4, <1>5, SMTT(60) DEF RedbNext

LEMMA NextInv ==
  ASSUME ~DirSyncFails, Inv, [RedbNext]_redbVars
  PROVE  Inv'
<1> USE DEF Inv
<1>1. CASE UNCHANGED redbVars
  <2>1. UNCHANGED dataVars /\ UNCHANGED callVars
    BY <1>1 DEF redbVars, dataVars, callVars
  <2>2. OneAtATime'
    BY <1>1 DEF redbVars, OneAtATime
  <2> QED
    BY <2>1, <2>2, DataFrame, CallsFrame
<1>2. CASE RedbNext
  <2>0. OneAtATime'
    BY <1>2, OneAtATimeKept
  <2>1. ASSUME NEW c \in Clients, ClientStep(c) PROVE Data' /\ Calls'
    <3>1. ASSUME NEW b \in RBatches, NEW sync \in BOOLEAN, RCommit(c, b, sync) PROVE Data' /\ Calls'
      BY <3>1, RCommitKeeps, CallsFrame DEF RCommit, callVars
    <3>2. ASSUME NEW b \in RBatches, RCommitStream(c, b) PROVE Data' /\ Calls'
      BY <3>2, RCommitStreamKeeps, CallsFrame, Zenon DEF RCommitStream, callVars
    <3>3. CASE SnapshotCheck(c) \/ SnapshotArm(c) \/ SnapshotLook(c) \/ SnapshotWoken(c)
               \/ BeginRead(c) \/ CountReader(c) \/ DropReader(c) \/ CloseRead(c)
      BY <3>3, ClientCallsKeep, DataFrame
    <3> QED
      BY <2>1, <3>1, <3>2, <3>3 DEF ClientStep
  <2>2. CASE RSync
    <3>1. rw.pc # "dirsync"
      BY <2>2 DEF RSync, Exclusive
    <3>2. Data'
      BY <2>2, <3>1, SyncedKeeps DEF RSync
    <3> QED
      BY <2>2, <3>2, CallsFrame, <2>0 DEF RSync, callVars
  <2>3. CASE DefragStep
    BY <2>0, <2>3, DefragDataKeep, DefragCallsKeep
  <2>4. CASE RewriteStep
    <3>1. UNCHANGED callVars
      BY <2>4, Zenon DEF RewriteStep, RewriteBegin, CopyChunk, CatchUpPass, RewriteLock, LastPass, Rename, Switch,
                  RewriteFails, rwSame, callVars
    <3>2. Data'
      BY <2>4, RewriteBeginKeeps, CopyChunkKeeps, CatchUpPassKeeps, RewriteLockKeeps, LastPassKeeps,
         RenameKeeps, SwitchKeeps, RewriteFailsKeeps DEF RewriteStep
    <3> QED
      BY SMTT(60), <2>0, <3>1, <3>2, CallsFrame
  <2>5. CASE PowerFailure
    <3>1. Calls'
      BY <2>5 DEF PowerFailure, Calls, Waits, NoLostWakeup
    <3> QED
      BY <2>0, <2>5, <3>1, PowerFailureKeeps
  <2> QED
    BY <1>2, <2>0, <2>1, <2>2, <2>3, <2>4, <2>5 DEF RedbNext
<1> QED
  BY <1>1, <1>2

LEMMA InvHolds ==
  ASSUME ~DirSyncFails
  PROVE  RedbSpec => []Inv
<1>1. Inv /\ [RedbNext]_redbVars => Inv'
  BY NextInv
<1> QED
  BY <1>1, InitInv, PTL DEF RedbSpec

(* Beside commits, snapshots, defragments and power failures a rewrite     *)
(* misses no commit, and neither a snapshot nor a defragment waits for a   *)
(* notification already given (redb_engine.rs, rewrite and defragment).    *)
THEOREM RewriteIsRight ==
  ASSUME ~DirSyncFails
  PROVE  RedbSpec => []RewriteRight
<1>1. Inv => RewriteRight
  <2> SUFFICES ASSUME Inv PROVE RewriteRight
    OBVIOUS
  <2>1. names \in SUBSET (1..2)
    BY TwoFiles DEF Inv, Data, Types, Rewriting
  <2>2. rw.pc \in RwPcs
    BY DEF Inv, Data, Types
  <2>3. RedbTypeOK
    BY <2>1, <2>2 DEF Inv, Data, Calls, Types, Waits, Rewriting, RedbTypeOK, RwPcs
  <2> QED
    BY <2>3 DEF Inv, Data, Calls, RewriteRight
<1> QED
  BY <1>1, InvHolds, PTL

(* Every step of the engine is one of the contract's, or none: a commit    *)
(* extends the history, a sync, a defragment and the switch to a new file  *)
(* raise the floor, and a power failure leaves a state not below it.       *)
THEOREM ImplementsKvStore ==
  ASSUME ~DirSyncFails
  PROVE  RedbSpec => RedbContract
<1>1. RedbInit => KvContract!Init
  <2>1. REmpty \in RContents
    BY DEF REmpty, RContents
  <2> QED
    BY <2>1 DEF RedbInit, KvContract!Init
<1>2. ASSUME Inv, [RedbNext]_redbVars
      PROVE  [KvContract!Next]_(KvContract!kvars)
  <2> USE DEF KvContract!kvars
  <2>0. /\ rhist \in Seq(RContents) /\ rfloor \in 1..Len(rhist)
        /\ files[handle].vis \in RContents
    BY <1>2 DEF Inv, Data, Types
  <2>1. CASE UNCHANGED redbVars
    BY <2>1 DEF redbVars
  <2>2. ASSUME NEW w, NEW sync \in BOOLEAN, Commits(w, sync), Written(files[handle].vis, w) \in RContents
        PROVE  KvContract!Next
    <3>1. CASE sync
      BY <2>2, <3>1 DEF Commits, KvContract!Next, KvContract!CommitDurable
    <3>2. CASE ~sync
      BY <2>2, <3>2 DEF Commits, KvContract!Next, KvContract!Commit
    <3> QED
      BY <3>1, <3>2
  <2>3. CASE rfloor' = Len(rhist) /\ rhist' = rhist
    BY <2>0, <2>3 DEF KvContract!Next, KvContract!Persist
  <2>4. ASSUME NEW c \in Clients, ClientStep(c) PROVE [KvContract!Next]_(KvContract!kvars)
    <3>1. ASSUME NEW b \in RBatches, NEW sync \in BOOLEAN, RCommit(c, b, sync) PROVE KvContract!Next
      BY <2>0, <2>2, <3>1, WrittenType DEF RCommit
    <3>2. ASSUME NEW b \in RBatches, RCommitStream(c, b) PROVE KvContract!Next
      <4> DEFINE full == [k \in RKeys |-> IF k \in DOMAIN b THEN b[k] ELSE RAbsent]
      <4>1. Written(files[handle].vis, full) \in RContents
        BY RedbAssumption DEF Written, RContents
      <4>2. Commits(full, TRUE)
        BY <3>2, Zenon DEF RCommitStream
      <4> QED
        BY Zenon, <2>2, <4>1, <4>2
    <3>3. CASE SnapshotCheck(c) \/ SnapshotArm(c) \/ SnapshotLook(c) \/ SnapshotWoken(c)
               \/ BeginRead(c) \/ CountReader(c) \/ DropReader(c) \/ CloseRead(c)
      BY <3>3, <1>2, ClientCallsKeep DEF Inv, dataVars
    <3> QED
      BY <2>4, <3>1, <3>2, <3>3 DEF ClientStep
  <2>5. CASE RSync
    BY <2>5, <2>3 DEF RSync
  <2>6. CASE DefragStep
    BY <2>6, <2>3, SMTT(60) DEF DefragStep, DefragBegin, DefragCheck, DefragArm, DefragLook, DefragWoken, DefragTimeout,
                      DefragLock, DefragCompact, DefragNotify
  <2>7. CASE RewriteStep
    BY <2>7, <2>3, Zenon DEF RewriteStep, RewriteBegin, CopyChunk, CatchUpPass, RewriteLock, LastPass, Rename, Switch,
                      RewriteFails
  <2>8. CASE PowerFailure
    <3>1. \E n \in rfloor..Len(rhist) : rhist' = <<rhist[n]>> /\ rfloor' = 1
      BY <1>2, <2>8, PowerFailureKeeps DEF Inv
    <3> QED
      BY <3>1 DEF KvContract!Next, KvContract!Crash
  <2> QED
    BY <1>2, <2>1, <2>4, <2>5, <2>6, <2>7, <2>8 DEF RedbNext
<1>3. Inv /\ [RedbNext]_redbVars => [KvContract!Next]_(KvContract!kvars)
  BY <1>2
<1> QED
  BY <1>1, <1>3, InvHolds, PTL DEF RedbSpec, RedbContract, KvContract!Spec
=============================================================================
