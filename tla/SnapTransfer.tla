---------------------------- MODULE SnapTransfer ----------------------------
(***************************************************************************)
(* A lagging follower receives a snapshot (raft/snapshot_data.rs, the      *)
(* install_snapshot calls of raft/network.rs, begin_receiving_snapshot of  *)
(* raft/state_machine.rs).  The leader sends the body chunk by chunk, one  *)
(* call at a time; the follower writes the chunks into a temp file, and    *)
(* goes on in memory when the volume cannot hold it.  Calls and answers    *)
(* are lost, the volume fills, the follower restarts, the leader changes:  *)
(* another process, whose snapshots are again called snap-1, snap-2, ...   *)
(* A body is its number and its length in chunks; a cell of a received     *)
(* body is the chunk written there.  The chunk loops are openraft's.       *)
(***************************************************************************)
EXTENDS Integers, Sequences, FiniteSets

CONSTANTS StTerms,       \* leaders after the first, at most
          StLen,         \* chunks in a body, at most
          StBuilt,       \* bodies built, at most
          ChunkRetries,  \* failures of one chunk before the transfer ends
          StFaults,      \* lost calls, write errors and restarts, at most
          ReadBackFails  \* the temp file may be unreadable after a failed write

VARIABLES leader,    \* its term, and the count its snapshots are named by
          body,      \* the snapshot the leader holds
          send,      \* the transfer in progress, or StIdle
          net,       \* calls on their way to the follower
          stream,    \* what the follower is receiving into, or NoStream
          temps,     \* temp files in its snapshot directory
          disk,      \* full: no write fits; retained: an older snapshot is kept
          installed, \* the body last installed, or NoneYet
          stleft     \* faults left

stvars == <<leader, body, send, net, stream, temps, disk, installed, stleft>>

StIdle == [num |-> 0]
NoStream == [snap |-> 0]
NoneYet == [num |-> 0]
Hole == <<0, 0>>      \* never written
Torn == <<0, 1>>      \* a write that failed half way

(* The snapshot_id build_snapshot gives: "snap-" and the count of this     *)
(* process, which starts at 0 whenever the process does.                   *)
NextBody(n, l) == [num |-> body.num + 1, snap |-> n, len |-> l]

StInit ==
  /\ leader = [term |-> 1, count |-> 1]
  /\ \E l \in 1..StLen : body = [num |-> 1, snap |-> 1, len |-> l]
  /\ send = StIdle /\ net = {} /\ stream = NoStream /\ temps = 0
  /\ disk \in [full : BOOLEAN, retained : BOOLEAN]
  /\ installed = NoneYet /\ stleft = StFaults

(***************************************************************************)
(* The temp file.                                                          *)
(***************************************************************************)

(* A write at position p (from 0): a gap before it reads as zeros. *)
PutAt(cells, p, v) ==
  [i \in 1..(IF p + 1 > Len(cells) THEN p + 1 ELSE Len(cells)) |->
     IF i = p + 1 THEN v ELSE IF i <= Len(cells) THEN cells[i] ELSE Hole]

(* write_all that succeeds. *)
Written(s, v) == [s EXCEPT !.cells = PutAt(@, s.pos, v), !.pos = @ + 1]

(* What is left of the file when a write fails: nothing, or a torn chunk   *)
(* that also moved the position.                                           *)
HalfWritten(s) == {s, [s EXCEPT !.cells = PutAt(@, s.pos, Torn), !.pos = @ + 1]}

(* Mutant of FallBack: the chunk goes after what was read back. *)
AppendsMutant(s, pos, v) ==
  [s EXCEPT !.kind = "memory", !.cells = Append(@, v), !.pos = Len(s.cells) + 1]

(* fall_back_to_memory: the file is read back, the chunk written again at  *)
(* the position it was first written at; dropping the file deletes it.     *)
FallBack(s, pos, v) ==
  [s EXCEPT !.kind = "memory", !.cells = PutAt(@, pos, v), !.pos = pos + 1]

(* Outcomes of poll_write: [s: the stream, ok, disk, freed: temp files     *)
(* deleted].                                                               *)
OutcomeOf(s, ok, d, freed) == [s |-> s, ok |-> ok, disk |-> d, freed |-> freed]

(* recover_write, its file half written: on the first time out of space    *)
(* every retained snapshot is discarded and the write tried again where it *)
(* was tried first; else, and if that fails too, memory.  If the file      *)
(* cannot be read back the error is returned, the position wherever it is. *)
Recovered(s, pos, v, d) ==
  LET first == d.full /\ ~s.discarded
      gone  == [d EXCEPT !.retained = FALSE]
      again(h) == [h EXCEPT !.discarded = TRUE, !.pos = pos]
      fell(h, x) == OutcomeOf(FallBack(h, pos, v), TRUE, x, 1)
  IN  UNION {(IF first /\ d.retained
                THEN {OutcomeOf(Written(again(h), v), TRUE, [gone EXCEPT !.full = FALSE], 0)}
                ELSE {})
             \cup {fell(IF first THEN again(h) ELSE h, IF first THEN gone ELSE d)}
             \cup (IF ReadBackFails
                     THEN {OutcomeOf(IF first THEN again(h) ELSE h, FALSE, IF first THEN gone ELSE d, 0)}
                     ELSE {})
             : h \in HalfWritten(s)}

(* poll_write. *)
PollWrite(s, v, d, fails) ==
  IF s.kind = "file" /\ (d.full \/ fails)
    THEN Recovered(s, s.pos, v, d)
    ELSE {OutcomeOf(Written(s, v), TRUE, d, 0)}

(* start_seek. *)
SeekTo(s, p) == [s EXCEPT !.pos = p]

(* begin_receiving_snapshot: a new temp file, or memory if none can be     *)
(* made.                                                                   *)
BeginReceiving(id, kind) ==
  [snap |-> id, off |-> 0, kind |-> kind, pos |-> 0, cells |-> << >>, discarded |-> FALSE]

(* Drop of what the stream was: an abandoned temp file is deleted. *)
FilesOf(s) == IF s # NoStream /\ s.kind = "file" THEN 1 ELSE 0

Dropped(s) == FilesOf(s)

(***************************************************************************)
(* The leader.                                                             *)
(***************************************************************************)

(* A transfer starts: the snapshot the leader holds, or a new one when it  *)
(* is gone (get_current_snapshot).                                         *)
StartTransfer ==
  /\ send = StIdle /\ installed.num # body.num
  /\ \/ body' = body /\ leader' = leader
     \/ /\ body.num < StBuilt
        /\ \E l \in 1..StLen : body' = NextBody(leader.count + 1, l)
        /\ leader' = [leader EXCEPT !.count = @ + 1]
  /\ send' = [num |-> body'.num, snap |-> body'.snap, len |-> body'.len,
              off |-> 0, failures |-> 0, waits |-> FALSE]
  /\ UNCHANGED <<net, stream, temps, disk, installed, stleft>>

(* install_snapshot of GrpcNetwork: one chunk. *)
SendChunk ==
  /\ send # StIdle /\ ~send.waits
  /\ net' = net \cup {[term |-> leader.term, num |-> send.num, snap |-> send.snap, len |-> send.len,
                       off |-> send.off, done |-> send.off + 1 = send.len]}
  /\ send' = [send EXCEPT !.waits = TRUE]
  /\ UNCHANGED <<leader, body, stream, temps, disk, installed, stleft>>

(* An answer. *)
Continued(s, done) == IF done THEN StIdle ELSE [s EXCEPT !.off = @ + 1, !.failures = 0, !.waits = FALSE]

(* A transient error: the chunk again, until the budget is spent.  Every   *)
(* error the follower answers with comes as one, a mismatch too: the       *)
(* handler turns it into Status::internal.                                 *)
FailedChunk(s) ==
  IF s.failures + 1 >= ChunkRetries THEN StIdle
  ELSE [s EXCEPT !.failures = @ + 1, !.waits = FALSE]

IsOutstanding(r) ==
  /\ send # StIdle /\ send.waits /\ r.term = leader.term
  /\ r.num = send.num /\ r.off = send.off

(* The call fails on the way, or its deadline passes before it is served:  *)
(* the call is reset, so it is not served later.                           *)
LoseCall ==
  /\ stleft > 0 /\ send # StIdle /\ send.waits
  /\ send' \in {FailedChunk(send), StIdle}
  /\ net' = {} /\ stleft' = stleft - 1
  /\ UNCHANGED <<leader, body, stream, temps, disk, installed>>

(* Another process leads; the follower has its vote before a transfer. *)
NewLeader ==
  /\ leader.term <= StTerms /\ body.num < StBuilt
  /\ \E c \in 0..1, l \in 1..StLen :
       /\ leader' = [term |-> leader.term + 1, count |-> c + 1]
       /\ body' = NextBody(c + 1, l)
  /\ send' = StIdle /\ net' = {}
  /\ UNCHANGED <<stream, temps, disk, installed, stleft>>

(***************************************************************************)
(* The follower.                                                           *)
(***************************************************************************)

(* How the caller takes the answer, or its loss. *)
Answer(r, ok) ==
  /\ net' = net \ {r}
  /\ IF ~IsOutstanding(r) THEN send' = send
     ELSE send' = IF ok THEN Continued(send, r.done) ELSE FailedChunk(send)

(* receive_snapshot of another id must start at its beginning; a call of   *)
(* an older leader is refused.                                             *)
Mismatch(r) == (stream = NoStream \/ stream.snap # r.snap) /\ r.off # 0

RefuseCall(r) ==
  /\ r \in net /\ (r.term < leader.term \/ Mismatch(r))
  /\ Answer(r, FALSE)
  /\ UNCHANGED <<leader, body, stream, temps, disk, installed, stleft>>

(* The stream a chunk goes to, its old file dropped when it is replaced. *)
StreamsFor(r) ==
  IF stream # NoStream /\ stream.snap = r.snap
    THEN {[s |-> stream, temps |-> temps]}
    ELSE {[s |-> BeginReceiving(r.snap, k), temps |-> temps - Dropped(stream) + (IF k = "file" THEN 1 ELSE 0)]
          : k \in IF disk.full THEN {"file", "memory"} ELSE {"file"}}

(* Streaming::receive: seek unless the chunk follows the last. *)
Positioned(s, r) == IF r.off = s.off THEN s ELSE [SeekTo(s, r.off) EXCEPT !.off = r.off]

(* A chunk is received; the last one hands the body to install, which      *)
(* reads as much as the body it describes and leaves no temp file: it is   *)
(* renamed into place, or deleted with what could not be kept.             *)
ReceiveChunk(r, fails) ==
  /\ r \in net /\ r.term = leader.term /\ ~Mismatch(r)
  /\ fails => stleft > 0
  /\ stleft' = IF fails THEN stleft - 1 ELSE stleft
  /\ \E b \in StreamsFor(r) :
     \E o \in PollWrite(Positioned(b.s, r), <<r.num, r.off + 1>>, disk, fails) :
       /\ Answer(r, o.ok)
       /\ IF ~o.ok
            THEN stream' = o.s /\ temps' = b.temps - o.freed /\ disk' = o.disk /\ UNCHANGED installed
          ELSE IF ~r.done
            THEN /\ stream' = [o.s EXCEPT !.off = @ + 1]
                 /\ temps' = b.temps - o.freed /\ disk' = o.disk /\ UNCHANGED installed
          ELSE /\ stream' = NoStream
               /\ temps' = b.temps - o.freed - FilesOf(o.s)
               /\ installed' = [num |-> r.num, len |-> r.len, cells |-> o.s.cells]
               /\ \E kept \in BOOLEAN : disk' = [o.disk EXCEPT !.retained = kept]
  /\ UNCHANGED <<leader, body>>

(* The answer is lost: the caller sees an error of its own. *)
ReceiveUnanswered ==
  /\ stleft > 0
  /\ \E r \in net :
       /\ IsOutstanding(r) /\ r.term = leader.term /\ ~Mismatch(r) /\ ~disk.full
       /\ \E b \in StreamsFor(r) :
            LET s == Written(Positioned(b.s, r), <<r.num, r.off + 1>>)
            IN  IF r.done
                  THEN /\ stream' = NoStream /\ temps' = b.temps - FilesOf(s)
                       /\ installed' = [num |-> r.num, len |-> r.len, cells |-> s.cells]
                  ELSE /\ stream' = [s EXCEPT !.off = @ + 1] /\ temps' = b.temps
                       /\ UNCHANGED installed
       /\ net' = net \ {r}
       /\ send' \in {FailedChunk(send), StIdle}
  /\ stleft' = stleft - 1
  /\ UNCHANGED <<leader, body, disk>>

(* The follower restarts: what it was receiving is gone, its connections   *)
(* with it, and open deletes the temp files left behind.                   *)
FollowerRestarts ==
  /\ stleft > 0 /\ stleft' = stleft - 1
  /\ stream' = NoStream /\ temps' = 0 /\ net' = {}
  /\ send' = IF send # StIdle /\ send.waits THEN FailedChunk(send) ELSE send
  /\ UNCHANGED <<leader, body, disk, installed>>

(* The rest of the volume fills up or is freed. *)
VolumeChanges ==
  /\ stleft > 0 /\ stleft' = stleft - 1
  /\ disk' = [disk EXCEPT !.full = ~@]
  /\ UNCHANGED <<leader, body, send, net, stream, temps, installed>>

ServeCall == \E r \in net : RefuseCall(r) \/ ReceiveChunk(r, FALSE)

WriteFails == \E r \in net : stream # NoStream /\ ReceiveChunk(r, TRUE)

StNext ==
  \/ StartTransfer \/ SendChunk \/ LoseCall \/ NewLeader
  \/ ServeCall \/ WriteFails \/ ReceiveUnanswered \/ FollowerRestarts \/ VolumeChanges

(* The replication task keeps trying and the network serves the calls. *)
StSpec ==
  StInit /\ [][StNext]_stvars
    /\ WF_stvars(StartTransfer) /\ WF_stvars(SendChunk) /\ WF_stvars(ServeCall)

(***************************************************************************)
(* Properties.                                                             *)
(***************************************************************************)

(* A transfer sends a chunk of its body, within its budget of failures. *)
StTypeOK ==
  /\ leader.term \in 1..(StTerms + 1) /\ body.num \in 1..StBuilt /\ body.len \in 1..StLen
  /\ send = StIdle \/ (send.off \in 0..(send.len - 1) /\ send.failures \in 0..(ChunkRetries - 1))
  /\ temps \in 0..1 /\ stleft \in 0..StFaults
  /\ stream = NoStream \/ stream.kind \in {"file", "memory"}

(* ReceivedWhole: what is installed is, chunk for chunk, the body its meta *)
(* describes: no retry, no answer lost, no write that failed half way or   *)
(* went on in memory, no restart and no earlier stream of another leader   *)
(* under the same name leaves a chunk of another body, a torn chunk or a   *)
(* gap in it (snapshot_data.rs poll_write, recover_write,                  *)
(* fall_back_to_memory).  Bytes after its end are not read.                *)
ReceivedWhole ==
  installed # NoneYet =>
    /\ Len(installed.cells) >= installed.len
    /\ \A i \in 1..installed.len : installed.cells[i] = <<installed.num, i>>

(* TempsOwned: the snapshot directory holds a temp file only while a       *)
(* stream is received into it: an abandoned transfer, or one that went on  *)
(* in memory, gives its space back (Drop for Incoming).                    *)
TempsOwned == temps = FilesOf(stream)
=============================================================================
