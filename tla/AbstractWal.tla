---------------------------- MODULE AbstractWal -----------------------------
(***************************************************************************)
(* What the write-ahead log promises its one writer: `now' is what every   *)
(* record written says, `may' the contents a power failure could leave.    *)
(* Records become durable in the order they were written, all of them by   *)
(* Sync.  RaftWal implements it for entries and purges; WalLogStore builds *)
(* on all of it.                                                           *)
(***************************************************************************)
EXTENDS WalRecords

VARIABLES now, may

walVars == <<now, may>>

WalInit == now = Empty /\ may = {Empty}

(* Write a record; `rolled' if the segment before it had to be closed,     *)
(* which makes everything before it durable.                               *)
WalWrite(r, rolled) ==
  /\ now' = ReplayRecord(now, r)
  /\ may' = (IF rolled THEN {now} ELSE may) \cup {now'}

WalSync == may' = {now} /\ UNCHANGED now

WalPowerLoss ==
  \E c \in may : now' = c /\ may' = {c}

WalNext ==
  \/ \E r \in Record, rolled \in BOOLEAN : WalWrite(r, rolled)
  \/ WalSync
  \/ WalPowerLoss

WalSpec == WalInit /\ [][WalNext]_walVars
=============================================================================
