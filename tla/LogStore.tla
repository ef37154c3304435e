------------------------------ MODULE LogStore ------------------------------
(***************************************************************************)
(* What a raft log store is to openraft: the in-memory store               *)
(* (raft/src/log_store.rs), whose operations are single steps, and what a  *)
(* crash may do to a persistent one: the committed index may go back,      *)
(* nothing else. KvLogStore implements it.                                 *)
(*                                                                         *)
(* A log is [from, terms]: the entries after index `from', each as its     *)
(* term; a vote is its term.                                               *)
(***************************************************************************)
EXTENDS Naturals, Sequences

CONSTANTS LsTerms, LsMax   \* the terms; bound: log indexes

VARIABLES lsLog, lsPurged, lsVote, lsCommitted

lsVars == <<lsLog, lsPurged, lsVote, lsCommitted>>

LastOf(log) == log.from + Len(log.terms)
TermAt(log, i) == log.terms[i - log.from]
Least(a, b) == IF a < b THEN a ELSE b

(* truncate: entries at or after an index go. *)
Cut(log, i) == [log EXCEPT !.terms = SubSeq(@, 1, i - 1 - log.from)]

(* purge: entries up to an index go. *)
Drop(log, i) == [from |-> i, terms |-> SubSeq(log.terms, i - log.from + 1, Len(log.terms))]

LsInit == /\ lsLog = [from |-> 0, terms |-> <<>>] /\ lsPurged = 0 /\ lsVote = 0 /\ lsCommitted = 0

LsAppend == /\ LastOf(lsLog) < LsMax
            /\ \E t \in LsTerms : lsLog' = [lsLog EXCEPT !.terms = Append(@, t)]
            /\ UNCHANGED <<lsPurged, lsVote, lsCommitted>>

LsTruncate == /\ \E i \in (lsLog.from + 1)..LastOf(lsLog) : lsLog' = Cut(lsLog, i)
              /\ UNCHANGED <<lsPurged, lsVote, lsCommitted>>

LsPurge == /\ \E i \in (lsLog.from + 1)..LastOf(lsLog) : lsLog' = Drop(lsLog, i) /\ lsPurged' = i
           /\ UNCHANGED <<lsVote, lsCommitted>>

LsSaveVote == lsVote' \in LsTerms /\ UNCHANGED <<lsLog, lsPurged, lsCommitted>>

LsSaveCommitted == lsCommitted' \in 0..LsMax /\ UNCHANGED <<lsLog, lsPurged, lsVote>>

LsNext == LsAppend \/ LsTruncate \/ LsPurge \/ LsSaveVote \/ LsSaveCommitted

LsSpec == LsInit /\ [][LsNext]_lsVars
=============================================================================
