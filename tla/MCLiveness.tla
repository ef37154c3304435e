----------------------------- MODULE MCLiveness -----------------------------
(***************************************************************************)
(* What must happen at last, for TLC: one small instance of each component *)
(* with a liveness property.  They share no state: `part' says which one a *)
(* behaviour is of, and each fairness condition is that of the component's *)
(* own specification, for the behaviours that are of it.                   *)
(***************************************************************************)
EXTENDS Watch, Concurrency, Lessor, Proposals, Space, SnapPolicy, KvLogStore,
        SnapTransfer, ClusterId, TLC

CONSTANTS a, b, put1, put2, revoke, s1, n1

VARIABLE part

MCScenes == {[lease |-> {a, b}, observed |-> FALSE, drops |-> 0]}
MCKindOf == a :> "lock" @@ b :> "campaign"
MCSizes == put1 :> 1 @@ put2 :> 1 @@ revoke :> 2

MCInit ==
  /\ part \in {"watch", "locks", "leases", "proposals", "space", "policy", "log", "transfer", "id"}
  /\ Init /\ ConInit /\ LInit /\ PropInit /\ SpaceInit /\ PolicyInit /\ KlInit /\ StInit /\ CiInit
  /\ leadsIn[s1] = 1
  /\ part # "proposals" => scene = {"move"} /\ ~gate.open
  /\ part # "space" => leadsHere
  /\ part # "policy" => keep = 0
  /\ part # "transfer" => body.len = 1 /\ ~disk.full /\ ~disk.retained
  /\ part # "id" => heads = n1 /\ \A m \in CiNodes : node[m].flag = NoId /\ node[m].new

allVars == <<vars, conVars, lVars, pvars, spVars, polVars, klVars, stvars, civars>>

MCNext ==
  /\ UNCHANGED part
  /\ \/ part = "watch" /\ Next
        /\ UNCHANGED <<conVars, lVars, pvars, spVars, polVars, klVars, stvars, civars>>
     \/ part = "locks" /\ ConNext
        /\ UNCHANGED <<vars, lVars, pvars, spVars, polVars, klVars, stvars, civars>>
     \/ part = "leases" /\ LNext
        /\ UNCHANGED <<vars, conVars, pvars, spVars, polVars, klVars, stvars, civars>>
     \/ part = "proposals" /\ PropNext
        /\ UNCHANGED <<vars, conVars, lVars, spVars, polVars, klVars, stvars, civars>>
     \/ part = "space" /\ SpaceNext
        /\ UNCHANGED <<vars, conVars, lVars, pvars, polVars, klVars, stvars, civars>>
     \/ part = "policy" /\ PolicyNext
        /\ UNCHANGED <<vars, conVars, lVars, pvars, spVars, klVars, stvars, civars>>
     \/ part = "log" /\ KlNext
        /\ UNCHANGED <<vars, conVars, lVars, pvars, spVars, polVars, stvars, civars>>
     \/ part = "transfer" /\ StNext
        /\ UNCHANGED <<vars, conVars, lVars, pvars, spVars, polVars, klVars, civars>>
     \/ part = "id" /\ CiNext
        /\ UNCHANGED <<vars, conVars, lVars, pvars, spVars, polVars, klVars, stvars>>

----------------------------------------------------------------------------
(* FairSpec of Watch. *)
WatchFair ==
  /\ WF_vars(part = "watch" /\ Broadcast) /\ WF_vars(part = "watch" /\ CompactPurge)
  /\ WF_vars(part = "watch" /\ CreateCheck)
  /\ WF_vars(part = "watch" /\ ReplayCompact) /\ WF_vars(part = "watch" /\ ReplayRevs)
  /\ WF_vars(part = "watch" /\ ReplayRead)
  /\ WF_vars(part = "watch" /\ Receive) /\ WF_vars(part = "watch" /\ Deliver)
  /\ WF_vars(part = "watch" /\ StartResync) /\ WF_vars(part = "watch" /\ EndResync)
  /\ WF_vars(part = "watch" /\ \E id \in todo : ResyncWatcher(id))

(* ConFairness, without the observer, who takes no part here. *)
LockFair ==
  /\ WF_conVars(part = "locks" /\ ApplyHere)
  /\ \A s \in Sessions : WF_conVars(part = "locks" /\ CallStep(s))

(* LFair. *)
LeaseFair ==
  /\ WF_lVars(part = "leases" /\ LTick)
  /\ \A n \in Servers :
       /\ WF_lVars(part = "leases" /\ LApply(n)) /\ WF_lVars(part = "leases" /\ Renew(n))
       /\ WF_lVars(part = "leases" /\ Sweep(n)) /\ WF_lVars(part = "leases" /\ LDeposed(n))

(* PropFair. *)
ProposerFair ==
  /\ WF_pvars(part = "proposals" /\ ReceiveProposal) /\ WF_pvars(part = "proposals" /\ PassHold)
  /\ WF_pvars(part = "proposals" /\ TakePermit)
  /\ WF_pvars(part = "proposals" /\ \E t \in tasks : Submit(t))
  /\ WF_pvars(part = "proposals" /\ CommitNext) /\ WF_pvars(part = "proposals" /\ ApplyEntry)
  /\ WF_pvars(part = "proposals" /\ TransferEnds)
  /\ \A c \in Callers :
       WF_pvars(part = "proposals" /\ (CheckBarrier(c) \/ CheckAgain(c) \/ Forward(c)))

(* SpaceFairness. *)
SpaceFair ==
  /\ WF_spVars(part = "space" /\ Monitor) /\ WF_spVars(part = "space" /\ TaskRewritten)
  /\ WF_spVars(part = "space" /\ BuildEnd) /\ WF_spVars(part = "space" /\ Publish)
  /\ WF_spVars(part = "space" /\ Checkpoint) /\ WF_spVars(part = "space" /\ PutApplied)
  /\ WF_spVars(part = "space" /\ BackoffEnds)

(* The fairness of PolicySpec, KlSpec, StSpec and CiSpec. *)
OtherFair ==
  /\ WF_polVars(part = "policy" /\ Task /\ UNCHANGED keep)
  /\ WF_polVars(part = "policy" /\ BuildDone /\ UNCHANGED keep)
  /\ WF_klVars(part = "log" /\ CallSteps) /\ WF_klVars(part = "log" /\ WaitSteps)
  /\ WF_stvars(part = "transfer" /\ StartTransfer) /\ WF_stvars(part = "transfer" /\ SendChunk)
  /\ WF_stvars(part = "transfer" /\ ServeCall)
  /\ WF_civars(part = "id" /\ ProposeId)
  /\ \A m \in CiNodes :
       /\ WF_civars(part = "id" /\ StartNode(m)) /\ WF_civars(part = "id" /\ ApplyIds(m))
       /\ WF_civars(part = "id" /\ FollowId(m, TRUE))
       /\ WF_civars(part = "id" /\ UpgradeNode(m)) /\ WF_civars(part = "id" /\ StopToUpgrade(m))

MCSpec ==
  /\ MCInit /\ [][MCNext]_<<part, allVars>>
  /\ WatchFair /\ LockFair /\ LeaseFair /\ ProposerFair /\ SpaceFair /\ OtherFair

(* The follower has the leader's snapshot at last, and whole, also when    *)
(* the volume is full for good: no write error ends a transfer, and none   *)
(* leaves its temp file behind (snapshot_data.rs, recover_write).          *)
SnapshotArrives ==
  /\ [](StTypeOK /\ ReceivedWhole /\ TempsOwned)
  /\ ~<>[](part = "transfer" /\ installed.num # body.num)
=============================================================================
