--------------------------- MODULE MobilityProofs ---------------------------
(***************************************************************************)
(* What a planned cold move guarantees (module MobilityProperties), for any*)
(* number of faults, any number of writes and any choice of what operator  *)
(* and environment may do.  Module MobilityInvariant has the inductive     *)
(* invariant, module MobilitySteps the steps of everybody else; here are   *)
(* the other effects of the controller and the conclusions.                *)
(***************************************************************************)
EXTENDS MobilitySteps

(* The provers of a leaf that names none.                                    *)
USE SMTT(15), Z3T(15), ZenonT(30)

(* Between the two writes of an action that makes two.                      *)
LEMMA ContinuePass ==
  ASSUME IInv, ctl.step = "act", NEW v \in Volumes \cup {NoVolume}, Continue(v),
         ctl.d.action \in SecondEffects,
         v # NoVolume => v.phase = vol'.phase /\ v.owner = vol'.owner /\ v.locked = vol'.locked,
         vol'.owner = vol.owner, vol'.locked = vol.locked,
         vol'.phase = vol.phase \/ ~mv.intent,
         mv'.phase = mv.phase, mv'.recovery = mv.recovery, mv'.hold = mv.hold,
         mv'.intent = mv.intent, mv'.settle = mv.settle, mv'.required = mv.required,
         ctl.d.action = "EnsureCopy" => mv.intent,
         ctl.d.action = "RetireRecovery" => v # NoVolume /\ mv.required = 0,
         UNCHANGED <<disk, jobs, cluster>>
  PROVE  PassKnown'
<1>1. /\ ctl' \in Passes /\ ctl'.step = "act2" /\ ctl'.d = ctl.d /\ ctl'.vol = v
      /\ ctl.d \in Decisions
  <2>1. ctl \in Passes /\ ctl.d \in Decisions
    BY PassContext
  <2>2. /\ ctl'.step = "act2" /\ ctl'.d = ctl.d /\ ctl'.vol = v
    BY <2>1 DEF Continue, Passes
  <2>3. ctl' = [[ctl EXCEPT !.step = "act2"] EXCEPT !.vol = v]
    BY <2>1 DEF Continue, Passes
  <2> HIDE DEF Decisions, Volumes
  <2>4. \A p \in Passes : [p EXCEPT !.step = "act2"] \in Passes /\ [p EXCEPT !.vol = v] \in Passes
    BY DEF Passes
  <2> QED  BY <2>1, <2>2, <2>3, <2>4, ZenonT(30)
<1>2. /\ Outlook(ctl.d) /\ Grounds(ctl.d, ctl.d.action)
  BY DEF IInv, PassInv
<1>3. /\ disk' = disk /\ Retired' = Retired /\ Quiet' = Quiet
      /\ ServingOrRetired => ServingOrRetired' \/ ~mv.intent
  BY DEF Retired, Quiet, ServingOrRetired
<1>4. ctl.d.action \in {"StartDisruption", "EnsureCopy", "EnsurePromotion", "RetireRecovery"}
  BY DEF SecondEffects
<1>5. Outlook(ctl.d)'
  <2>1. /\ ctl.d.phase \in Committed => vol'.owner = "dst"
        /\ ctl.d.phase = "Promoting" => disk'.receipt
        /\ ctl.d.phase = "StartingDisruption" => mv'.hold
        /\ ctl.d.phase = "Succeeded" => ~vol'.locked
        /\ ctl.d.recovery = "Recovered" => ~vol'.locked
        /\ ctl.d.recovery \notin {"none", "Quiescing"} => Quiet'
        /\ ctl.d.recovery # "none" => mv'.intent
        /\ mv'.phase \in {"Succeeded", "Cancelled"} => ctl.d.phase = mv'.phase
        /\ mv'.recovery = "Recovered" => ctl.d.recovery = "Recovered"
    BY <1>2, <1>3, <1>4, ZenonT(30) DEF Outlook, At
  <2>2. ctl.d.recovery = "Completing" /\ ~mv'.settle =>
          ctl.d.action = "RetireRecovery" \/ ServingOrRetired'
    BY <1>2, <1>3, <1>4 DEF Outlook
  <2>3. ctl.d.recovery = "Retiring" /\ ~mv'.settle /\ vol'.owner = "dst" => ServingOrRetired'
    BY <1>2, <1>3, <1>4 DEF Outlook
  <2> QED  BY <1>1, <2>1, <2>2, <2>3 DEF Outlook
<1>6. Grounds(ctl.d, ctl.d.action)'
  <2>1. ctl.d' = ctl.d /\ ctl.vol' = v
    BY <1>1
  <2> QED  BY <1>1, <1>2, <1>3, <1>4, <2>1, ZenonT(30) DEF Grounds, At
<1>7. SeenIsCurrent'
  BY <1>1 DEF SeenIsCurrent
<1> QED  BY <1>1, <1>5, <1>6, <1>7 DEF PassKnown, PassInv

(* The source stops admitting mounts, or the Move is to be blocked because  *)
(* its reservation is gone.                                                 *)
LEMMA StartDisruptionStep ==
  ASSUME IInv, ctl.step = "act", ctl.d.action = "StartDisruption", StartDisruption,
         UNCHANGED <<cluster, disk, written, faults>>
  PROVE  IInv' /\ vol'.owner = vol.owner
<1>1. UNCHANGED <<mv, journal, pods, placement, jobs, pool>>
  BY DEF StartDisruption
<1>2. /\ ~mv.intent /\ mv.phase = "StartingDisruption" /\ mv.hold /\ vol.locked
  BY DEF IInv, PassInv, Grounds
<1>3. /\ vol.owner = "src" /\ mv.recovery = "none" /\ mv.protected
      /\ ctl.vol \in Volumes \cup {NoVolume} /\ vol \in Volumes
  BY <1>2, BeforePlan, PassContext DEF IInv, VolumeInv
<1>4. CASE /\ ctl' = [ctl EXCEPT !.d = Decision("Blocked", "none", "MarkBlocked"), !.vol = vol]
           /\ vol' = vol
  <2> DEFINE d == Decision("Blocked", "none", "MarkBlocked")
  <2>1. d \in Decisions /\ d.phase = "Blocked" /\ d.recovery = "none" /\ d.action = "MarkBlocked"
    <3>1. /\ "Blocked" \in MovePhases /\ "none" \in RecoveryPhases
          /\ "MarkBlocked" \in MoveActions
      BY PhasesAre DEF PhaseNames, RecoveryPhases, MoveActions
    <3> QED  BY <3>1, PassTypes
  <2>2. ctl \in Passes /\ ctl' = [ctl EXCEPT !.d = d, !.vol = vol]
    BY <1>4, PassContext
  <2> HIDE DEF d, Decisions, Volumes
  <2>3. /\ ctl'.step = "act" /\ ctl'.d = d /\ ctl'.vol = vol
        /\ ctl'.committed = ctl.committed
    BY <2>2 DEF Passes
  <2>4. ctl' \in Passes
    <3>1. ctl' = [[ctl EXCEPT !.d = d] EXCEPT !.vol = vol]
      BY <2>2 DEF Passes
    <3>2. \A p \in Passes : [p EXCEPT !.d = d] \in Passes /\ [p EXCEPT !.vol = vol] \in Passes
      BY <1>3, <2>1 DEF Passes
    <3> QED  BY <2>2, <3>1, <3>2, Zenon
  <2>5. Outlook(ctl.d)' /\ Grounds(ctl.d, ctl.d.action)'
    <3>1. ctl.d' = d /\ mv' = mv
      BY <1>1, <2>3
    <3> QED  BY <1>2, <1>3, <2>1, <2>3, <3>1 DEF Outlook, Grounds, At, Committed
  <2>6. PassKnown'
    <3>1. ctl.committed => vol.owner = "dst"
      BY DEF IInv, PassInv
    <3> QED  BY <1>4, <2>1, <2>3, <2>4, <2>5, <3>1
             DEF PassKnown, PassInv, SeenIsCurrent, Effects
  <2> QED  BY <1>1, <1>4, <2>6, KeptVolume, VolumeEffect
<1>5. CASE Continue(ctl.vol) /\ vol' = vol
  <2>1. PassKnown'
    BY <1>1, <1>3, <1>5, SeenMatches, ContinuePass DEF SecondEffects
  <2> QED  BY <1>1, <1>5, <2>1, KeptVolume, VolumeEffect
<1>6. CASE Continue(vol') /\ vol' = Written("Moving", "src", TRUE)
  <2>1. /\ vol' \in Volumes /\ vol'.phase = "Moving" /\ vol'.owner = "src" /\ vol'.locked
        /\ vol'.published = vol.published /\ vol'.locked = vol.locked
    BY <1>2, <1>6, WrittenIs, PassContext, Zenon
  <2>2. PassKnown'
    BY <1>1, <1>2, <1>3, <1>6, <2>1, ContinuePass, Zenon DEF SecondEffects
  <2>3. ServiceWrite
    BY <1>2, <1>3, <2>1 DEF ServiceWrite
  <2> QED  BY <1>1, <1>3, <2>1, <2>2, <2>3, VolumeEffect
<1>7. CASE End /\ vol' = vol
  BY <1>1, <1>7, EndedPass, KeptVolume, VolumeEffect
<1> QED  BY <1>4, <1>5, <1>6, <1>7, Zenon DEF StartDisruption

(* The reservation Pod an effect creates or deletes.                        *)
LEMMA PlacementEffects ==
  ASSUME placement \in Placements
  PROVE  /\ CreatedPlacement \in Placements /\ DeletedPlacement \in Placements
         /\ [placement EXCEPT !.exact = TRUE] \in Placements
<1>1. [state |-> "pending", exact |-> FALSE] \in Placements
  BY DEF Placements
<1>2. [placement EXCEPT !.state = "terminating"] \in Placements
  BY DEF Placements
<1>3. [placement EXCEPT !.exact = TRUE] \in Placements
  BY Zenon DEF Placements
<1> QED  BY <1>1, <1>2, <1>3 DEF CreatedPlacement, DeletedPlacement

(* Effects on the reservation Pod, and the confirmation of a cleanup, which *)
(* reads only.                                                              *)
LEMMA PlacementStep ==
  ASSUME IInv, ctl.step = "act", UNCHANGED <<cluster, disk, written, faults>>,
         \/ ctl.d.action = "EnsurePlacement" /\ EnsurePlacement
         \/ ctl.d.action = "DeletePlacement" /\ DeletePlacement
         \/ ctl.d.action = "ConfirmCleanup" /\ ConfirmCleanup
  PROVE  IInv' /\ UNCHANGED <<vol, mv>>
<1>1. /\ UNCHANGED <<vol, mv, journal, pods, jobs, pool>> /\ (Done \/ End)
      /\ placement' \in {placement, CreatedPlacement, DeletedPlacement}
  BY DEF EnsurePlacement, DeletePlacement, ConfirmCleanup
<1>2. placement' \in Placements
  BY <1>1, PlacementEffects, PassContext
<1>3. Quiet => Quiet'
  BY <1>1 DEF Quiet
<1>4. PassKnown'
  <2>1. CASE End
    BY <2>1, EndedPass
  <2>2. CASE Done
    BY <1>1, <1>3, <2>2, DoneKeepingVolume
  <2> QED  BY <1>1, <2>1, <2>2
<1>5. /\ faults' \in 0..MaxFaults
      /\ pool' \in [generation : Nat, inventory : Inventories, scan : Inventories]
  BY <1>1 DEF IInv, TypeOK
<1> QED  BY <1>1, <1>2, <1>4, <1>5, PassOnly

(* The consumer is evicted in the second write of StartDisruption.          *)
LEMMA EvictConsumerStep ==
  ASSUME IInv, ctl.step = "act2", ctl.d.action = "StartDisruption", EvictConsumer,
         UNCHANGED <<cluster, disk, written, faults>>
  PROVE  IInv' /\ UNCHANGED <<vol, mv>> /\ MountsKept
<1>1. /\ UNCHANGED <<vol, mv, journal, placement, jobs, pool>> /\ Done
      /\ \/ pods' = pods
         \/ /\ pods["old"].state = "bound"
            /\ pods' = [pods EXCEPT !["old"].state = "terminating"]
  BY DEF EvictConsumer
<1>2. pods \in [Consumers -> PodRecords] /\ "old" \in Consumers
  BY DEF IInv, TypeOK, Consumers
<1>3. pods' \in [Consumers -> PodRecords] /\ PodInv' /\ MountsKept
  <2>1. CASE pods' = pods
    BY <1>1, <1>2, <2>1 DEF IInv, PodInv, MountsAreFenced, MountsKept
  <2>2. CASE pods' = [pods EXCEPT !["old"].state = "terminating"]
    <3> DEFINE x == [state |-> "terminating", node |-> pods["old"].node,
                     mount |-> pods["old"].mount]
    <3>1. pods' = [pods EXCEPT !["old"] = [pods["old"] EXCEPT !.state = "terminating"]]
      BY <2>2, Zenon
    <3>2. pods["old"] \in PodRecords
      BY <1>2
    <3>3. pods' = [pods EXCEPT !["old"] = x] /\ x \in PodRecords
      BY <3>1, <3>2, PodTypes, Zenon
    <3>4. x.state = "terminating" /\ x.node = pods["old"].node /\ x.mount = pods["old"].mount
      OBVIOUS
    <3> HIDE DEF x
    <3> QED  BY <1>1, <1>2, <3>3, <3>4, PodWrite, PodKeepsMount, Zenon
  <2> QED  BY <1>1, <2>1, <2>2
<1>4. PassKnown'
  <2>1. Quiet => Quiet'
    BY <1>1 DEF Quiet
  <2> QED  BY <1>1, <2>1, DoneKeepingVolume
<1> QED  BY <1>1, <1>3, <1>4, PodEffect

(* The replacement is pinned to the destination while it is held.           *)
LEMMA EnsureCopyStep ==
  ASSUME IInv, ctl.step = "act", ctl.d.action = "EnsureCopy", EnsureCopy,
         UNCHANGED <<cluster, disk, written, faults>>
  PROVE  IInv' /\ UNCHANGED <<vol, mv>> /\ MountsKept
<1>1. /\ UNCHANGED <<vol, mv, journal, placement, jobs, pool>>
      /\ \/ pods' = pods /\ End
         \/ /\ pods["new"].state = "held" /\ mv.approved
            /\ pods' = [pods EXCEPT !["new"].node = "dst"]
            /\ Continue(ctl.vol)
  BY DEF EnsureCopy
<1>2. pods \in [Consumers -> PodRecords] /\ "new" \in Consumers
  BY DEF IInv, TypeOK, Consumers
<1>3. CASE pods' = pods /\ End
  <2>1. pods' \in [Consumers -> PodRecords] /\ PodInv'
    BY <1>1, <1>2, <1>3 DEF IInv, PodInv, MountsAreFenced
  <2> QED  BY <1>1, <1>3, <2>1, EndedPass, PodEffect DEF MountsKept
<1>4. CASE /\ pods["new"].state = "held" /\ mv.approved
           /\ pods' = [pods EXCEPT !["new"].node = "dst"] /\ Continue(ctl.vol)
  <2> DEFINE x == [state |-> "held", node |-> "dst", mount |-> "no"]
  <2>1. pods' = [pods EXCEPT !["new"] = x]
    <3>1. pods' = [pods EXCEPT !["new"] = [pods["new"] EXCEPT !.node = "dst"]]
      BY <1>4, Zenon
    <3>2. pods["new"] \in PodRecords
      BY <1>2
    <3>3. pods["new"].mount = "no"
      BY <1>2, <1>4 DEF IInv, PodInv
    <3>4. [pods["new"] EXCEPT !.node = "dst"] = x
      BY <1>4, <3>2, <3>3 DEF PodRecords
    <3> HIDE DEF x
    <3> QED  BY <3>1, <3>4, Zenon
  <2>2. pods["new"].mount = "no"
    BY <1>2, <1>4 DEF IInv, PodInv
  <2>3. x \in PodRecords /\ x.mount = "no"
    BY PodTypes DEF Nodes, MountStates
  <2> HIDE DEF x
  <2>4. pods' \in [Consumers -> PodRecords] /\ PodInv'
    BY <1>1, <1>2, <2>1, <2>3, PodWrite, Zenon
  <2>5. PassKnown'
    <3>1. mv.intent
      BY <1>4, PassContext DEF IInv, PlanInv
    <3> QED  BY <1>1, <1>4, <3>1, SeenMatches, PassContext, ContinuePass DEF SecondEffects
  <2>6. MountsKept
    BY <1>2, <2>1, <2>2, <2>3, PodKeepsMount, Zenon
  <2> QED  BY <1>1, <2>4, <2>5, <2>6, PodEffect
<1> QED  BY <1>1, <1>3, <1>4

(* The replacement is let go to the committed destination.                  *)
LEMMA ReleasePlacementStep ==
  ASSUME IInv, ctl.step = "act", ctl.d.action = "ReleasePlacement", ReleasePlacement,
         UNCHANGED <<cluster, disk, written, faults>>
  PROVE  IInv' /\ UNCHANGED <<vol, mv>> /\ MountsKept
<1>1. /\ UNCHANGED <<vol, mv, journal, placement, jobs, pool>> /\ (Done \/ End)
      /\ \/ pods' = pods
         \/ /\ pods["new"].state = "held"
            /\ pods' = [pods EXCEPT !["new"].state = "bound", !["new"].node = "dst"]
  BY Zenon DEF ReleasePlacement
<1>2. pods \in [Consumers -> PodRecords] /\ "new" \in Consumers
  BY DEF IInv, TypeOK, Consumers
<1>3. pods' \in [Consumers -> PodRecords] /\ PodInv' /\ MountsKept
  <2>1. CASE pods' = pods
    BY <1>1, <1>2, <2>1 DEF IInv, PodInv, MountsAreFenced, MountsKept
  <2>2. CASE /\ pods["new"].state = "held"
             /\ pods' = [pods EXCEPT !["new"].state = "bound", !["new"].node = "dst"]
    <3> DEFINE x == [state |-> "bound", node |-> "dst", mount |-> "no"]
               y == [pods["new"] EXCEPT !.state = "bound"]
    <3>1. pods' = [pods EXCEPT !["new"] = x]
      <4>1. [pods EXCEPT !["new"].state = "bound"] = [pods EXCEPT !["new"] = y]
        BY Zenon
      <4>2. pods' = [[pods EXCEPT !["new"] = y] EXCEPT !["new"].node = "dst"]
        <5>1. pods' = [[pods EXCEPT !["new"].state = "bound"] EXCEPT !["new"].node = "dst"]
          BY <2>2, Zenon
        <5> HIDE DEF y
        <5> QED  BY <4>1, <5>1, Zenon
      <4>3. pods["new"] \in PodRecords /\ pods["new"].mount = "no"
        BY <1>2, <2>2 DEF IInv, PodInv
      <4>4. [y EXCEPT !.node = "dst"] = x
        <5>1. y = [state |-> "bound", node |-> pods["new"].node, mount |-> "no"]
          BY <4>3 DEF PodRecords
        <5> HIDE DEF y
        <5> QED  BY <5>1
      <4> HIDE DEF y, x
      <4>5. [pods EXCEPT !["new"] = y]["new"] = y
        BY <1>2
      <4>6. pods' = [[pods EXCEPT !["new"] = y] EXCEPT !["new"] = x]
        BY <4>2, <4>4, <4>5, Zenon
      <4> QED  BY <1>2, <4>6, Zenon
    <3>2. pods["new"].mount = "no"
      BY <1>2, <2>2 DEF IInv, PodInv
    <3>3. x \in PodRecords /\ x.mount = "no" /\ x.state = "bound"
      BY PodTypes DEF Nodes, MountStates
    <3> HIDE DEF x
    <3> QED  BY <1>1, <1>2, <3>1, <3>2, <3>3, PodWrite, PodKeepsMount, Zenon
  <2> QED  BY <1>1, <2>1, <2>2
<1>4. PassKnown'
  <2>1. Quiet => Quiet'
    BY <1>1 DEF Quiet
  <2>2. CASE End
    BY <2>2, EndedPass
  <2>3. CASE Done
    BY <1>1, <2>1, <2>3, DoneKeepingVolume
  <2> QED  BY <1>1, <2>2, <2>3
<1> QED  BY <1>1, <1>3, <1>4, PodEffect

(* Effects on the Move.  The disk plan is recorded over an empty            *)
(* destination, where nothing yet claims to be whole.                       *)
LEMMA MoveEffect ==
  ASSUME IInv, PassKnown', mv' \in Moves, PlanKept, VolumeInv', PlanInv', PhaseInv',
         placement' \in Placements, faults' \in 0..MaxFaults,
         UNCHANGED <<vol, journal, cluster, pods, jobs, disk, written, pool>>
  PROVE  IInv'
<1>1. TypeOK'
  BY DEF IInv, TypeOK, PassKnown
<1>2. PodInv'
  BY DEF IInv, PodInv, MountsAreFenced
<1>3. JournalInv'
  BY DEF IInv, JournalInv, CleanupSparesOwner, PlanKept
<1>4. JobInv'
  BY DEF IInv, JobInv, PlanKept
<1>5. DataInv'
  <2>1. CASE mv.intent
    BY <2>1 DEF IInv, DataInv, OwnerHasEveryWrite, CopyIsComplete, PlanKept
  <2>2. CASE ~mv.intent
    <3>1. /\ disk.dst = 0 /\ ~disk.receipt /\ ~disk.promoted
          /\ jobs.copy.pc = "idle" /\ jobs.promote.pc = "idle"
      BY <2>2 DEF IInv, JobInv, PlanInv
    <3> QED  BY <3>1 DEF IInv, DataInv, OwnerHasEveryWrite, CopyIsComplete, Holding
  <2> QED  BY <2>1, <2>2
<1> QED  BY <1>1, <1>2, <1>3, <1>4, <1>5 DEF IInv, PassKnown

(* The Move takes its finalizer, or gives it back once it is settled; then  *)
(* the Volume is unlocked and depends on it no more.                        *)
LEMMA RecordStep ==
  ASSUME IInv, ctl.step = "act", UNCHANGED <<cluster, disk, written, faults>>,
         \/ ctl.d.action = "ProtectMove" /\ ProtectMove
         \/ ctl.d.action = "FinalizeHistory" /\ FinalizeHistory
  PROVE  IInv' /\ UNCHANGED vol
<1>1. /\ UNCHANGED <<vol, journal, pods, placement, jobs, pool>> /\ PassKnown'
      /\ mv \in Moves /\ mv.protected \in BOOLEAN /\ mv.exists \in BOOLEAN
      /\ placement' \in Placements /\ faults' \in 0..MaxFaults
  BY EndedPass, PassContext DEF ProtectMove, FinalizeHistory, IInv, TypeOK
<1>2. CASE mv' = mv
  <2>1. /\ placement' \in Placements /\ faults' \in 0..MaxFaults
        /\ pool' \in [generation : Nat, inventory : Inventories, scan : Inventories]
    BY <1>1 DEF IInv, TypeOK
  <2> QED  BY <1>1, <1>2, <2>1, PassOnly
<1>3. CASE mv' = [mv EXCEPT !.protected = TRUE] /\ mv.exists
  <2>1. mv' \in Moves
    BY <1>1, <1>3, Zenon DEF Moves
  <2>2. /\ SameDecision /\ mv'.hold = mv.hold /\ mv'.approved = mv.approved
        /\ mv'.intent = mv.intent /\ mv'.promote = mv.promote /\ mv'.required = mv.required
        /\ mv'.reason = mv.reason /\ mv'.protected /\ mv'.exists
    BY <1>1, <1>3 DEF Moves, SameDecision
  <2>3. PlanKept
    BY <2>2 DEF IInv, JobInv, PlanKept
  <2>4. VolumeInv' /\ PlanInv'
    BY <1>1, <2>2, ZenonT(30) DEF IInv, VolumeInv, PlanInv, SameDecision
  <2>5. PhaseInv'
    BY <1>1, <2>2
      DEF IInv, PhaseInv, ServingOrRetired, Retired, Quiet, SameDecision
  <2> QED  BY <1>1, <2>1, <2>3, <2>4, <2>5, MoveEffect
<1>4. CASE /\ ctl.d.action = "FinalizeHistory"
           /\ mv.phase = "Cancelled" \/ MoveCleanupSettled
           /\ \/ mv' = [mv EXCEPT !.protected = FALSE, !.exists = ~mv.deleting]
              \/ mv' = [mv EXCEPT !.exists = vol.locked] /\ ~mv.protected
  <2>1. ~vol.locked
    BY <1>4 DEF IInv, PassInv, Grounds
  <2>2. mv.phase \in {"Cancelled", "Succeeded"} \/ mv.recovery = "Recovered"
    BY <1>4 DEF MoveCleanupSettled
  <2>3. mv' \in Moves
    <3>1. mv.deleting \in BOOLEAN /\ vol.locked \in BOOLEAN
      BY <1>1, PassContext DEF Moves
    <3>2. CASE mv' = [mv EXCEPT !.protected = FALSE, !.exists = ~mv.deleting]
      <4>1. (~mv.deleting) \in BOOLEAN
        OBVIOUS
      <4> QED  BY <1>1, <3>2, <4>1, Zenon DEF Moves
    <3>3. CASE mv' = [mv EXCEPT !.exists = vol.locked]
      BY <1>1, <3>1, <3>3, Zenon DEF Moves
    <3> QED  BY <1>4, <3>2, <3>3
  <2>4. /\ SameDecision /\ mv'.hold = mv.hold /\ mv'.approved = mv.approved
        /\ mv'.intent = mv.intent /\ mv'.promote = mv.promote /\ mv'.required = mv.required
        /\ mv'.reason = mv.reason /\ ~mv'.protected
    BY <1>1, <1>4, Zenon DEF Moves, SameDecision
  <2>5. PlanKept
    BY <2>4 DEF IInv, JobInv, PlanKept
  <2>6. VolumeInv' /\ PlanInv'
    BY <1>1, <2>1, <2>2, <2>4 DEF IInv, VolumeInv, PlanInv, SameDecision
  <2>7. PhaseInv'
    BY <1>1, <2>4 DEF IInv, PhaseInv, ServingOrRetired, Retired, Quiet, SameDecision
  <2> QED  BY <1>1, <2>3, <2>5, <2>6, <2>7, MoveEffect
<1> QED  BY <1>1, <1>2, <1>3, <1>4 DEF ProtectMove, FinalizeHistory

(* Capacity: the hold is granted for the scheduled reservation before any   *)
(* disk plan, and swapped for the plan and its approval while the source is *)
(* out of service and unpublished; a refusal records only the reason.       *)
LEMMA CapacityStep ==
  ASSUME IInv, ctl.step = "act", UNCHANGED <<cluster, disk, written>>, End,
         UNCHANGED <<vol, journal, pods, jobs, pool>>, faults' \in 0..MaxFaults,
         \/ ctl.d.action = "ReservePreparation" /\ ReservePreparation
         \/ ctl.d.action = "EnsureCapacity" /\ EnsureCapacity
         \/ ReservationRefused
         \/ SpaceRefused
  PROVE  IInv'
<1>1. /\ PassKnown' /\ mv \in Moves /\ placement' \in Placements
      /\ pool' \in [generation : Nat, inventory : Inventories, scan : Inventories]
  <2>1. placement' \in {placement, CreatedPlacement, DeletedPlacement,
                        [placement EXCEPT !.exact = TRUE]}
    BY DEF ReservePreparation, EnsureCapacity, ReservationRefused, SpaceRefused
  <2> QED  BY <2>1, EndedPass, PlacementEffects, PassContext, Zenon DEF IInv, TypeOK
<1>2. CASE mv' = mv
  BY <1>1, <1>2, PassOnly
<1>3. CASE /\ ctl.d.action = "ReservePreparation" /\ vol.phase = "Ready" /\ vol.locked
           /\ mv' = [mv EXCEPT !.hold = TRUE]
  <2>1. ~mv.intent
    BY <1>3 DEF IInv, PassInv, Grounds
  <2>2. mv' \in Moves
    BY <1>1, <1>3, Zenon DEF Moves
  <2>3. /\ SameDecision /\ mv'.hold /\ mv'.approved = mv.approved
        /\ mv'.intent = mv.intent /\ mv'.promote = mv.promote /\ mv'.required = mv.required
        /\ mv'.reason = mv.reason /\ mv'.protected = mv.protected /\ mv'.exists = mv.exists
    BY <1>1, <1>3 DEF Moves, SameDecision
  <2>4. PlanKept
    BY <2>3 DEF IInv, JobInv, PlanKept
  <2>5. VolumeInv' /\ PlanInv'
    BY <2>1, <2>3, ZenonT(30) DEF IInv, VolumeInv, PlanInv, SameDecision
  <2>6. PhaseInv'
    BY <2>3 DEF IInv, PhaseInv, ServingOrRetired, Retired, Quiet, SameDecision
  <2> QED  BY <1>1, <2>2, <2>4, <2>5, <2>6, MoveEffect
<1>4. CASE /\ ctl.d.action = "EnsureCapacity" /\ mv.hold /\ vol.published = {}
           /\ mv' = [mv EXCEPT !.hold = FALSE, !.approved = TRUE, !.intent = TRUE,
                               !.reason = "none"]
  <2>1. mv.phase = "WaitingForCapacity"
    BY <1>4 DEF IInv, PassInv, Grounds
  <2>2. mv' \in Moves
    BY <1>1, <1>4, Zenon DEF Moves
  <2>3. /\ SameDecision /\ ~mv'.hold /\ mv'.approved /\ mv'.intent
        /\ mv'.promote = mv.promote /\ mv'.required = mv.required
        /\ mv'.protected = mv.protected /\ mv'.exists = mv.exists
    BY <1>1, <1>4 DEF Moves, SameDecision
  <2>4. PlanKept
    BY <2>3 DEF IInv, JobInv, PlanKept
  <2>5. VolumeInv' /\ PlanInv'
    BY <1>4, <2>1, <2>3 DEF IInv, VolumeInv, PlanInv, SameDecision
  <2>6. PhaseInv'
    BY <2>3 DEF IInv, PhaseInv, ServingOrRetired, Retired, Quiet, SameDecision
  <2> QED  BY <1>1, <2>2, <2>4, <2>5, <2>6, MoveEffect
<1>5. CASE mv.hold /\ mv' = [mv EXCEPT !.reason = "Space"]
  <2>1. mv' \in Moves
    BY <1>1, <1>5 DEF Moves
  <2>2. /\ SameDecision /\ mv'.hold = mv.hold /\ mv'.approved = mv.approved
        /\ mv'.intent = mv.intent /\ mv'.promote = mv.promote /\ mv'.required = mv.required
        /\ mv'.protected = mv.protected /\ mv'.exists = mv.exists
    BY <1>1, <1>5, Zenon DEF Moves, SameDecision
  <2>3. PlanKept
    BY <2>2 DEF IInv, JobInv, PlanKept
  <2>4. VolumeInv' /\ PlanInv'
    BY <1>5, <2>2 DEF IInv, VolumeInv, PlanInv, SameDecision
  <2>5. PhaseInv'
    BY <2>2 DEF IInv, PhaseInv, ServingOrRetired, Retired, Quiet, SameDecision
  <2> QED  BY <1>1, <2>1, <2>3, <2>4, <2>5, MoveEffect
<1> QED
  BY <1>2, <1>3, <1>4, <1>5
  DEF ReservePreparation, EnsureCapacity, ReservationRefused, SpaceRefused

(* A promotion is recorded behind the receipt, before its Job may start.    *)
LEMMA EnsurePromotionStep ==
  ASSUME IInv, ctl.step = "act", ctl.d.action = "EnsurePromotion", EnsurePromotion,
         UNCHANGED <<cluster, disk, written, faults>>
  PROVE  IInv' /\ UNCHANGED vol
<1>1. /\ UNCHANGED <<vol, journal, pods, placement, jobs, pool>> /\ mv \in Moves
      /\ placement' \in Placements /\ faults' \in 0..MaxFaults
      /\ pool' \in [generation : Nat, inventory : Inventories, scan : Inventories]
  BY DEF EnsurePromotion, IInv, TypeOK
<1>2. CASE mv' = mv /\ End
  BY <1>1, <1>2, EndedPass, PassOnly
<1>3. CASE mv' = [mv EXCEPT !.promote = TRUE] /\ Continue(ctl.vol)
  <2>1. disk.receipt /\ mv.intent
    BY PassContext, Zenon DEF IInv, PassInv, Grounds, JobInv
  <2>2. mv' \in Moves
    BY <1>1, <1>3, Zenon DEF Moves
  <2>3. /\ SameDecision /\ mv'.hold = mv.hold /\ mv'.approved = mv.approved
        /\ mv'.intent = mv.intent /\ mv'.promote /\ mv'.required = mv.required
        /\ mv'.reason = mv.reason /\ mv'.protected = mv.protected /\ mv'.exists = mv.exists
    BY <1>1, <1>3 DEF Moves, SameDecision
  <2>4. PlanKept
    BY <2>1, <2>3 DEF PlanKept
  <2>5. VolumeInv' /\ PlanInv'
    BY <1>1, <2>1, <2>3 DEF IInv, VolumeInv, PlanInv, SameDecision
  <2>6. PhaseInv'
    BY <1>1, <2>3 DEF IInv, PhaseInv, ServingOrRetired, Retired, Quiet, SameDecision
  <2>7. PassKnown'
    <3>1. /\ mv'.phase = mv.phase /\ mv'.recovery = mv.recovery /\ mv'.hold = mv.hold
          /\ mv'.intent = mv.intent /\ mv'.settle = mv.settle /\ mv'.required = mv.required
      BY <2>3 DEF SameDecision
    <3> QED  BY <1>1, <1>3, <3>1, SeenMatches, PassContext, ContinuePass DEF SecondEffects
  <2> QED  BY <1>1, <2>2, <2>4, <2>5, <2>6, <2>7, MoveEffect
<1> QED  BY <1>2, <1>3 DEF EnsurePromotion

(* The fence of the rollback scan.                                          *)
LEMMA RecordRollbackScanStep ==
  ASSUME IInv, ctl.step = "act2", ctl.d.action = "RetireRecovery", RecordRollbackScan,
         UNCHANGED <<cluster, disk, written, faults>>
  PROVE  IInv' /\ UNCHANGED vol
<1>1. /\ UNCHANGED <<vol, journal, pods, placement, jobs, pool>> /\ mv \in Moves
      /\ PassKnown' /\ pool.generation \in Nat
      /\ placement' \in Placements /\ faults' \in 0..MaxFaults
      /\ pool' \in [generation : Nat, inventory : Inventories, scan : Inventories]
  BY EndedPass DEF RecordRollbackScan, IInv, TypeOK
<1>2. CASE mv' = mv
  BY <1>1, <1>2, PassOnly
<1>3. CASE mv' = [mv EXCEPT !.required = pool.generation]
  <2>1. mv.intent
    BY DEF IInv, PassInv, Grounds
  <2>2. mv' \in Moves
    BY <1>1, <1>3 DEF Moves
  <2>3. /\ SameDecision /\ mv'.hold = mv.hold /\ mv'.approved = mv.approved
        /\ mv'.intent = mv.intent /\ mv'.promote = mv.promote
        /\ mv'.reason = mv.reason /\ mv'.protected = mv.protected /\ mv'.exists = mv.exists
    BY <1>1, <1>3 DEF Moves, SameDecision
  <2>4. PlanKept
    BY <2>3 DEF IInv, JobInv, PlanKept
  <2>5. VolumeInv' /\ PlanInv'
    BY <1>1, <2>1, <2>3, Zenon DEF IInv, VolumeInv, PlanInv, SameDecision
  <2>6. PhaseInv'
    BY <1>1, <2>3
      DEF IInv, PhaseInv, ServingOrRetired, Retired, Quiet, SameDecision
  <2> QED  BY <1>1, <2>2, <2>4, <2>5, <2>6, MoveEffect
<1> QED  BY <1>2, <1>3 DEF RecordRollbackScan

(* What Persist writes.                                                     *)
LEMMA PersistWrites ==
  ASSUME IInv, Persist, mv' # mv
  PROVE  /\ mv' \in Moves /\ mv'.phase = ctl.d.phase /\ mv'.recovery = ctl.d.recovery
         /\ mv'.plan = (mv.plan \/ ctl.d.action = "InitializePreparation")
         /\ mv'.hold = (mv.hold /\ ctl.d.action # "ReleasePreparation")
         /\ mv'.settle = (mv.settle \/ ctl.d.action = "RequestSettlement")
         /\ mv'.approved = mv.approved /\ mv'.intent = mv.intent
         /\ mv'.promote = mv.promote /\ mv'.required = mv.required
         /\ mv'.reason = mv.reason /\ mv'.protected = mv.protected /\ mv'.exists = mv.exists
<1> DEFINE next == [mv EXCEPT !.phase = ctl.d.phase, !.recovery = ctl.d.recovery]
<1>1. /\ mv \in Moves /\ ctl.d \in Decisions /\ ctl.vol \in Volumes \cup {NoVolume}
  BY PassContext DEF Persist
<1>2. ctl.d.phase \in MovePhases /\ ctl.d.recovery \in RecoveryPhases
  BY <1>1 DEF Decisions
<1>3. ctl.vol.owner \in Nodes \cup {"none"}
  BY <1>1 DEF Volumes, NoVolume, Volume
<1>4. /\ next \in Moves /\ next.phase = ctl.d.phase /\ next.recovery = ctl.d.recovery
      /\ next.plan = mv.plan /\ next.hold = mv.hold /\ next.settle = mv.settle
      /\ next.approved = mv.approved /\ next.intent = mv.intent
      /\ next.promote = mv.promote /\ next.required = mv.required
      /\ next.reason = mv.reason /\ next.protected = mv.protected /\ next.exists = mv.exists
  <2>1. next \in Moves
    BY <1>1, <1>2, Zenon DEF Moves
  <2> QED  BY <1>1, <2>1 DEF Moves
<1>5. \/ /\ ctl.d.action = "InitializePreparation" /\ mv' = [next EXCEPT !.plan = TRUE]
      \/ /\ ctl.d.action = "ReleasePreparation" /\ mv' = [next EXCEPT !.hold = FALSE]
      \/ /\ ctl.d.action = "BeginRecovery"
         /\ mv' = [next EXCEPT !.recoveryOwner = ctl.vol.owner]
      \/ /\ ctl.d.action = "RequestSettlement"
         /\ mv' = [next EXCEPT !.settle = TRUE, !.recoveryOwner = "none"]
      \/ /\ ctl.d.action \notin {"InitializePreparation", "ReleasePreparation",
                                 "BeginRecovery", "RequestSettlement"}
         /\ mv' = next
  BY DEF Persist
<1>6. /\ mv.plan \in BOOLEAN /\ mv.hold \in BOOLEAN /\ mv.settle \in BOOLEAN
  BY <1>1 DEF Moves
<1> HIDE DEF next
<1>7. CASE ctl.d.action = "InitializePreparation" /\ mv' = [next EXCEPT !.plan = TRUE]
  BY <1>4, <1>6, <1>7, Zenon DEF Moves
<1>8. CASE ctl.d.action = "ReleasePreparation" /\ mv' = [next EXCEPT !.hold = FALSE]
  BY <1>4, <1>6, <1>8, Zenon DEF Moves
<1>9. CASE /\ ctl.d.action = "BeginRecovery"
           /\ mv' = [next EXCEPT !.recoveryOwner = ctl.vol.owner]
  BY <1>3, <1>4, <1>6, <1>9 DEF Moves
<1>10. CASE /\ ctl.d.action = "RequestSettlement"
            /\ mv' = [next EXCEPT !.settle = TRUE, !.recoveryOwner = "none"]
  BY <1>4, <1>6, <1>10, ZenonT(30) DEF Moves
<1>11. CASE /\ ctl.d.action \notin {"InitializePreparation", "ReleasePreparation",
                                    "BeginRecovery", "RequestSettlement"}
            /\ mv' = next
  BY <1>4, <1>6, <1>11
<1> QED  BY <1>5, <1>7, <1>8, <1>9, <1>10, <1>11

(* The phase write: by then the pass can say everything the phase stands    *)
(* for.                                                                     *)
LEMMA PersistStep ==
  ASSUME IInv, Persist
  PROVE  IInv' /\ UNCHANGED vol
<1>1. /\ UNCHANGED <<vol, journal, cluster, pods, placement, jobs, disk, written, pool, faults>>
      /\ PassKnown' /\ placement' \in Placements /\ faults' \in 0..MaxFaults
      /\ pool' \in [generation : Nat, inventory : Inventories, scan : Inventories]
  BY EndedPass DEF Persist, IInv, TypeOK
<1>2. CASE mv' = mv
  BY <1>1, <1>2, PassOnly
<1>3. CASE mv' # mv
  <2>1. /\ mv' \in Moves /\ mv'.phase = ctl.d.phase /\ mv'.recovery = ctl.d.recovery
        /\ mv'.plan = (mv.plan \/ ctl.d.action = "InitializePreparation")
        /\ mv'.hold = (mv.hold /\ ctl.d.action # "ReleasePreparation")
        /\ mv'.settle = (mv.settle \/ ctl.d.action = "RequestSettlement")
        /\ mv'.approved = mv.approved /\ mv'.intent = mv.intent
        /\ mv'.promote = mv.promote /\ mv'.required = mv.required
        /\ mv'.reason = mv.reason /\ mv'.protected = mv.protected /\ mv'.exists = mv.exists
    BY <1>3, PersistWrites
  <2>2. ctl.step = "persist" /\ Outlook(ctl.d) /\ Grounds(ctl.d, ctl.d.action)
    BY DEF Persist, IInv, PassInv
  <2>3. /\ ctl.d.action = "InitializePreparation" => mv.protected
        /\ ctl.d.action = "ReleasePreparation" =>
              ~mv.intent /\ vol.phase = "Ready" /\ ctl.d.phase = "Cancelled"
        /\ ctl.d.action = "RequestSettlement" => mv.intent
    BY <2>2 DEF Grounds
  <2>4. /\ ctl.d.phase \in Committed => vol.owner = "dst"
        /\ ctl.d.phase = "Promoting" => disk.receipt
        /\ ctl.d.phase = "StartingDisruption" => mv.hold
        /\ ctl.d.phase = "Succeeded" => ~vol.locked
        /\ ctl.d.recovery = "Recovered" => ~vol.locked
        /\ ctl.d.recovery \notin {"none", "Quiescing"} => Quiet
        /\ ctl.d.recovery # "none" => mv.intent
        /\ ctl.d.recovery = "Completing" /\ ~mv.settle => ServingOrRetired
        /\ ctl.d.recovery = "Retiring" /\ ~mv.settle /\ vol.owner = "dst" => ServingOrRetired
        /\ mv.phase \in {"Succeeded", "Cancelled"} => ctl.d.phase = mv.phase
        /\ mv.recovery = "Recovered" => ctl.d.recovery = "Recovered"
    BY <2>2 DEF Outlook, At
  <2>5. PlanKept
    BY <2>1 DEF IInv, JobInv, PlanKept
  <2>6. VolumeInv'
    BY <1>1, <2>1, <2>3, Zenon DEF IInv, VolumeInv
  <2>7. PlanInv'
    BY <2>1, <2>3, <2>4, Zenon DEF IInv, PlanInv
  <2>8. PhaseInv'
    BY <1>1, <2>1, <2>4, Zenon DEF PhaseInv, ServingOrRetired, Retired, Quiet
  <2> QED  BY <1>1, <2>1, <2>5, <2>6, <2>7, <2>8, MoveEffect
<1> QED  BY <1>1, <1>2, <1>3

(* Effects on helper Jobs, with the reservation Pod.                        *)
LEMMA JobEffect ==
  ASSUME IInv, PassKnown', jobs' \in JobSets, jobs'.purge = jobs.purge, JobInv', DataInv',
         Quiet => Quiet' \/ mv.recovery = "none", placement' \in Placements,
         UNCHANGED <<vol, mv, journal, cluster, pods, disk, written, pool, faults>>
  PROVE  IInv'
<1>1. TypeOK'
  BY DEF IInv, TypeOK, PassKnown
<1>2. PodInv' /\ VolumeInv' /\ PlanInv'
  BY DEF IInv, PodInv, MountsAreFenced, VolumeInv, PlanInv
<1>3. PhaseInv'
  BY DEF IInv, PhaseInv, ServingOrRetired, Retired
<1>4. JournalInv'
  BY DEF IInv, JournalInv, CleanupSparesOwner
<1> QED  BY <1>1, <1>2, <1>3, <1>4 DEF IInv, PassKnown

(* Creating or deleting a Job leaves the progress of its Pod alone.         *)
LEMMA ProgressKept ==
  ASSUME IInv, jobs' \in JobSets, UNCHANGED <<vol, mv, disk, written>>,
         \A j \in JobKind : /\ jobs'[j].pc = jobs[j].pc
                            /\ jobs'[j].state \in {jobs[j].state, "active", "deleting"}
  PROVE  JobInv' /\ DataInv'
<1>1. /\ jobs'.copy.pc = jobs.copy.pc /\ jobs'.promote.pc = jobs.promote.pc
      /\ jobs'.verify.pc = jobs.verify.pc
      /\ jobs'.copy.state \in {jobs.copy.state, "active", "deleting"}
      /\ jobs'.promote.state \in {jobs.promote.state, "active", "deleting"}
      /\ jobs'.verify.state \in {jobs.verify.state, "active", "deleting"}
  BY DEF JobKind
<1>2. JobInv'
  BY <1>1 DEF IInv, JobInv, JobKind
<1>3. DataInv'
  BY <1>1 DEF IInv, DataInv, OwnerHasEveryWrite, CopyIsComplete
<1> QED  BY <1>2, <1>3

(* The records Jobs are created with and deleted to.                        *)
LEMMA JobEffects ==
  /\ NewJob \in JobRecords /\ NewJob.state = "active" /\ NewJob.pc = "idle"
  /\ \A x \in JobRecords :
        /\ DeletedJob(x) \in JobRecords /\ DeletedJob(x).pc = x.pc
        /\ DeletedJob(x).state \in {x.state, "deleting"}
        /\ x.state = "none" => DeletedJob(x) = x
<1>1. NewJob \in JobRecords /\ NewJob.state = "active" /\ NewJob.pc = "idle"
  BY DEF NewJob, JobRecords
<1>2. ASSUME NEW x \in JobRecords
      PROVE  /\ DeletedJob(x) \in JobRecords /\ DeletedJob(x).pc = x.pc
             /\ DeletedJob(x).state \in {x.state, "deleting"}
             /\ x.state = "none" => DeletedJob(x) = x
  <2>1. CASE x.state = "none"
    BY <2>1 DEF DeletedJob
  <2>2. CASE x.state # "none"
    BY <2>2 DEF DeletedJob, JobRecords
  <2> QED  BY <2>1, <2>2
<1> QED  BY <1>1, <1>2

(* The copy and promotion Jobs are created by a Move that is in no recovery *)
(* and decides on none.                                                     *)
LEMMA EnsureJobStep ==
  ASSUME IInv, ctl.step = "act2", NEW j \in {"copy", "promote"}, EnsureJob(j),
         ctl.d.action \in {"EnsureCopy", "EnsurePromotion"},
         UNCHANGED <<cluster, disk, written, faults>>
  PROVE  IInv' /\ UNCHANGED <<vol, mv>>
<1>1. /\ UNCHANGED <<vol, mv, journal, pods, placement, pool>> /\ Done
      /\ \/ jobs' = jobs
         \/ jobs[j].state = "none" /\ jobs' = [jobs EXCEPT ![j] = NewJob]
  BY DEF EnsureJob
<1>2. mv.recovery = "none" /\ ctl.d.recovery = "none"
  BY DEF IInv, PassInv, Grounds
<1>3. PassKnown'
  BY <1>1, <1>2, DoneKeepingVolume
<1>4. placement' \in Placements /\ jobs \in JobSets /\ j \in JobKind
  BY <1>1, PassContext DEF IInv, TypeOK, JobKind
<1>5. CASE jobs' = jobs
  <2>1. JobInv' /\ DataInv'
    BY <1>1, <1>5 DEF IInv, JobInv, DataInv, OwnerHasEveryWrite, CopyIsComplete
  <2> QED  BY <1>1, <1>2, <1>3, <1>4, <1>5, <2>1, JobEffect
<1>6. CASE jobs[j].state = "none" /\ jobs' = [jobs EXCEPT ![j] = NewJob]
  <2>1. /\ jobs' \in JobSets /\ jobs'.purge = jobs.purge
        /\ jobs'.copy = IF j = "copy" THEN NewJob ELSE jobs.copy
        /\ jobs'.promote = IF j = "promote" THEN NewJob ELSE jobs.promote
        /\ jobs'.verify = IF j = "verify" THEN NewJob ELSE jobs.verify
    BY <1>4, <1>6, JobEffects, JobWrite, ZenonT(30)
  <2>2. jobs[j].pc = "idle"
    BY <1>4, <1>6 DEF IInv, JobInv
  <2>3. \A i \in JobKind : /\ jobs'[i].pc = jobs[i].pc
                           /\ jobs'[i].state \in {jobs[i].state, "active", "deleting"}
    BY <2>1, <2>2, JobEffects DEF JobKind
  <2>4. JobInv' /\ DataInv'
    BY <1>1, <2>1, <2>3, ProgressKept
  <2>5. IInv'
    BY <1>1, <1>2, <1>3, <1>4, <2>1, <2>4, JobEffect, Zenon
  <2> QED  BY <1>1, <2>5
<1> QED  BY <1>1, <1>5, <1>6

(* Recovery waits until no helper is left: only then does its pass go on.   *)
LEMMA QuiesceStep ==
  ASSUME IInv, ctl.step = "act", ctl.d.action = "QuiesceRecovery", QuiesceRecovery,
         UNCHANGED <<cluster, disk, written, faults>>
  PROVE  IInv' /\ UNCHANGED <<vol, mv>>
<1>1. /\ UNCHANGED <<vol, mv, journal, pods, pool>>
      /\ jobs' = [jobs EXCEPT !.copy = DeletedJob(@), !.promote = DeletedJob(@)]
      /\ placement' \in {placement, DeletedPlacement}
      /\ \/ Done /\ jobs.copy.state = "none" /\ jobs.promote.state = "none"
         \/ End
  BY DEF QuiesceRecovery
<1>2. placement' \in Placements
  BY <1>1, PlacementEffects, PassContext
<1>3. /\ jobs \in JobSets /\ jobs.copy \in JobRecords /\ jobs.promote \in JobRecords
  BY HelperContext
<1>4. /\ jobs' \in JobSets /\ jobs'.purge = jobs.purge /\ jobs'.verify = jobs.verify
      /\ jobs'.copy = DeletedJob(jobs.copy) /\ jobs'.promote = DeletedJob(jobs.promote)
  <2> DEFINE x == DeletedJob(jobs.copy)
             y == DeletedJob(jobs.promote)
  <2>1. x \in JobRecords /\ y \in JobRecords
    BY <1>3, JobEffects
  <2> HIDE DEF x, y, JobRecords, DeletedJob
  <2>2. [jobs EXCEPT !.copy = x].promote = jobs.promote
    BY <1>3 DEF JobSets
  <2>3. jobs' = [jobs EXCEPT !.copy = x, !.promote = y]
    BY <1>1, <1>3 DEF JobSets, x, y
  <2> QED  BY <1>3, <2>1, <2>3, Zenon DEF JobSets, x, y
<1>5. \A i \in JobKind : /\ jobs'[i].pc = jobs[i].pc
                         /\ jobs'[i].state \in {jobs[i].state, "active", "deleting"}
  BY <1>3, <1>4, JobEffects DEF JobKind
<1>6. JobInv' /\ DataInv'
  BY <1>1, <1>4, <1>5, ProgressKept
<1>7. Quiet => Quiet'
  BY <1>3, <1>4, JobEffects DEF Quiet, NoJob
<1>8. PassKnown'
  <2>1. CASE End
    BY <2>1, EndedPass
  <2>2. CASE Done /\ jobs.copy.state = "none" /\ jobs.promote.state = "none"
    <3>1. jobs.copy.pc = "idle" /\ jobs.promote.pc = "idle"
      BY <2>2 DEF IInv, JobInv, JobKind
    <3>2. jobs.copy = NoJob /\ jobs.promote = NoJob
      BY <1>3, <2>2, <3>1, JobRecordTypes
    <3>3. Quiet'
      BY <1>7, <3>2 DEF Quiet
    <3>4. Achieved
      BY <3>3 DEF Achieved
    <3>5. VolumeAdvances
      BY <1>1 DEF VolumeAdvances, ServingOrRetired, Retired
    <3> QED  BY <1>1, <1>7, <2>2, <3>4, <3>5, DonePass
  <2> QED  BY <1>1, <2>1, <2>2
<1> QED  BY <1>1, <1>2, <1>4, <1>6, <1>7, <1>8, JobEffect

(* One verification Job changes record; the helpers do not.                 *)
LEMMA VerifyJob ==
  ASSUME IInv, NEW x \in JobRecords, jobs' = [jobs EXCEPT !.verify = x],
         x.pc = jobs.verify.pc, x.state \in {jobs.verify.state, "active", "deleting"},
         UNCHANGED <<vol, mv, disk, written>>
  PROVE  /\ jobs' \in JobSets /\ jobs'.purge = jobs.purge /\ JobInv' /\ DataInv'
         /\ Quiet' = Quiet
<1>1. jobs' = [jobs EXCEPT !["verify"] = x] /\ "verify" \in JobKind /\ jobs \in JobSets
  BY HelperContext DEF JobKind
<1>2. /\ jobs' \in JobSets /\ jobs'.purge = jobs.purge /\ jobs'.copy = jobs.copy
      /\ jobs'.promote = jobs.promote /\ jobs'.verify = x
  BY <1>1, JobWrite
<1>3. \A i \in JobKind : /\ jobs'[i].pc = jobs[i].pc
                         /\ jobs'[i].state \in {jobs[i].state, "active", "deleting"}
  BY <1>2, Zenon DEF JobKind
<1>4. JobInv' /\ DataInv'
  BY <1>2, <1>3, ProgressKept
<1> QED  BY <1>2, <1>4 DEF Quiet

(* Verifying the owner's copy keeps the invariant: it starts a Job that     *)
(* only reads.                                                              *)
LEMMA VerifyRecoveryStep ==
  ASSUME IInv, ctl.step = "act", ctl.d.action = "VerifyRecovery", VerifyRecovery,
         UNCHANGED <<cluster, disk, written, faults>>
  PROVE  IInv' /\ UNCHANGED <<vol, mv>>
<1>1. /\ UNCHANGED <<vol, mv, journal, pods, placement, pool>> /\ (Done \/ End)
      /\ \/ jobs' = jobs
         \/ jobs.verify.state = "none" /\ jobs' = [jobs EXCEPT !.verify = NewJob]
  BY DEF VerifyRecovery
<1>2. /\ jobs' \in JobSets /\ jobs'.purge = jobs.purge /\ JobInv' /\ DataInv'
      /\ Quiet' = Quiet
  <2>1. CASE jobs' = jobs
    BY <1>1, <2>1, HelperContext
      DEF JobInv, DataInv, OwnerHasEveryWrite, CopyIsComplete, Quiet
  <2>2. CASE jobs.verify.state = "none" /\ jobs' = [jobs EXCEPT !.verify = NewJob]
    <3>1. jobs.verify.pc = "idle"
      BY <2>2 DEF IInv, JobInv, JobKind
    <3> QED  BY <1>1, <2>2, <3>1, JobEffects, VerifyJob
  <2> QED  BY <1>1, <2>1, <2>2
<1>3. PassKnown'
  <2>1. CASE End
    BY <2>1, EndedPass
  <2>2. CASE Done
    BY <1>1, <1>2, <2>2, DoneKeepingVolume
  <2> QED  BY <1>1, <2>1, <2>2
<1>4. placement' \in Placements
  BY <1>1, PassContext
<1> QED  BY <1>1, <1>2, <1>3, <1>4, JobEffect

(* Effects on the cleanup journal, with the settlement of the Move.         *)
LEMMA JournalEffect ==
  ASSUME IInv, PassKnown', mv' \in Moves, journal' \in Journals, JournalInv',
         PlanKept, VolumeInv', PlanInv', PhaseInv', mv'.intent = mv.intent,
         UNCHANGED <<vol, cluster, pods, placement, jobs, disk, written, pool, faults>>
  PROVE  IInv'
<1>1. TypeOK'
  BY DEF IInv, TypeOK, PassKnown
<1>2. PodInv'
  BY DEF IInv, PodInv, MountsAreFenced
<1>3. JobInv'
  BY DEF IInv, JobInv, PlanKept
<1>4. DataInv'
  BY DEF IInv, DataInv, OwnerHasEveryWrite, CopyIsComplete, PlanKept
<1> QED  BY <1>1, <1>2, <1>3, <1>4 DEF IInv, PassKnown

(* A journal is opened for a copy that is not the owner's, while no owner   *)
(* commit can come any more, and closed once it is purged.                  *)
LEMMA DrivenJournalKeeps ==
  ASSUME IInv, NEW r \in {"MoveSource", "MoveRollback"},
         NEW t \in {"none", "src", "incoming", "dst"}, journal' = DrivenJournal(r, t),
         journal.phase = "None" =>
            t # "none" /\ t # vol.owner /\ vol.phase # "Moving" /\ mv.intent,
         UNCHANGED <<vol, jobs>>, mv'.intent = mv.intent
  PROVE  journal' \in Journals /\ JournalInv'
<1>1. journal \in Journals /\ JournalInv
  BY DEF IInv, TypeOK
<1>2. CASE journal' = journal
  BY <1>1, <1>2 DEF JournalInv, CleanupSparesOwner
<1>3. CASE journal.phase = "None" /\ journal' = Journal("Running", r, t)
  <2>1. /\ journal' \in Journals /\ journal'.phase = "Running" /\ journal'.target = t
    BY <1>3 DEF Journal, Journals
  <2> QED  BY <1>1, <1>3, <2>1 DEF JournalInv, CleanupSparesOwner
<1>4. CASE journal = Journal("Purged", r, t) /\ journal' = Journal("Completed", r, t)
  <2>1. /\ journal' \in Journals /\ journal'.phase = "Completed" /\ journal'.target = t
        /\ journal.phase = "Purged" /\ journal.target = t
    BY <1>4 DEF Journal, Journals
  <2> QED  BY <1>1, <2>1 DEF JournalInv, CleanupSparesOwner
<1> QED  BY <1>2, <1>3, <1>4 DEF DrivenJournal

(* The Move stays as it is.                                                 *)
LEMMA MoveKept ==
  ASSUME IInv, UNCHANGED <<vol, mv, cluster, jobs, disk>>
  PROVE  /\ mv' \in Moves /\ PlanKept /\ VolumeInv' /\ PlanInv' /\ PhaseInv'
         /\ mv'.intent = mv.intent
<1>1. mv' \in Moves /\ PlanKept
  BY PassContext DEF IInv, JobInv, PlanKept
<1>2. VolumeInv' /\ PlanInv'
  BY DEF IInv, VolumeInv, PlanInv
<1>3. PhaseInv'
  BY DEF IInv, PhaseInv, ServingOrRetired, Retired, Quiet
<1> QED  BY <1>1, <1>2, <1>3

(* The committed destination cleans the source.                             *)
LEMMA EnsureCleanupStep ==
  ASSUME IInv, ctl.step = "act", ctl.d.action = "EnsureCleanup", EnsureCleanup,
         UNCHANGED <<cluster, disk, written, faults>>
  PROVE  IInv' /\ UNCHANGED <<vol, mv>>
<1>1. /\ UNCHANGED <<vol, mv, pods, placement, jobs, pool>> /\ (Done \/ End)
      /\ journal' = DrivenJournal("MoveSource", "src")
  BY DEF EnsureCleanup
<1>2. vol.owner = "dst"
  BY DEF IInv, PassInv, Grounds
<1>3. vol.phase # "Moving" /\ mv.intent
  BY <1>2 DEF IInv, VolumeInv
<1>4. journal' \in Journals /\ JournalInv'
  BY <1>1, <1>2, <1>3, DrivenJournalKeeps
<1>5. PassKnown'
  <2>1. Quiet => Quiet'
    BY <1>1 DEF Quiet
  <2>2. CASE End
    BY <2>2, EndedPass
  <2>3. CASE Done
    BY <1>1, <2>1, <2>3, DoneKeepingVolume
  <2> QED  BY <1>1, <2>2, <2>3
<1> QED  BY <1>1, <1>4, <1>5, MoveKept, JournalEffect

(* settleRecoveryArtifacts: opens the scan fence, drives the cleanup of the *)
(* copy that is not the owner's, gives the approval back.                   *)
LEMMA RetireRecoveryStep ==
  ASSUME IInv, ctl.step = "act", ctl.d.action = "RetireRecovery", RetireRecovery,
         UNCHANGED <<cluster, disk, written, faults>>
  PROVE  IInv' /\ UNCHANGED vol
<1> DEFINE settled == mv.reason = "RecoverySettled"
           fenceless == (ctl.vol.owner = "src" \/ mv.settle) /\ mv.required = 0
           blocked == ctl.vol.owner = "src" => ctl.vol.phase = "Blocked" /\ ctl.vol.locked
           opens == ~settled /\ blocked /\ fenceless
           drives == ~settled /\ blocked /\ ~fenceless
<1>1. /\ pool' = IF opens THEN [pool EXCEPT !.generation = @ + 1] ELSE pool
      /\ journal' = IF drives THEN RetirementJournal ELSE journal
      /\ mv' = IF drives /\ RetirementSettled /\ Writable
               THEN [mv EXCEPT !.approved = FALSE, !.reason = "RecoverySettled"]
               ELSE mv
      /\ IF settled /\ ~mv.approved THEN Done
         ELSE IF opens THEN Continue(ctl.vol) ELSE End
      /\ UNCHANGED <<vol, pods, placement, jobs>>
  BY DEF RetireRecovery
<1>2. /\ mv.recovery = "Retiring" /\ mv.intent /\ ctl.vol # NoVolume
      /\ ctl.d.recovery = "Completing" /\ ~mv.settle => vol.owner = "dst"
  BY DEF IInv, PassInv, Grounds
<1>3. /\ ctl.vol.phase = vol.phase /\ ctl.vol.owner = vol.owner
      /\ vol.owner \in {"src", "dst"} /\ mv \in Moves /\ journal \in Journals
      /\ ctl.vol \in Volumes \cup {NoVolume} /\ placement' \in Placements
      /\ faults' \in 0..MaxFaults
      /\ pool \in [generation : Nat, inventory : Inventories, scan : Inventories]
  BY <1>1, <1>2, SeenMatches, PassContext DEF IInv, TypeOK
<1>4. CASE settled /\ ~mv.approved
  <2>1. Done /\ pool' = pool /\ journal' = journal /\ mv' = mv
    BY <1>1, <1>4
  <2>2. ~mv.settle /\ vol.owner = "dst" => ServingOrRetired
    BY <1>2 DEF IInv, PhaseInv
  <2>3. Achieved /\ VolumeAdvances /\ (Quiet => Quiet')
    BY <1>1, <1>2, <2>2 DEF Achieved, VolumeAdvances, ServingOrRetired, Retired, Quiet
  <2>4. PassKnown'
    BY <1>1, <2>1, <2>3, DonePass
  <2> QED  BY <1>1, <1>3, <2>1, <2>4, PassOnly
<1>5. CASE ~(settled /\ ~mv.approved) /\ opens
  <2>1. Continue(ctl.vol) /\ journal' = journal /\ mv' = mv
        /\ pool' = [pool EXCEPT !.generation = @ + 1]
    BY <1>1, <1>5
  <2>2. mv.required = 0
    BY <1>5
  <2>3. PassKnown'
    BY <1>1, <1>2, <1>3, <2>1, <2>2, SeenMatches, ContinuePass, Zenon DEF SecondEffects
  <2>4. pool' \in [generation : Nat, inventory : Inventories, scan : Inventories]
    BY <1>3, <2>1
  <2> QED  BY <1>1, <1>3, <2>1, <2>3, <2>4, PassOnly
<1>6. CASE ~(settled /\ ~mv.approved) /\ ~opens /\ ~drives
  <2>1. End /\ pool' = pool /\ journal' = journal /\ mv' = mv
    BY <1>1, <1>6
  <2> QED  BY <1>1, <1>3, <2>1, EndedPass, PassOnly
<1>7. CASE drives
  <2>1. /\ End /\ pool' = pool /\ journal' = RetirementJournal
        /\ \/ mv' = mv
           \/ mv' = [mv EXCEPT !.approved = FALSE, !.reason = "RecoverySettled"]
    BY <1>1, <1>7
  <2>2. blocked
    BY <1>7
  <2> HIDE DEF settled, fenceless, opens, drives
  <2>3. /\ mv' \in Moves /\ SameDecision /\ mv'.hold = mv.hold /\ mv'.intent = mv.intent
        /\ mv'.promote = mv.promote /\ mv'.required = mv.required
        /\ mv'.protected = mv.protected /\ mv'.exists = mv.exists
        /\ \/ mv'.approved = mv.approved /\ mv'.reason = mv.reason
           \/ mv'.reason = "RecoverySettled"
    <3>1. CASE mv' = mv
      BY <1>3, <3>1 DEF SameDecision
    <3>2. CASE mv' = [mv EXCEPT !.approved = FALSE, !.reason = "RecoverySettled"]
      BY <1>3, <3>2, ZenonT(30) DEF Moves, SameDecision
    <3> QED  BY <2>1, <3>1, <3>2
  <2>4. PlanKept
    BY <2>3 DEF IInv, JobInv, PlanKept
  <2>5. VolumeInv' /\ PlanInv'
    BY <1>1, <1>2, <2>3 DEF IInv, VolumeInv, PlanInv, SameDecision
  <2>6. PhaseInv'
    BY <1>1, <2>3
      DEF IInv, PhaseInv, ServingOrRetired, Retired, Quiet, SameDecision
  <2>7. journal' \in Journals /\ JournalInv'
    <3>1. CASE journal' = journal
      BY <1>1, <1>3, <2>3, <3>1 DEF IInv, JournalInv, CleanupSparesOwner
    <3>2. CASE ctl.vol.owner = "src" /\ journal' = DrivenJournal("MoveRollback", RollbackTarget)
      <4>1. RollbackTarget \in {"incoming", "dst"}
        BY DEF RollbackTarget
      <4>2. vol.phase # "Moving" /\ RollbackTarget # vol.owner
        BY <1>3, <2>2, <3>2, <4>1
      <4> QED  BY <1>1, <1>2, <2>3, <3>2, <4>1, <4>2, DrivenJournalKeeps, Zenon
    <3>3. CASE /\ journal.reason = "MoveRollback"
               /\ journal' = DrivenJournal("MoveRollback", journal.target)
      <4>1. journal.phase # "None"
        BY <3>3 DEF IInv, JournalInv
      <4>2. journal.target \in {"none", "src", "incoming", "dst"}
        BY <1>3 DEF Journals
      <4> QED  BY <1>1, <2>3, <3>3, <4>1, <4>2, DrivenJournalKeeps
    <3>4. CASE ctl.vol.owner # "src" /\ journal' = DrivenJournal("MoveSource", "src")
      <4>1. vol.owner = "dst" /\ vol.phase # "Moving"
        BY <1>3, <3>4 DEF IInv, VolumeInv
      <4> QED  BY <1>1, <1>2, <2>3, <3>4, <4>1, DrivenJournalKeeps, Zenon
    <3> QED  BY <1>3, <2>1, <3>1, <3>2, <3>3, <3>4 DEF RetirementJournal
  <2> QED  BY <1>1, <2>1, <2>3, <2>4, <2>5, <2>6, <2>7, EndedPass, JournalEffect
<1> QED  BY <1>1, <1>4, <1>5, <1>6, <1>7

(* Mounts are reopened on the owner; consumers elsewhere are evicted or, if *)
(* held, removed.                                                           *)
LEMMA ResumeRecoveryStep ==
  ASSUME IInv, ctl.step = "act", ctl.d.action = "ResumeRecovery", ResumeRecovery,
         UNCHANGED <<cluster, disk, written, faults>>
  PROVE  IInv' /\ vol'.owner = vol.owner /\ UNCHANGED mv /\ MountsKept
<1>1. /\ UNCHANGED <<mv, journal, placement, jobs, pool>>
      /\ \/ /\ ctl.vol.phase = "Blocked" /\ pods' = pods /\ End
            /\ vol' = IF StateMatches(ctl.vol, "Ready", ctl.vol.owner)
                      THEN Written("Ready", ctl.vol.owner, TRUE) ELSE vol
         \/ ctl.vol.phase # "Blocked" /\ vol' = vol /\ pods' = pods /\ (Done \/ End)
         \/ /\ vol' = vol /\ End
            /\ \E c \in Consumers :
                  /\ pods[c].state \in {"bound", "held"}
                  /\ pods' = [pods EXCEPT
                        ![c].state = IF @ = "held" THEN "none" ELSE "terminating",
                        ![c].node = IF pods[c].state = "held" THEN "none" ELSE @]
  BY ZenonT(30) DEF ResumeRecovery
<1>2. mv.recovery = "Resuming" /\ ctl.vol.phase \in {"Ready", "Blocked"}
  BY ZenonT(30) DEF IInv, PassInv, Grounds
<1>3. /\ ctl.vol.phase = vol.phase /\ ctl.vol.owner = vol.owner
      /\ vol.owner \in {"src", "dst"} /\ pods \in [Consumers -> PodRecords]
  BY <1>2, SeenMatches, PassContext DEF IInv, TypeOK
<1>4. CASE /\ ctl.vol.phase = "Blocked" /\ pods' = pods /\ End
           /\ vol' = IF StateMatches(ctl.vol, "Ready", ctl.vol.owner)
                     THEN Written("Ready", ctl.vol.owner, TRUE) ELSE vol
  <2>1. CASE vol' = vol
    BY <1>1, <1>4, <2>1, EndedPass, KeptVolume, VolumeEffect, Zenon DEF MountsKept
  <2>2. CASE vol' = Written("Ready", vol.owner, TRUE)
    <3>1. /\ vol' \in Volumes /\ vol'.phase = "Ready" /\ vol'.owner = vol.owner
          /\ vol'.locked = TRUE /\ vol'.published = vol.published
      BY <1>3, <2>2, WrittenIs, ZenonT(30)
    <3>2. vol.locked /\ mv.protected /\ mv.phase # "Succeeded" /\ mv.recovery # "Recovered"
      BY <1>3, <1>4 DEF IInv, VolumeInv, PhaseInv
    <3>3. ServiceWrite
      BY <3>1, <3>2 DEF ServiceWrite
    <3> QED  BY <1>1, <1>4, <3>1, <3>3, EndedPass, VolumeEffect, Zenon DEF MountsKept
  <2> QED  BY <1>3, <1>4, <2>1, <2>2, Zenon
<1>5. CASE ctl.vol.phase # "Blocked" /\ vol' = vol /\ pods' = pods /\ (Done \/ End)
  <2>1. PassKnown'
    <3>1. CASE End
      BY <3>1, EndedPass
    <3>2. CASE Done
      <4>1. Achieved /\ VolumeAdvances /\ (Quiet => Quiet')
        BY <1>1, <1>2, <1>3, <1>5
          DEF Achieved, VolumeAdvances, ServingOrRetired, Retired, Quiet
      <4> QED  BY <1>1, <3>2, <4>1, DonePass
    <3> QED  BY <1>5, <3>1, <3>2
  <2> QED  BY <1>1, <1>5, <2>1, KeptVolume, VolumeEffect DEF MountsKept
<1>6. CASE /\ vol' = vol /\ End
           /\ \E c \in Consumers :
                  /\ pods[c].state \in {"bound", "held"}
                  /\ pods' = [pods EXCEPT
                        ![c].state = IF @ = "held" THEN "none" ELSE "terminating",
                        ![c].node = IF pods[c].state = "held" THEN "none" ELSE @]
  <2>1. PICK c \in Consumers :
                  /\ pods[c].state \in {"bound", "held"}
                  /\ pods' = [pods EXCEPT
                        ![c].state = IF @ = "held" THEN "none" ELSE "terminating",
                        ![c].node = IF pods[c].state = "held" THEN "none" ELSE @]
    BY <1>6, Zenon
  <2> DEFINE s == IF pods[c].state = "held" THEN "none" ELSE "terminating"
             n == IF pods[c].state = "held" THEN "none" ELSE pods[c].node
             x == [state |-> s, node |-> n, mount |-> pods[c].mount]
             y == [state |-> s, node |-> pods[c].node, mount |-> pods[c].mount]
  <2>2. pods[c] \in PodRecords
    BY <1>3
  <2>3. pods' = [pods EXCEPT ![c] = x]
    <3>1. [pods EXCEPT ![c].state = s] = [pods EXCEPT ![c] = y]
      <4>1. [pods EXCEPT ![c].state = s] = [pods EXCEPT ![c] = [pods[c] EXCEPT !.state = s]]
        BY Zenon
      <4>2. [pods[c] EXCEPT !.state = s] = y
        BY <2>2, PodTypes
      <4> QED  BY <4>1, <4>2, Zenon
    <3>2. pods' = [[pods EXCEPT ![c].state = s] EXCEPT ![c].node =
                      IF pods[c].state = "held" THEN "none" ELSE @]
      BY <2>1, Zenon
    <3>3. [y EXCEPT !.node = n] = x /\ y.node = pods[c].node
      OBVIOUS
    <3> HIDE DEF s, y, x
    <3>4. [pods EXCEPT ![c] = y][c] = y
      BY <1>3
    <3>5. pods' = [[pods EXCEPT ![c] = y] EXCEPT ![c].node =
                      IF pods[c].state = "held" THEN "none" ELSE @]
      BY <3>1, <3>2, Zenon
    <3>6. pods' = [[pods EXCEPT ![c] = y] EXCEPT ![c] = x]
      BY <3>3, <3>4, <3>5, Zenon
    <3> QED  BY <1>3, <3>6, Zenon
  <2>4. /\ x \in PodRecords /\ x.mount = pods[c].mount
        /\ x.state = "none" => pods[c].state = "held"
        /\ x.state \in {"none", "terminating"}
        /\ pods[c].state # "held" => x.node = pods[c].node
    BY <2>2, PodTypes
  <2>5. pods[c].state = "held" => pods[c].mount = "no"
    BY DEF IInv, PodInv
  <2> HIDE DEF x, y, s, n
  <2>6. pods' \in [Consumers -> PodRecords] /\ PodInv'
    BY <1>6, <2>3, <2>4, <2>5, PodWrite, Zenon
  <2>7. MountsKept
    BY <1>3, <2>1, <2>3, <2>4, <2>5, PodKeepsMount, Zenon
  <2> QED  BY <1>1, <1>6, <2>6, <2>7, EndedPass, PodEffect
<1> QED  BY <1>1, <1>4, <1>5, <1>6, Zenon

(* Recovery gives the Volume back, in service on its owner, once the        *)
(* verification Job is gone.                                                *)
LEMMA CompleteRecoveryStep ==
  ASSUME IInv, ctl.step = "act", ctl.d.action = "CompleteRecovery", CompleteRecovery,
         UNCHANGED <<cluster, disk, written, faults>>
  PROVE  IInv' /\ vol'.owner = vol.owner /\ UNCHANGED mv
<1> DEFINE closed == mv.settle => SettlementArtifactsClosed
           quiet == jobs.verify.state = "none"
           released == mv.settle /\ ~ctl.vol.locked
           phase == IF mv.settle THEN "Ready" ELSE ctl.vol.phase
           unlocks == StateMatches(ctl.vol, phase, ctl.vol.owner)
<1>1. /\ jobs' = IF closed THEN [jobs EXCEPT !.verify = DeletedJob(@)] ELSE jobs
      /\ vol' = IF closed /\ quiet /\ ~released /\ unlocks
                THEN Written(phase, ctl.vol.owner, FALSE) ELSE vol
      /\ IF closed /\ quiet /\ (released \/ unlocks) THEN Done ELSE End
      /\ UNCHANGED <<mv, journal, pods, placement, pool>>
  BY DEF CompleteRecovery
<1>2. ctl.vol # NoVolume /\ (~mv.settle => vol.phase = "Ready")
  BY DEF IInv, PassInv, Grounds, At
<1>3. /\ ctl.vol.phase = vol.phase /\ ctl.vol.owner = vol.owner
      /\ ctl.vol.locked = vol.locked /\ vol.owner \in {"src", "dst"}
      /\ jobs \in JobSets /\ jobs.verify \in JobRecords /\ placement' \in Placements
  BY <1>1, <1>2, SeenMatches, PassContext, HelperContext
<1>4. phase = "Ready"
  BY <1>2, <1>3
<1> HIDE DEF closed, released, unlocks, phase
<1>5. /\ Written("Ready", vol.owner, FALSE) \in Volumes
      /\ Written("Ready", vol.owner, FALSE).phase = "Ready"
      /\ Written("Ready", vol.owner, FALSE).owner = vol.owner
      /\ Written("Ready", vol.owner, FALSE).locked = FALSE
      /\ Written("Ready", vol.owner, FALSE).published = vol.published
  BY <1>3, WrittenIs, ZenonT(30)
<1>6. jobs' = [jobs EXCEPT !.verify = jobs'.verify]
      /\ jobs'.verify \in JobRecords /\ jobs'.verify.pc = jobs.verify.pc
      /\ jobs'.verify.state \in {jobs.verify.state, "deleting"}
      /\ (quiet => jobs' = jobs)
  <2>1. CASE jobs' = jobs
    BY <1>3, <2>1 DEF JobSets
  <2>2. CASE jobs' = [jobs EXCEPT !.verify = DeletedJob(jobs.verify)]
    <3> DEFINE x == DeletedJob(jobs.verify)
    <3>1. /\ x \in JobRecords /\ x.pc = jobs.verify.pc /\ x.state \in {jobs.verify.state, "deleting"}
          /\ quiet => x = jobs.verify
      BY <1>3, JobEffects
    <3> HIDE DEF x, JobRecords, quiet
    <3>2. jobs'.verify = x /\ jobs' = [jobs EXCEPT !.verify = x]
      BY <1>3, <2>2 DEF JobSets, x
    <3>3. [jobs EXCEPT !.verify = jobs.verify] = jobs
      BY <1>3 DEF JobSets
    <3> QED  BY <3>1, <3>2, <3>3
  <2> QED  BY <1>1, <2>1, <2>2
<1>7. /\ vol' = vol \/ (quiet /\ vol' = Written("Ready", vol.owner, FALSE))
      /\ \/ End
         \/ Done /\ quiet /\ ~vol'.locked
  BY <1>1, <1>3, <1>4, <1>5, Zenon DEF released
<1>8. vol'.owner = vol.owner /\ ServiceWrite
  <2>1. CASE vol' = vol
    BY <2>1, KeptVolume
  <2>2. CASE vol' = Written("Ready", vol.owner, FALSE)
    BY <1>5, <2>2, Zenon DEF ServiceWrite
  <2> QED  BY <1>7, <2>1, <2>2, ZenonT(30)
<1>9. PassKnown'
  <2>1. CASE End
    BY <2>1, EndedPass
  <2>2. CASE Done /\ quiet /\ ~vol'.locked
    <3>1. Achieved
      BY <2>2 DEF Achieved
    <3>2. VolumeAdvances
      BY <1>1, <1>5, <1>7, <1>8, <2>2, Zenon DEF VolumeAdvances, ServingOrRetired, Retired
    <3>3. Quiet => Quiet'
      BY <1>6, <2>2 DEF Quiet
    <3> QED  BY <1>1, <2>2, <3>1, <3>2, <3>3, DonePass
  <2> QED  BY <1>7, <2>1, <2>2
<1>10. CASE vol' = vol
  <2>1. /\ jobs' \in JobSets /\ jobs'.purge = jobs.purge /\ JobInv' /\ DataInv'
        /\ Quiet' = Quiet
    BY <1>1, <1>6, <1>10, VerifyJob, Zenon
  <2> QED  BY <1>1, <1>3, <1>9, <1>10, <2>1, JobEffect, Zenon
<1>11. CASE quiet
  BY <1>1, <1>6, <1>8, <1>9, <1>11, VolumeEffect, Zenon
<1> QED  BY <1>7, <1>8, <1>10, <1>11, <1>1, Zenon

(* The first effect of a pass, action by action.                            *)
LEMMA EffectStep ==
  ASSUME IInv, ctl.step = "act", Effect(ctl.d.action),
         UNCHANGED <<cluster, disk, written, faults>>
  PROVE  IInv' /\ OwnerCommitted
<1>1. ctl.d.action \in Effects
  BY DEF IInv, PassInv
<1>2. /\ ReservePreparation \/ EnsureCapacity =>
            End /\ UNCHANGED <<vol, journal, pods, jobs, pool>>
      /\ SetVolume(ctl.vol.phase, TRUE) \/ SetVolume("Ready", ctl.vol.locked)
            \/ SetVolume(ctl.vol.phase, FALSE) => vol'.owner = vol.owner
      /\ faults' \in 0..MaxFaults
  <2>1. \A p, l : SetVolume(p, l) => vol'.owner = vol.owner
    BY DEF SetVolume, StateMatches, Written, Volume
  <2> QED  BY <2>1, Zenon DEF ReservePreparation, EnsureCapacity, IInv, TypeOK
<1>3. CASE ctl.d.action = "ProtectMove"
  <2>1. ProtectMove
    BY <1>3 DEF Effect
  <2> QED  BY <1>3, <2>1, RecordStep DEF OwnerCommitted
<1>4. CASE ctl.d.action = "ClaimSource"
  <2>1. SetVolume(ctl.vol.phase, TRUE)
    BY <1>4, Zenon DEF Effect
  <2> QED  BY <1>2, <1>4, <2>1, SetVolumeStep DEF OwnerCommitted
<1>5. CASE ctl.d.action = "RestoreSource"
  <2>1. SetVolume("Ready", ctl.vol.locked)
    BY <1>5 DEF Effect
  <2> QED  BY <1>2, <1>5, <2>1, SetVolumeStep DEF OwnerCommitted
<1>6. CASE ctl.d.action = "ReleaseSource"
  <2>1. SetVolume(ctl.vol.phase, FALSE)
    BY <1>6, ZenonT(30) DEF Effect
  <2> QED  BY <1>2, <1>6, <2>1, SetVolumeStep DEF OwnerCommitted
<1>7. CASE ctl.d.action = "ReservePreparation"
  <2>1. ReservePreparation
    BY <1>7 DEF Effect
  <2> QED  BY <1>2, <1>7, <2>1, CapacityStep DEF OwnerCommitted
<1>8. CASE ctl.d.action = "StartDisruption"
  <2>1. StartDisruption
    BY <1>8 DEF Effect
  <2> QED  BY <1>8, <2>1, StartDisruptionStep DEF OwnerCommitted
<1>9. CASE ctl.d.action = "EnsurePlacement"
  <2>1. EnsurePlacement
    BY <1>9 DEF Effect
  <2> QED  BY <1>9, <2>1, PlacementStep DEF OwnerCommitted
<1>10. CASE ctl.d.action = "EnsureCapacity"
  <2>1. EnsureCapacity
    BY <1>10 DEF Effect
  <2> QED  BY <1>2, <1>10, <2>1, CapacityStep DEF OwnerCommitted
<1>11. CASE ctl.d.action = "EnsureCopy"
  <2>1. EnsureCopy
    BY <1>11 DEF Effect
  <2> QED  BY <1>11, <2>1, EnsureCopyStep DEF OwnerCommitted
<1>12. CASE ctl.d.action = "EnsurePromotion"
  <2>1. EnsurePromotion
    BY <1>12 DEF Effect
  <2> QED  BY <1>12, <2>1, EnsurePromotionStep DEF OwnerCommitted
<1>13. CASE ctl.d.action = "CommitOwner"
  <2>1. CommitOwner
    BY <1>13 DEF Effect
  <2> QED  BY <1>13, <2>1, CommitOwnerStep DEF OwnerCommitted
<1>14. CASE ctl.d.action = "DeletePlacement"
  <2>1. DeletePlacement
    BY <1>14 DEF Effect
  <2> QED  BY <1>14, <2>1, PlacementStep DEF OwnerCommitted
<1>15. CASE ctl.d.action = "ReleasePlacement"
  <2>1. ReleasePlacement
    BY <1>15 DEF Effect
  <2> QED  BY <1>15, <2>1, ReleasePlacementStep DEF OwnerCommitted
<1>16. CASE ctl.d.action = "EnsureCleanup"
  <2>1. EnsureCleanup
    BY <1>16 DEF Effect
  <2> QED  BY <1>16, <2>1, EnsureCleanupStep DEF OwnerCommitted
<1>17. CASE ctl.d.action = "ConfirmCleanup"
  <2>1. ConfirmCleanup
    BY <1>17 DEF Effect
  <2> QED  BY <1>17, <2>1, PlacementStep DEF OwnerCommitted
<1>18. CASE ctl.d.action = "MarkSucceeded"
  <2>1. MarkSucceeded
    BY <1>18 DEF Effect
  <2> QED  BY <1>18, <2>1, MarkSucceededStep DEF OwnerCommitted
<1>19. CASE ctl.d.action = "MarkBlocked"
  <2>1. MarkBlocked
    BY <1>19 DEF Effect
  <2> QED  BY <1>19, <2>1, FenceStep DEF OwnerCommitted
<1>20. CASE ctl.d.action = "RequestSettlement"
  <2>1. RequestSettlement
    BY <1>20 DEF Effect
  <2> QED  BY <1>20, <2>1, FenceStep DEF OwnerCommitted
<1>21. CASE ctl.d.action = "FinalizeHistory"
  <2>1. FinalizeHistory
    BY <1>21 DEF Effect
  <2> QED  BY <1>21, <2>1, RecordStep DEF OwnerCommitted
<1>22. CASE ctl.d.action = "QuiesceRecovery"
  <2>1. QuiesceRecovery
    BY <1>22 DEF Effect
  <2> QED  BY <1>22, <2>1, QuiesceStep DEF OwnerCommitted
<1>23. CASE ctl.d.action = "VerifyRecovery"
  <2>1. VerifyRecovery
    BY <1>23 DEF Effect
  <2> QED  BY <1>23, <2>1, VerifyRecoveryStep DEF OwnerCommitted
<1>24. CASE ctl.d.action = "RetireRecovery"
  <2>1. RetireRecovery
    BY <1>24 DEF Effect
  <2> QED  BY <1>24, <2>1, RetireRecoveryStep DEF OwnerCommitted
<1>25. CASE ctl.d.action = "ResumeRecovery"
  <2>1. ResumeRecovery
    BY <1>25 DEF Effect
  <2> QED  BY <1>25, <2>1, ResumeRecoveryStep DEF OwnerCommitted
<1>26. CASE ctl.d.action = "CompleteRecovery"
  <2>1. CompleteRecovery
    BY <1>26 DEF Effect
  <2> QED  BY <1>26, <2>1, CompleteRecoveryStep DEF OwnerCommitted
<1> QED
  BY <1>1, <1>3, <1>4, <1>5, <1>6, <1>7, <1>8, <1>9, <1>10, <1>11, <1>12, <1>13, <1>14,
     <1>15, <1>16, <1>17, <1>18, <1>19, <1>20, <1>21, <1>22, <1>23, <1>24, <1>25, <1>26
  DEF Effects

(* The second.                                                              *)
LEMMA SecondEffectStep ==
  ASSUME IInv, ctl.step = "act2", SecondEffect(ctl.d.action),
         UNCHANGED <<cluster, disk, written, faults>>
  PROVE  IInv' /\ UNCHANGED vol
<1>1. ctl.d.action \in SecondEffects
  BY DEF IInv, PassInv
<1>2. CASE ctl.d.action = "StartDisruption"
  <2>1. EvictConsumer
    BY <1>2 DEF SecondEffect
  <2> QED  BY <1>2, <2>1, EvictConsumerStep
<1>3. CASE ctl.d.action = "EnsureCopy"
  <2>1. EnsureJob("copy")
    BY <1>3 DEF SecondEffect
  <2> QED  BY <1>3, <2>1, EnsureJobStep
<1>4. CASE ctl.d.action = "EnsurePromotion"
  <2>1. EnsureJob("promote")
    BY <1>4 DEF SecondEffect
  <2> QED  BY <1>4, <2>1, EnsureJobStep
<1>5. CASE ctl.d.action = "RetireRecovery"
  <2>1. RecordRollbackScan
    BY <1>5 DEF SecondEffect
  <2> QED  BY <1>5, <2>1, RecordRollbackScanStep
<1> QED  BY <1>1, <1>2, <1>3, <1>4, <1>5 DEF SecondEffects

(* Every step of the controller keeps the invariant, and moves the owner    *)
(* only to a complete copy.                                                 *)
LEMMA ControllerStep ==
  ASSUME IInv, Controller
  PROVE  IInv' /\ OwnerCommitted
<1>1. CASE Look
  BY <1>1, ObserveStep DEF Look, OwnerCommitted
<1>2. CASE Act
  <2>1. UNCHANGED <<cluster, disk, written, faults>>
    BY <1>2 DEF Act
  <2>2. CASE ctl.step = "act" /\ Effect(ctl.d.action)
    BY <2>1, <2>2, EffectStep
  <2>3. CASE ctl.step = "act2" /\ SecondEffect(ctl.d.action)
    BY <2>1, <2>3, SecondEffectStep DEF OwnerCommitted
  <2> QED  BY <1>2, <2>2, <2>3 DEF Act
<1>3. CASE CapacityRefused
  <2>1. faults' \in 0..MaxFaults
    BY <1>3, MobilityAssumption DEF CapacityRefused, Fault, IInv, TypeOK
  <2> QED  BY <1>3, <2>1, CapacityStep DEF CapacityRefused, OwnerCommitted
<1>4. CASE Persist
  BY <1>4, PersistStep DEF OwnerCommitted
<1>5. CASE Crash
  BY <1>5, CrashStep DEF Crash, OwnerCommitted
<1> QED  BY <1>1, <1>2, <1>3, <1>4, <1>5 DEF Controller

-----------------------------------------------------------------------------
(* The inductive argument.                                                  *)

(* A Move is created over a Volume in service, with nothing decided.        *)
LEMMA InitHolds == Init => IInv
<1> SUFFICES ASSUME Init PROVE IInv
  OBVIOUS
<1> USE DEF Init
<1>1. TypeOK
  <2>1. vol \in Volumes
    BY DEF Volume, Volumes, Nodes
  <2>2. mv \in Moves
    BY PhasesAre DEF Moves, PhaseNames, RecoveryPhases
  <2>3. journal \in Journals
    BY DEF Journals
  <2>4. ctl \in Passes /\ ctl.step = "idle"
    BY DEF Idle, Passes
  <2>5. pods \in [Consumers -> PodRecords]
    BY DEF Consumers, PodRecords, MountStates, Nodes
  <2>6. placement \in Placements
    BY DEF Placements
  <2>7. jobs \in JobSets
    BY DEF JobSets, JobRecords, NoJob
  <2>8. disk \in Disks /\ written \in Nat
    BY DEF Disks
  <2>9. pool \in [generation : Nat, inventory : Inventories, scan : Inventories]
    BY Zenon DEF Inventories, NoInventory
  <2>10. cluster \in [claim : {"bound", "closing", "retired"}, cordoned : BOOLEAN]
    OBVIOUS
  <2>11. faults \in 0..MaxFaults
    BY MobilityAssumption
  <2> QED
    BY <2>1, <2>2, <2>3, <2>4, <2>5, <2>6, <2>7, <2>8, <2>9, <2>10, <2>11, Zenon DEF TypeOK
<1>2. PodInv
  BY DEF PodInv, MountsAreFenced, Consumers, Volume
<1>3. VolumeInv /\ PlanInv
  BY DEF VolumeInv, PlanInv, Volume
<1>4. PhaseInv
  BY DEF PhaseInv, Committed
<1>5. JournalInv
  BY DEF JournalInv, CleanupSparesOwner, Volume
<1>6. JobInv
  BY DEF JobInv, JobKind, NoJob, Holding
<1>7. DataInv
  BY DEF DataInv, OwnerHasEveryWrite, Volume
<1>8. PassInv
  BY DEF PassInv, Idle
<1> QED  BY <1>1, <1>2, <1>3, <1>4, <1>5, <1>6, <1>7, <1>8 DEF IInv

(* Every step of every actor keeps the invariant, and none but commitOwner  *)
(* changes the owner.                                                       *)
LEMMA NextKeeps ==
  ASSUME IInv, [Next]_vars
  PROVE  IInv' /\ OwnerCommitted
<1>1. CASE Controller
  BY <1>1, ControllerStep
<1>2. CASE \E j \in JobKind : Helper(j) \/ HelperFault(j)
  <2>1. PICK j \in JobKind : Helper(j) \/ HelperFault(j)
    BY <1>2
  <2>2. vol' = vol
    BY <2>1 DEF Helper, HelperFault
  <2> QED  BY <2>1, <2>2, HelperStep DEF OwnerCommitted
<1>3. CASE Executor \/ CleanupReview
  <2>1. vol' = vol
    BY <1>3 DEF Executor, CleanupReview
  <2> QED  BY <1>3, <2>1, ExecutorStep DEF OwnerCommitted
<1>4. CASE Scanner
  <2>1. vol' = vol
    BY <1>4 DEF Scanner
  <2> QED  BY <1>4, <2>1, ScannerStep DEF OwnerCommitted
<1>5. CASE Workload
  <2>1. vol'.owner = vol.owner
    <3>1. vol \in Volumes
      BY DEF IInv, TypeOK
    <3>2. vol' = vol \/ \E s : vol' = [vol EXCEPT !.published = s]
      BY <1>5, Zenon DEF Workload, MutatePod, ReleaseOwnerPlacement, BeginPublish, Mount,
                         Unmount, ReconcilePublished
    <3> QED  BY <3>1, <3>2 DEF Volumes
  <2> QED  BY <1>5, <2>1, WorkloadStep DEF OwnerCommitted
<1>6. CASE \E c \in Consumers : Write(c)
  <2>1. PICK c \in Consumers : Write(c)
    BY <1>6
  <2>2. vol' = vol
    BY <2>1 DEF Write
  <2> QED  BY <2>1, <2>2, WriteStep DEF OwnerCommitted
<1>7. CASE Scheduler \/ Preempt
  <2>1. vol' = vol
    BY <1>7 DEF Scheduler, Preempt
  <2> QED  BY <1>7, <2>1, SchedulerStep DEF OwnerCommitted
<1>8. CASE Operator
  <2>1. vol' = vol
    BY <1>8 DEF Operator
  <2> QED  BY <1>8, <2>1, OperatorStep DEF OwnerCommitted
<1>9. CASE \E c \in Consumers : PublishInterrupted(c) \/ RollPod(c)
  <2>1. PICK c \in Consumers : PublishInterrupted(c) \/ RollPod(c)
    BY <1>9
  <2>2. vol' = vol
    BY <2>1 DEF PublishInterrupted, RollPod
  <2> QED  BY <2>1, <2>2, PodFaultStep DEF OwnerCommitted
<1>10. CASE UNCHANGED vars
  <2>1. /\ UNCHANGED <<vol, mv, journal, ctl, cluster, pods, placement, jobs, disk>>
        /\ UNCHANGED <<written, pool, faults>>
    BY <1>10 DEF vars
  <2>2. TypeOK' /\ PodInv'
    BY <2>1 DEF IInv, TypeOK, PodInv, MountsAreFenced
  <2>3. /\ SameMove /\ SameVolume /\ SamePass /\ (Retired => Retired')
        /\ vol.phase = "Moving" /\ mv.intent => vol'.published = {}
    BY <2>1 DEF SameMove, SameVolume, SamePass, Retired, IInv, VolumeInv
  <2> QED  BY <2>1, <2>2, <2>3, QuietStep DEF OwnerCommitted
<1> QED
  BY <1>1, <1>2, <1>3, <1>4, <1>5, <1>6, <1>7, <1>8, <1>9, <1>10
    DEF Next, Environment

(* The inductive invariant holds in every reachable state.                  *)
THEOREM Inductive == Spec => []IInv
<1>1. IInv /\ [Next]_vars => IInv'
  BY NextKeeps
<1> QED  BY InitHolds, <1>1, PTL DEF Spec

(* API objects, pass, Jobs and disks keep their shape.                      *)
THEOREM TypeCorrect == Spec => []TypeOK
<1>1. IInv => TypeOK
  BY DEF IInv
<1> QED  BY Inductive, <1>1, PTL

(* Whatever is lost, fails, restarts or is requested when, the directory of *)
(* the recorded owner holds every write the workload has made.              *)
THEOREM EveryWriteKept == Spec => []OwnerHasEveryWrite
<1>1. IInv => OwnerHasEveryWrite
  BY DEF IInv, DataInv
<1> QED  BY Inductive, <1>1, PTL

(* publishedNodes covers every mount and every admitted publication, all of *)
(* them on the owner: the fence that the copy and the owner CAS rely on.    *)
THEOREM MountsFenced == Spec => []MountsAreFenced
<1>1. IInv => MountsAreFenced
  BY DEF IInv, PodInv
<1> QED  BY Inductive, <1>1, PTL

(* No cleanup journal ever names the directory of the owner, so that an     *)
(* executor authorised at any earlier time cannot purge it.                 *)
THEOREM OwnerSpared == Spec => []CleanupSparesOwner
<1>1. IInv => CleanupSparesOwner
  BY DEF IInv, JournalInv
<1> QED  BY Inductive, <1>1, PTL

(* A Volume out of service is locked, and a locked one has the protected    *)
(* Move that brings it back.                                                *)
THEOREM LockRecorded == Spec => []LockHasRecord
<1>1. IInv => LockHasRecord
  BY DEF IInv, VolumeInv, LockHasRecord
<1> QED  BY Inductive, <1>1, PTL

(* A destination stays reserved while its Volume is out of service.         *)
THEOREM DisruptionReserved == Spec => []ReservationSpansDisruption
<1>1. IInv => ReservationSpansDisruption
  BY DEF IInv, VolumeInv, PlanInv, ReservationSpansDisruption
<1> QED  BY Inductive, <1>1, PTL

(* Recovery looks at an inventory that no copy or promotion helper changes. *)
THEOREM RecoveryQuiet == Spec => []RecoveryIsQuiet
<1>1. IInv => RecoveryIsQuiet
  BY DEF IInv, PhaseInv, Quiet, RecoveryIsQuiet
<1> QED  BY Inductive, <1>1, PTL

(* The owner moves once, forward, to a complete copy and past no mount.     *)
THEOREM OwnerForward == Spec => OwnerMovesForward
<1>1. IInv /\ [Next]_vars =>
        [vol'.owner # vol.owner =>
            vol.owner = "src" /\ vol.published = {} /\ disk.dst = written]_vars
  BY NextKeeps DEF OwnerCommitted
<1> QED  BY Inductive, <1>1, PTL DEF Spec, OwnerMovesForward

-----------------------------------------------------------------------------
(* The refinement of SingleCopy.                                            *)

(* No effect of the controller touches a mount: it evicts, pins, releases   *)
(* and removes Pods, and kubelets do the rest.                              *)
LEMMA EffectKeepsMounts ==
  ASSUME IInv, ctl.step = "act", Effect(ctl.d.action),
         UNCHANGED <<cluster, disk, written, faults>>
  PROVE  MountsKept
<1>1. ctl.d.action \in Effects
  BY DEF IInv, PassInv
<1>2. ASSUME pods' = pods PROVE MountsKept
  BY <1>2 DEF MountsKept
<1>3. CASE ctl.d.action = "EnsureCopy"
  <2>1. EnsureCopy
    BY <1>3 DEF Effect
  <2> QED  BY <1>3, <2>1, EnsureCopyStep
<1>4. CASE ctl.d.action = "ReleasePlacement"
  <2>1. ReleasePlacement
    BY <1>4 DEF Effect
  <2> QED  BY <1>4, <2>1, ReleasePlacementStep
<1>5. CASE ctl.d.action = "ResumeRecovery"
  <2>1. ResumeRecovery
    BY <1>5 DEF Effect
  <2> QED  BY <1>5, <2>1, ResumeRecoveryStep
<1>6. CASE ctl.d.action \in {"ProtectMove", "ClaimSource", "RestoreSource",
                             "ReleaseSource", "ReservePreparation", "StartDisruption"}
  <2>1. pods' = pods
    <3>1. ctl.d.action = "ProtectMove" => pods' = pods
      BY DEF Effect, ProtectMove
    <3>2. ctl.d.action = "ClaimSource" => pods' = pods
      BY DEF Effect, SetVolume
    <3>3. ctl.d.action = "RestoreSource" => pods' = pods
      BY DEF Effect, SetVolume
    <3>4. ctl.d.action = "ReleaseSource" => pods' = pods
      BY DEF Effect, SetVolume
    <3>5. ctl.d.action = "ReservePreparation" => pods' = pods
      BY DEF Effect, ReservePreparation
    <3>6. ctl.d.action = "StartDisruption" => pods' = pods
      BY DEF Effect, StartDisruption
    <3> QED  BY <1>6, <3>1, <3>2, <3>3, <3>4, <3>5, <3>6
  <2> QED  BY <1>2, <2>1
<1>7. CASE ctl.d.action \in {"EnsurePlacement", "EnsureCapacity", "EnsurePromotion",
                             "CommitOwner", "DeletePlacement"}
  <2>1. pods' = pods
    <3>1. ctl.d.action = "EnsurePlacement" => pods' = pods
      BY DEF Effect, EnsurePlacement
    <3>2. ctl.d.action = "EnsureCapacity" => pods' = pods
      BY DEF Effect, EnsureCapacity
    <3>3. ctl.d.action = "EnsurePromotion" => pods' = pods
      BY DEF Effect, EnsurePromotion
    <3>4. ctl.d.action = "CommitOwner" => pods' = pods
      BY DEF Effect, CommitOwner
    <3>5. ctl.d.action = "DeletePlacement" => pods' = pods
      BY DEF Effect, DeletePlacement
    <3> QED  BY <1>7, <3>1, <3>2, <3>3, <3>4, <3>5
  <2> QED  BY <1>2, <2>1
<1>8. CASE ctl.d.action \in {"EnsureCleanup", "ConfirmCleanup", "MarkSucceeded",
                             "MarkBlocked", "RequestSettlement"}
  <2>1. pods' = pods
    <3>1. ctl.d.action = "EnsureCleanup" => pods' = pods
      BY DEF Effect, EnsureCleanup
    <3>2. ctl.d.action = "ConfirmCleanup" => pods' = pods
      BY DEF Effect, ConfirmCleanup
    <3>3. ctl.d.action = "MarkSucceeded" => pods' = pods
      BY DEF Effect, MarkSucceeded
    <3>4. ctl.d.action = "MarkBlocked" => pods' = pods
      BY DEF Effect, MarkBlocked
    <3>5. ctl.d.action = "RequestSettlement" => pods' = pods
      BY DEF Effect, RequestSettlement
    <3> QED  BY <1>8, <3>1, <3>2, <3>3, <3>4, <3>5
  <2> QED  BY <1>2, <2>1
<1>9. CASE ctl.d.action \in {"FinalizeHistory", "QuiesceRecovery", "VerifyRecovery",
                             "RetireRecovery", "CompleteRecovery"}
  <2>1. pods' = pods
    <3>1. ctl.d.action = "FinalizeHistory" => pods' = pods
      BY DEF Effect, FinalizeHistory
    <3>2. ctl.d.action = "QuiesceRecovery" => pods' = pods
      BY DEF Effect, QuiesceRecovery
    <3>3. ctl.d.action = "VerifyRecovery" => pods' = pods
      BY DEF Effect, VerifyRecovery
    <3>4. ctl.d.action = "RetireRecovery" => pods' = pods
      BY DEF Effect, RetireRecovery
    <3>5. ctl.d.action = "CompleteRecovery" => pods' = pods
      BY DEF Effect, CompleteRecovery
    <3> QED  BY <1>9, <3>1, <3>2, <3>3, <3>4, <3>5
  <2> QED  BY <1>2, <2>1
<1> QED  BY <1>1, <1>3, <1>4, <1>5, <1>6, <1>7, <1>8, <1>9 DEF Effects

(* No step of the controller mounts, unmounts or writes.                    *)
LEMMA ControllerKeepsMounts ==
  ASSUME IInv, Controller
  PROVE  MountsKept /\ UNCHANGED <<disk, written>>
<1>1. CASE Act
  <2>1. UNCHANGED <<cluster, disk, written, faults>>
    BY <1>1 DEF Act
  <2>2. CASE ctl.step = "act" /\ Effect(ctl.d.action)
    BY <2>1, <2>2, EffectKeepsMounts
  <2>3. CASE ctl.step = "act2" /\ SecondEffect(ctl.d.action)
    <3>1. ctl.d.action \in SecondEffects
      BY <2>3 DEF IInv, PassInv
    <3>2. CASE ctl.d.action = "StartDisruption"
      <4>1. EvictConsumer
        BY <2>3, <3>2 DEF SecondEffect
      <4> QED  BY <2>1, <2>3, <3>2, <4>1, EvictConsumerStep
    <3>3. CASE ctl.d.action \in {"EnsureCopy", "EnsurePromotion", "RetireRecovery"}
      <4>1. pods' = pods
        BY <2>3, <3>3, Zenon DEF SecondEffect, EnsureJob, RecordRollbackScan
      <4> QED  BY <2>1, <4>1 DEF MountsKept
    <3> QED  BY <3>1, <3>2, <3>3 DEF SecondEffects
  <2> QED  BY <1>1, <2>1, <2>2, <2>3 DEF Act
<1>2. CASE Look \/ CapacityRefused \/ Persist \/ Crash
  <2>1. UNCHANGED <<pods, disk, written>>
    BY <1>2 DEF Look, CapacityRefused, Persist, Crash
  <2> QED  BY <2>1 DEF MountsKept
<1> QED  BY <1>1, <1>2 DEF Controller

(* Every step of the system is a step of SingleCopy, or changes nothing     *)
(* that the workload can see.                                               *)
LEMMA ServiceStep ==
  ASSUME IInv, IInv', [Next]_vars
  PROVE  [Service!Next]_(Service!vars)
<1>1. /\ disk[vol.owner] = written /\ disk'[vol'.owner] = written'
      /\ pods \in [Consumers -> PodRecords] /\ written \in Nat
      /\ vol.owner \in {"src", "dst"} /\ vol'.owner \in {"src", "dst"}
  <2>1. OwnerHasEveryWrite /\ OwnerHasEveryWrite'
    BY DEF IInv, DataInv
  <2>2. vol \in Volumes /\ vol' \in Volumes
    BY DEF IInv, TypeOK
  <2>3. vol.owner \in Nodes /\ vol'.owner \in Nodes
    BY <2>2 DEF Volumes
  <2> QED  BY <2>1, <2>3 DEF OwnerHasEveryWrite, IInv, TypeOK, Nodes
<1>2. ASSUME MountsKept PROVE Mounted' = Mounted
  BY <1>2 DEF MountsKept, Mounted
<1>3. ASSUME MountsKept, written' = written, vol'.owner = vol.owner
      PROVE  [Service!Next]_(Service!vars)
  BY <1>1, <1>2, <1>3 DEF Service!vars
<1>4. ASSUME pods' = pods PROVE MountsKept
  BY <1>4 DEF MountsKept
<1>5. CASE Controller
  <2>1. MountsKept /\ written' = written
    BY <1>5, ControllerKeepsMounts
  <2>2. CASE vol'.owner # vol.owner
    <3>1. vol.owner = "src" /\ vol.published = {}
      BY <1>5, <2>2, ControllerStep DEF OwnerCommitted
    <3>2. \A c \in Consumers : pods[c].mount # "yes"
      BY <3>1 DEF IInv, PodInv, MountsAreFenced
    <3>3. \A c \in Consumers : Mounted[c] = "none"
      BY <3>2 DEF Mounted
    <3>4. vol'.owner \in Nodes \ {vol.owner}
      BY <1>1, <2>2 DEF Nodes
    <3>5. Service!Handoff
      BY <1>1, <1>2, <2>1, <3>3, <3>4 DEF Service!Handoff, Service!Unmounted
    <3> QED  BY <3>5 DEF Service!Next
  <2> QED  BY <1>3, <2>1, <2>2
<1>6. CASE \/ (\E j \in JobKind : Helper(j) \/ HelperFault(j)) \/ Executor \/ CleanupReview
           \/ Scanner \/ Scheduler \/ Preempt \/ UNCHANGED vars
  <2>1. pods' = pods /\ written' = written /\ vol' = vol
    BY <1>6
      DEF Helper, HelperFault, Executor, CleanupReview, Scanner, Scheduler, Preempt, vars
  <2> QED  BY <1>3, <1>4, <2>1
<1>7. ASSUME NEW c \in Consumers, Write(c) PROVE [Service!Next]_(Service!vars)
  <2>1. /\ pods[c].mount = "yes" /\ written' = written + 1 /\ pods' = pods /\ vol' = vol
    BY <1>7 DEF Write
  <2>2. Mounted' = Mounted /\ Mounted[c] = vol.owner
    BY <1>2, <1>4, <2>1 DEF Mounted, IInv, PodInv, MountsAreFenced
  <2>3. Service!Write(c)
    BY <1>1, <2>1, <2>2 DEF Service!Write, Service!Unmounted
  <2> QED  BY <2>3 DEF Service!Next
<1>8. CASE Workload
  <2>1. vol'.owner = vol.owner /\ written' = written
    <3>1. vol \in Volumes
      BY DEF IInv, TypeOK
    <3>2. vol' = vol \/ \E s : vol' = [vol EXCEPT !.published = s]
      BY <1>8, Zenon DEF Workload, MutatePod, ReleaseOwnerPlacement, BeginPublish, Mount,
                         Unmount, ReconcilePublished
    <3>3. vol'.owner = vol.owner
      BY <3>1, <3>2 DEF Volumes
    <3> QED  BY <1>8, <3>3 DEF Workload
  <2>2. CASE MutatePod \/ ReleaseOwnerPlacement
    <3>1. PICK x : /\ pods' = [pods EXCEPT !["new"] = x] /\ x.mount = "no"
                   /\ pods["new"].state \in {"none", "held"}
      <4>1. \A s, n : NewPod(s, n).mount = "no"
        BY DEF NewPod
      <4>2. PICK s, n : pods' = [pods EXCEPT !["new"] = NewPod(s, n)]
        BY <2>2 DEF MutatePod, ReleaseOwnerPlacement
      <4>3. pods["new"].state \in {"none", "held"}
        BY <2>2 DEF MutatePod, ReleaseOwnerPlacement
      <4> WITNESS NewPod(s, n)
      <4> QED  BY <4>1, <4>2, <4>3
    <3>2. "new" \in Consumers
      BY DEF Consumers
    <3>3. pods["new"].mount = "no"
      BY <3>1, <3>2 DEF IInv, PodInv
    <3>4. pods'["new"] = x /\ \A o \in Consumers \ {"new"} : pods'[o] = pods[o]
      BY <1>1, <3>1, <3>2
    <3>5. MountsKept
      BY <3>1, <3>3, <3>4 DEF MountsKept
    <3> QED  BY <1>3, <2>1, <3>5
  <2>3. ASSUME NEW c \in Consumers, BeginPublish(c) PROVE [Service!Next]_(Service!vars)
    <3>1. pods' = [pods EXCEPT ![c] = [pods[c] EXCEPT !.mount = "begun"]]
          /\ pods[c].mount = "no"
      BY <2>3, Zenon DEF BeginPublish
    <3>2. pods[c] \in PodRecords
      BY <1>1
    <3>3. pods'[c].mount = "begun" /\ \A o \in Consumers \ {c} : pods'[o] = pods[o]
      BY <1>1, <3>1, <3>2 DEF PodRecords
    <3>4. MountsKept
      BY <3>1, <3>3 DEF MountsKept
    <3> QED  BY <1>3, <2>1, <3>4
  <2>4. ASSUME NEW c \in Consumers, Mount(c) PROVE [Service!Next]_(Service!vars)
    <3>1. pods' = [pods EXCEPT ![c] = [pods[c] EXCEPT !.mount = "yes"]]
          /\ pods[c].mount = "begun"
      BY <2>4, Zenon DEF Mount
    <3>2. pods[c] \in PodRecords /\ pods[c].node = vol.owner
      BY <1>1, <3>1 DEF IInv, PodInv, MountsAreFenced
    <3>3. /\ pods'[c].mount = "yes" /\ pods'[c].node = vol.owner
          /\ \A o \in Consumers \ {c} : pods'[o] = pods[o]
      BY <1>1, <3>1, <3>2 DEF PodRecords
    <3>4. Mounted[c] = "none" /\ Mounted' = [Mounted EXCEPT ![c] = vol.owner]
      <4>1. Mounted[c] = "none"
        BY <3>1 DEF Mounted
      <4> QED  BY <3>3, <4>1, Zenon DEF Mounted
    <3>5. Service!Mount(c)
      BY <1>1, <2>1, <3>4 DEF Service!Mount, Service!Unmounted
    <3> QED  BY <3>5 DEF Service!Next
  <2>5. ASSUME NEW c \in Consumers, Unmount(c) PROVE [Service!Next]_(Service!vars)
    <3>1. pods' = [pods EXCEPT ![c] = [pods[c] EXCEPT !.mount = "unmounted"]]
      BY <2>5, Zenon DEF Unmount
    <3>2. pods[c] \in PodRecords
      BY <1>1
    <3>3. /\ pods'[c].mount = "unmounted"
          /\ \A o \in Consumers \ {c} : pods'[o] = pods[o]
      BY <1>1, <3>1, <3>2 DEF PodRecords
    <3>4. CASE pods[c].mount = "yes"
      <4>1. Mounted[c] = vol.owner /\ Mounted' = [Mounted EXCEPT ![c] = "none"]
        BY <3>3, <3>4, Zenon DEF Mounted, IInv, PodInv, MountsAreFenced
      <4>2. Service!Unmount(c)
        BY <1>1, <2>1, <4>1 DEF Service!Unmount, Service!Unmounted
      <4> QED  BY <4>2 DEF Service!Next
    <3>5. CASE pods[c].mount # "yes"
      <4>1. MountsKept
        BY <3>3, <3>5 DEF MountsKept
      <4> QED  BY <1>3, <2>1, <4>1
    <3> QED  BY <3>4, <3>5
  <2>6. ASSUME NEW c \in Consumers, ReconcilePublished(c)
        PROVE  [Service!Next]_(Service!vars)
    <3>1. pods' = [pods EXCEPT ![c] = NewPod("none", "none")] /\ pods[c].mount = "unmounted"
      BY <2>6 DEF ReconcilePublished
    <3>2. /\ pods'[c].mount = "no"
          /\ \A o \in Consumers \ {c} : pods'[o] = pods[o]
      BY <1>1, <3>1 DEF NewPod
    <3>3. MountsKept
      BY <3>1, <3>2 DEF MountsKept
    <3> QED  BY <1>3, <2>1, <3>3
  <2> QED  BY <1>8, <2>2, <2>3, <2>4, <2>5, <2>6 DEF Workload
<1>9. CASE Operator
  <2>1. vol' = vol /\ written' = written
    BY <1>9 DEF Operator
  <2>2. CASE pods' = pods
    BY <1>3, <1>4, <2>1, <2>2
  <2>3. CASE CloseWorkload
    <3>1. ASSUME NEW c \in Consumers
          PROVE  /\ (pods'[c].mount = "yes") = (pods[c].mount = "yes")
                 /\ pods'[c].mount = "yes" => pods'[c].node = pods[c].node
      <4>1. pods'[c] = CASE pods[c].state = "bound" -> [pods[c] EXCEPT !.state = "terminating"]
                         [] pods[c].state = "held" -> NewPod("none", "none")
                         [] OTHER -> pods[c]
        BY <2>3 DEF CloseWorkload
      <4>2. pods[c] \in PodRecords
        BY <1>1
      <4>3. CASE pods[c].state = "bound"
        <5>1. pods'[c] = [pods[c] EXCEPT !.state = "terminating"]
          BY <4>1, <4>3
        <5> QED  BY <4>2, <5>1, PodTypes
      <4>4. CASE pods[c].state = "held"
        <5>1. pods'[c] = NewPod("none", "none")
          BY <4>1, <4>4
        <5> QED  BY <4>4, <5>1 DEF NewPod, IInv, PodInv
      <4>5. CASE pods[c].state \notin {"bound", "held"}
        BY <4>1, <4>5
      <4> QED  BY <4>3, <4>4, <4>5
    <3> QED  BY <1>3, <2>1, <3>1 DEF MountsKept
  <2> QED
    BY <1>9, <2>2, <2>3 DEF Operator, Uncordon, RequestRecovery, DeleteMove, RetireClaim
<1>10. ASSUME NEW c \in Consumers, PublishInterrupted(c) \/ RollPod(c)
       PROVE  [Service!Next]_(Service!vars)
  <2>1. PICK f \in {"state", "mount"}, v \in {"terminating", "no"} :
          /\ pods' = [pods EXCEPT ![c] = [pods[c] EXCEPT ![f] = v]]
          /\ f = "mount" => pods[c].mount = "begun" /\ v = "no"
          /\ vol' = vol /\ written' = written
    BY <1>10, Zenon DEF PublishInterrupted, RollPod
  <2>2. pods[c] \in PodRecords
    BY <1>1
  <2>3. pods'[c] = [pods[c] EXCEPT ![f] = v] /\ \A o \in Consumers \ {c} : pods'[o] = pods[o]
    BY <1>1, <2>1
  <2>4. /\ (pods'[c].mount = "yes") = (pods[c].mount = "yes") /\ pods'[c].node = pods[c].node
    BY <2>1, <2>2, <2>3 DEF PodRecords
  <2>5. MountsKept
    BY <2>3, <2>4, Zenon DEF MountsKept
  <2> QED  BY <1>3, <2>1, <2>5
<1> QED
  BY <1>5, <1>6, <1>7, <1>8, <1>9, <1>10 DEF Next, Environment

(* To its workload the moving Volume is one directory on one node.          *)
THEOREM MobilityImplementsSingleCopy == Spec => ImplementsSingleCopy
<1>1. Init => Service!Init
  BY DEF Init, Service!Init, Service!Unmounted, Mounted, Volume, Nodes, Consumers
<1>2. IInv /\ IInv' /\ [Next]_vars => [Service!Next]_(Service!vars)
  BY ServiceStep
<1> QED  BY <1>1, <1>2, Inductive, PTL DEF Spec, ImplementsSingleCopy, Service!Spec

-----------------------------------------------------------------------------
(* Decisions others act on.                                                 *)

(* An effect writes the marks of its own step and none of these.            *)
LEMMA EffectKeepsDecisions ==
  ASSUME IInv, ctl.step = "act", Effect(ctl.d.action)
  PROVE  DecisionsKept
<1>1. ctl.d.action \in Effects /\ mv \in Moves /\ mv.required \in Nat
  BY DEF IInv, PassInv, TypeOK, Moves
<1>2. ASSUME mv' = mv PROVE DecisionsKept
  BY <1>1, <1>2 DEF DecisionsKept
<1>3. CASE ctl.d.action \in {"ClaimSource", "RestoreSource", "ReleaseSource",
                             "StartDisruption", "EnsurePlacement", "EnsureCopy"}
  <2>1. mv' = mv
    <3>1. ctl.d.action = "ClaimSource" => mv' = mv
      BY DEF Effect, SetVolume
    <3>2. ctl.d.action = "RestoreSource" => mv' = mv
      BY DEF Effect, SetVolume
    <3>3. ctl.d.action = "ReleaseSource" => mv' = mv
      BY DEF Effect, SetVolume
    <3>4. ctl.d.action = "StartDisruption" => mv' = mv
      BY DEF Effect, StartDisruption
    <3>5. ctl.d.action = "EnsurePlacement" => mv' = mv
      <4>1. ctl.d.action = "EnsurePlacement" => EnsurePlacement
        BY DEF Effect
      <4> QED  BY <4>1, Zenon DEF EnsurePlacement
    <3>6. ctl.d.action = "EnsureCopy" => mv' = mv
      BY DEF Effect, EnsureCopy
    <3> QED  BY <1>3, <3>1, <3>2, <3>3, <3>4, <3>5, <3>6
  <2> QED  BY <1>2, <2>1
<1>4. CASE ctl.d.action \in {"CommitOwner", "DeletePlacement", "ReleasePlacement",
                             "EnsureCleanup", "ConfirmCleanup", "MarkSucceeded"}
  <2>1. mv' = mv
    <3>1. ctl.d.action = "CommitOwner" => mv' = mv
      BY DEF Effect, CommitOwner
    <3>2. ctl.d.action = "DeletePlacement" => mv' = mv
      BY DEF Effect, DeletePlacement
    <3>3. ctl.d.action = "ReleasePlacement" => mv' = mv
      BY DEF Effect, ReleasePlacement
    <3>4. ctl.d.action = "EnsureCleanup" => mv' = mv
      BY DEF Effect, EnsureCleanup
    <3>5. ctl.d.action = "ConfirmCleanup" => mv' = mv
      BY DEF Effect, ConfirmCleanup
    <3>6. ctl.d.action = "MarkSucceeded" => mv' = mv
      BY DEF Effect, MarkSucceeded
    <3> QED  BY <1>4, <3>1, <3>2, <3>3, <3>4, <3>5, <3>6
  <2> QED  BY <1>2, <2>1
<1>5. CASE ctl.d.action \in {"MarkBlocked", "RequestSettlement", "QuiesceRecovery",
                             "VerifyRecovery", "ResumeRecovery", "CompleteRecovery"}
  <2>1. mv' = mv
    <3>1. ctl.d.action = "MarkBlocked" => mv' = mv
      BY DEF Effect, MarkBlocked
    <3>2. ctl.d.action = "RequestSettlement" => mv' = mv
      BY DEF Effect, RequestSettlement
    <3>3. ctl.d.action = "QuiesceRecovery" => mv' = mv
      BY DEF Effect, QuiesceRecovery
    <3>4. ctl.d.action = "VerifyRecovery" => mv' = mv
      BY DEF Effect, VerifyRecovery
    <3>5. ctl.d.action = "ResumeRecovery" => mv' = mv
      BY DEF Effect, ResumeRecovery
    <3>6. ctl.d.action = "CompleteRecovery" => mv' = mv
      BY DEF Effect, CompleteRecovery
    <3> QED  BY <1>5, <3>1, <3>2, <3>3, <3>4, <3>5, <3>6
  <2> QED  BY <1>2, <2>1
<1>6. CASE ctl.d.action = "ProtectMove"
  <2>1. ProtectMove
    BY <1>6 DEF Effect
  <2>2. mv' = mv \/ mv' = [mv EXCEPT !.protected = TRUE]
    BY <2>1 DEF ProtectMove
  <2> QED  BY <1>1, <1>2, <2>2 DEF DecisionsKept, Moves
<1>7. CASE ctl.d.action = "ReservePreparation"
  <2>1. ReservePreparation
    BY <1>7 DEF Effect
  <2>2. mv' = mv \/ mv' = [mv EXCEPT !.hold = TRUE]
    BY <2>1 DEF ReservePreparation
  <2> QED  BY <1>1, <1>2, <2>2 DEF DecisionsKept, Moves
<1>8. CASE ctl.d.action = "EnsureCapacity"
  <2>1. EnsureCapacity
    BY <1>8 DEF Effect
  <2>2. \/ mv' = mv
        \/ mv' = [mv EXCEPT !.hold = FALSE, !.approved = TRUE, !.intent = TRUE,
                            !.reason = "none"]
    BY <2>1 DEF EnsureCapacity
  <2>3. /\ SameDecision /\ mv'.required = mv.required
        /\ mv.intent => mv'.intent
    BY <1>1, <2>2, Zenon DEF SameDecision, Moves
  <2> QED  BY <1>1, <2>3 DEF DecisionsKept, SameDecision
<1>9. CASE ctl.d.action = "EnsurePromotion"
  <2>1. EnsurePromotion
    BY <1>9 DEF Effect
  <2>2. mv' = mv \/ mv' = [mv EXCEPT !.promote = TRUE]
    BY <2>1 DEF EnsurePromotion
  <2> QED  BY <1>1, <1>2, <2>2 DEF DecisionsKept, Moves
<1>10. CASE ctl.d.action = "FinalizeHistory"
  <2>1. FinalizeHistory
    BY <1>10 DEF Effect
  <2>2. \/ mv' = mv
        \/ \E e : mv' = [mv EXCEPT !.protected = FALSE, !.exists = e]
        \/ \E e : mv' = [mv EXCEPT !.exists = e]
    BY <2>1, Zenon DEF FinalizeHistory
  <2>3. /\ SameDecision /\ mv'.required = mv.required
        /\ mv.intent => mv'.intent
    BY <1>1, <2>2, Zenon DEF SameDecision, Moves
  <2> QED  BY <1>1, <2>3 DEF DecisionsKept, SameDecision
<1>11. CASE ctl.d.action = "RetireRecovery"
  <2>1. RetireRecovery
    BY <1>11 DEF Effect
  <2>2. \/ mv' = mv
        \/ mv' = [mv EXCEPT !.approved = FALSE, !.reason = "RecoverySettled"]
    BY <2>1 DEF RetireRecovery
  <2>3. /\ SameDecision /\ mv'.required = mv.required
        /\ mv.intent => mv'.intent
    BY <1>1, <2>2, Zenon DEF SameDecision, Moves
  <2> QED  BY <1>1, <2>3 DEF DecisionsKept, SameDecision
<1> QED  BY <1>1, <1>3, <1>4, <1>5, <1>6, <1>7, <1>8, <1>9, <1>10, <1>11
  DEF Effects

(* Every step keeps the decisions that are recorded.                        *)
LEMMA StepKeepsDecisions ==
  ASSUME IInv, [Next]_vars
  PROVE  DecisionsKept
<1>1. mv \in Moves /\ mv.required \in Nat /\ mv.plan \in BOOLEAN /\ mv.settle \in BOOLEAN
  BY DEF IInv, TypeOK, Moves
<1>2. ASSUME mv' = mv PROVE DecisionsKept
  BY <1>1, <1>2 DEF DecisionsKept
<1>3. CASE Act
  <2>1. CASE ctl.step = "act" /\ Effect(ctl.d.action)
    BY <2>1, EffectKeepsDecisions
  <2>2. CASE ctl.step = "act2" /\ SecondEffect(ctl.d.action)
    <3>1. ctl.d.action \in SecondEffects
      BY <2>2 DEF IInv, PassInv
    <3>2. CASE ctl.d.action = "RetireRecovery"
      <4>1. RecordRollbackScan
        BY <2>2, <3>2 DEF SecondEffect
      <4>2. mv.required = 0
        BY <2>2, <3>2 DEF IInv, PassInv, Grounds, At
      <4>3. mv' = mv \/ mv' = [mv EXCEPT !.required = pool.generation]
        BY <4>1 DEF RecordRollbackScan
      <4> QED  BY <1>1, <1>2, <4>2, <4>3 DEF DecisionsKept, Moves
    <3>3. CASE ctl.d.action \in {"StartDisruption", "EnsureCopy", "EnsurePromotion"}
      <4>1. mv' = mv
        BY <2>2, <3>3, Zenon DEF SecondEffect, EnsureJob, EvictConsumer
      <4> QED  BY <1>2, <4>1
    <3> QED  BY <3>1, <3>2, <3>3 DEF SecondEffects
  <2> QED  BY <1>3, <2>1, <2>2 DEF Act
<1>4. CASE CapacityRefused
  <2>1. mv' = mv \/ mv' = [mv EXCEPT !.reason = "Space"]
    BY <1>4 DEF CapacityRefused, ReservationRefused, SpaceRefused
  <2> QED  BY <1>1, <1>2, <2>1 DEF DecisionsKept, Moves
<1>5. CASE Persist
  <2>1. CASE mv' = mv
    BY <1>2, <2>1
  <2>2. CASE mv' # mv
    <3>1. Outlook(ctl.d)
      BY <1>5 DEF Persist, IInv, PassInv
    <3>2. /\ mv'.phase = ctl.d.phase /\ mv'.recovery = ctl.d.recovery
          /\ mv.plan => mv'.plan
          /\ mv.settle => mv'.settle
          /\ mv'.intent = mv.intent /\ mv'.required = mv.required
      BY <1>5, <2>2, PersistWrites, ZenonT(30)
    <3>3. /\ mv.phase \in {"Succeeded", "Cancelled"} => ctl.d.phase = mv.phase
          /\ mv.recovery = "Recovered" => ctl.d.recovery = "Recovered"
      BY <3>1, Zenon DEF Outlook
    <3> QED  BY <1>1, <3>2, <3>3 DEF DecisionsKept
  <2> QED  BY <2>1, <2>2
<1>6. CASE Operator
  <2>1. \/ mv' = mv
        \/ mv' = [mv EXCEPT !.requested = TRUE]
        \/ mv' = [mv EXCEPT !.deleting = TRUE, !.exists = mv.protected]
    BY <1>6 DEF Operator, Uncordon, RequestRecovery, DeleteMove, CloseWorkload, RetireClaim
  <2>2. SameDecision /\ mv'.required = mv.required /\ mv'.intent = mv.intent
    BY <1>1, <2>1, Zenon DEF SameDecision, Moves
  <2> QED  BY <1>1, <2>2 DEF DecisionsKept, SameDecision
<1>7. CASE Look \/ Crash
  BY <1>2, <1>7 DEF Look, Crash
<1>8. CASE \/ (\E j \in JobKind : Helper(j)) \/ Executor \/ Scanner \/ Workload
           \/ (\E c \in Consumers : Write(c)) \/ Scheduler \/ Environment \/ UNCHANGED vars
  <2>1. mv' = mv
    BY <1>8, Zenon
      DEF Helper, Executor, Scanner, Workload, Write, Scheduler, Environment, Preempt,
                CleanupReview, HelperFault, PublishInterrupted, RollPod, vars
  <2> QED  BY <1>2, <2>1
<1> QED
  BY <1>3, <1>4, <1>5, <1>6, <1>7, <1>8 DEF Next, Controller

(* Neither a crash, a lost reply nor an action of another actor makes the   *)
(* Move forget its plan, its settlement request, its scan fence or its end. *)
THEOREM DecisionsDurable == Spec => DecisionsAreDurable
<1>1. IInv /\ [Next]_vars => [mv.exists /\ mv'.exists =>
        /\ mv.plan => mv'.plan
        /\ mv.intent => mv'.intent
        /\ mv.settle => mv'.settle
        /\ mv.required > 0 => mv'.required >= mv.required
        /\ mv.phase \in {"Succeeded", "Cancelled"} => mv'.phase = mv.phase
        /\ mv.recovery = "Recovered" => mv'.recovery = "Recovered"]_vars
  BY StepKeepsDecisions DEF DecisionsKept
<1> QED  BY <1>1, Inductive, PTL DEF Spec, DecisionsAreDurable
=============================================================================
